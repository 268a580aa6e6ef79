SPECIFICATION MCSpec
CONSTANTS
    Timer = {timer}
    Card = {c1, c2}
    Shown = c1
    Phrase = {p1}
    Watched = {}
    OwnKey = {own}
    Theirs = theirs
    None = None
    MaxCalls = 2
    MaxVisits = 2
    MaxCodes = 2
    MaxGestures = 3
INVARIANTS
    OwnBlobOpens
    ArmedByConsentOnly
    AccountIsTold
PROPERTY
    WriteIsDeposited
CHECK_DEADLOCK FALSE
