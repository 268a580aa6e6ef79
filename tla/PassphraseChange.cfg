SPECIFICATION MCSpec
CONSTANTS
    Timer = {timer}
    Card = {c1}
    Shown = c1
    Phrase = {p1, p2}
    Watched = {p1, p2}
    OwnKey = {own}
    Theirs = theirs
    None = None
    MaxCalls = 2
    MaxVisits = 2
    MaxCodes = 2
    MaxGestures = 3
INVARIANT
    ChangeHolds
CHECK_DEADLOCK FALSE
