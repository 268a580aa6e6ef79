SPECIFICATION MCSpec
CONSTANTS
    PerContract = 2
    Scene <- MCScene
    Instants <- MCInstants
    Gaps <- MCGaps
    Active <- MCActive
    MaxInstants = 4
    Lookahead = 2
    BuybackWindow = 1
    LeapsMin = 20
    DayLength = 2
    Boundary = 4
    MonthLength = 4
    Quote = {20, 40}
    ReadAt = {2, 4, 8}
    PwaTab = {u1, u2}
    MaxVersion = 2
    MaxLoads = 3
    MaxCuts = 1
INVARIANTS
    PositionKept
    MoneyKept
    OldestFirst
    OngoingWhileHeld
    CoverNeverUsedTwice
    PagesShowTheAccount
    EveryTradeIsFiled
PROPERTIES
    CallsAreBacked
    PastIsSettled
    NobodyIsLeftBehind
CHECK_DEADLOCK FALSE
