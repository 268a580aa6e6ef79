SPECIFICATION Spec
CONSTANTS
    Account = {"mine", "other"}
    Job <- MCJob
    AccountOf <- MCAccountOf
    NoJob = NoJob
    Mine = "mine"
    Statement = {"s1", "s2"}
    Flex = "flex"
    Agent = "agent"
    Picks <- MCPicks
    Unread = Unread
    MaxLine = 3
INVARIANTS
    LedgerMatchesFiles
PROPERTIES
    FirstComeFirstServed
    EveryJobEnds
CHECK_DEADLOCK FALSE
