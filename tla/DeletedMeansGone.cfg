SPECIFICATION Spec
CONSTANTS
    Account = {"mine", "other"}
    Job <- MCJob
    AccountOf <- MCAccountOf
    NoJob = NoJob
    Mine = "mine"
    Statement = {"s1", "s2"}
    Flex = "flex"
    Agent = "agent"
    Picks <- MCPicks
    Unread = Unread
    MaxLine = 3
INVARIANTS
    DeletedMeansGone
CHECK_DEADLOCK FALSE
