SPECIFICATION MCSpec
CONSTANTS
    Trades <- TwoTrades
    MaxFlaws = 1
    Root = {1, 2, 3}
    Stocks = 2
    Days = 1
    MaxTrades = 3
    MaxHeld = 1
    MaxFiles = 1
    Owner = {"a1"}
    Columns <- ThreeColumns
    Lines <- TwoTables
    Criteria <- SomeCriteria
    Searches <- SomeSearches
    MaxSort = 1
    Box = {"b1", "b2"}
    Portfolio <- FourPortfolios
    Typed <- SomeTyped
    PageSearches <- SomeSearches
    MaxButtons = 2
    PageDays = {1}
    Months = {0}
    MaxTotal = 1
    Visible = 2
    LabelGap = 2
    Currencies = {"USD", "EUR"}
    Opening <- TwoOpenings
    RowKinds <- CashRows
    LastDay = 1
    MaxRows = 1
    Company = {"A"}
    Field = {"name", "score"}
    Said = {"", "n"}
    Blank = ""
    Unreadable = "?"
    Importer = {i1}
    Sources <- TwoSources
    Files <- ThreeFiles
    NoRow = NoRow
    MaxCommits = 1
    Scope = {o1, o2}
    Part = {"account", "snapshot"}
    Nowhere = Nowhere
    Loading = Loading
    Nil = Nil
    MaxEdition = 1
    MaxHappenings = 4
    Batches = 2
    MaxRefreshes = 2
    Event <- MCEvent
    Executed <- MCExecuted
    FileWhen <- MCFileWhen
    AgentWhen <- MCAgentWhen
    KnownFrom <- MCKnownFrom
    Kind <- MCKind
    SundayIs <- MCSundayIs
    FlexFile <- MCFlexFile
    StatementFile <- MCStatementFile
    Lookback = 3
    MaxDay = 6
INVARIANT HistoryIsSpared
CHECK_DEADLOCK FALSE
