SPECIFICATION MCSpec
CONSTANTS
    Trades <- TwoTrades
    MaxFlaws = 2
    Root = {1, 2, 3, 4}
    Stocks = 3
    Days = 5
    MaxTrades = 2
    MaxHeld = 1
    MaxFiles = 2
    Owner = {"a1", "a2"}
    Columns <- ThreeColumns
    Lines <- TwoTables
    Criteria <- SomeCriteria
    Searches <- SomeSearches
    MaxSort = 1
    Box = {"b1", "b2"}
    Portfolio <- FourPortfolios
    Typed <- SomeTyped
    PageSearches <- SomeSearches
    MaxButtons = 2
    PageDays = {1, 2, 3}
    Months = {0, 1, 11, 13, 24, 26}
    MaxTotal = 5
    Visible = 2
    LabelGap = 2
    Currencies = {"USD", "EUR"}
    Opening <- TwoOpenings
    RowKinds <- CashRows
    LastDay = 2
    MaxRows = 3
    Company = {"A"}
    Field = {"name", "score"}
    Said = {"", "n"}
    Blank = ""
    Unreadable = "?"
    Importer = {i1, i2}
    Sources <- TwoSources
    Files <- ThreeFiles
    NoRow = NoRow
    MaxCommits = 1
    Scope = {o1, o2}
    Part = {"account", "snapshot"}
    Nowhere = Nowhere
    Loading = Loading
    Nil = Nil
    MaxEdition = 1
    MaxHappenings = 4
    Batches = 2
    MaxRefreshes = 2
    Event <- MCEvent
    Executed <- MCExecuted
    FileWhen <- MCFileWhen
    AgentWhen <- MCAgentWhen
    KnownFrom <- MCKnownFrom
    Kind <- MCKind
    SundayIs <- MCSundayIs
    FlexFile <- MCFlexFile
    StatementFile <- MCStatementFile
    Lookback = 3
    MaxDay = 6
INVARIANTS
    WholeOrAnnounced
    SourcesAgree
    PositionsFollowTheNames
    TableTellsItsOwn
    PageTellsWhatItHides
    ShellServesItsAccount
    KeysWalkTheCalendar
    CashIsAccountedFor
    TypedStands
    CountedOnce
    KeptFilesAreInTheLedger
    KeptFilesAreReflected
    RebuildIsTheLoop
PROPERTY
    ImportLosesNothing
CHECK_DEADLOCK FALSE
