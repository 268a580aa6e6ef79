SPECIFICATION SectorsSpec
CONSTANTS
    Company = {"A"}
    Field = {"name", "score"}
    Said = {"", "n"}
    Blank = ""
    Unreadable = "?"
    Importer = {i1}
    Sources = {}
    Files = {}
    NoRow = NoRow
    MaxCommits = 1
INVARIANT NeverUnderTyping
CHECK_DEADLOCK FALSE
