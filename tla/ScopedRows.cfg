CONSTANTS
    None = None
    Raised = Raised
    NameSeed <- MCNameSeed
    Snapshots <- MCSnapshots
    Boards <- MCTableBoards
    Malformed = Malformed
    NoPanel = NoPanel
    NoKey = NoKey
    Limit = 30
SPECIFICATION BoardSpec
CHECK_DEADLOCK FALSE
INVARIANTS
    RowsInScope
