CONSTANTS
    Functions = {f, g}
    Operators = {o, p}
    MaxNodes = 4
    Estimates = {0, 2, 3}
    CostLimit = 2
    RowLimit = 2
    NodeLimit = 3
    Batch = 2
    RowLimits = {1, 2, 3, 4}
    ByteLimits = {8, 11, 30}
    RowSizes = {2, 5}
    MaxTable = 6
    Unencodable = Unencodable
SPECIFICATION Spec
CHECK_DEADLOCK FALSE
INVARIANTS
    UserSqlIsGated
    DeliversWhatFits
    FetchIsBounded
    FailsForItsRows
