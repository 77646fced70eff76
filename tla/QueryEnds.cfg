CONSTANTS
    r1 = r1
    r2 = r2
    r3 = r3
    sa = sa
    sb = sb
    None = None
    Requests = {r1, r3}
    Sources = {sa, sb}
    SourceOf <- TwoSources
    MaxConcurrent <- One
    MaxPool <- One
    MaxInterrupts = 1
SPECIFICATION ShutdownSpec
INVARIANTS
    PoolsStayClosed
PROPERTIES
    QueryEnds
    ShutdownEnds
