CONSTANTS
    r1 = r1
    r2 = r2
    r3 = r3
    sa = sa
    sb = sb
    None = None
    Requests = {r1, r2}
    Sources = {sa}
    SourceOf <- OneSource
    MaxConcurrent <- One
    MaxPool <- One
    MaxInterrupts = 1
SPECIFICATION Spec
INVARIANTS
    RollbackBeforePoolsClose
