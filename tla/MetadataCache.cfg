CONSTANTS
    q1 = q1
    q2 = q2
    v1 = v1
    v2 = v2
    other = other
    bad = bad
    None = None
    Readers = {q1, q2}
    Snapshots = {v1, v2, other, bad}
    Structure <- Shape
    Valid <- Passing
    Ttl = 1
    MaxStale = 2
    Retry = 1
    MaxTime = 4
SPECIFICATION FairSpec
INVARIANTS
    ServedInTime
    RevokedStaysOut
    OneStructure
    LoadsWhenDue
    HealthTruthful
PROPERTIES
    Answered
