CONSTANTS
    s1 = s1
    s2 = s2
    None = None
    Sources = {s1, s2}
    Grace = 1
    Parts = 2
    MaxTime = 5
    MaxSignals = 2
SPECIFICATION FairSpec
CHECK_DEADLOCK FALSE
INVARIANTS
    DrainsClosedGates
    EveryStepIsTried
    ReadyMeansUsable
PROPERTIES
    DeadlineStands
    DrainGetsTheRest
    ShutdownCompletes
