CONSTANTS
    old = old
    new = new
    None = None
    Revisions = {old, new}
    MaxCancels = 2
SPECIFICATION FairSpec
CHECK_DEADLOCK FALSE
INVARIANTS
    NothingOutlivesTheRequest
    CancelsHaveCauses
    
PROPERTIES
    DisconnectEnds
