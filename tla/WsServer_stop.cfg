SPECIFICATION FairSpec
CONSTANTS
    Conn = {c1}
    Caller = {}
    Owner = owner
    None = none
    PeerStalls = FALSE
    OwnerQuiesces = TRUE
    CallsPerCallback = 1
PROPERTIES
    StopReturns
CHECK_DEADLOCK FALSE
