\* Progress, when every peer keeps reading: callbacks call back into the
\* server, peers may fall silent or leave at any moment.
SPECIFICATION FairSpec
CONSTANTS
    Conn = {c1, c2}
    Caller = {}
    Owner = owner
    None = none
    PeerStalls = FALSE
    OwnerQuiesces = TRUE
    CallsPerCallback = 1
PROPERTIES
    StopReturnsUnlessMissed
CHECK_DEADLOCK FALSE
