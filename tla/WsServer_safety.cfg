\* One server run with two connections and one outside caller; peers may
\* stop reading; the owner ends the caller before stop().
SPECIFICATION Spec
CONSTANTS
    Conn = {c1, c2}
    Caller = {uia}
    Owner = owner
    None = none
    PeerStalls = TRUE
    OwnerQuiesces = TRUE
    CallsPerCallback = 1
SYMMETRY ConnSymmetry
INVARIANTS
    StopLeavesNothing
    NoSendOnClosedSocket
    NoUseAfterDelete
PROPERTIES
    ImplementsContract
CHECK_DEADLOCK FALSE
