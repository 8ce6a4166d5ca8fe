\* One tab and two ports; a socket for each of two ensureWs calls under way.
SPECIFICATION FairSpec
CONSTANTS
    Tab = {t1}
    Socket = {s1, s2}
    MaxSid = 2
PROPERTIES
    HeardFromOnePlace
    TabsReachTheWall
    StreamsEnd
CHECK_DEADLOCK FALSE
