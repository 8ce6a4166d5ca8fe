\* One browser with one stream; the group may be switched off and on.
SPECIFICATION FairSpec
CONSTANTS
    chrome = chrome
    Exe = {chrome}
    Browser = {chrome}
    Excludes <- MaybeExcluded
    Conn = {c1}
    Sid = {1}
INVARIANTS
    RegisteredOnce
PROPERTIES
    SwitchOffReturns
    ExcludedNotCaptured
    AppsCaptured
CHECK_DEADLOCK FALSE
