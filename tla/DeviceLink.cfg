\* The One and a HID family with a watchdog; two setters.
SPECIFICATION FairSpec
CONSTANTS
    m1 = m1
    m2 = m2
    Model = {m1, m2}
    Transport <- OneAndRokid
    Editor = {e1, e2}
    Address = {a1, a2}
    Default = a1
    Patience = 1
    MaxEpoch = 1
    None = None
INVARIANTS
    PoseTellsTruth
    AddressIsCurrent
PROPERTIES
    LossNoticed
    UnloadReturns
CHECK_DEADLOCK FALSE
