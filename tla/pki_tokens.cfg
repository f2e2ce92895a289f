\* Two challenges are issued for one token.
SPECIFICATION Spec
CONSTANTS
    Device <- MCDevice
    Executive <- MCExecutive
    Object <- MCObject
    Event <- EnrolmentEvents
    BootDevices <- MCBootDevices
    BootExecutives <- MCBootExecutives
    Token = {t1, t2}
    Challenge = {h1, h2}
    deviceObject <- MCDeviceObject
    MaxRevocations = 3
    MaxUnaudited = 0
SYMMETRY Interchangeable
INVARIANTS
    TokensAreOneTime
CHECK_DEADLOCK FALSE
