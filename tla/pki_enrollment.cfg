\* Two tokens, three challenges; expiry, revocation and crashes at any time.
SPECIFICATION Spec
CONSTANTS
    Device <- MCDevice
    Executive <- MCExecutive
    Object <- MCObject
    Event <- EnrolmentEvents
    BootDevices <- MCBootDevices
    BootExecutives <- MCBootExecutives
    Token = {t1, t2}
    Challenge = {h1, h2}
    deviceObject <- MCDeviceObject
    MaxRevocations = 3
    MaxUnaudited = 1
SYMMETRY Interchangeable
INVARIANTS
    TypeOK
    DevicesHaveEvidence
    RevocationListsAreComplete
    CaKnowsRevoked
    AuditMatchesTables
PROPERTIES
    RevokedForGood
CHECK_DEADLOCK FALSE
