\* All writers at once: one call, one enrolment, two ceremonies, revocations.
SPECIFICATION ServerSpec
CONSTANTS
    Device <- MCDevice
    Executive <- MCExecutive
    Object <- MCObject
    Event <- WriterEvents
    BootDevices <- MCBootDevices
    BootExecutives <- MCBootExecutives
    Caller = {c1}
    Requests <- WriterRequests
    MaxBatch = 1
    PolicyOutcomes <- WriterPolicy
    deviceOrder <- MCDeviceOrder
    Token = {"t"}
    Challenge = {"h"}
    deviceObject <- MCDeviceObject
    MaxRevocations = 1
    MaxUnaudited = 0
    Ceremony = {A, B}
    Custodian = {"rec"}
    RequiredApprovals = 1
    BootPackage = {"p"}
    packageOwner <- MCPackageOwner
    ceremonyObject <- MCCeremonyObject
    keyObject <- MCKeyObject
SYMMETRY CeremoniesAlike
CONSTRAINT ForgedIsLast
INVARIANTS
    RowsUnique
    EffectsAreVerified
    ChainIntact
    HeadsAreLatest
    OnlySelfRecoveryOutdates
PROPERTIES
    RevokedForGood
    WritersImplementLedger
