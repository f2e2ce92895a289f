\* An enrolment writes the head of a flagged object.
SPECIFICATION ServerSpec
CONSTANTS
    Device <- MCDevice
    Executive <- MCExecutive
    Object <- MCObject
    Event <- ConflictEvents
    BootDevices <- MCBootDevices
    BootExecutives <- MCBootExecutives
    Caller = {c1}
    Requests <- ConflictRequests
    MaxBatch = 1
    PolicyOutcomes <- ConflictPolicy
    deviceOrder <- MCDeviceOrder
    Token = {"t"}
    Challenge = {"h"}
    deviceObject <- MCDeviceObject
    MaxRevocations = 0
    MaxUnaudited = 0
    Ceremony = {A}
    Custodian <- MCExecutive
    RequiredApprovals = 2
    BootPackage = {"p"}
    packageOwner <- MCPackageOwner
    ceremonyObject <- MCCeremonyObject
    keyObject <- MCKeyObject
PROPERTY
    OnlyResolutionsUnflag
