\* ana enrols a device and executes a ceremony for herself, after another one.
SPECIFICATION ServerSpec
CONSTANTS
    Device <- MCDevice
    Executive <- MCExecutive
    Object <- MCObject
    Event <- WriterEvents
    BootDevices <- MCBootDevices
    BootExecutives <- MCBootExecutives
    Caller = {c1}
    Requests <- WriterRequests
    MaxBatch = 1
    PolicyOutcomes <- WriterPolicy
    deviceOrder <- MCDeviceOrder
    Token = {"t"}
    Challenge = {"h"}
    deviceObject <- MCDeviceObject
    MaxRevocations = 0
    MaxUnaudited = 0
    Ceremony = {A, B}
    Custodian = {"rec"}
    RequiredApprovals = 1
    BootPackage = {"p"}
    packageOwner <- MCPackageOwner
    ceremonyObject <- MCCeremonyObject
    keyObject <- MCKeyObject
INVARIANT
    SignaturesStayVerifiable
