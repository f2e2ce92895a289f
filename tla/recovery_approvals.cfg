\* A custodian is recovered between the approval and the execution of a ceremony.
SPECIFICATION Spec
CONSTANTS
    Device <- MCDevice
    Executive <- MCExecutive
    Object <- MCObject
    Event <- RecoveryEvents
    BootDevices <- MCBootDevices
    BootExecutives <- MCBootExecutives
    Ceremony <- MCCeremony
    Custodian <- MCExecutive
    RequiredApprovals = 2
    BootPackage <- MCBootPackage
    packageOwner <- MCPackageOwner
    ceremonyObject <- MCCeremonyObject
    keyObject <- MCKeyObject
PROPERTIES
    ExecutionVerifiesApprovals
CHECK_DEADLOCK FALSE
