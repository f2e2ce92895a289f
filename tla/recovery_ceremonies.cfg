\* Two ceremonies, for the same executive or different ones.
SPECIFICATION Spec
CONSTANTS
    Device <- MCDevice
    Executive <- MCExecutive
    Object <- MCObject
    Event <- RecoveryEvents
    BootDevices <- MCBootDevices
    BootExecutives <- MCBootExecutives
    Ceremony <- MCCeremony
    Custodian <- MCExecutive
    RequiredApprovals = 2
    BootPackage <- MCBootPackage
    packageOwner <- MCPackageOwner
    ceremonyObject <- MCCeremonyObject
    keyObject <- MCKeyObject
INVARIANTS
    TypeOK
    AuthorityWindows
    RotationsAreRecorded
    PackagesFollowKeys
    SignaturesStayVerifiable
CHECK_DEADLOCK FALSE
