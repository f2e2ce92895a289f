\* The read models and the snapshots of a ledger that grows.
SPECIFICATION ReportingSpec
CONSTANTS
    Device <- MCDevice
    Executive <- MCExecutive
    Object <- MCObject
    Event <- MCEvent
    BootDevices <- MCBootDevices
    BootExecutives <- MCBootExecutives
    Caller = {c1}
    Requests <- MCRequests
    MaxBatch = 1
    PolicyOutcomes <- MCPolicyOutcomes
    deviceOrder <- MCDeviceOrder
    Account <- MCAccount
    Group <- MCGroup
    Opening <- MCOpening
    Closing <- MCClosing
    accountOf <- MCAccountOf
    groupOf <- MCGroupOf
    objectId <- MCObjectId
    AccountObject = {"A"}
    Limits = {1, 2}
    RebuildLimit = 2
    MaxSnapshots = 1
INVARIANTS
    ReportingTypeOK
    AccountsAreFold
    CaughtUpShowsConflicts
    SnapshotsBootstrap
