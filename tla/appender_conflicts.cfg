\* Conflicts between two executives on one object; two calls at a time.
SPECIFICATION LiveSpec
CONSTANTS
    Device <- MCDevice
    Executive <- MCExecutive
    Object = {"acct"}
    Event <- ConflictEvents
    BootDevices <- MCBootDevices
    BootExecutives <- MCBootExecutives
    Caller = {c1, c2}
    Requests <- ConflictRequests
    MaxBatch = 2
    PolicyOutcomes <- ConflictPolicy
    deviceOrder <- MCDeviceOrder
INVARIANTS
    TypeOK
    ConflictFlagged
    ConflictsAccountedFor
    NoLostUpdate
    AcksPinLedger
PROPERTIES
    ConflictFreezesHead
    ImplementsRegister
    CallsSettle
