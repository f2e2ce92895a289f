\* The events of one device, relayed through another one too.
SPECIFICATION Spec
CONSTANTS
    Device <- MCDevice
    Executive <- MCExecutive
    Object = {"acct", "memo"}
    Event <- RelayedEvents
    BootDevices <- MCBootDevices
    BootExecutives <- MCBootExecutives
    Caller = {c1}
    Requests <- RelayedRequests
    MaxBatch = 1
    PolicyOutcomes <- RelayedPolicy
    deviceOrder <- MCDeviceOrder
INVARIANTS
    AcceptedCountersIncrease
