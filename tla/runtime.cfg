\* Two processes on one data directory; one client against a bucket of two.
SPECIFICATION LiveRuntimeSpec
CONSTANTS
    Key = {k1}
    Capacity = 2
    RefillPerSecond = 1
    Second = 2
    LastInstant = 3
    MaxElapsed = 3
    Process = {p1, p2}
    Signal = {SIGTERM, SIGINT}
    MaxOpen = 2
INVARIANTS
    ExclusiveOwner
    LockAccountedFor
    AdmissionBounded
PROPERTIES
    RetryAfterSuffices
    ShutdownAwaitsOnlyRequests
