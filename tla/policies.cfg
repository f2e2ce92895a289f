\* Three policies, two of them with one id, activated while payments come in.
SPECIFICATION PolicySpec
CONSTANTS
    Device <- MCDevice
    Executive <- MCExecutive
    Object <- MCObject
    Event <- MCEvent
    BootDevices <- MCBootDevices
    BootExecutives <- MCBootExecutives
    Caller = {c1}
    Requests <- MCRequests
    MaxBatch = 2
    PolicyOutcomes <- MCPolicyOutcomes
    deviceOrder <- MCDeviceOrder
    Policy <- MCPolicy
    document <- MCDocument
    policyObject <- MCPolicyObject
    detail <- MCDetail
    roleOf <- MCRoleOf
    riskOf <- MCRiskOf
INVARIANTS
    PoliciesAreActivated
    EffectsWithinPolicy
    AuditReproducesDecisions
PROPERTIES
    ImplementsAppender
