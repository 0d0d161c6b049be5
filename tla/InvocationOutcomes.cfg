SPECIFICATION FairSpec
CONSTANTS
    r1 = r1
    r2 = r2
    r3 = r3
    Calls = {r1, r2}
    Tenants <- MCTenants
    CapabilityIDs <- MCCapabilityIDs
    Keys <- MCKeys
    MessageIDs <- MCMessageIDs
    Payloads = {"p1", "p2"}
    Scopes = {"scope"}
    Schemas = {"in", "out1", "out2"}
    Requests <- MixedRequests
    Descriptors <- MCDescriptors
    BootstrapCapabilities <- MCBootstrap
    QuotaRequests <- OneQuota
    CancelRequests <- MCCancels
    MaxRejectedCancels = 1
    AuditLogConfigured = TRUE
    AuditWriteMayFail = TRUE
INVARIANTS
    OutcomesBooked
    SinkMirrorsAudit
PROPERTY
    MeteringRefines
    CallsReturn
