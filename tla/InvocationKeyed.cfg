SPECIFICATION Spec
CONSTANTS
    r1 = r1
    r2 = r2
    r3 = r3
    Calls = {r1, r2, r3}
    Tenants <- MCTenants
    CapabilityIDs <- MCCapabilityIDs
    Keys <- MCKeys
    MessageIDs <- MCMessageIDs
    Payloads = {"p1", "p2"}
    Scopes = {"scope"}
    Schemas = {"in", "out1", "out2"}
    Requests <- KeyedRequests
    Descriptors <- MCDescriptors
    BootstrapCapabilities <- MCBootstrap
    QuotaRequests <- OneQuota
    CancelRequests <- NoCancels
    MaxRejectedCancels = 0
    AuditLogConfigured = FALSE
    AuditWriteMayFail = FALSE
SYMMETRY Symmetry
INVARIANTS
    TypeOK
    DuplicatesOverlap
    ReplayIsFaithful
    QuotaSlack
    UsageMatchesAudit
