SPECIFICATION Spec
CONSTANTS
    WireRange = 16
    IntRange = 256
    NanosPerMilli = 8
    DefaultDeadline = 10
    DefaultInterval = 5
    TenantNames <- MCTenants
    AuthMode = "jwt"
    RequireTenant = FALSE
    Requests <- MCRequests
    CapabilityIDs <- MCCapabilityIDs
    BootstrapCapabilities <- MCBootstrap
    BootstrapSchemas <- MCBootstrapSchemas
    MaxRequests = 3
    MaxInFlight = 2
    MaxRestarts = 1
    AuditLogConfigured = TRUE
    AuditWriteMayFail = TRUE
    Manifests <- MCManifests
    AdapterCreds <- MCAdapterCreds
    RPCs <- MCRPCs
    MaxRPCs = 1
INVARIANTS
    TypeOK
    ReferentialIntegrity
    LearnedResolves
    AuditFileIsHistory
    AnswerTellsExecution
    BindingsAgree
    DeadlineKept
    ToolCallsTold
CHECK_DEADLOCK FALSE
