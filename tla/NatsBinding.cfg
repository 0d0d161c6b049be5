SPECIFICATION NatsSpec
CONSTANTS
    Handlers = {}
    Topics <- MCTopics
    Tenants <- MCTenants
    PublishRequests <- MCPublishRequests
    SubscribeRequests = {}
    ChanCap = 1
    MaxEvents = 5
    MaxRejected = 0
    NATSConfigured = TRUE
    SubjectTokens <- MCSubjectTokens
CHECK_DEADLOCK FALSE
INVARIANT OneEventPerPublication
