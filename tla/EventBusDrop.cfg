SPECIFICATION Spec
CONSTANTS
    s1 = s1
    s2 = s2
    Handlers = {s1}
    Topics <- OneTopic
    Tenants <- MCTenants
    PublishRequests <- OneTopicRequests
    SubscribeRequests <- PlainSubscribe
    ChanCap = 2
    MaxEvents = 4
    MaxRejected = 0
    NATSConfigured = FALSE
CHECK_DEADLOCK FALSE
INVARIANT AtLeastOnce
