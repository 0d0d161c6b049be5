SPECIFICATION FairSpec
CONSTANTS
    s1 = s1
    s2 = s2
    Handlers = {s1, s2}
    Topics <- MCTopics
    Tenants <- MCTenants
    PublishRequests <- MCPublishRequests
    SubscribeRequests <- MCSubscribeRequests
    ChanCap = 1
    MaxEvents = 3
    MaxRejected = 1
    NATSConfigured = TRUE
CHECK_DEADLOCK FALSE
INVARIANTS
    TypeOK
    SendsOnlyToOpen
    DeliveryInOrder
    EventsAccounted
PROPERTIES
    FeedRefines
    StreamDrains
