SPECIFICATION FairSpec
CONSTANTS
    c1 = c1
    c2 = c2
    Conns = {c1, c2}
    TenantNames <- MCTenantNames
    AuthMode = "jwt"
    RequireTenant = FALSE
    MessageIDs <- MCMessageIDs
    OpenRequests <- LiveOpenRequests
    Frames <- LiveFrames
    UnaryRequests <- LiveUnaryRequests
    MaxFrames = 1
CHECK_DEADLOCK FALSE
PROPERTIES
    SessionsEnd
    ShutdownEnds
