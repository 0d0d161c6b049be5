SPECIFICATION Spec
CONSTANTS
    c1 = c1
    c2 = c2
    Conns = {c1, c2}
    TenantNames <- MCTenantNames
    AuthMode = "jwt"
    RequireTenant = FALSE
    MessageIDs <- MCMessageIDs
    OpenRequests <- MCOpenRequests
    Frames <- MCFrames
    UnaryRequests <- MCUnaryRequests
    MaxFrames = 2
CHECK_DEADLOCK FALSE
SYMMETRY Symmetry
INVARIANTS
    TypeOK
    SpeaksForPrincipal
    ViewerConsistent
    FramesAnswered
    ServiceOutlivesGRPC
