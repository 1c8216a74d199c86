SPECIFICATION ProxyFairSpec
CONSTANTS
    s1 = s1
    s2 = s2
    Clients = {c1, c2}
    Upstream <- OneServer
    Reachable <- AllUp
    Workers = {w1}
    QueSize = 2
    MaxSegments = 1
    MaxCloses = 1
    SegmentKinds = {"good", "bad"}
    Labels = {}
    FirstFd = 5
    ListenFd = 4
    Listener = Listener
    NoClient = NoClient
    Phantom = Phantom
    AcceptMayFail = TRUE
    MaxCuts = 1
    Nobody = Nobody
PROPERTIES
    RequestForwarded
    ClosedPeerReleased
CHECK_DEADLOCK FALSE
