SPECIFICATION ProxySpec
CONSTANTS
    s1 = s1
    s2 = s2
    Clients = {c1, c2}
    Upstream <- OneServer
    Reachable <- AllUp
    Workers = {w1, w2}
    QueSize = 2
    MaxSegments = 1
    MaxCloses = 3
    SegmentKinds = {"good"}
    Labels = {}
    FirstFd = 5
    ListenFd = 4
    Listener = Listener
    NoClient = NoClient
    Phantom = Phantom
    AcceptMayFail = TRUE
    MaxCuts = 0
    Nobody = Nobody
SYMMETRY Symmetry
INVARIANTS
    ProxyTypeOK
    TablesNameLiveConns
    ClientTablesAgree
    NoStrandedInput
    LookupValidUntilClosed
CHECK_DEADLOCK FALSE
