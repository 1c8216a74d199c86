SPECIFICATION ProxySpec
CONSTANTS
    s1 = s1
    s2 = s2
    Clients = {c1}
    Upstream <- TwoServers
    Reachable <- MayBeDown
    Workers = {w1}
    QueSize = 2
    MaxSegments = 1
    MaxCloses = 0
    SegmentKinds = {"good"}
    Labels = {}
    FirstFd = 5
    ListenFd = 4
    Listener = Listener
    NoClient = NoClient
    Phantom = Phantom
    AcceptMayFail = FALSE
    MaxCuts = 0
    Nobody = Nobody
INVARIANTS
    BackupTakesOver
CHECK_DEADLOCK FALSE
