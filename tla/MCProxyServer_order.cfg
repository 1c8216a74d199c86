SPECIFICATION ProxySpec
CONSTANTS
    s1 = s1
    s2 = s2
    Clients = {c1}
    Upstream <- TwoServers
    Reachable <- MayBeDown
    Workers = {w1, w2}
    QueSize = 2
    MaxSegments = 2
    MaxCloses = 2
    SegmentKinds = {"good", "bad"}
    Labels = {NoClient}
    FirstFd = 5
    ListenFd = 4
    Listener = Listener
    NoClient = NoClient
    Phantom = Phantom
    AcceptMayFail = FALSE
    MaxCuts = 1
    Nobody = Nobody
SYMMETRY Symmetry
INVARIANTS
    ForwardedInOrder
    BackupOnlyAfterPrimary
CHECK_DEADLOCK FALSE
