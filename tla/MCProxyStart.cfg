SPECIFICATION StartFairSpec
CONSTANTS
    Number <- Numbers
    Endpoint <- Endpoints
    Host <- Hosts
    Files <- AllFiles
    Answering <- MayAnswer
    Garbage <- SomeNumbers
    FirstFd = 6
    Unset = Unset
    Ephemeral = Ephemeral
INVARIANTS
    NamesExist
    TablesFollowFile
    ProperAccepted
    AcceptedIsBalanced
    LocationsHaveTheirServers
    EntriesOwnTheirConns
PROPERTIES
    StartEnds
CHECK_DEADLOCK FALSE
