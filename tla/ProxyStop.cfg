SPECIFICATION ProxyStopFairSpec
CONSTANTS
    Main = main
    Producers = {main}
    Consumers = {w1, w2}
    Tasks = {x, y}
    QueSize = 2
    Block = 2
    MaxPush = 3
    MaxSpurious = 1
    MaxStops = 1
    NoTask = NoTask
    NoThread = NoThread
INVARIANTS
    RequestsConserved
    StopCompletesTasks
    IdleStopIsSafe
PROPERTIES
    RequestServed
    StopEndsProxy
CHECK_DEADLOCK FALSE
