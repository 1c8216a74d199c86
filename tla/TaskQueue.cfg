SPECIFICATION FairSpec
CONSTANTS
    Producers = {p1, p2}
    Consumers = {c1, c2}
    Tasks = {x, y}
    QueSize = 1
    MaxPush = 2
    MaxSpurious = 1
    NoTask = NoTask
    NoThread = NoThread
INVARIANTS
    FrontExists
    ConsumersNotStranded
    ProducersNotStranded
    QueueInv
PROPERTIES
    ImplementsFifo
    PushReturns
CHECK_DEADLOCK FALSE
