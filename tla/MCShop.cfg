SPECIFICATION ShopFairSpec
CONSTANTS
    row = row
    spare = spare
    Rows = {row, spare}
    Initial <- InitialStock
    Orders <- SomeOrders
    Show = Show
    Readings = {0, 2}
    Threads = {t1, t2}
    MaxConn = 2
    Openable = {0, 1, 2}
    MaxRequests = 3
    NoThread = NoThread
INVARIANTS
    SqlInv
    OwnedOnce
    StockNeverNegative
    NeverOversold
PROPERTIES
    ImplementsStore
    RequestAnswered
CHECK_DEADLOCK FALSE
