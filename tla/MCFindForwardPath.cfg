SPECIFICATION PathSpec
CONSTANTS
    Chars = {"/", "a", "b"}
    Slash = "/"
    Paths <- AllPaths
    Tables <- AllTables
    MaxLen = 5
INVARIANTS
    LongestMatch
PROPERTY SearchEnds
CHECK_DEADLOCK FALSE
