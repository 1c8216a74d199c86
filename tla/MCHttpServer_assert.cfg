SPECIFICATION HttpSpec
CONSTANTS
    Lines <- SomeLines
    Inputs <- AllStreams
    Keys = {"num"}
    Values = {1, 2}
    MaxLen = 2
INVARIANT MethodIsNew
CHECK_DEADLOCK FALSE
