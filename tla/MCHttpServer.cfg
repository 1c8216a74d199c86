SPECIFICATION HttpSpec
CONSTANTS
    Lines <- SomeLines
    Inputs <- AllStreams
    Keys = {"num"}
    Values = {1, 2}
    MaxLen = 5
INVARIANTS
    HttpTypeOK
    AnswersFollowStream
    MessageAnswersOne
    ParamsFromStream
    ClosedWhenTold
CHECK_DEADLOCK FALSE
