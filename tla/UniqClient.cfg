CONSTANTS
    NAgents = 2
    Polling = FALSE
    RetryTimes = 2
    Types = {"label", "seq"}
    EchoStart = 2
    EchoRange = 13
    NumRange = 20
    MaxFaults = 2
    MaxCalls = 3
SPECIFICATION Spec
INVARIANTS AnswerOwn
CHECK_DEADLOCK FALSE
