\* A program that outlives its execution.
SPECIFICATION Spec
CONSTANTS
    w1 = w1  w2 = w2  r1 = r1  r2 = r2  go = go
    Langs = {go}
    Workers = {w1}
    LangOf <- OnlyWorker
    Requests = {r1, r2}
    ReqLang <- TwoCalls
    QueueCap = 1
    MaxContainers = 1
    MaxFaults = 0
    MayShutdown = FALSE
INVARIANTS
    ReusedClean
CHECK_DEADLOCK FALSE
