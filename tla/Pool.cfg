\* Two workers of a language, two requests, a fault and a shutdown.
SPECIFICATION Spec
CONSTANTS
    w1 = w1  w2 = w2  r1 = r1  r2 = r2  go = go
    Langs = {go}
    Workers = {w1, w2}
    LangOf <- TwoWorkers
    Requests = {r1, r2}
    ReqLang <- TwoCalls
    QueueCap = 1
    MaxContainers = 3
    MaxFaults = 1
    MayShutdown = TRUE
INVARIANTS
    AnsweredAtMostOnce
    ContainersAccounted
    CleanStart
PROPERTIES
    ItemsAnsweredUnlessShut
    PoolSettles
CHECK_DEADLOCK FALSE
