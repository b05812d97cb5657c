\* Four requests against up to two sweeps.
SPECIFICATION Spec
CONSTANTS
    Requests = {r1, r2, r3, r4}
    MaxChans = 3
    MaxSweeps = 2
INVARIANTS
    NoOrphanToken
    OverlapBounded
PROPERTIES
    ReleaseEnds
CHECK_DEADLOCK FALSE
