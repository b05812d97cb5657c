\* Two submissions, a stale timeout, one fault: the end of a game.
SPECIFICATION Spec
CONSTANTS
    Users = {u1, u2}
    Submissions = {s1, s2}
    TimeoutRequests = {t1}
    Slugs = {p1}
    MaxGameProblems = 1
    MaxFaults = 1
    NoUser = NoUser
    NoSub = NoSub
PROPERTIES
    WinnerWriteOnce
    SlotReleased
    SolvedAllEndsGameUnlessFault
CHECK_DEADLOCK FALSE
