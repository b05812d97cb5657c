\* Two users race through up to two problems, one fault.
SPECIFICATION Spec
CONSTANTS
    Users = {u1, u2}
    Submissions = {s1, s2}
    TimeoutRequests = {}
    Slugs = {p1}
    MaxGameProblems = 2
    MaxFaults = 1
    NoUser = NoUser
    NoSub = NoSub
SYMMETRY Symmetry
INVARIANTS
    ProgressEarned
    AnnouncementsTrue
    LateAdvanceAtMostOnce
    RecordsEarned
PROPERTIES
    LifecycleSpec
CHECK_DEADLOCK FALSE
