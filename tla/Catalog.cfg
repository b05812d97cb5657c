\* Two uploads at a time, archives of up to two problems, one fault or crash.
CONSTANTS
    Slugs = {b, s, t, w}
    Builtins = {b}
    Users = {u}
    Requests = {r1, r2}
    Nobody = Nobody
    New = New
    MaxBatch = 2
    MaxProblemsPerUser = 1
    MaxVersionsPerProblem = 2
    MaxFaults = 1
SPECIFICATION Spec
SYMMETRY Symmetry
INVARIANT LimitOvershootBounded
INVARIANT VersionsNeverClash
INVARIANT RowsAndFilesAgree
PROPERTY PublicationSpec
