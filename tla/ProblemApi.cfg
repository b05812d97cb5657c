SPECIFICATION Spec
CONSTANTS
    u1 = u1
    u2 = u2
    r1 = r1
    r2 = r2
    NoUser = NoUser
    Nobody = Nobody
    Users <- MCUsers
    Requests <- MCRequests
    MaxVersion = 2
    Width = 2
    MaxFaults = 1
SYMMETRY Symmetry
INVARIANTS
    VisibleWhenServed
    VersionsServed
    ErrorsExplained
