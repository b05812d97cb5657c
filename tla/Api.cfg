SPECIFICATION Spec
CONSTANTS
    u1 = u1
    u2 = u2
    u3 = u3
    NoUser = NoUser
    Users <- MCUsers
    Width = 2
    MaxFaults = 1
INVARIANTS
    AnswersCoherent
    ShownToInsiders
    AnswersExplained
PROPERTY
    WritesFollowLifecycle
