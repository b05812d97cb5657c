\* Two requests of each kind, three codes of one attempt, one fault.
CONSTANTS
    Senders = {s1, s2}
    Verifiers = {v1, v2}
    Clients = {c1, c2}
    MaxAttempts = 1
    MaxCodes = 3
    MaxSessions = 2
    MaxFaults = 1
SPECIFICATION Spec
SYMMETRY Symmetry
CHECK_DEADLOCK FALSE
INVARIANT GuessesBounded
INVARIANT StoredCodeMailed
INVARIANT CooldownOverrunBounded
PROPERTY LogoutFinal
PROPERTY RightCodeEnters
