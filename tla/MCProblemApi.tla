---------------------------- MODULE MCProblemApi ----------------------------
(* Two requests of an owner, another user or a visitor on a problem of up   *)
(* to two versions.  Users are interchangeable, and so are requests.        *)
EXTENDS ProblemApi, TLC

CONSTANTS u1, u2, r1, r2

MCUsers == {u1, u2}
MCRequests == {r1, r2}
Symmetry == Permutations(MCUsers) \cup Permutations(MCRequests)
=============================================================================
