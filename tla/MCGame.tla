------------------------------- MODULE MCGame -------------------------------
(* Instances of Game for TLC.  Users, submissions, problems and timeout    *)
(* requests are interchangeable: no action and no property names one.      *)
EXTENDS Game, TLC

Symmetry == Permutations(Users) \cup Permutations(Submissions)
              \cup Permutations(TimeoutRequests) \cup Permutations(Slugs)

=============================================================================
