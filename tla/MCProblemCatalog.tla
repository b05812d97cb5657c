-------------------------- MODULE MCProblemCatalog --------------------------
(* ProblemCatalog for TLC: upload requests are interchangeable, and so are  *)
(* the names that generateSlug makes up.                                    *)
EXTENDS ProblemCatalog, TLC

Symmetry == Permutations(Requests) \cup Permutations(Slugs \ Builtins)
=============================================================================
