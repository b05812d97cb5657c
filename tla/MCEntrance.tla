----------------------------- MODULE MCEntrance -----------------------------
(* Entrance for TLC: the requests of each kind are interchangeable.         *)
EXTENDS Entrance, TLC

Symmetry == Permutations(Senders) \cup Permutations(Verifiers)
                \cup Permutations(Clients)
=============================================================================
