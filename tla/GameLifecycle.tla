---------------------------- MODULE GameLifecycle ----------------------------
(***************************************************************************)
(* What the games table promises to a reader of one row, without the       *)
(* submissions, sockets and goroutines that produce it: who is on the      *)
(* roster, where the game is in its life and who won it.                   *)
(*                                                                         *)
(* Solo games carry the one irregular promise of the code: the UPDATE of   *)
(* TimeoutGame looks at nothing but the id, so a solo game that was        *)
(* cancelled may still become finished.                                    *)
(***************************************************************************)
EXTENDS Naturals, FiniteSets

CONSTANTS Users, NoUser

VARIABLES status, creator, solo, parts, winner

vars == <<status, creator, solo, parts, winner>>

Init ==
    /\ status = "none"
    /\ creator = NoUser
    /\ solo = FALSE
    /\ parts = {}
    /\ winner = NoUser

(* A game appears with its creator as the only participant.                *)
Open(u, isSolo) ==
    /\ status = "none"
    /\ status' = "pending"
    /\ creator' = u
    /\ solo' = isSolo
    /\ parts' = {u}
    /\ UNCHANGED winner

(* Until the game starts, users other than the creator come and go.        *)
ChangeRoster(u) ==
    /\ status = "pending"
    /\ u # creator
    /\ parts' \in {parts \cup {u}, parts \ {u}}
    /\ UNCHANGED <<status, creator, solo, winner>>

(* It starts with at least two participants, or one if it is solo.         *)
Begin ==
    /\ status = "pending"
    /\ solo \/ \E u, v \in parts : u # v
    /\ status' = "active"
    /\ UNCHANGED <<creator, solo, parts, winner>>

(* An active game is won once, by a participant.                           *)
Win(w) ==
    /\ status = "active"
    /\ w \in parts
    /\ status' = "finished"
    /\ winner' = w
    /\ UNCHANGED <<creator, solo, parts>>

(* A solo game runs out of time, possibly after it was cancelled.          *)
TimeUp ==
    /\ solo
    /\ status \in {"active", "cancelled"}
    /\ status' = "finished"
    /\ UNCHANGED <<creator, solo, parts, winner>>

Cancel ==
    /\ status \in {"pending", "active"}
    /\ status' = "cancelled"
    /\ UNCHANGED <<creator, solo, parts, winner>>

Delete ==
    /\ status \in {"pending", "active", "finished", "cancelled"}
    /\ status' = "deleted"
    /\ parts' = {}
    /\ winner' = NoUser
    /\ UNCHANGED <<creator, solo>>

Next ==
    \/ \E u \in Users : ChangeRoster(u) \/ Win(u)
    \/ \E u \in Users, b \in BOOLEAN : Open(u, b)
    \/ Begin \/ TimeUp \/ Cancel \/ Delete

Spec == Init /\ [][Next]_vars

=============================================================================
