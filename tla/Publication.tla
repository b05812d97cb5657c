----------------------------- MODULE Publication -----------------------------
(***************************************************************************)
(* What the catalogue promises to those who read its rows, without the     *)
(* archives, transactions, files and crashes behind them: a problem is     *)
(* published once, by a user or as a built-in one; its owner stays; its    *)
(* versions are numbered one by one, none is taken back, and the current   *)
(* one is the newest.  Built-in problems have a single version.            *)
(***************************************************************************)
EXTENDS Naturals

CONSTANTS
    Problems,
    Users,
    Nobody      \* the owner of built-in problems, and of what is not there

VARIABLE book   \* each problem's owner, versions and current version

(* The entry of a problem with n versions.                                 *)
Entry(u, n) == [owner |-> u, versions |-> 1..n, current |-> n]

(* The readers come when there may be built-in problems already.           *)
Init == book \in [Problems -> {Entry(Nobody, 0), Entry(Nobody, 1)}]

Publish(p, u) ==
    /\ book[p].current = 0
    /\ book' = [book EXCEPT ![p] = Entry(u, 1)]

Revise(p) ==
    /\ book[p].current # 0
    /\ book[p].owner # Nobody
    /\ book' = [book EXCEPT ![p] = Entry(@.owner, @.current + 1)]

Next ==
    \E p \in Problems :
        Revise(p) \/ \E u \in Users \cup {Nobody} : Publish(p, u)

Spec == Init /\ [][Next]_book

=============================================================================
