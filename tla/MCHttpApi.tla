----------------------------- MODULE MCHttpApi -----------------------------
(* Three users, so that a game may have two players and an outsider. *)
EXTENDS HttpApi

CONSTANTS u1, u2, u3

MCUsers == {u1, u2, u3}
=============================================================================
