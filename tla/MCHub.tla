-------------------------------- MODULE MCHub --------------------------------
(* Instances of Hub for TLC.                                               *)
EXTENDS Hub, TLC

CONSTANTS c1, c2, u1, u2

(* Each user has one connection.                                           *)
OneTab == (c1 :> u1) @@ (c2 :> u2)

=============================================================================
