--------------------------- MODULE MCExecutorPool ---------------------------
(* Instances of ExecutorPool for TLC.                                      *)
EXTENDS ExecutorPool, TLC

CONSTANTS w1, w2, r1, r2, go

(* Two workers of one language, or one worker.                             *)
TwoWorkers == (w1 :> go) @@ (w2 :> go)
OnlyWorker == (w1 :> go)

(* Everyone asks for the same language.                                    *)
TwoCalls == (r1 :> go) @@ (r2 :> go)

=============================================================================
