-------------------------- MODULE MCExecutionSlots --------------------------
(* ExecutionSlots for TLC; every constant has its value in the cfg.        *)
EXTENDS ExecutionSlots

=============================================================================
