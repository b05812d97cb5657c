----------------------------- MODULE MCGamePage -----------------------------
(* GamePage for TLC: its constants are numbers, given in the configuration.*)
EXTENDS GamePage, TLC

=============================================================================
