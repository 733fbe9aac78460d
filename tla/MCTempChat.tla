----------------------------- MODULE MCTempChat -----------------------------
(* TempChat for TLC: every constant is given in the configuration.       *)
EXTENDS TempChat
=============================================================================
