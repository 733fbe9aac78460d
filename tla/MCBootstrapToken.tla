------------------------- MODULE MCBootstrapToken -------------------------
(* Instance of BootstrapToken for TLC. *)
EXTENDS BootstrapToken, TLC

\* Tokens and connectors are interchangeable: no action and no property names one
TokenSymmetry == Permutations(Tokens) \union Permutations(Connectors)
===========================================================================
