-------------------------- MODULE MCMultiHopRoute ---------------------------
(* Small instances of MultiHopRoute: a route from this kernel over two     *)
(* others, and the sample route of the repository, which ends here and is  *)
(* in a file with another name than its own.                               *)
EXTENDS MultiHopRoute

CONSTANTS k1, k2, k3

Forth == Config("route", Along(<<k1, k2, k3>>), TRUE)
Back == Config("route", Along(<<k3, k2, k1>>), TRUE)
Gap == Config("route", <<[from |-> NoKernel, to |-> k2]>>, FALSE)

Directory == [n \in Names |-> IF n = "sample" THEN Back ELSE NoFile]
Loadable == {Forth, Gap}
=============================================================================
