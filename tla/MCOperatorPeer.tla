--------------------------- MODULE MCOperatorPeer ---------------------------
(* Small instances of OperatorPeer: two kernels that dial each other.      *)
EXTENDS OperatorPeer

CONSTANTS k1, k2
=============================================================================
