---------------------------- MODULE MCKernelLink ----------------------------
(* Small instances of KernelLink: three kernels in a row, k1 - k2 - k3. *)
EXTENDS KernelLink

CONSTANTS k1, k2, k3

NoSeeds == [k \in Kernels |-> {}]
Row == [k \in Kernels |-> CASE k = k1 -> {k2} [] k = k3 -> {k2} [] OTHER -> {}]
=============================================================================
