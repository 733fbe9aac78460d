---------------------------- MODULE KernelNetwork ----------------------------
(***************************************************************************)
(* What the interconnection of kernels promises, whatever messages it      *)
(* takes: two kernels are joined when the operator of one asks and the     *)
(* operator of the other approves, and a kernel comes to know exactly      *)
(* kernels it is joined to, directly or through others (README_CN.md,      *)
(* "互联流程": connect-kernel, approve-request, then the lists of known    *)
(* kernels are synchronised).                                              *)
(***************************************************************************)
CONSTANT Kernels

VARIABLES
  agreed,              \* pairs of kernels, as sets, joined by an approval
  known                \* the kernels each kernel knows

vars == <<agreed, known>>

\* No approval joins a kernel of S to one outside it
Closed(S) == \A p \in agreed : p \subseteq S \/ p \cap S = {}

\* Joined by a chain of approvals: no closed set keeps the two apart
Joined(k, j) == \A S \in SUBSET Kernels : Closed(S) => (k \in S <=> j \in S)

Init ==
  /\ agreed = {}
  /\ known = [k \in Kernels |-> {}]

Agree(k, j) ==
  /\ agreed' = agreed \cup {{k, j}}
  /\ UNCHANGED known

\* A kernel learns of others it is joined to, and may forget some
Revise(k) ==
  /\ known' \in [Kernels -> SUBSET Kernels]
  /\ \A i \in Kernels \ {k} : known'[i] = known[i]
  /\ \A j \in known'[k] \ known[k] : Joined(k, j)
  /\ UNCHANGED agreed

Next ==
  \/ \E k, j \in Kernels : Agree(k, j)
  \/ \E k \in Kernels : Revise(k)

Spec == Init /\ [][Next]_vars
=============================================================================
