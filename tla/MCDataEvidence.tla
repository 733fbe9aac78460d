---------------------------- MODULE MCDataEvidence ----------------------------
(* Small instances of DataEvidence *)
EXTENDS DataEvidence, TLC

CONSTANTS sig, s1, s2, a1, a2, r1

\* Every call acknowledges the same packet: an acknowledgement that arrives again
SameAck == [a \in Acks |-> sig]

\* Calls of one kind are interchangeable
CallSymmetry == Permutations(Streams) \union Permutations(Acks)

=============================================================================
