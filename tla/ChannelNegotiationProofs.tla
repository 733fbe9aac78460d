---------------------- MODULE ChannelNegotiationProofs ----------------------
(***************************************************************************)
(* Proofs about ChannelNegotiation, for every set of connectors.           *)
(*                                                                         *)
(* None of the safety properties is inductive.  IInv adds what the steps   *)
(* rely on: a proposal has at least two participants, of whom the creator  *)
(* is at most one; only participants approve; and an accepted proposal     *)
(* whose channel is no longer active has a closed data queue, which is why *)
(* activating it a second time cannot put a second distributor on an open  *)
(* queue.                                                                  *)
(***************************************************************************)
EXTENDS ChannelNegotiation, TLAPS

\* Before the proposal nothing exists; after it the lists are as ProposeChannel tested them
ProposalShape ==
  /\ neg = "none" => /\ status = "none" /\ approved = {}
                     /\ ~queueClosed /\ distributors = 0
  /\ neg # "none" => /\ senders # {} /\ receivers # {}
                     /\ senders \intersect receivers = {}

\* How the status of the channel and that of its proposal move together
StatusAgreement ==
  /\ status = "proposed" => neg = "proposed"
  /\ status = "active" => neg = "accepted"
  /\ neg = "accepted" /\ status # "active" => queueClosed

IInv ==
  /\ TypeOK
  /\ ProposalShape
  /\ StatusAgreement
  /\ approved \subseteq Participants
  /\ AcceptedIffAllApproved
  /\ AnnouncedIsAccepted
  /\ OneDistributor

\* The invariant holds before the proposal
LEMMA InitIInv == Init => IInv
<1> SUFFICES ASSUME Init PROVE IInv
  OBVIOUS
<1>1. TypeOK
  BY DEF Init, TypeOK
<1>2. ProposalShape /\ StatusAgreement
  BY DEF Init, ProposalShape, StatusAgreement
<1>3. approved \subseteq Participants /\ AcceptedIffAllApproved
  BY DEF Init, AcceptedIffAllApproved
<1>4. OneDistributor
  BY DEF Init, OneDistributor
<1>5. AnnouncedIsAccepted
  BY DEF Init, AnnouncedIsAccepted
<1> QED
  BY <1>1, <1>2, <1>3, <1>4, <1>5 DEF IInv

\* Every step preserves it
LEMMA StepIInv == IInv /\ [Next]_vars => IInv'
<1> SUFFICES ASSUME IInv, [Next]_vars PROVE IInv'
  OBVIOUS
<1> USE DEF IInv, TypeOK, ProposalShape, StatusAgreement, Participants,
            AcceptedIffAllApproved, AnnouncedIsAccepted, OneDistributor, lists, handlers
<1>1. ASSUME NEW c \in Connectors, NEW S \in SUBSET Connectors,
             NEW R \in SUBSET Connectors, ProposeChannel(c, S, R)
      PROVE  IInv'
  <2>1. approved' # senders' \union receivers'
    BY <1>1 DEF ProposeChannel
  <2> QED
    BY <1>1, <2>1 DEF ProposeChannel
<1>2. CASE Expire
  BY <1>2 DEF Expire
<1>3. ASSUME NEW c \in Connectors, AcceptCheck(c)
      PROVE  IInv'
  BY <1>3 DEF AcceptCheck
<1>4. ASSUME NEW c \in Connectors, AcceptCommit(c)
      PROVE  IInv'
  <2>1. CASE AcceptFails(c)
    BY <1>4, <2>1 DEF AcceptCommit
  <2>2. CASE ~AcceptFails(c) /\ status = "active"
    BY <1>4, <2>2 DEF AcceptCommit
  <2>3. CASE ~AcceptFails(c) /\ status # "active" /\ AllApproved(approved')
    <3>1. /\ status # "none" /\ c \in Participants
          /\ approved' = approved \union {c}
          /\ status' = "active" /\ neg' = "accepted"
          /\ distributors' = distributors + 1
          /\ accepting' = accepting \ {c} /\ announcing' = announcing \union {c}
          /\ UNCHANGED <<senders, receivers, expired, queueClosed, announced, panicked>>
      BY <1>4, <2>3 DEF AcceptCommit, AcceptFails
    <3>2. approved' = senders \union receivers
      BY <2>3, <3>1 DEF AllApproved
    <3>3. ~queueClosed => neg # "accepted"
      BY <2>3
    <3> QED
      BY <3>1, <3>2, <3>3
  <2>4. CASE ~AcceptFails(c) /\ status # "active" /\ ~AllApproved(approved')
    <3>1. /\ status # "none" /\ c \in Participants
          /\ approved' = approved \union {c}
          /\ accepting' = accepting \ {c} /\ announcing' = announcing \union {c}
          /\ UNCHANGED <<senders, receivers, status, neg, distributors, expired,
                         queueClosed, announced, panicked>>
      BY <1>4, <2>4 DEF AcceptCommit, AcceptFails
    <3>2. approved' # senders \union receivers
      BY <2>4 DEF AllApproved
    <3> QED
      BY <3>1, <3>2
  <2> QED
    BY <2>1, <2>2, <2>3, <2>4
<1>5. ASSUME NEW c \in Connectors, AnnounceActivation(c)
      PROVE  IInv'
  <2>1. announced' # {} => neg = "accepted"
    <3>1. CASE status # "none" /\ AllApproved(approved)
      <4>1. approved = senders \union receivers /\ neg # "none"
        BY <3>1 DEF AllApproved
      <4> QED
        BY <4>1
    <3>2. CASE ~(status # "none" /\ AllApproved(approved))
      BY <1>5, <3>2 DEF AnnounceActivation
    <3> QED
      BY <3>1, <3>2
  <2> QED
    BY <1>5, <2>1 DEF AnnounceActivation
<1>6. ASSUME NEW c \in Connectors, RejectChannelProposal(c)
      PROVE  IInv'
  BY <1>6 DEF RejectChannelProposal
<1>7. ASSUME NEW c \in Connectors, CloseChannel(c)
      PROVE  IInv'
  BY <1>7 DEF CloseChannel
<1>8. CASE DistributorEnds
  BY <1>8 DEF DistributorEnds
<1>9. CASE CleanupInactiveChannels
  BY <1>9 DEF CleanupInactiveChannels
<1>10. CASE UNCHANGED vars
  BY <1>10 DEF vars
<1> QED
  BY <1>1, <1>2, <1>3, <1>4, <1>5, <1>6, <1>7, <1>8, <1>9, <1>10 DEF Next

\* The strengthened invariant holds in every reachable state of the channel
THEOREM NegotiationInvariant == SafetySpec => []IInv
  BY InitIInv, StepIInv, PTL DEF SafetySpec

\* The variables of the channel always have their types
THEOREM NegotiationTypeCorrect == SafetySpec => []TypeOK
<1>1. IInv => TypeOK
  BY DEF IInv
<1> QED
  BY <1>1, NegotiationInvariant, PTL

\* However accepts, rejects, closes and time-outs interleave, an active channel has the
\* approval of all its participants
THEOREM ActiveChannelHasConsent == SafetySpec => []ActiveNeedsConsent
<1>1. IInv => ActiveNeedsConsent
  BY DEF IInv, StatusAgreement, AcceptedIffAllApproved, ActiveNeedsConsent
<1> QED
  BY <1>1, NegotiationInvariant, PTL

\* ACCEPTED is announced only for accepted proposals, although the accept handler reads the
\* channel again without the lock under which it was accepted
THEOREM AnnouncementIsTrue == SafetySpec => []AnnouncedIsAccepted
<1>1. IInv => AnnouncedIsAccepted
  BY DEF IInv
<1> QED
  BY <1>1, NegotiationInvariant, PTL

\* An open data queue never has two distributors, and has one once the proposal is accepted
THEOREM OpenQueueHasOneDistributor == SafetySpec => []OneDistributor
<1>1. IInv => OneDistributor
  BY DEF IInv
<1> QED
  BY <1>1, NegotiationInvariant, PTL

\* No step accepts a proposal whose timeout has passed
THEOREM ExpiredProposalStaysUnaccepted == SafetySpec => ExpiredNeverAccepted
<1>1. IInv /\ [Next]_vars => [expired /\ neg # "accepted" => neg' # "accepted"]_vars
  <2> SUFFICES ASSUME IInv, Next, expired, neg # "accepted"
               PROVE  neg' # "accepted"
    OBVIOUS
  <2>1. ASSUME NEW c \in Connectors, AcceptCommit(c)
        PROVE  neg' # "accepted"
    <3>1. status # "active"
      BY DEF IInv, StatusAgreement
    <3> QED
      BY <2>1, <3>1 DEF AcceptCommit, AcceptFails
  <2>2. ASSUME NEW c \in Connectors, NEW S \in SUBSET Connectors,
               NEW R \in SUBSET Connectors, ProposeChannel(c, S, R)
        PROVE  neg' # "accepted"
    BY <2>2 DEF ProposeChannel
  <2>3. ASSUME NEW c \in Connectors,
               \/ AcceptCheck(c) \/ AnnounceActivation(c)
               \/ RejectChannelProposal(c) \/ CloseChannel(c)
        PROVE  neg' # "accepted"
    BY <2>3 DEF AcceptCheck, AnnounceActivation, RejectChannelProposal, CloseChannel
  <2>4. CASE Expire \/ DistributorEnds \/ CleanupInactiveChannels
    BY <2>4 DEF Expire, DistributorEnds, CleanupInactiveChannels
  <2> QED
    BY <2>1, <2>2, <2>3, <2>4 DEF Next
<1> QED
  BY <1>1, NegotiationInvariant, PTL DEF SafetySpec, ExpiredNeverAccepted
=============================================================================
