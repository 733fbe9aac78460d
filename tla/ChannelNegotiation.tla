------------------------- MODULE ChannelNegotiation -------------------------
(***************************************************************************)
(* The life of one local channel at one kernel: it is proposed, accepted   *)
(* by its participants, rejected, closed and finally removed.              *)
(*                                                                         *)
(* The state is that of a circulation.Channel and its ChannelProposal      *)
(* (kernel/circulation/channel_manager.go); the actions are the RPC        *)
(* handlers of kernel/server/channel_service.go.  ChannelManager methods   *)
(* run under cm.mu and are one step each.  The accept handler takes no     *)
(* lock between its own tests and the manager's method, so it has three    *)
(* steps: AcceptCheck, AcceptCommit and AnnounceActivation.                *)
(*                                                                         *)
(* All the ids of a channel proposed through ChannelService are those of   *)
(* connectors registered at this kernel, hence without a "kernel:" prefix. *)
(* Channels are independent of one another, so one is enough.              *)
(***************************************************************************)
EXTENDS Naturals

CONSTANT Connectors      \* the connectors registered at this kernel

VARIABLES
  senders, receivers,    \* SenderIDs and ReceiverIDs of the channel
  status,                \* Channel.Status; "none": not in cm.channels
  neg,                   \* ChannelProposal.Status
  approved,              \* ids that are TRUE in SenderApprovals or ReceiverApprovals
  expired,               \* TimeoutSeconds have passed since CreatedAt
  queueClosed,           \* dataQueue has been closed
  distributors,          \* startDataDistribution goroutines that are running
  accepting,             \* accept handlers between their test and the manager's method
  announcing,            \* accept handlers between the manager's method and the notification
  announced,             \* accepters whose handler recorded and announced CHANNEL_CREATED
  panicked               \* the kernel process died of a run-time panic

vars == <<senders, receivers, status, neg, approved, expired, queueClosed,
          distributors, accepting, announcing, announced, panicked>>

lists == <<senders, receivers>>
handlers == <<accepting, announcing, announced>>

Participants == senders \union receivers

\* mutant: the approvals of the receivers are not looked at
SendersApproved(app) == senders \subseteq app

\* AcceptChannelProposal: with local ids only, every entry of SenderApprovals and of
\* ReceiverApprovals counts
AllApproved(app) == senders \subseteq app /\ receivers \subseteq app

Init ==
  /\ senders = {} /\ receivers = {}
  /\ status = "none" /\ neg = "none"
  /\ approved = {}
  /\ expired = FALSE
  /\ queueClosed = FALSE
  /\ distributors = 0
  /\ accepting = {} /\ announcing = {} /\ announced = {}
  /\ panicked = FALSE

-----------------------------------------------------------------------------
\* ProposeChannel: the lists are non-empty, hold no id twice and have no common id;
\* the creator approves by proposing when it is a participant
ProposeChannel(creator, S, R) ==
  /\ ~panicked
  /\ status = "none" /\ neg = "none"
  /\ S # {} /\ R # {} /\ S \intersect R = {}
  /\ senders' = S /\ receivers' = R
  /\ status' = "proposed" /\ neg' = "proposed"
  /\ approved' = {creator} \intersect (S \union R)
  /\ UNCHANGED <<expired, queueClosed, distributors, handlers, panicked>>

\* The proposal's timeout passes.  Nothing in the kernel reacts to it: it is read by
\* the next accept or reject
Expire ==
  /\ ~panicked
  /\ neg # "none" /\ ~expired
  /\ expired' = TRUE
  /\ UNCHANGED <<lists, status, neg, approved, queueClosed, distributors, handlers, panicked>>

\* ChannelServiceServer.AcceptChannelProposal up to the manager's method: any connector
\* may call, and a proposal seen as rejected ends the call
AcceptCheck(c) ==
  /\ ~panicked
  /\ c \notin accepting \union announcing
  /\ status # "none"
  /\ neg # "rejected"
  /\ accepting' = accepting \union {c}
  /\ UNCHANGED <<lists, status, neg, approved, expired, queueClosed, distributors,
                 announcing, announced, panicked>>

\* The call fails in ChannelManager.AcceptChannelProposal: no channel, expired, no participant
AcceptFails(c) ==
  \/ status = "none"
  \/ status # "active" /\ expired
  \/ status # "active" /\ c \notin Participants

\* mutant: the early return for an active channel is missing
AcceptCommitAgain(c) ==
  /\ ~panicked
  /\ c \in accepting
  /\ accepting' = accepting \ {c}
  /\ IF status = "none" \/ expired \/ c \notin Participants
       THEN UNCHANGED <<announcing, approved, status, neg, distributors>>
       ELSE /\ announcing' = announcing \union {c}
            /\ approved' = approved \union {c}
            /\ IF AllApproved(approved')
                 THEN /\ status' = "active" /\ neg' = "accepted"
                      /\ distributors' = distributors + 1
                 ELSE UNCHANGED <<status, neg, distributors>>
  /\ UNCHANGED <<lists, expired, queueClosed, announced, panicked>>

\* ChannelManager.AcceptChannelProposal, one critical section of cm.mu.  An active channel
\* answers with success before any other test; the status "closed" is not looked at
AcceptCommit(c) ==
  /\ ~panicked
  /\ c \in accepting
  /\ accepting' = accepting \ {c}
  /\ IF AcceptFails(c)
       THEN UNCHANGED <<announcing, approved, status, neg, distributors>>
       ELSE /\ announcing' = announcing \union {c}
            /\ approved' = IF status = "active" THEN approved ELSE approved \union {c}
            /\ IF status # "active" /\ AllApproved(approved')
                 THEN /\ status' = "active" /\ neg' = "accepted"
                      /\ distributors' = distributors + 1
                 ELSE UNCHANGED <<status, neg, distributors>>
  /\ UNCHANGED <<lists, expired, queueClosed, announced, panicked>>

\* mutant: whoever got through the manager's method announces
AnnounceAnyAccept(c) ==
  /\ ~panicked
  /\ c \in announcing
  /\ announcing' = announcing \ {c}
  /\ announced' = announced \union {c}
  /\ UNCHANGED <<lists, status, neg, approved, expired, queueClosed, distributors,
                 accepting, panicked>>

\* The rest of the accept handler: it looks the channel up again and, when every approval
\* is there, records CHANNEL_CREATED and sends the ACCEPTED notification
AnnounceActivation(c) ==
  /\ ~panicked
  /\ c \in announcing
  /\ announcing' = announcing \ {c}
  /\ announced' = IF status # "none" /\ AllApproved(approved)
                    THEN announced \union {c} ELSE announced
  /\ UNCHANGED <<lists, status, neg, approved, expired, queueClosed, distributors,
                 accepting, panicked>>

\* RejectChannelProposal: a participant, before the timeout, while still proposed.
\* The data queue stays open
RejectChannelProposal(c) ==
  /\ ~panicked
  /\ status = "proposed"
  /\ c \in Participants
  /\ ~expired
  /\ status' = "closed" /\ neg' = "rejected"
  /\ UNCHANGED <<lists, approved, expired, queueClosed, distributors, handlers, panicked>>

\* mutant: the data queue is left open
CloseKeepsQueue(c) ==
  /\ ~panicked
  /\ status \in {"proposed", "active"}
  /\ c \in Participants
  /\ status' = "closed"
  /\ UNCHANGED <<lists, neg, approved, expired, queueClosed, distributors, handlers, panicked>>

\* CloseChannel by a participant.  close(dataQueue) on a queue that is already closed is a
\* run-time panic, which no handler recovers from: the kernel process ends
CloseChannel(c) ==
  /\ ~panicked
  /\ status \in {"proposed", "active"}
  /\ c \in Participants
  /\ status' = "closed"
  /\ queueClosed' = TRUE
  /\ panicked' = queueClosed
  /\ UNCHANGED <<lists, neg, approved, expired, distributors, handlers>>

\* The range loop of startDataDistribution ends when the queue is closed (and drained)
DistributorEnds ==
  /\ ~panicked
  /\ queueClosed /\ distributors > 0
  /\ distributors' = distributors - 1
  /\ UNCHANGED <<lists, status, neg, approved, expired, queueClosed, handlers, panicked>>

\* CleanupInactiveChannels: a closed channel without activity for an hour is forgotten
CleanupInactiveChannels ==
  /\ ~panicked
  /\ status = "closed"
  /\ status' = "none"
  /\ UNCHANGED <<lists, neg, approved, expired, queueClosed, distributors, handlers, panicked>>

Next ==
  \/ \E c \in Connectors, S, R \in SUBSET Connectors : ProposeChannel(c, S, R)
  \/ Expire
  \/ \E c \in Connectors : AcceptCheck(c)
  \/ \E c \in Connectors : AcceptCommit(c)
  \/ \E c \in Connectors : AnnounceActivation(c)
  \/ \E c \in Connectors : RejectChannelProposal(c)
  \/ \E c \in Connectors : CloseChannel(c)
  \/ DistributorEnds
  \/ CleanupInactiveChannels

\* Goroutines the Go scheduler runs to completion: the distributor and the accept handlers
Fairness ==
  /\ WF_vars(DistributorEnds)
  /\ \A c \in Connectors : WF_vars(AcceptCommit(c) \/ AnnounceActivation(c))

SafetySpec == Init /\ [][Next]_vars

Spec == SafetySpec /\ Fairness

-----------------------------------------------------------------------------
\* Every variable has its type
TypeOK ==
  /\ senders \subseteq Connectors /\ receivers \subseteq Connectors
  /\ status \in {"none", "proposed", "active", "closed"}
  /\ neg \in {"none", "proposed", "accepted", "rejected"}
  /\ approved \subseteq Connectors
  /\ expired \in BOOLEAN /\ queueClosed \in BOOLEAN /\ panicked \in BOOLEAN
  /\ distributors \in Nat
  /\ accepting \subseteq Connectors /\ announcing \subseteq Connectors
  /\ announced \subseteq Connectors

\* A channel carries data only with the consent of everyone on it: it is active only if
\* each sender and each receiver approved, and only they did, whatever accepts, rejects,
\* closes and time-outs came in between
ActiveNeedsConsent ==
  status = "active" => approved = Participants /\ neg = "accepted"

\* A proposal counts as accepted exactly when every participant approved it, whatever
\* accepts, rejections and closes overlap
AcceptedIffAllApproved ==
  neg # "none" => (neg = "accepted" <=> approved = Participants)

\* The accept handler reads the channel again after the manager gave up its lock.  Whatever
\* happened meanwhile, ACCEPTED is recorded and announced only for a proposal that the
\* manager did accept
AnnouncedIsAccepted ==
  announced # {} => neg = "accepted"

\* Packets keep their order: an open data queue has at most one distributor, and it has
\* one exactly from the activation on
OneDistributor ==
  ~queueClosed => distributors = (IF neg = "accepted" THEN 1 ELSE 0)

\* After its timeout a proposal is never completed: no step accepts it any more
ExpiredNeverAccepted ==
  [][expired /\ neg # "accepted" => neg' # "accepted"]_vars

\* No goroutine leak: once a channel that was accepted is closed, the goroutines that
\* distributed its data end (unless the process dies first)
ClosedStopsDistribution ==
  status = "closed" /\ neg = "accepted" ~> distributors = 0 \/ panicked
=============================================================================
