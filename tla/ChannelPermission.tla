------------------------- MODULE ChannelPermission -------------------------
(***************************************************************************)
(* Changing who may send and receive on a channel, at one kernel           *)
(* (kernel/circulation/channel_manager.go, from RequestChannelSubscription *)
(* to StorePermissionRequestFromRemote).                                   *)
(*                                                                         *)
(* There are two ways in.  A stranger asks for a role with                 *)
(* RequestChannelSubscription and any participant may approve; a           *)
(* participant asks for somebody else with RequestPermissionChange, and    *)
(* the channel's approver decides.  Both put their requests into one list, *)
(* permissionRequests, and requests forwarded by other kernels join it.    *)
(*                                                                         *)
(* Every method runs under permissionMu and is one step.                   *)
(* ApprovePermissionChange takes the lock without deferring the unlock, so *)
(* each of its early returns leaves it locked: that is the variable        *)
(* leaked, and no method of the channel runs afterwards.                   *)
(*                                                                         *)
(* A connector id is the sequence of its parts between colons: <<c>> is    *)
(* "c", <<k, c>> is "k:c".  The code compares ids sometimes as written and *)
(* sometimes by their last part.                                           *)
(***************************************************************************)
EXTENDS Naturals, Sequences, SequencesExt

CONSTANTS
  Connectors,        \* connector names
  Callers,           \* the connectors that call this kernel
  KernelID,          \* this kernel
  Remote,            \* another kernel
  FounderSenders,    \* SenderIDs and ReceiverIDs when the channel became active,
  FounderReceivers,  \*   sequences of ids
  Approver,          \* ApproverID
  Targets,           \* the ids requests may name as their target
  MaxRequests        \* bound: requests made to the channel

\* An id is what is between its colons, and not empty
Ids == Seq(Connectors \union {KernelID, Remote}) \ {<<>>}

\* ProposeChannel refused an id with two roles
ASSUME PermissionConstants ==
  /\ Callers \subseteq Connectors /\ Approver \in Connectors
  /\ FounderSenders \in Seq(Ids) /\ FounderReceivers \in Seq(Ids)
  /\ ToSet(FounderSenders) \intersect ToSet(FounderReceivers) = {}
  /\ Targets \subseteq Ids
  /\ MaxRequests \in Nat

VARIABLES
  active,            \* Status is "active"
  senders,           \* SenderIDs
  receivers,         \* ReceiverIDs
  remoteReceivers,   \* remoteReceivers: names and the kernel their data is forwarded to
  requests,          \* permissionRequests
  leaked             \* permissionMu was left locked

vars == <<active, senders, receivers, remoteReceivers, requests, leaked>>

Kinds == {"add_sender", "remove_sender", "add_receiver", "remove_receiver"}
AddKind(role) == IF role = "sender" THEN "add_sender" ELSE "add_receiver"

HasPrefix(id) == Len(id) > 1
KernelOf(id) == Head(id)
BareOf(id) == Last(id)
Prefixed(k, id) == <<k>> \o id
Local(c) == <<c>>

\* CanSend, CanReceive and IsParticipant compare ids without their prefixes
CanSend(c) == \E i \in DOMAIN senders : BareOf(senders[i]) = c
CanReceive(c) == \E i \in DOMAIN receivers : BareOf(receivers[i]) = c
IsParticipant(c) == CanSend(c) \/ CanReceive(c)

Pending(i) == i \in DOMAIN requests /\ requests[i].status = "pending"
Request(by, kind, target, via) ==
  [by |-> by, kind |-> kind, target |-> target, via |-> via, status |-> "pending",
   approvedBy |-> Approver]
Add(r) == requests' = Append(requests, r)

Init ==
  /\ active = TRUE
  /\ senders = FounderSenders /\ receivers = FounderReceivers
  /\ remoteReceivers = [c \in Connectors |-> KernelID]
  /\ requests = <<>>
  /\ leaked = FALSE

-----------------------------------------------------------------------------
(* Making requests *)

\* A connector of the other kernel that is a member of the channel, so that kernel forwards
\* its requests
RemoteMember(c) == <<Remote, c>> \in ToSet(senders) \union ToSet(receivers)

\* RequestChannelSubscription by a stranger that has no other request pending
RequestChannelSubscription(c, role) ==
  /\ ~leaked /\ active
  /\ Len(requests) < MaxRequests
  /\ ~IsParticipant(c)
  /\ \A i \in DOMAIN requests : ~(requests[i].by = Local(c) /\ Pending(i))
  /\ Add(Request(Local(c), AddKind(role), Local(c), "subscription"))
  /\ UNCHANGED <<active, senders, receivers, remoteReceivers, leaked>>

\* The tests of RequestPermissionChange on the kind of change
Applicable(kind, c) ==
  CASE kind \in {"add_sender", "add_receiver"} -> ~CanSend(c) /\ ~CanReceive(c)
    [] kind = "remove_sender" -> CanSend(c) /\ Len(senders) > 1
    [] kind = "remove_receiver" -> CanReceive(c) /\ Len(receivers) > 1

\* RequestPermissionChange by a participant
RequestPermissionChange(c, kind, target) ==
  /\ ~leaked /\ active
  /\ Len(requests) < MaxRequests
  /\ IsParticipant(c)
  /\ Applicable(kind, BareOf(target))
  /\ Add(Request(Local(c), kind, target, "change"))
  /\ UNCHANGED <<active, senders, receivers, remoteReceivers, leaked>>

\* StorePermissionRequestFromRemote: a request broadcast by another kernel.  The status of
\* the channel does not matter, and an added member must only not have the other role
StorePermissionRequestFromRemote(c, kind, target) ==
  /\ ~leaked
  /\ RemoteMember(c)
  /\ Len(requests) < MaxRequests
  /\ kind = "add_sender" => ~CanReceive(BareOf(target))
  /\ kind = "add_receiver" => ~CanSend(BareOf(target))
  /\ Add(Request(<<Remote, c>>, kind, target, "remote"))
  /\ UNCHANGED <<active, senders, receivers, remoteReceivers, leaked>>

-----------------------------------------------------------------------------
(* Deciding requests *)

Resolve(i, status, by) ==
  requests' = [requests EXCEPT ![i].status = status, ![i].approvedBy = by]

\* ApproveChannelSubscription: the id that is added.  For a sender it is the requester's id
\* when that has a prefix, for a receiver the target under the requester's kernel
SubscribedId(r) ==
  CASE ~HasPrefix(r.by) -> r.target
    [] HasPrefix(r.by) /\ r.kind = "add_sender" -> r.by
    [] HasPrefix(r.by) /\ r.kind = "add_receiver" -> Prefixed(KernelOf(r.by), r.target)

\* mutant: an id of the other role is not refused
ApproveSubscriptionAnyRole(c, i) ==
  /\ ~leaked
  /\ IsParticipant(c)
  /\ Pending(i)
  /\ LET r == requests[i]
         id == SubscribedId(r)
     IN  \/ /\ r.kind = "add_sender" /\ ~Contains(senders, id)
            /\ senders' = Append(senders, id) /\ UNCHANGED receivers
         \/ /\ r.kind = "add_receiver" /\ ~Contains(receivers, id)
            /\ receivers' = Append(receivers, id) /\ UNCHANGED senders
  /\ Resolve(i, "approved", c)
  /\ UNCHANGED <<active, remoteReceivers, leaked>>

\* mutant: the kind is not tested, and what is no new sender becomes a receiver
ApproveSubscriptionAnyKind(c, i) ==
  /\ ~leaked
  /\ IsParticipant(c)
  /\ Pending(i)
  /\ LET r == requests[i]
         id == IF r.kind = "add_sender" THEN SubscribedId(r) ELSE r.target
     IN  /\ ~Contains(senders, id) /\ ~Contains(receivers, id)
         /\ IF r.kind = "add_sender"
              THEN senders' = Append(senders, id) /\ UNCHANGED receivers
              ELSE receivers' = Append(receivers, id) /\ UNCHANGED senders
  /\ Resolve(i, "approved", c)
  /\ UNCHANGED <<active, remoteReceivers, leaked>>

\* ApproveChannelSubscription by any participant, of any pending request to add somebody;
\* an id that is in one of the lists as written is refused
ApproveChannelSubscription(c, i) ==
  /\ ~leaked
  /\ IsParticipant(c)
  /\ Pending(i)
  /\ LET r == requests[i]
         id == SubscribedId(r)
     IN  /\ r.kind \in {"add_sender", "add_receiver"}
         /\ ~Contains(senders, id) /\ ~Contains(receivers, id)
         /\ IF r.kind = "add_sender"
              THEN senders' = Append(senders, id) /\ UNCHANGED receivers
              ELSE receivers' = Append(receivers, id) /\ UNCHANGED senders
  /\ Resolve(i, "approved", c)
  /\ UNCHANGED <<active, remoteReceivers, leaked>>

\* RejectChannelSubscription by any participant, of any pending request
RejectChannelSubscription(c, i) ==
  /\ ~leaked
  /\ IsParticipant(c)
  /\ Pending(i)
  /\ Resolve(i, "rejected", c)
  /\ UNCHANGED <<active, senders, receivers, remoteReceivers, leaked>>

\* ApprovePermissionChange: the id that is added has the prefix of the target, of the
\* requester or of this kernel
AddedId(r) ==
  CASE HasPrefix(r.target) -> r.target
    [] ~HasPrefix(r.target) /\ HasPrefix(r.by) -> Prefixed(KernelOf(r.by), r.target)
    [] ~HasPrefix(r.target) /\ ~HasPrefix(r.by) -> Prefixed(KernelID, r.target)

\* ... and the sender that is removed the prefix of the target or of the requester
RemovedSenderId(r) ==
  IF ~HasPrefix(r.target) /\ HasPrefix(r.by)
    THEN Prefixed(KernelOf(r.by), r.target) ELSE r.target

\* After adding a member the names of the other role's remote members are noted for forwarding
NoteRemote(ids) ==
  remoteReceivers' =
    [c \in Connectors |->
       IF \E i \in DOMAIN ids : HasPrefix(ids[i]) /\ KernelOf(ids[i]) # KernelID /\ ids[i][2] = c
         THEN Remote ELSE remoteReceivers[c]]

\* The id to add has the other role already
HasOtherRole(i) ==
  /\ i \in DOMAIN requests
  /\ \/ requests[i].kind = "add_sender" /\ Contains(receivers, AddedId(requests[i]))
     \/ requests[i].kind = "add_receiver" /\ Contains(senders, AddedId(requests[i]))

\* mutant: a request that was decided already is decided again
ApprovalFailsDecided(c, i) ==
  \/ ~active
  \/ c # Approver
  \/ i \notin DOMAIN requests
  \/ HasOtherRole(i)

\* The early returns of ApprovePermissionChange
ApprovalFails(c, i) ==
  \/ ~active
  \/ c # Approver
  \/ ~Pending(i)
  \/ HasOtherRole(i)

\* ApprovePermissionChange applies the change to the lists
ApprovePermissionChange(c, i) ==
  /\ ~leaked
  /\ ~ApprovalFails(c, i)
  /\ LET r == requests[i]
     IN  \/ /\ r.kind = "add_sender"
            /\ senders' = Append(senders, AddedId(r))
            /\ NoteRemote(receivers)
            /\ UNCHANGED receivers
         \/ /\ r.kind = "remove_sender"
            /\ senders' = RemoveFirst(senders, RemovedSenderId(r))
            /\ UNCHANGED <<receivers, remoteReceivers>>
         \/ /\ r.kind = "add_receiver"
            /\ receivers' = Append(receivers, AddedId(r))
            /\ NoteRemote(senders)
            /\ UNCHANGED senders
         \/ /\ r.kind = "remove_receiver"
            /\ receivers' = RemoveFirst(receivers, r.target)
            /\ UNCHANGED <<senders, remoteReceivers>>
  /\ Resolve(i, "approved", c)
  /\ UNCHANGED <<active, leaked>>

\* ApprovePermissionChange returns an error and keeps the lock
ApproveRefused(c, i) ==
  /\ ~leaked
  /\ ApprovalFails(c, i)
  /\ leaked' = TRUE
  /\ UNCHANGED <<active, senders, receivers, remoteReceivers, requests>>

\* RejectPermissionChange by the approver
RejectPermissionChange(c, i) ==
  /\ ~leaked
  /\ active /\ c = Approver /\ Pending(i)
  /\ Resolve(i, "rejected", c)
  /\ UNCHANGED <<active, senders, receivers, remoteReceivers, leaked>>

\* CloseChannel: permissionMu is not involved
CloseChannel ==
  /\ active
  /\ active' = FALSE
  /\ UNCHANGED <<senders, receivers, remoteReceivers, requests, leaked>>

Next ==
  \/ \E c \in Callers, role \in {"sender", "receiver"} : RequestChannelSubscription(c, role)
  \/ \E c \in Callers, kind \in Kinds, t \in Targets : RequestPermissionChange(c, kind, t)
  \/ \E c \in Connectors, kind \in Kinds, t \in Targets :
       StorePermissionRequestFromRemote(c, kind, t)
  \/ \E c \in Callers, i \in 1..MaxRequests : ApproveChannelSubscription(c, i)
  \/ \E c \in Callers, i \in 1..MaxRequests : RejectChannelSubscription(c, i)
  \/ \E c \in Callers, i \in 1..MaxRequests : ApprovePermissionChange(c, i)
  \/ \E c \in Callers, i \in 1..MaxRequests : ApproveRefused(c, i)
  \/ \E c \in Callers, i \in 1..MaxRequests : RejectPermissionChange(c, i)
  \/ CloseChannel

Spec == Init /\ [][Next]_vars

-----------------------------------------------------------------------------
Requests == [by : Ids, kind : Kinds, target : Ids, via : {"subscription", "change", "remote"},
             status : {"pending", "approved", "rejected"}, approvedBy : Connectors]

\* Every variable has its type
TypeOK ==
  /\ active \in BOOLEAN /\ leaked \in BOOLEAN
  /\ senders \in Seq(Ids) /\ receivers \in Seq(Ids)
  /\ remoteReceivers \in [Connectors -> {KernelID, Remote}]
  /\ requests \in Seq(Requests)

\* No id, as written, is both a sender and a receiver, in whatever order the requests are
\* made, decided twice, or decided through the other of the two mechanisms
RolesDisjointAsWritten ==
  ToSet(senders) \intersect ToSet(receivers) = {}

\* A decision is final: an approved or rejected request never changes again, although two
\* mechanisms with different rules decide requests of the same list
DecisionIsFinal ==
  [][\A i \in DOMAIN requests : requests[i].status # "pending" => requests'[i] = requests[i]]_vars

\* id was named in an approved request for this kind of change
Invited(id, kind) ==
  \E i \in DOMAIN requests :
    /\ requests[i].status = "approved" /\ requests[i].kind = kind
    /\ BareOf(id) \in {BareOf(requests[i].target), BareOf(requests[i].by)}

\* Nobody gets in unasked: a member that is no founder was named, as target or as
\* requester, in an approved request for exactly the role it has
MembersWereInvited ==
  /\ \A id \in ToSet(senders) \ ToSet(FounderSenders) : Invited(id, "add_sender")
  /\ \A id \in ToSet(receivers) \ ToSet(FounderReceivers) : Invited(id, "add_receiver")

\* SAFETY.  The lists and the requests have their types, and nobody has two roles under one id, in
\* whatever order requests are made and decided (ApprovePermissionChange, ApproveChannelSubscription)
RolesConsistent == TypeOK /\ RolesDisjointAsWritten
=============================================================================
