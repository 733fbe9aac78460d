----------------------- MODULE ChannelPermissionProofs -----------------------
(***************************************************************************)
(* Proofs about ChannelPermission, for every set of connectors, every      *)
(* founding membership and any number of requests.                         *)
(*                                                                         *)
(* The two mechanisms that decide requests share one list, so what is      *)
(* proved of the members rests on what may happen to that list (Progress): *)
(* a request is added at the end, or a pending one is decided, and the     *)
(* decision changes neither its kind nor the ids in it.  Hence who was     *)
(* invited stays so (InvitedStays), and PermissionInv, the conjunction of  *)
(* the types and the two safety properties, is inductive.                  *)
(***************************************************************************)
EXTENDS ChannelPermission, WellFoundedInduction, TLAPS

-----------------------------------------------------------------------------
(* Lists of ids *)

\* A nonempty set of numbers has a smallest one
LEMMA MinNat ==
  ASSUME NEW T \in SUBSET Nat, T # {}
  PROVE  Min(T) \in T
<1> DEFINE R == OpToRel(<, Nat)
<1>1. IsWellFoundedOn(R, Nat)
  BY NatLessThanWellFounded
<1> HIDE DEF R
<1>2. PICK x \in T : \A y \in T : ~ (<<y, x>> \in R)
  BY <1>1, WFMin
<1>3. ASSUME NEW y \in T PROVE x =< y
  <2>1. ~ (<<y, x>> \in R) /\ x \in Nat /\ y \in Nat
    BY <1>2
  <2>2. ~ (y < x)
    BY <2>1 DEF R, OpToRel
  <2> QED BY <2>1, <2>2
<1>4. \E z \in T : \A y \in T : z =< y
  BY <1>2, <1>3
<1> QED BY <1>4 DEF Min

\* RemoveFirst takes an element away, or none
LEMMA RemoveFirstKeeps ==
  ASSUME NEW S, NEW s \in Seq(S), NEW e
  PROVE  RemoveFirst(s, e) \in Seq(S) /\ ToSet(RemoveFirst(s, e)) \subseteq ToSet(s)
<1>1. CASE ~ \E i \in 1..Len(s) : s[i] = e
  <2>1. RemoveFirst(s, e) = s
    BY <1>1 DEF RemoveFirst
  <2> QED BY <2>1
<1>2. CASE \E i \in 1..Len(s) : s[i] = e
  <2> DEFINE I == {i \in 1..Len(s) : s[i] = e}
             m == Min(I)
             r == SubSeq(s, 1, m - 1) \o SubSeq(s, m + 1, Len(s))
  <2>1. m \in 1..Len(s)
    <3>1. I \in SUBSET Nat /\ I # {}
      BY <1>2
    <3>2. m \in I
      BY <3>1, MinNat
    <3> QED BY <3>2
  <2>2. RemoveFirst(s, e) = r
    BY <1>2 DEF RemoveFirst, RemoveAt, SelectInSeq
  <2> HIDE DEF m
  <2>3. r \in Seq(S) /\ \A i \in 1..Len(r) : \E j \in 1..Len(s) : r[i] = s[j]
    <3> DEFINE a == SubSeq(s, 1, m - 1)
               b == SubSeq(s, m + 1, Len(s))
    <3>1. a \in Seq(S) /\ \A i \in 1..Len(a) : \E j \in 1..Len(s) : a[i] = s[j]
      BY <2>1
    <3>2. b \in Seq(S) /\ \A i \in 1..Len(b) : \E j \in 1..Len(s) : b[i] = s[j]
      BY <2>1
    <3> HIDE DEF a, b
    <3>3. ASSUME NEW u \in Seq(S), NEW v \in Seq(S),
                 \A i \in 1..Len(u) : \E j \in 1..Len(s) : u[i] = s[j],
                 \A i \in 1..Len(v) : \E j \in 1..Len(s) : v[i] = s[j]
          PROVE  u \o v \in Seq(S) /\ \A i \in 1..Len(u \o v) : \E j \in 1..Len(s) : (u \o v)[i] = s[j]
      BY <3>3
    <3>4. a \o b \in Seq(S) /\ \A i \in 1..Len(a \o b) : \E j \in 1..Len(s) : (a \o b)[i] = s[j]
      BY <3>1, <3>2, <3>3
    <3> QED BY <3>4 DEF a, b
  <2> HIDE DEF r
  <2> QED BY <2>2, <2>3 DEF ToSet
<1> QED BY <1>1, <1>2

\* Appending adds the element
LEMMA AppendSet ==
  ASSUME NEW S, NEW s \in Seq(S), NEW e \in S
  PROVE  Append(s, e) \in Seq(S) /\ ToSet(Append(s, e)) = ToSet(s) \union {e}
<1>1. /\ Append(s, e) \in Seq(S) /\ Len(Append(s, e)) = Len(s) + 1
      /\ \A i \in 1..Len(s) : Append(s, e)[i] = s[i]
      /\ Append(s, e)[Len(s) + 1] = e
      /\ DOMAIN s = 1..Len(s) /\ DOMAIN Append(s, e) = 1..(Len(s) + 1) /\ Len(s) \in Nat
  OBVIOUS
<1>2. ToSet(Append(s, e)) \subseteq ToSet(s) \union {e}
  BY <1>1 DEF ToSet
<1>3. ToSet(s) \union {e} \subseteq ToSet(Append(s, e))
  BY <1>1 DEF ToSet
<1> QED BY <1>1, <1>2, <1>3

\* Contains is membership
LEMMA ContainsSet ==
  ASSUME NEW S, NEW s \in Seq(S), NEW e
  PROVE  Contains(s, e) <=> e \in ToSet(s)
  BY DEF Contains, ToSet

\* A prefix changes neither that an id is one nor its last part
LEMMA PrefixedId ==
  ASSUME NEW id \in Ids, NEW k \in Connectors \union {KernelID, Remote}
  PROVE  Prefixed(k, id) \in Ids /\ BareOf(Prefixed(k, id)) = BareOf(id)
  BY DEF Ids, Prefixed, BareOf, Last

\* The kernel of an id is a name
LEMMA KernelOfId ==
  ASSUME NEW id \in Ids
  PROVE  KernelOf(id) \in Connectors \union {KernelID, Remote}
  BY DEF Ids, KernelOf

-----------------------------------------------------------------------------
(* The ids that decisions add *)

\* Who asks by an id and names a target gets one of the two, under some kernel
LEMMA SubscribedIsNamed ==
  ASSUME NEW r \in Requests, r.kind \in {"add_sender", "add_receiver"}
  PROVE  SubscribedId(r) \in Ids /\ BareOf(SubscribedId(r)) \in {BareOf(r.target), BareOf(r.by)}
<1>0. r.by \in Ids /\ r.target \in Ids
  BY DEF Requests
<1>1. CASE ~HasPrefix(r.by)
  <2>1. SubscribedId(r) = r.target
    BY <1>1 DEF SubscribedId
  <2> QED BY <1>0, <2>1
<1>2. CASE HasPrefix(r.by) /\ r.kind = "add_sender"
  <2>1. SubscribedId(r) = r.by
    BY <1>2 DEF SubscribedId
  <2> QED BY <1>0, <2>1
<1>3. CASE HasPrefix(r.by) /\ r.kind = "add_receiver"
  <2>1. SubscribedId(r) = Prefixed(KernelOf(r.by), r.target)
    BY <1>3 DEF SubscribedId
  <2> QED BY <1>0, <2>1, KernelOfId, PrefixedId
<1> QED BY <1>1, <1>2, <1>3

\* ApprovePermissionChange adds the target, under some kernel
LEMMA AddedIsNamed ==
  ASSUME NEW r \in Requests
  PROVE  AddedId(r) \in Ids /\ BareOf(AddedId(r)) = BareOf(r.target)
<1>0. r.by \in Ids /\ r.target \in Ids
  BY DEF Requests
<1>1. CASE HasPrefix(r.target)
  <2>1. AddedId(r) = r.target
    BY <1>1 DEF AddedId
  <2> QED BY <1>0, <2>1
<1>2. CASE ~HasPrefix(r.target) /\ HasPrefix(r.by)
  <2>1. AddedId(r) = Prefixed(KernelOf(r.by), r.target)
    BY <1>2 DEF AddedId
  <2> QED BY <1>0, <2>1, KernelOfId, PrefixedId
<1>3. CASE ~HasPrefix(r.target) /\ ~HasPrefix(r.by)
  <2>1. AddedId(r) = Prefixed(KernelID, r.target)
    BY <1>3 DEF AddedId
  <2> QED BY <1>0, <2>1, PrefixedId
<1> QED BY <1>1, <1>2, <1>3

-----------------------------------------------------------------------------
(* The list of requests *)

\* What may happen to it: pending requests are decided, or one is added
Progress ==
  /\ requests' \in Seq(Requests)
  /\ \A i \in DOMAIN requests :
       /\ i \in DOMAIN requests'
       /\ requests[i].status # "pending" => requests'[i] = requests[i]

\* A request is added
LEMMA AddProgress ==
  ASSUME TypeOK, NEW r \in Requests, Add(r)
  PROVE  Progress
  BY DEF TypeOK, Add, Progress

\* A pending request is decided: nothing else of it changes
LEMMA ResolveProgress ==
  ASSUME TypeOK, NEW i, Pending(i), NEW status \in {"approved", "rejected"}, NEW c \in Connectors,
         Resolve(i, status, c)
  PROVE  /\ Progress
         /\ i \in DOMAIN requests' /\ requests'[i].status = status
         /\ requests'[i].kind = requests[i].kind
         /\ requests'[i].target = requests[i].target /\ requests'[i].by = requests[i].by
         /\ requests[i] \in Requests
<1>1. i \in DOMAIN requests /\ requests[i] \in Requests /\ requests[i].status = "pending"
  BY DEF Pending, TypeOK
<1> DEFINE q == [[requests[i] EXCEPT !.status = status] EXCEPT !.approvedBy = c]
<1>2. /\ q \in Requests /\ q.status = status /\ q.kind = requests[i].kind
      /\ q.target = requests[i].target /\ q.by = requests[i].by
  BY <1>1 DEF Requests
<1>3. requests' = [requests EXCEPT ![i] = q]
  BY <1>1 DEF Resolve, TypeOK, Requests
<1> HIDE DEF q
<1>4. requests' \in Seq(Requests) /\ DOMAIN requests' = DOMAIN requests
  BY <1>1, <1>2, <1>3 DEF TypeOK
<1>5. requests'[i] = q /\ \A j \in DOMAIN requests : j # i => requests'[j] = requests[j]
  BY <1>1, <1>3 DEF TypeOK
<1> QED BY <1>1, <1>2, <1>4, <1>5 DEF Progress

\* Who was invited stays so
LEMMA InvitedStays ==
  ASSUME Progress, NEW id, NEW kind, Invited(id, kind)
  PROVE  Invited(id, kind)'
<1>1. PICK i \in DOMAIN requests :
        /\ requests[i].status = "approved" /\ requests[i].kind = kind
        /\ BareOf(id) \in {BareOf(requests[i].target), BareOf(requests[i].by)}
  BY DEF Invited
<1>2. i \in DOMAIN requests' /\ requests'[i] = requests[i]
  BY <1>1 DEF Progress
<1> QED BY <1>1, <1>2 DEF Invited

-----------------------------------------------------------------------------
(* Steps *)

\* The inductive invariant
PermissionInv == TypeOK /\ RolesDisjointAsWritten /\ MembersWereInvited

\* What a step has to show: each list keeps to its members, or gets one that was invited and
\* has not the other role
LEMMA ListsStep ==
  ASSUME PermissionInv, Progress, NEW S \in SUBSET Ids, NEW R \in SUBSET Ids,
         senders' \in Seq(Ids), receivers' \in Seq(Ids),
         ToSet(senders') \subseteq ToSet(senders) \union S,
         ToSet(receivers') \subseteq ToSet(receivers) \union R,
         S \intersect (ToSet(receivers) \union R) = {}, R \intersect ToSet(senders) = {},
         \A id \in S : Invited(id, "add_sender")',
         \A id \in R : Invited(id, "add_receiver")',
         active' \in BOOLEAN, leaked' \in BOOLEAN,
         remoteReceivers' \in [Connectors -> {KernelID, Remote}]
  PROVE  PermissionInv'
<1>1. TypeOK'
  BY DEF TypeOK, Progress
<1>2. RolesDisjointAsWritten'
  BY DEF PermissionInv, RolesDisjointAsWritten
<1>3. MembersWereInvited'
  <2>1. ASSUME NEW id \in ToSet(senders') \ ToSet(FounderSenders) PROVE Invited(id, "add_sender")'
    BY InvitedStays DEF PermissionInv, MembersWereInvited
  <2>2. ASSUME NEW id \in ToSet(receivers') \ ToSet(FounderReceivers)
        PROVE  Invited(id, "add_receiver")'
    BY InvitedStays DEF PermissionInv, MembersWereInvited
  <2> QED BY <2>1, <2>2 DEF MembersWereInvited
<1> QED BY <1>1, <1>2, <1>3 DEF PermissionInv

\* The founders have their roles, and nothing was asked
LEMMA InitPermission == Init => PermissionInv
<1> SUFFICES ASSUME Init PROVE PermissionInv
  OBVIOUS
<1>1. TypeOK
  <2>1. requests \in Seq(Requests)
    BY DEF Init
  <2>2. remoteReceivers \in [Connectors -> {KernelID, Remote}]
    BY DEF Init
  <2>3. active \in BOOLEAN /\ leaked \in BOOLEAN
    BY DEF Init
  <2>4. senders \in Seq(Ids) /\ receivers \in Seq(Ids)
    BY PermissionConstants DEF Init
  <2> QED BY <2>1, <2>2, <2>3, <2>4 DEF TypeOK
<1>2. RolesDisjointAsWritten
  BY PermissionConstants DEF Init, RolesDisjointAsWritten
<1>3. MembersWereInvited
  BY DEF Init, MembersWereInvited
<1> QED BY <1>1, <1>2, <1>3 DEF PermissionInv

\* A step that leaves the lists alone
LEMMA RequestsStep ==
  ASSUME PermissionInv, Progress, UNCHANGED <<senders, receivers, remoteReceivers>>,
         active' \in BOOLEAN, leaked' \in BOOLEAN
  PROVE  PermissionInv'
<1>1. /\ senders' \in Seq(Ids) /\ receivers' \in Seq(Ids)
      /\ remoteReceivers' \in [Connectors -> {KernelID, Remote}]
      /\ ToSet(senders') \subseteq ToSet(senders) \union {}
      /\ ToSet(receivers') \subseteq ToSet(receivers) \union {}
  BY DEF PermissionInv, TypeOK
<1>2. /\ {} \in SUBSET Ids
      /\ {} \intersect (ToSet(receivers) \union {}) = {} /\ {} \intersect ToSet(senders) = {}
  OBVIOUS
<1>3. /\ \A id \in {} : Invited(id, "add_sender")'
      /\ \A id \in {} : Invited(id, "add_receiver")'
  OBVIOUS
<1> QED BY <1>1, <1>2, <1>3, ListsStep

\* A new sender that was invited and is no receiver
LEMMA NewSender ==
  ASSUME PermissionInv, Progress, NEW id \in Ids,
         senders' = Append(senders, id), UNCHANGED receivers,
         id \notin ToSet(receivers), Invited(id, "add_sender")',
         active' \in BOOLEAN, leaked' \in BOOLEAN,
         remoteReceivers' \in [Connectors -> {KernelID, Remote}]
  PROVE  PermissionInv'
<1>1. senders \in Seq(Ids) /\ receivers \in Seq(Ids)
  BY DEF PermissionInv, TypeOK
<1>2. senders' \in Seq(Ids) /\ ToSet(senders') = ToSet(senders) \union {id}
  BY <1>1, AppendSet
<1>3. receivers' \in Seq(Ids) /\ ToSet(receivers') \subseteq ToSet(receivers) \union {}
  BY <1>1
<1>4. /\ {id} \in SUBSET Ids /\ {} \in SUBSET Ids
      /\ {id} \intersect (ToSet(receivers) \union {}) = {} /\ {} \intersect ToSet(senders) = {}
      /\ \A x \in {id} : Invited(x, "add_sender")'
      /\ \A x \in {} : Invited(x, "add_receiver")'
  OBVIOUS
<1> QED BY <1>2, <1>3, <1>4, ListsStep

\* A new receiver that was invited and is no sender
LEMMA NewReceiver ==
  ASSUME PermissionInv, Progress, NEW id \in Ids,
         receivers' = Append(receivers, id), UNCHANGED senders,
         id \notin ToSet(senders), Invited(id, "add_receiver")',
         active' \in BOOLEAN, leaked' \in BOOLEAN,
         remoteReceivers' \in [Connectors -> {KernelID, Remote}]
  PROVE  PermissionInv'
<1>1. senders \in Seq(Ids) /\ receivers \in Seq(Ids)
  BY DEF PermissionInv, TypeOK
<1>2. receivers' \in Seq(Ids) /\ ToSet(receivers') = ToSet(receivers) \union {id}
  BY <1>1, AppendSet
<1>3. senders' \in Seq(Ids) /\ ToSet(senders') \subseteq ToSet(senders) \union {}
  BY <1>1
<1>4. /\ {id} \in SUBSET Ids /\ {} \in SUBSET Ids
      /\ {} \intersect (ToSet(receivers) \union {id}) = {} /\ {id} \intersect ToSet(senders) = {}
      /\ \A x \in {} : Invited(x, "add_sender")'
      /\ \A x \in {id} : Invited(x, "add_receiver")'
  OBVIOUS
<1> QED BY <1>2, <1>3, <1>4, ListsStep

\* Requests of a stranger, of a participant and of another kernel are well formed
LEMMA RequestIsOne ==
  ASSUME NEW by \in Ids, NEW kind \in Kinds, NEW target \in Ids,
         NEW via \in {"subscription", "change", "remote"}
  PROVE  Request(by, kind, target, via) \in Requests
  BY PermissionConstants DEF Request, Requests

\* A request is made
LEMMA MakingStep ==
  ASSUME PermissionInv, NEW r \in Requests, Add(r),
         UNCHANGED <<active, senders, receivers, remoteReceivers, leaked>>
  PROVE  PermissionInv' /\ Progress
<1>1. TypeOK
  BY DEF PermissionInv
<1>2. Progress
  BY <1>1, AddProgress
<1> QED BY <1>1, <1>2, RequestsStep DEF TypeOK

\* A request is rejected
LEMMA RejectingStep ==
  ASSUME PermissionInv, NEW c \in Callers, NEW i,
         RejectChannelSubscription(c, i) \/ RejectPermissionChange(c, i)
  PROVE  PermissionInv' /\ Progress
<1>1. /\ Pending(i) /\ Resolve(i, "rejected", c) /\ c \in Connectors /\ TypeOK
      /\ UNCHANGED <<active, senders, receivers, remoteReceivers, leaked>>
  BY PermissionConstants DEF PermissionInv, RejectChannelSubscription, RejectPermissionChange
<1>2. Progress
  BY <1>1, ResolveProgress
<1> QED BY <1>1, <1>2, RequestsStep DEF TypeOK

\* An approval is refused, or the channel ends, or nothing happens
LEMMA IdleStep ==
  ASSUME PermissionInv, UNCHANGED <<senders, receivers, remoteReceivers, requests>>,
         active' \in BOOLEAN, leaked' \in BOOLEAN
  PROVE  PermissionInv' /\ Progress
<1>1. Progress
  BY DEF PermissionInv, Progress, TypeOK
<1> QED BY <1>1, RequestsStep

\* ApproveChannelSubscription: the id is in neither list, and its request is approved
LEMMA SubscribingStep ==
  ASSUME PermissionInv, NEW c \in Callers, NEW i, ApproveChannelSubscription(c, i)
  PROVE  PermissionInv' /\ Progress
<1>0. c \in Connectors /\ TypeOK /\ senders \in Seq(Ids) /\ receivers \in Seq(Ids)
  BY PermissionConstants DEF PermissionInv, TypeOK
<1>1. Pending(i) /\ Resolve(i, "approved", c) /\ UNCHANGED <<active, remoteReceivers, leaked>>
  BY DEF ApproveChannelSubscription
<1>2. PICK r \in Requests : r = requests[i]
  BY <1>0, <1>1, ResolveProgress
<1>3. /\ Progress
      /\ i \in DOMAIN requests' /\ requests'[i].status = "approved" /\ requests'[i].kind = r.kind
      /\ requests'[i].target = r.target /\ requests'[i].by = r.by
  BY <1>0, <1>1, <1>2, ResolveProgress
<1>4. PICK id \in Ids : id = SubscribedId(r) /\ BareOf(id) \in {BareOf(r.target), BareOf(r.by)}
  BY <1>2, SubscribedIsNamed DEF ApproveChannelSubscription
<1>5. /\ ~Contains(senders, id) /\ ~Contains(receivers, id)
      /\ \/ r.kind = "add_sender" /\ senders' = Append(senders, id) /\ UNCHANGED receivers
         \/ r.kind = "add_receiver" /\ receivers' = Append(receivers, id) /\ UNCHANGED senders
  BY <1>2, <1>4 DEF ApproveChannelSubscription
<1>6. id \notin ToSet(senders) /\ id \notin ToSet(receivers)
  BY <1>0, <1>5, ContainsSet
<1>7. Invited(id, r.kind)'
  BY <1>3, <1>4 DEF Invited
<1>8. UNCHANGED remoteReceivers /\ active' \in BOOLEAN /\ leaked' \in BOOLEAN
  BY <1>0, <1>1 DEF TypeOK
<1> QED BY <1>3, <1>5, <1>6, <1>7, <1>8, NewSender, NewReceiver DEF PermissionInv, TypeOK

\* ApprovePermissionChange: an added id has not the other role, and its request is approved;
\* a removal takes an id away, or none
LEMMA ChangingStep ==
  ASSUME PermissionInv, NEW c \in Callers, NEW i, ApprovePermissionChange(c, i)
  PROVE  PermissionInv' /\ Progress
<1>0. c \in Connectors /\ TypeOK /\ senders \in Seq(Ids) /\ receivers \in Seq(Ids)
  BY PermissionConstants DEF PermissionInv, TypeOK
<1>1. /\ Pending(i) /\ ~HasOtherRole(i) /\ Resolve(i, "approved", c) /\ i \in DOMAIN requests
      /\ active' \in BOOLEAN /\ leaked' \in BOOLEAN
  BY <1>0 DEF ApprovePermissionChange, ApprovalFails, Pending, TypeOK
<1>2. PICK r \in Requests : r = requests[i]
  BY <1>0, <1>1, ResolveProgress
<1>3. /\ Progress
      /\ i \in DOMAIN requests' /\ requests'[i].status = "approved" /\ requests'[i].kind = r.kind
      /\ requests'[i].target = r.target /\ requests'[i].by = r.by
  BY <1>0, <1>1, <1>2, ResolveProgress
<1>4. PICK id \in Ids : id = AddedId(r) /\ BareOf(id) = BareOf(r.target)
  BY <1>2, AddedIsNamed
<1>5. Invited(id, r.kind)'
  BY <1>3, <1>4 DEF Invited
<1>6. remoteReceivers' \in [Connectors -> {KernelID, Remote}]
  <2>1. ASSUME NEW ids, NoteRemote(ids) PROVE remoteReceivers' \in [Connectors -> {KernelID, Remote}]
    BY <1>0, <2>1 DEF NoteRemote, TypeOK
  <2>2. NoteRemote(receivers) \/ NoteRemote(senders) \/ UNCHANGED remoteReceivers
    BY DEF ApprovePermissionChange
  <2> QED BY <1>0, <2>1, <2>2 DEF TypeOK
<1>7. CASE r.kind = "add_sender" /\ senders' = Append(senders, id) /\ UNCHANGED receivers
  <2>1. id \notin ToSet(receivers)
    BY <1>0, <1>1, <1>2, <1>4, <1>7, ContainsSet DEF HasOtherRole
  <2> QED BY <1>1, <1>3, <1>5, <1>6, <1>7, <2>1, NewSender
<1>8. CASE r.kind = "add_receiver" /\ receivers' = Append(receivers, id) /\ UNCHANGED senders
  <2>1. id \notin ToSet(senders)
    BY <1>0, <1>1, <1>2, <1>4, <1>8, ContainsSet DEF HasOtherRole
  <2> QED BY <1>1, <1>3, <1>5, <1>6, <1>8, <2>1, NewReceiver
<1>9. ASSUME senders' \in Seq(Ids), receivers' \in Seq(Ids),
             ToSet(senders') \subseteq ToSet(senders), ToSet(receivers') \subseteq ToSet(receivers)
      PROVE  PermissionInv'
  <2>1. /\ {} \in SUBSET Ids
        /\ ToSet(senders') \subseteq ToSet(senders) \union {}
        /\ ToSet(receivers') \subseteq ToSet(receivers) \union {}
        /\ {} \intersect (ToSet(receivers) \union {}) = {} /\ {} \intersect ToSet(senders) = {}
        /\ \A x \in {} : Invited(x, "add_sender")'
        /\ \A x \in {} : Invited(x, "add_receiver")'
    BY <1>9
  <2> QED BY <1>1, <1>3, <1>6, <1>9, <2>1, ListsStep
<1>10. CASE senders' = RemoveFirst(senders, RemovedSenderId(r)) /\ UNCHANGED receivers
  <2>1. /\ RemoveFirst(senders, RemovedSenderId(r)) \in Seq(Ids)
        /\ ToSet(RemoveFirst(senders, RemovedSenderId(r))) \subseteq ToSet(senders)
    BY <1>0, RemoveFirstKeeps
  <2> QED BY <1>0, <1>3, <1>9, <1>10, <2>1
<1>11. CASE receivers' = RemoveFirst(receivers, r.target) /\ UNCHANGED senders
  <2>1. /\ RemoveFirst(receivers, r.target) \in Seq(Ids)
        /\ ToSet(RemoveFirst(receivers, r.target)) \subseteq ToSet(receivers)
    BY <1>0, RemoveFirstKeeps
  <2> QED BY <1>0, <1>3, <1>9, <1>11, <2>1
<1>12. \/ r.kind = "add_sender" /\ senders' = Append(senders, id) /\ UNCHANGED receivers
       \/ r.kind = "add_receiver" /\ receivers' = Append(receivers, id) /\ UNCHANGED senders
       \/ senders' = RemoveFirst(senders, RemovedSenderId(r)) /\ UNCHANGED receivers
       \/ receivers' = RemoveFirst(receivers, r.target) /\ UNCHANGED senders
  BY <1>2, <1>4 DEF ApprovePermissionChange
<1> QED BY <1>3, <1>7, <1>8, <1>10, <1>11, <1>12

\* Every step keeps the invariant and lets the requests only progress
LEMMA PermissionStep == PermissionInv /\ [Next]_vars => PermissionInv' /\ Progress
<1> SUFFICES ASSUME PermissionInv, [Next]_vars PROVE PermissionInv' /\ Progress
  OBVIOUS
<1>1. ASSUME NEW c \in Callers, NEW role \in {"sender", "receiver"},
             RequestChannelSubscription(c, role)
      PROVE  PermissionInv' /\ Progress
  <2>1. Local(c) \in Ids /\ AddKind(role) \in Kinds
    BY PermissionConstants DEF Local, Ids, AddKind, Kinds
  <2>2. Request(Local(c), AddKind(role), Local(c), "subscription") \in Requests
    BY <2>1, RequestIsOne
  <2> QED BY <1>1, <2>2, MakingStep DEF RequestChannelSubscription
<1>2. ASSUME NEW c \in Callers, NEW kind \in Kinds, NEW t \in Targets,
             RequestPermissionChange(c, kind, t)
      PROVE  PermissionInv' /\ Progress
  <2>1. Local(c) \in Ids /\ t \in Ids
    BY PermissionConstants DEF Local, Ids
  <2>2. Request(Local(c), kind, t, "change") \in Requests
    BY <2>1, RequestIsOne
  <2> QED BY <1>2, <2>2, MakingStep DEF RequestPermissionChange
<1>3. ASSUME NEW c \in Connectors, NEW kind \in Kinds, NEW t \in Targets,
             StorePermissionRequestFromRemote(c, kind, t)
      PROVE  PermissionInv' /\ Progress
  <2>1. <<Remote, c>> \in Ids /\ t \in Ids
    BY PermissionConstants DEF Ids
  <2>2. Request(<<Remote, c>>, kind, t, "remote") \in Requests
    BY <2>1, RequestIsOne
  <2> QED BY <1>3, <2>2, MakingStep DEF StorePermissionRequestFromRemote
<1>4. ASSUME NEW c \in Callers, NEW i, ApproveRefused(c, i)
      PROVE  PermissionInv' /\ Progress
  <2>1. /\ UNCHANGED <<senders, receivers, remoteReceivers, requests>>
        /\ active' \in BOOLEAN /\ leaked' \in BOOLEAN
    BY <1>4 DEF ApproveRefused, PermissionInv, TypeOK
  <2> QED BY <2>1, IdleStep
<1>5. CASE CloseChannel \/ UNCHANGED vars
  <2>1. /\ UNCHANGED <<senders, receivers, remoteReceivers, requests>>
        /\ active' \in BOOLEAN /\ leaked' \in BOOLEAN
    BY <1>5 DEF CloseChannel, vars, PermissionInv, TypeOK
  <2> QED BY <2>1, IdleStep
<1> QED BY <1>1, <1>2, <1>3, <1>4, <1>5, SubscribingStep, RejectingStep, ChangingStep DEF Next

\* The invariant holds throughout
LEMMA PermissionInvariant == Spec => []PermissionInv
  BY InitPermission, PermissionStep, PTL DEF Spec

\* The lists and requests are well formed and no id, as written, has two roles, whoever asks and
\* decides in whatever order (ApprovePermissionChange, ApproveChannelSubscription)
THEOREM RolesStayConsistent == Spec => []RolesConsistent
<1>1. PermissionInv => RolesConsistent
  BY DEF PermissionInv, RolesConsistent
<1> QED BY <1>1, PermissionInvariant, PTL

\* Nobody becomes a sender or receiver who was not named in an approved request for that role
THEOREM NobodyUninvited == Spec => []MembersWereInvited
<1>1. PermissionInv => MembersWereInvited
  BY DEF PermissionInv
<1> QED BY <1>1, PermissionInvariant, PTL

\* An approved or rejected request is never decided again, by neither of the two mechanisms
THEOREM DecisionsAreFinal == Spec => DecisionIsFinal
<1>1. PermissionInv /\ [Next]_vars =>
        [\A i \in DOMAIN requests : requests[i].status # "pending" => requests'[i] = requests[i]]_vars
  BY PermissionStep DEF Progress
<1> QED BY <1>1, PermissionInvariant, PTL DEF Spec, DecisionIsFinal
=============================================================================
