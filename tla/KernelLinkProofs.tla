-------------------------- MODULE KernelLinkProofs --------------------------
(***************************************************************************)
(* Proofs about KernelLink, for every set of kernels, every configuration  *)
(* of seeds and contacts and every bound.                                  *)
(*                                                                         *)
(* That a kernel knows only kernels joined to it by approvals              *)
(* (LinkWasAgreed, NetworkSpec) is not inductive on the maps alone: an     *)
(* entry comes from a goroutine or from a call, which was started long     *)
(* before.  JoinedInv says the same of them: every kernel they name is     *)
(* joined to the one they work for, except that a request for a link may   *)
(* name anybody, and never gets further than a pending request.            *)
(*                                                                         *)
(* That links are mutual when all is quiet (QuietIsMutual) needs to know   *)
(* what is under way while it is not.  Mutual says: whoever has an entry   *)
(* for a kernel that has none for it is owed one by a goroutine or a call  *)
(* that will make it (Mending), and an entry without a Client will be      *)
(* dialled.  A goroutine or a call that ends has to show that it did its   *)
(* part, or passed it on (TaskServed, CallServed): then nothing it owed is *)
(* lost (CoveredStays).                                                    *)
(***************************************************************************)
EXTENDS KernelLink, TLAPS

-----------------------------------------------------------------------------
(* Types *)

\* What follows a connect is a set of well-formed goroutines
LEMMA AfterType ==
  ASSUME NEW t \in Tasks, NEW ok \in BOOLEAN
  PROVE  After(t, ok) \subseteq Tasks
<1>1. CASE t.then = "approved"
  BY <1>1 DEF After, Tasks, Task, Broadcast
<1>2. CASE t.then = "introduced"
  BY <1>2 DEF After, Tasks, Task
<1>3. CASE t.then = "rest"
  BY <1>3 DEF After, Tasks, Task
<1>4. CASE t.then = "peer"
  BY <1>4 DEF After, Tasks, Task
<1>5. CASE t.then \notin {"approved", "introduced", "rest", "peer"}
  BY <1>5 DEF After
<1> QED BY <1>1, <1>2, <1>3, <1>4, <1>5

\* A kernel knows kernels
LEMMA KnownType ==
  ASSUME NEW k
  PROVE  Known(k) \subseteq Kernels
  BY DEF Known

\* A goroutine that ends starts well-formed ones
LEMMA BecomesType ==
  ASSUME TypeOK, NEW k \in Kernels, NEW t, NEW T \in SUBSET Tasks, Becomes(k, t, T)
  PROVE  work' \in [Kernels -> SUBSET Tasks]
  BY DEF TypeOK, Becomes

\* A command or a fault is counted under its own name
LEMMA CountType ==
  ASSUME TypeOK, NEW what \in {"requests", "faults"}, Count(what)
  PROVE  /\ used' \in [requests : Nat, faults : Nat]
         /\ used'.faults = IF what = "faults" THEN used.faults + 1 ELSE used.faults
         /\ used.faults \in Nat
  BY DEF TypeOK, Count

\* A process that ends leaves well-formed calls behind
LEMMA CrashType ==
  ASSUME TypeOK, NEW k \in Kernels, Crash(k), used' \in [requests : Nat, faults : Nat]
  PROVE  TypeOK'
<1>1. kernels' \in [Kernels -> [Kernels -> {"none", "known", "linked"}]]
  BY DEF TypeOK, Crash
<1>2. pending' \in [Kernels -> SUBSET [from : Kernels, id : Nat]]
  BY DEF TypeOK, Crash
<1>3. work' \in [Kernels -> SUBSET Tasks]
  <2> DEFINE W == {[t EXCEPT !.then = "late"] : t \in {t \in work[k] : t.op = "sync"}}
  <2>1. W \subseteq Tasks
    <3>1. work[k] \subseteq Tasks
      BY DEF TypeOK
    <3>2. ASSUME NEW t \in Tasks PROVE [t EXCEPT !.then = "late"] \in Tasks
      BY DEF Tasks
    <3> QED BY <3>1, <3>2
  <2>2. work' = [work EXCEPT ![k] = W]
    BY DEF Crash
  <2> HIDE DEF W
  <2> QED BY <2>1, <2>2 DEF TypeOK
<1>4. reg' \subseteq Calls
  <2>1. ASSUME NEW c \in Calls PROVE [c EXCEPT !.task.then = "gone"] \in Calls
    BY DEF Calls, Tasks
  <2> QED BY <2>1 DEF TypeOK, Crash
<1> QED BY <1>1, <1>2, <1>3, <1>4 DEF TypeOK, Crash

\* A call, and one that is advanced
LEMMA CallType ==
  ASSUME TypeOK
  PROVE  /\ \A k, j \in Kernels, kind \in {"request", "plain", "approve"}, t \in Tasks :
              [from |-> k, to |-> j, kind |-> kind, at |-> "sent", task |-> t] \in Calls
         /\ \A c \in reg : c \in Calls /\ c.from \in Kernels /\ c.to \in Kernels /\ c.task \in Tasks
         /\ \A k \in Kernels : \A t \in work[k] :
              t \in Tasks /\ t.to \in Kernels /\ t.list \subseteq Kernels
  BY DEF TypeOK, Calls, Tasks

\* A call that is served one step further stays well formed
LEMMA AdvanceType ==
  ASSUME TypeOK, NEW c \in reg,
         NEW at \in {"sent", "checked", "stored", "client", "registered", "already", "pending"},
         Advance(c, at)
  PROVE  reg' \subseteq Calls
  BY DEF TypeOK, Calls, Advance

\* Goroutines as the actions make them
LEMMA TaskType ==
  ASSUME NEW op \in {"request", "connect", "dial", "broadcast", "syncTo", "syncPeer", "sync"},
         NEW j \in Kernels, NEW list \in SUBSET Kernels,
         NEW then \in {"end", "shell", "approved", "introduced", "rest", "peer", "connect",
                       "patient", "impatient", "late", "gone"}
  PROVE  Task(op, j, list, then) \in Tasks
  BY DEF Task, Tasks

\* The initial state has its types
LEMMA InitType == Init => TypeOK
<1> SUFFICES ASSUME Init PROVE TypeOK
  OBVIOUS
<1>1. ASSUME NEW k \in Kernels PROVE {Task("request", j, {}, "end") : j \in Seeds[k]} \subseteq Tasks
  BY TaskType, LinkConstants
<1> QED BY <1>1, LinkConstants DEF Init, TypeOK

\* connectToKernelInternal keeps the types
LEMMA ConnectForType ==
  ASSUME TypeOK, NEW k \in Kernels, NEW t, NEW c \in Tasks, ConnectFor(k, t, c)
  PROVE  TypeOK'
<1>0. c.to \in Kernels
  BY DEF Tasks
<1>1. CASE Linked(k, c.to)
  <2>1. After(c, FALSE) \subseteq Tasks
    BY AfterType
  <2>2. work' \in [Kernels -> SUBSET Tasks]
    BY <1>1, <2>1, BecomesType DEF ConnectFor
  <2> QED BY <1>1, <2>2 DEF TypeOK, ConnectFor
<1>2. CASE ~Linked(k, c.to)
  <2>1. work' \in [Kernels -> SUBSET Tasks]
    BY <1>2, BecomesType DEF ConnectFor
  <2>2. reg' \subseteq Calls
    BY <1>2, <1>0, CallType DEF ConnectFor, Call, TypeOK
  <2>3. kernels' \in [Kernels -> [Kernels -> {"none", "known", "linked"}]]
    BY <1>2, <1>0 DEF ConnectFor, TypeOK
  <2> QED BY <1>2, <2>1, <2>2, <2>3 DEF TypeOK, ConnectFor
<1> QED BY <1>1, <1>2

\* So does a list sent to another kernel
LEMMA SendType ==
  ASSUME TypeOK, NEW k \in Kernels, NEW t \in Tasks, NEW list \in SUBSET Kernels,
         NEW wait \in {"patient", "impatient"}, Send(k, t, list, wait)
  PROVE  work' \in [Kernels -> SUBSET Tasks]
<1>1. t.to \in Kernels
  BY DEF Tasks
<1>2. Task("sync", t.to, list, wait) \in Tasks
  BY <1>1, TaskType
<1> QED BY <1>2, BecomesType DEF Send

\* Every step keeps the types
LEMMA StepType == TypeOK /\ [Next]_vars => TypeOK'
<1> SUFFICES ASSUME TypeOK, [Next]_vars PROVE TypeOK'
  OBVIOUS
<1>1. ASSUME NEW k \in Kernels, NEW j \in Kernels, ConnectKernel(k, j) PROVE TypeOK'
  <2>1. Task("request", j, {}, "shell") \in Tasks
    BY TaskType
  <2>2. work' \in [Kernels -> SUBSET Tasks]
    BY <1>1, <2>1 DEF ConnectKernel, TypeOK
  <2> QED BY <1>1, <2>2, CountType DEF ConnectKernel, TypeOK
<1>2. ASSUME NEW k \in Kernels, NEW j \in Kernels, DisconnectFromKernel(k, j) PROVE TypeOK'
  <2>1. used' \in [requests : Nat, faults : Nat]
    BY <1>2, CountType DEF DisconnectFromKernel
  <2>2. CASE Crash(k)
    BY <2>1, <2>2, CrashType
  <2>3. CASE /\ kernels' = [kernels EXCEPT ![k][j] = "none"]
             /\ UNCHANGED <<pending, work, reg, up, agreed>>
    BY <2>1, <2>3 DEF TypeOK
  <2> QED BY <1>2, <2>2, <2>3 DEF DisconnectFromKernel
<1>3. ASSUME NEW k \in Kernels, Stop(k) PROVE TypeOK'
  BY <1>3, CountType, CrashType DEF Stop
<1>4. ASSUME NEW k \in Kernels, NEW j \in Kernels, EnsureKernelConnected(k, j) PROVE TypeOK'
  BY <1>4 DEF EnsureKernelConnected, TypeOK
<1>5. ASSUME NEW k \in Kernels, NEW r \in pending[k], ApprovePendingRequest(k, r) PROVE TypeOK'
  <2>1. r \in [from : Kernels, id : Nat] /\ r.from \in Kernels
    BY DEF TypeOK
  <2>2. Task("connect", r.from, {}, "approved") \in Tasks
    BY <2>1, TaskType
  <2>3. work' \in [Kernels -> SUBSET Tasks]
    BY <1>5, <2>2 DEF ApprovePendingRequest, TypeOK
  <2>4. reg' \subseteq Calls
    BY <1>5, <2>1, <2>2, CallType DEF ApprovePendingRequest, SendApprove, TypeOK
  <2> QED BY <1>5, <2>1, <2>3, <2>4 DEF ApprovePendingRequest, TypeOK
<1>6. ASSUME NEW k \in Kernels, NEW t \in work[k], RequestLink(k, t) PROVE TypeOK'
  <2>1. work' \in [Kernels -> SUBSET Tasks]
    BY <1>6, BecomesType DEF RequestLink
  <2>2. reg' \subseteq Calls
    BY <1>6, CallType DEF RequestLink, Call, TypeOK
  <2> QED BY <1>6, <2>1, <2>2 DEF RequestLink, TypeOK
<1>7. ASSUME NEW k \in Kernels, NEW t \in work[k], Connect(k, t) PROVE TypeOK'
  BY <1>7, CallType, ConnectForType DEF Connect
<1>8. ASSUME NEW k \in Kernels, NEW t \in work[k], NEW j \in t.list, DialNew(k, t, j) PROVE TypeOK'
  <2>1. Task("connect", j, t.list \ {j}, "rest") \in Tasks
    BY CallType, TaskType
  <2> QED BY <1>8, <2>1, ConnectForType DEF DialNew
<1>9. ASSUME NEW k \in Kernels, NEW t \in work[k], BroadcastKnownKernels(k, t) PROVE TypeOK'
  <2>1. work' \in [Kernels -> SUBSET Tasks]
    BY <1>9, CallType, KnownType, SendType, BecomesType DEF BroadcastKnownKernels
  <2> QED BY <1>9, <2>1 DEF BroadcastKnownKernels, TypeOK
<1>10. ASSUME NEW k \in Kernels, NEW t \in work[k], SyncKnownKernelsToKernel(k, t) PROVE TypeOK'
  <2>0. {k} \cup (Known(k) \ {t.to}) \in SUBSET Kernels
    BY KnownType
  <2>1. work' \in [Kernels -> SUBSET Tasks]
    BY <1>10, <2>0, CallType, SendType DEF SyncKnownKernelsToKernel
  <2> QED BY <1>10, <2>1 DEF SyncKnownKernelsToKernel, TypeOK
<1>11. ASSUME NEW k \in Kernels, NEW t \in work[k], SyncPeerKernels(k, t) PROVE TypeOK'
  <2>0. {j \in Known(k) \ {t.to} : ~Linked(k, j)} \in SUBSET Kernels
    BY KnownType
  <2>1. Task("connect", t.to, {}, "peer") \in Tasks
    BY CallType, TaskType
  <2>2. \/ Send(k, t, {j \in Known(k) \ {t.to} : ~Linked(k, j)}, "impatient")
        \/ Becomes(k, t, {Task("connect", t.to, {}, "peer")})
        \/ Becomes(k, t, {})
    BY <1>11 DEF SyncPeerKernels
  <2>3. work' \in [Kernels -> SUBSET Tasks]
    <3>1. CASE Send(k, t, {j \in Known(k) \ {t.to} : ~Linked(k, j)}, "impatient")
      BY <3>1, <2>0, CallType, SendType
    <3>2. CASE Becomes(k, t, {Task("connect", t.to, {}, "peer")})
      BY <3>2, <2>1, BecomesType
    <3>3. CASE Becomes(k, t, {})
      BY <3>3, BecomesType
    <3> QED BY <2>2, <3>1, <3>2, <3>3
  <2> QED BY <1>11, <2>3 DEF SyncPeerKernels, TypeOK
<1>12. ASSUME NEW k \in Kernels, NEW t \in work[k], SyncKnownKernels(k, t) PROVE TypeOK'
  <2> DEFINE j == t.to
             new == {x \in t.list \ {j} : kernels[j][x] = "none"}
             answer == (new \cup (Known(j) \ (t.list \cup {k}))) \ {k}
             A == IF answer = {} \/ t.then = "late" THEN {} ELSE {Task("dial", j, answer, "rest")}
             B == {Task("connect", x, {}, "introduced") : x \in new}
  <2>1. j \in Kernels /\ new \subseteq Kernels /\ answer \subseteq Kernels
    BY CallType, KnownType
  <2>2. A \subseteq Tasks /\ B \subseteq Tasks
    BY <2>1, TaskType
  <2>3. /\ kernels' = [kernels EXCEPT ![j] = [x \in Kernels |-> IF x \in new THEN "known" ELSE @[x]]]
        /\ work' = [work EXCEPT ![k] = (@ \ {t}) \cup A, ![j] = @ \cup B]
        /\ UNCHANGED <<pending, reg, up, agreed, used>>
    BY <1>12 DEF SyncKnownKernels
  <2> HIDE DEF j, new, A, B
  <2>4. kernels' \in [Kernels -> [Kernels -> {"none", "known", "linked"}]]
    BY <2>1, <2>3 DEF TypeOK
  <2>5. work' \in [Kernels -> SUBSET Tasks]
    BY <2>1, <2>2, <2>3 DEF TypeOK
  <2> QED BY <2>3, <2>4, <2>5 DEF TypeOK
<1>13. ASSUME NEW k \in Kernels, NEW t \in work[k], SyncTimeout(k, t) PROVE TypeOK'
  <2>1. [t EXCEPT !.then = "late"] \in Tasks
    BY CallType DEF Tasks
  <2>2. work' \in [Kernels -> SUBSET Tasks]
    BY <1>13, <2>1, BecomesType DEF SyncTimeout
  <2> QED BY <1>13, <2>2 DEF SyncTimeout, TypeOK
<1>14. ASSUME NEW k \in Kernels, NEW t \in work[k], SyncFails(k, t) PROVE TypeOK'
  <2>1. work' \in [Kernels -> SUBSET Tasks]
    BY <1>14, BecomesType DEF SyncFails
  <2> QED BY <1>14, <2>1 DEF SyncFails, TypeOK
<1>15. ASSUME NEW c \in reg, RegisterCheck(c) PROVE TypeOK'
  <2>1. reg' \subseteq Calls
    BY <1>15, AdvanceType DEF RegisterCheck
  <2>2. pending' \in [Kernels -> SUBSET [from : Kernels, id : Nat]]
    <3>1. [from |-> c.from, id |-> used.requests] \in [from : Kernels, id : Nat]
      BY CallType DEF TypeOK
    <3> QED BY <1>15, <3>1, CallType DEF RegisterCheck, AddPendingRequest, TypeOK
  <2> QED BY <1>15, <2>1, <2>2 DEF RegisterCheck, TypeOK
<1>16. ASSUME NEW c \in reg, RegisterStore(c) PROVE TypeOK'
  <2>1. reg' \subseteq Calls
    BY <1>16, AdvanceType DEF RegisterStore
  <2> QED BY <1>16, <2>1, CallType DEF RegisterStore, TypeOK
<1>17. ASSUME NEW c \in reg, RegisterClient(c) PROVE TypeOK'
  <2>1. reg' \subseteq Calls
    BY <1>17, AdvanceType DEF RegisterClient
  <2>2. Broadcast(c.from) \in Tasks
    BY CallType, TaskType DEF Broadcast
  <2>3. work' \in [Kernels -> SUBSET Tasks]
    BY <1>17, <2>2, CallType DEF RegisterClient, TypeOK
  <2>4. kernels' \in [Kernels -> [Kernels -> {"none", "known", "linked"}]]
    BY <1>17, CallType DEF RegisterClient, CreateKernelClient, TypeOK
  <2> QED BY <1>17, <2>1, <2>3, <2>4 DEF RegisterClient, TypeOK
<1>18. ASSUME NEW c \in reg, RegisterAnswer(c) PROVE TypeOK'
  <2>1. reg' \subseteq Calls
    BY <1>18, AdvanceType DEF RegisterAnswer
  <2> QED BY <1>18, <2>1 DEF RegisterAnswer, TypeOK
<1>19. ASSUME NEW c \in reg, RequestReturns(c) PROVE TypeOK'
  BY <1>19 DEF RequestReturns, TypeOK
<1>20. ASSUME NEW c \in reg, ConnectReturns(c) PROVE TypeOK'
  <2>1. {Broadcast(c.to), SyncPeer(c.to)} \cup After(c.task, TRUE) \subseteq Tasks
    BY CallType, TaskType, AfterType DEF Broadcast, SyncPeer
  <2>2. work' \in [Kernels -> SUBSET Tasks]
    BY <1>20, <2>1, CallType DEF ConnectReturns, TypeOK
  <2>3. kernels' \in [Kernels -> [Kernels -> {"none", "known", "linked"}]]
    BY <1>20, CallType DEF ConnectReturns, TypeOK
  <2> QED BY <1>20, <2>2, <2>3 DEF ConnectReturns, TypeOK
<1>21. ASSUME NEW c \in reg, ApproveReturns(c) PROVE TypeOK'
  <2>1. work' \in [Kernels -> SUBSET Tasks]
    BY <1>21, CallType DEF ApproveReturns, TypeOK
  <2> QED BY <1>21, <2>1 DEF ApproveReturns, TypeOK
<1>22. ASSUME NEW c \in reg, CallFails(c) PROVE TypeOK'
  <2>1. After(c.task, FALSE) \subseteq Tasks
    BY CallType, AfterType
  <2>2. work' \in [Kernels -> SUBSET Tasks]
    BY <1>22, <2>1, CallType DEF CallFails, TypeOK
  <2> QED BY <1>22, <2>2 DEF CallFails, TypeOK
<1>23. ASSUME NEW k \in Kernels, Start(k) PROVE TypeOK'
  <2>1. {Task("request", j, {}, "end") : j \in Seeds[k]} \subseteq Tasks
    BY TaskType, LinkConstants
  <2>2. work' \in [Kernels -> SUBSET Tasks]
    BY <1>23, <2>1 DEF Start, TypeOK
  <2> QED BY <1>23, <2>2 DEF Start, TypeOK
<1>24. CASE UNCHANGED vars
  BY <1>24 DEF vars, TypeOK
<1>25. CASE Command \/ Message \/ Approve
  BY <1>25, <1>1, <1>2, <1>3, <1>4, <1>5 DEF Command, Message, Approve
<1>26. CASE Goroutine
  BY <1>26, <1>6, <1>7, <1>8, <1>9, <1>10, <1>11, <1>12, <1>13, <1>14 DEF Goroutine
<1>27. CASE Registration \/ Process
  BY <1>27, <1>15, <1>16, <1>17, <1>18, <1>19, <1>20, <1>21, <1>22, <1>23
  DEF Registration, Process
<1> QED BY <1>24, <1>25, <1>26, <1>27 DEF Next

\* Every map, goroutine and call stays well formed
THEOREM LinkTypes == Spec => []TypeOK
  BY InitType, StepType, PTL DEF Spec

-----------------------------------------------------------------------------
(* Who may come to know whom *)

\* A chain of approvals joins k and j
Joined(k, j) == Network!Joined(k, j)

\* The kernels a goroutine or a call of k is about are joined to k
Sound(k, t) == Joined(k, t.to) /\ \A x \in t.list : Joined(k, x)

\* A call that may lead to an entry is made between joined kernels, and a request leads to none
SoundCall(c) ==
  /\ c.kind # "request" => Joined(c.from, c.to) /\ Sound(c.from, c.task)
  /\ c.kind = "request" => c.at \in {"sent", "already", "pending"}

\* The map of a kernel holds only kernels joined to it
KnownIsJoined == \A k, j \in Kernels : kernels[k][j] # "none" => Joined(k, j)

\* A goroutine works only with kernels that are joined to its own, unless it asks for a link
WorkIsJoined == \A k \in Kernels : \A t \in work[k] : t.op # "request" => Sound(k, t)

\* So it is for every call under way
CallsAreJoined == \A c \in reg : SoundCall(c)

\* The part of the inductive invariant that is about approvals
JoinedInv == KnownIsJoined /\ WorkIsJoined /\ CallsAreJoined

\* Being joined is an equivalence
LEMMA JoinedEquivalence ==
  /\ \A k \in Kernels : Joined(k, k)
  /\ \A k, j \in Kernels : Joined(k, j) => Joined(j, k)
  /\ \A k, j, i \in Kernels : Joined(k, j) /\ Joined(j, i) => Joined(k, i)
  BY DEF Joined, Network!Joined

\* Approvals only ever join more kernels
LEMMA JoinedGrows ==
  ASSUME agreed \subseteq agreed', NEW k, NEW j, Joined(k, j)
  PROVE  Joined(k, j)'
<1>1. ASSUME NEW S \in SUBSET Kernels, Network!Closed(S)' PROVE Network!Closed(S)
  BY <1>1 DEF Network!Closed
<1> QED BY <1>1 DEF Joined, Network!Joined

\* An approval joins the two
LEMMA AgreedIsJoined ==
  ASSUME NEW k \in Kernels, NEW j \in Kernels, {k, j} \in agreed'
  PROVE  Joined(k, j)'
<1>1. ASSUME NEW S \in SUBSET Kernels, Network!Closed(S)' PROVE k \in S <=> j \in S
  <2>1. {k, j} \subseteq S \/ {k, j} \cap S = {}
    BY <1>1 DEF Network!Closed
  <2> QED BY <2>1
<1> QED BY <1>1 DEF Joined, Network!Joined

\* What a step has to show: what is new in the maps, among the goroutines and among the calls
\* is about joined kernels
LEMMA JoinedStep ==
  ASSUME JoinedInv, agreed \subseteq agreed',
         \A k, j \in Kernels : kernels'[k][j] # "none" => kernels[k][j] # "none" \/ Joined(k, j)',
         \A k \in Kernels : \A t \in work'[k] : t \in work[k] \/ t.op = "request" \/ Sound(k, t)',
         \A c \in reg' : c \in reg \/ SoundCall(c)'
  PROVE  JoinedInv'
<1>1. \A k, j : Joined(k, j) => Joined(k, j)'
  BY JoinedGrows
<1>2. KnownIsJoined'
  BY <1>1 DEF JoinedInv, KnownIsJoined
<1>3. \A k, t : Sound(k, t) => Sound(k, t)'
  BY <1>1 DEF Sound
<1>4. WorkIsJoined'
  BY <1>3 DEF JoinedInv, WorkIsJoined
<1>5. \A c : SoundCall(c) => SoundCall(c)'
  BY <1>1, <1>3 DEF SoundCall
<1>6. CallsAreJoined'
  BY <1>5 DEF JoinedInv, CallsAreJoined
<1> QED BY <1>2, <1>4, <1>6 DEF JoinedInv

\* Without an approval nobody is joined that was not
LEMMA JoinedSame ==
  ASSUME UNCHANGED agreed
  PROVE  /\ \A k, j : Joined(k, j)' <=> Joined(k, j)
         /\ \A k, t : Sound(k, t)' <=> Sound(k, t)
         /\ \A c : SoundCall(c)' <=> SoundCall(c)
<1>1. \A k, j : Joined(k, j)' <=> Joined(k, j)
  BY DEF Joined, Network!Joined, Network!Closed
<1>2. \A k, t : Sound(k, t)' <=> Sound(k, t)
  BY <1>1 DEF Sound
<1> QED BY <1>1, <1>2 DEF SoundCall

\* What follows a connect is about the same kernels
LEMMA AfterSound ==
  ASSUME NEW k, NEW t \in Tasks, Sound(k, t), NEW ok \in BOOLEAN
  PROVE  \A u \in After(t, ok) : Sound(k, u)
<1>1. CASE t.then = "approved"
  BY <1>1 DEF After, Task, Broadcast, Sound
<1>2. CASE t.then = "introduced"
  BY <1>2 DEF After, Task, Sound
<1>3. CASE t.then = "rest"
  BY <1>3 DEF After, Task, Sound
<1>4. CASE t.then = "peer"
  BY <1>4 DEF After, Task, Sound
<1>5. CASE t.then \notin {"approved", "introduced", "rest", "peer"}
  BY <1>5 DEF After
<1> QED BY <1>1, <1>2, <1>3, <1>4, <1>5

\* At the start nothing is known, and all goroutines ask for a link
LEMMA InitJoined == Init => JoinedInv
<1> SUFFICES ASSUME Init PROVE JoinedInv
  OBVIOUS
<1>1. KnownIsJoined
  BY DEF Init, KnownIsJoined
<1>2. WorkIsJoined
  BY DEF Init, WorkIsJoined, Task
<1>3. CallsAreJoined
  BY DEF Init, CallsAreJoined
<1> QED BY <1>1, <1>2, <1>3 DEF JoinedInv

\* A process that ends forgets, and its calls stay between joined kernels
LEMMA CrashJoined ==
  ASSUME TypeOK, JoinedInv, NEW k \in Kernels, Crash(k)
  PROVE  JoinedInv'
<1>0. UNCHANGED agreed
  BY DEF Crash
<1>1. \A i, j \in Kernels : kernels'[i][j] # "none" => kernels[i][j] # "none"
  BY DEF Crash, TypeOK
<1>2. ASSUME NEW i \in Kernels, NEW t \in work'[i]
      PROVE  t \in work[i] \/ t.op = "request" \/ Sound(i, t)'
  <2>1. CASE i # k
    BY <2>1, <1>2 DEF Crash, TypeOK
  <2>2. CASE i = k
    <3>1. PICK u \in work[k] : u.op = "sync" /\ t = [u EXCEPT !.then = "late"]
      BY <2>2, <1>2 DEF Crash, TypeOK
    <3>2. u \in Tasks /\ Sound(k, u)
      BY <3>1 DEF TypeOK, JoinedInv, WorkIsJoined
    <3>3. t.to = u.to /\ t.list = u.list
      BY <3>1, <3>2 DEF Tasks
    <3> QED BY <2>2, <3>2, <3>3, <1>0, JoinedSame DEF Sound
  <2> QED BY <2>1, <2>2
<1>3. ASSUME NEW c \in reg' PROVE c \in reg \/ SoundCall(c)'
  <2>1. PICK d \in reg : c = IF d.from = k THEN [d EXCEPT !.task.then = "gone"] ELSE d
    BY <1>3 DEF Crash
  <2>2. d \in Calls /\ SoundCall(d)
    BY DEF TypeOK, JoinedInv, CallsAreJoined
  <2>3. CASE d.from = k
    <3>1. /\ c.from = d.from /\ c.to = d.to /\ c.kind = d.kind /\ c.at = d.at
          /\ c.task.to = d.task.to /\ c.task.list = d.task.list
      BY <2>1, <2>2, <2>3 DEF Calls, Tasks
    <3> QED BY <2>2, <3>1, <1>0, JoinedSame DEF SoundCall, Sound
  <2> QED BY <2>1, <2>3
<1> QED BY <1>0, <1>1, <1>2, <1>3, JoinedStep

\* connectToKernelInternal calls a kernel that was joined already
LEMMA ConnectForJoined ==
  ASSUME TypeOK, JoinedInv, NEW k \in Kernels, NEW t, NEW c \in Tasks, Sound(k, c),
         ConnectFor(k, t, c)
  PROVE  JoinedInv'
<1>0. UNCHANGED agreed /\ c.to \in Kernels
  BY DEF ConnectFor, Tasks
<1>1. \A i, j \in Kernels : kernels'[i][j] # "none" => kernels[i][j] # "none"
  <2>1. kernels' = kernels \/ \E j \in Kernels : kernels' = [kernels EXCEPT ![k][j] = "none"]
    BY <1>0 DEF ConnectFor
  <2>2. ASSUME NEW j \in Kernels, kernels' = [kernels EXCEPT ![k][j] = "none"]
        PROVE  \A i, l \in Kernels : kernels'[i][l] # "none" => kernels[i][l] # "none"
    BY <2>2 DEF TypeOK
  <2>3. CASE kernels' = kernels
    BY <2>3
  <2> QED BY <2>1, <2>2, <2>3, Zenon
<1> DEFINE A == After(c, FALSE)
<1>2. Becomes(k, t, {}) \/ Becomes(k, t, A)
  BY DEF ConnectFor
<1>3. \A u \in A : Sound(k, u)
  BY AfterSound
<1> HIDE DEF A
<1>4. \A i \in Kernels : \A u \in work'[i] : u \in work[i] \/ Sound(i, u)'
  BY <1>0, <1>2, <1>3, JoinedSame DEF Becomes, TypeOK
<1>5. ASSUME NEW d \in reg' PROVE d \in reg \/ SoundCall(d)'
  <2>1. d \in reg \/ d = [from |-> k, to |-> c.to, kind |-> "plain", at |-> "sent", task |-> c]
    BY <1>5 DEF ConnectFor, Call
  <2>2. d \in reg \/ SoundCall(d)
    BY <2>1 DEF SoundCall, Sound
  <2> QED BY <1>0, <2>2, JoinedSame
<1> QED BY <1>0, <1>1, <1>4, <1>5, JoinedStep

\* A list sent to a joined kernel names joined kernels
LEMMA SendJoined ==
  ASSUME TypeOK, JoinedInv, NEW k \in Kernels, NEW t \in work[k], t.op # "request",
         NEW list, \A x \in list : Joined(k, x), NEW wait, Send(k, t, list, wait)
  PROVE  \A i \in Kernels : \A u \in work'[i] : u \in work[i] \/ Sound(i, u)
<1>1. Sound(k, t)
  BY DEF JoinedInv, WorkIsJoined
<1>2. Sound(k, Task("sync", t.to, list, wait))
  BY <1>1 DEF Sound, Task
<1> QED BY <1>2 DEF Send, Becomes, TypeOK

\* A call that is advanced stays between the same kernels
LEMMA AdvanceJoined ==
  ASSUME TypeOK, JoinedInv, NEW c \in reg, NEW at, Advance(c, at),
         c.kind = "request" => at \in {"sent", "already", "pending"}
  PROVE  \A d \in reg' : d \in reg \/ SoundCall(d)
<1>1. c \in Calls /\ SoundCall(c)
  BY DEF TypeOK, JoinedInv, CallsAreJoined
<1>2. SoundCall([c EXCEPT !.at = at])
  BY <1>1 DEF SoundCall, Calls
<1> QED BY <1>2 DEF Advance

\* Every step keeps to joined kernels
LEMMA StepJoined == TypeOK /\ JoinedInv /\ [Next]_vars => JoinedInv'
<1> SUFFICES ASSUME TypeOK, JoinedInv, [Next]_vars PROVE JoinedInv'
  OBVIOUS
<1>1. ASSUME NEW k \in Kernels, NEW j \in Kernels, ConnectKernel(k, j) PROVE JoinedInv'
  <2>1. \A i \in Kernels : \A t \in work'[i] : t \in work[i] \/ t.op = "request"
    BY <1>1 DEF ConnectKernel, Task, TypeOK
  <2> QED BY <1>1, <2>1, JoinedStep DEF ConnectKernel
<1>2. ASSUME NEW k \in Kernels, NEW j \in Kernels, DisconnectFromKernel(k, j) PROVE JoinedInv'
  <2>1. CASE Crash(k)
    BY <2>1, CrashJoined
  <2>2. CASE /\ kernels' = [kernels EXCEPT ![k][j] = "none"]
             /\ UNCHANGED <<pending, work, reg, up, agreed>>
    <3>1. \A i, l \in Kernels : kernels'[i][l] # "none" => kernels[i][l] # "none"
      BY <2>2 DEF TypeOK
    <3> QED BY <2>2, <3>1, JoinedStep
  <2> QED BY <1>2, <2>1, <2>2 DEF DisconnectFromKernel
<1>3. ASSUME NEW k \in Kernels, Stop(k) PROVE JoinedInv'
  BY <1>3, CrashJoined DEF Stop
<1>4. ASSUME NEW k \in Kernels, NEW j \in Kernels, EnsureKernelConnected(k, j) PROVE JoinedInv'
  <2>1. \A i, l \in Kernels : kernels'[i][l] # "none" => kernels[i][l] # "none"
    BY <1>4 DEF EnsureKernelConnected, TypeOK
  <2> QED BY <1>4, <2>1, JoinedStep DEF EnsureKernelConnected
<1>5. ASSUME NEW k \in Kernels, NEW r \in pending[k], ApprovePendingRequest(k, r) PROVE JoinedInv'
  <2> DEFINE connect == Task("connect", r.from, {}, "approved")
  <2>1. r.from \in Kernels /\ {k, r.from} \in agreed' /\ agreed \subseteq agreed'
    BY <1>5 DEF TypeOK, ApprovePendingRequest
  <2>2. Joined(k, r.from)'
    BY <2>1, AgreedIsJoined
  <2>3. connect.to = r.from /\ connect.list = {}
    BY DEF Task
  <2>4. Sound(k, connect)'
    BY <2>2, <2>3 DEF Sound
  <2>5. \A i \in Kernels : \A t \in work'[i] : t \in work[i] \/ Sound(i, t)'
    <3>1. UNCHANGED work \/ work' = [work EXCEPT ![k] = @ \cup {connect}]
      BY <1>5 DEF ApprovePendingRequest
    <3> QED BY <3>1, <2>4 DEF TypeOK
  <2>6. \A c \in reg' : c \in reg \/ SoundCall(c)'
    <3>1. \A c \in reg' : \/ c \in reg
                          \/ c = [from |-> k, to |-> r.from, kind |-> "approve", at |-> "sent",
                                  task |-> connect]
      BY <1>5 DEF ApprovePendingRequest, SendApprove
    <3> HIDE DEF connect
    <3> QED BY <3>1, <2>2, <2>4 DEF SoundCall
  <2> HIDE DEF connect
  <2>7. UNCHANGED kernels
    BY <1>5 DEF ApprovePendingRequest
  <2> QED BY <2>1, <2>5, <2>6, <2>7, JoinedStep
<1>6. ASSUME NEW k \in Kernels, NEW t \in work[k], RequestLink(k, t) PROVE JoinedInv'
  <2>1. \A i \in Kernels : \A u \in work'[i] : u \in work[i]
    BY <1>6 DEF RequestLink, Becomes, TypeOK
  <2>2. \A c \in reg' : c \in reg \/ (c.kind = "request" /\ c.at = "sent")
    BY <1>6 DEF RequestLink, Call
  <2>3. \A c \in reg' : c \in reg \/ SoundCall(c)'
    BY <2>2 DEF SoundCall
  <2> QED BY <1>6, <2>1, <2>3, JoinedStep DEF RequestLink
<1>7. ASSUME NEW k \in Kernels, NEW t \in work[k], Connect(k, t) PROVE JoinedInv'
  BY <1>7, CallType, ConnectForJoined DEF Connect, JoinedInv, WorkIsJoined
<1>8. ASSUME NEW k \in Kernels, NEW t \in work[k], NEW j \in t.list, DialNew(k, t, j)
      PROVE  JoinedInv'
  <2>1. Task("connect", j, t.list \ {j}, "rest") \in Tasks
    BY CallType, TaskType
  <2>2. Sound(k, t)
    BY <1>8 DEF DialNew, JoinedInv, WorkIsJoined
  <2>3. Sound(k, Task("connect", j, t.list \ {j}, "rest"))
    BY <2>2 DEF Sound, Task
  <2> QED BY <1>8, <2>1, <2>3, ConnectForJoined DEF DialNew
<1>9. ASSUME NEW k \in Kernels, NEW t \in work[k], BroadcastKnownKernels(k, t) PROVE JoinedInv'
  <2>1. \A x \in Known(k) \ {t.to} : Joined(k, x)
    BY DEF Known, JoinedInv, KnownIsJoined
  <2>2. CASE Send(k, t, Known(k) \ {t.to}, "patient")
    <3>1. \A i \in Kernels : \A u \in work'[i] : u \in work[i] \/ Sound(i, u)
      BY <1>9, <2>1, <2>2, SendJoined DEF BroadcastKnownKernels
    <3> QED BY <1>9, <3>1, JoinedSame, JoinedStep DEF BroadcastKnownKernels
  <2>3. CASE Becomes(k, t, {})
    <3>1. \A i \in Kernels : \A u \in work'[i] : u \in work[i]
      BY <2>3 DEF Becomes, TypeOK
    <3> QED BY <1>9, <3>1, JoinedStep DEF BroadcastKnownKernels
  <2> QED BY <1>9, <2>2, <2>3 DEF BroadcastKnownKernels
<1>10. ASSUME NEW k \in Kernels, NEW t \in work[k], SyncKnownKernelsToKernel(k, t) PROVE JoinedInv'
  <2>1. \A x \in {k} \cup (Known(k) \ {t.to}) : Joined(k, x)
    BY JoinedEquivalence DEF Known, JoinedInv, KnownIsJoined
  <2>2. \A i \in Kernels : \A u \in work'[i] : u \in work[i] \/ Sound(i, u)
    BY <1>10, <2>1, SendJoined DEF SyncKnownKernelsToKernel
  <2> QED BY <1>10, <2>2, JoinedSame, JoinedStep DEF SyncKnownKernelsToKernel
<1>11. ASSUME NEW k \in Kernels, NEW t \in work[k], SyncPeerKernels(k, t) PROVE JoinedInv'
  <2> DEFINE list == {j \in Known(k) \ {t.to} : ~Linked(k, j)}
  <2>1. \A x \in list : Joined(k, x)
    BY DEF Known, JoinedInv, KnownIsJoined
  <2>2. /\ t.op = "syncPeer" /\ UNCHANGED <<kernels, reg, agreed>>
        /\ \/ Send(k, t, list, "impatient")
           \/ Becomes(k, t, {Task("connect", t.to, {}, "peer")})
           \/ Becomes(k, t, {})
    BY <1>11 DEF SyncPeerKernels
  <2>3. Sound(k, t)
    BY <2>2 DEF JoinedInv, WorkIsJoined
  <2>4. Sound(k, Task("connect", t.to, {}, "peer"))
    BY <2>3 DEF Sound, Task
  <2> HIDE DEF list
  <2>5. \A i \in Kernels : \A u \in work'[i] : u \in work[i] \/ Sound(i, u)
    <3>1. CASE Send(k, t, list, "impatient")
      BY <3>1, <2>1, <2>2, SendJoined
    <3>2. CASE Becomes(k, t, {Task("connect", t.to, {}, "peer")})
      BY <3>2, <2>4 DEF Becomes, TypeOK
    <3>3. CASE Becomes(k, t, {})
      BY <3>3 DEF Becomes, TypeOK
    <3> QED BY <2>2, <3>1, <3>2, <3>3
  <2> QED BY <2>2, <2>5, JoinedSame, JoinedStep
<1>12. ASSUME NEW k \in Kernels, NEW t \in work[k], SyncKnownKernels(k, t) PROVE JoinedInv'
  <2> DEFINE j == t.to
             new == {x \in t.list \ {j} : kernels[j][x] = "none"}
             answer == (new \cup (Known(j) \ (t.list \cup {k}))) \ {k}
             A == IF answer = {} \/ t.then = "late" THEN {} ELSE {Task("dial", j, answer, "rest")}
             B == {Task("connect", x, {}, "introduced") : x \in new}
  <2>1. j \in Kernels /\ new \subseteq Kernels /\ t.list \subseteq Kernels
    BY CallType
  <2>2. Joined(k, j) /\ \A x \in t.list : Joined(k, x)
    BY <1>12 DEF SyncKnownKernels, JoinedInv, WorkIsJoined, Sound
  <2>3. \A x \in new : Joined(j, x)
    BY <2>1, <2>2, JoinedEquivalence
  <2>4. \A x \in answer : Joined(k, x)
    <3>1. \A x \in Known(j) : x \in Kernels /\ Joined(j, x)
      BY <2>1 DEF Known, JoinedInv, KnownIsJoined
    <3> QED BY <3>1, <2>1, <2>2, JoinedEquivalence
  <2>5. \A u \in A : Sound(k, u)
    BY <2>2, <2>4 DEF Sound, Task
  <2>6. \A u \in B : Sound(j, u)
    BY <2>3 DEF Sound, Task
  <2>7. /\ kernels' = [kernels EXCEPT ![j] = [x \in Kernels |-> IF x \in new THEN "known" ELSE @[x]]]
        /\ work' = [work EXCEPT ![k] = (@ \ {t}) \cup A, ![j] = @ \cup B]
        /\ UNCHANGED <<reg, agreed>>
    BY <1>12 DEF SyncKnownKernels
  <2> HIDE DEF j, new, A, B
  <2>8. \A i, l \in Kernels : kernels'[i][l] # "none" => kernels[i][l] # "none" \/ Joined(i, l)
    BY <2>1, <2>3, <2>7 DEF TypeOK
  <2>9. \A i \in Kernels : \A u \in work'[i] : u \in work[i] \/ Sound(i, u)
    BY <2>1, <2>5, <2>6, <2>7 DEF TypeOK
  <2> QED BY <2>7, <2>8, <2>9, JoinedSame, JoinedStep
<1>13. ASSUME NEW k \in Kernels, NEW t \in work[k], SyncTimeout(k, t) PROVE JoinedInv'
  <2>1. Sound(k, t) /\ t \in Tasks
    BY <1>13, CallType DEF SyncTimeout, JoinedInv, WorkIsJoined
  <2>2. Sound(k, [t EXCEPT !.then = "late"])
    BY <2>1 DEF Sound, Tasks
  <2>3. \A i \in Kernels : \A u \in work'[i] : u \in work[i] \/ Sound(i, u)
    BY <1>13, <2>2 DEF SyncTimeout, Becomes, TypeOK
  <2> QED BY <1>13, <2>3, JoinedSame, JoinedStep DEF SyncTimeout
<1>14. ASSUME NEW k \in Kernels, NEW t \in work[k], SyncFails(k, t) PROVE JoinedInv'
  <2>1. \A i \in Kernels : \A u \in work'[i] : u \in work[i]
    BY <1>14 DEF SyncFails, Becomes, TypeOK
  <2> QED BY <1>14, <2>1, JoinedStep DEF SyncFails
<1>15. ASSUME NEW c \in reg, RegisterCheck(c) PROVE JoinedInv'
  <2>1. \A d \in reg' : d \in reg \/ SoundCall(d)
    BY <1>15, AdvanceJoined DEF RegisterCheck
  <2> QED BY <1>15, <2>1, JoinedSame, JoinedStep DEF RegisterCheck
<1>16. ASSUME NEW c \in reg, c.at \in {"checked", "stored", "client"} PROVE
              Joined(c.to, c.from) /\ c.kind # "request" /\ c.to \in Kernels /\ c.from \in Kernels
  BY <1>16, CallType, JoinedEquivalence DEF JoinedInv, CallsAreJoined, SoundCall
<1>17. ASSUME NEW c \in reg, RegisterStore(c) PROVE JoinedInv'
  <2>1. \A d \in reg' : d \in reg \/ SoundCall(d)
    BY <1>17, <1>16, AdvanceJoined DEF RegisterStore
  <2>2. \A i, l \in Kernels : kernels'[i][l] # "none" => kernels[i][l] # "none" \/ Joined(i, l)
    BY <1>17, <1>16 DEF RegisterStore, TypeOK
  <2> QED BY <1>17, <2>1, <2>2, JoinedSame, JoinedStep DEF RegisterStore
<1>18. ASSUME NEW c \in reg, RegisterClient(c) PROVE JoinedInv'
  <2>1. \A d \in reg' : d \in reg \/ SoundCall(d)
    BY <1>18, <1>16, AdvanceJoined DEF RegisterClient
  <2>2. \A i, l \in Kernels : kernels'[i][l] # "none" => kernels[i][l] # "none" \/ Joined(i, l)
    BY <1>18, <1>16 DEF RegisterClient, CreateKernelClient, TypeOK
  <2>3. Sound(c.to, Broadcast(c.from))
    BY <1>18, <1>16 DEF RegisterClient, Broadcast, Task, Sound
  <2>4. \A i \in Kernels : \A u \in work'[i] : u \in work[i] \/ Sound(i, u)
    BY <1>18, <1>16, <2>3 DEF RegisterClient, TypeOK
  <2> QED BY <1>18, <2>1, <2>2, <2>4, JoinedSame, JoinedStep DEF RegisterClient
<1>19. ASSUME NEW c \in reg, RegisterAnswer(c) PROVE JoinedInv'
  <2>1. \A d \in reg' : d \in reg \/ SoundCall(d)
    BY <1>19, <1>16, AdvanceJoined DEF RegisterAnswer
  <2> QED BY <1>19, <2>1, JoinedSame, JoinedStep DEF RegisterAnswer
<1>20. ASSUME NEW c \in reg, RequestReturns(c) PROVE JoinedInv'
  BY <1>20, JoinedStep DEF RequestReturns
<1>21. ASSUME NEW c \in reg, c.kind # "request"
       PROVE  /\ c.task \in Tasks /\ c.from \in Kernels /\ c.to \in Kernels
              /\ Joined(c.from, c.to) /\ Sound(c.from, c.task)
  BY <1>21, CallType DEF JoinedInv, CallsAreJoined, SoundCall
<1>22. ASSUME NEW c \in reg, ConnectReturns(c) PROVE JoinedInv'
  <2>0. /\ c.task \in Tasks /\ c.from \in Kernels /\ c.to \in Kernels
        /\ Joined(c.from, c.to) /\ Sound(c.from, c.task)
    BY <1>22, <1>21 DEF ConnectReturns
  <2>1. \A i, l \in Kernels : kernels'[i][l] # "none" => kernels[i][l] # "none" \/ Joined(i, l)
    BY <1>22, <2>0 DEF ConnectReturns, TypeOK
  <2>2. Sound(c.from, Broadcast(c.to)) /\ Sound(c.from, SyncPeer(c.to))
    BY <2>0 DEF Broadcast, SyncPeer, Task, Sound
  <2>3. \A u \in After(c.task, TRUE) : Sound(c.from, u)
    BY <2>0, AfterSound
  <2>4. \A i \in Kernels : \A u \in work'[i] : u \in work[i] \/ Sound(i, u)
    BY <1>22, <2>0, <2>2, <2>3 DEF ConnectReturns, TypeOK
  <2> QED BY <1>22, <2>1, <2>4, JoinedSame, JoinedStep DEF ConnectReturns
<1>23. ASSUME NEW c \in reg, ApproveReturns(c) PROVE JoinedInv'
  <2>1. \A i \in Kernels : \A u \in work'[i] : u \in work[i] \/ Sound(i, u)
    BY <1>23, <1>21 DEF ApproveReturns, TypeOK
  <2> QED BY <1>23, <2>1, JoinedSame, JoinedStep DEF ApproveReturns
<1>24. ASSUME NEW c \in reg, CallFails(c) PROVE JoinedInv'
  <2>1. ASSUME NEW i \in Kernels, NEW u \in work'[i] PROVE u \in work[i] \/ Sound(i, u)
    <3>1. u \in work[i] \/ (i = c.from /\ c.kind = "plain" /\ u \in After(c.task, FALSE))
      BY <1>24, <2>1, CallType DEF CallFails, TypeOK
    <3>2. CASE i = c.from /\ c.kind = "plain" /\ u \in After(c.task, FALSE)
      BY <3>2, <1>21, AfterSound
    <3> QED BY <3>1, <3>2
  <2> QED BY <1>24, <2>1, JoinedSame, JoinedStep DEF CallFails
<1>25. ASSUME NEW k \in Kernels, Start(k) PROVE JoinedInv'
  <2>1. \A i \in Kernels : \A t \in work'[i] : t \in work[i] \/ t.op = "request"
    BY <1>25 DEF Start, Task, TypeOK
  <2> QED BY <1>25, <2>1, JoinedStep DEF Start
<1>26. CASE UNCHANGED vars
  BY <1>26, JoinedStep DEF vars
<1>27. CASE Command \/ Message \/ Approve
  BY <1>27, <1>1, <1>2, <1>3, <1>4, <1>5 DEF Command, Message, Approve
<1>28. CASE Goroutine
  BY <1>28, <1>6, <1>7, <1>8, <1>9, <1>10, <1>11, <1>12, <1>13, <1>14 DEF Goroutine
<1>29. CASE Registration \/ Process
  BY <1>29, <1>15, <1>17, <1>18, <1>19, <1>20, <1>22, <1>23, <1>24, <1>25
  DEF Registration, Process
<1> QED BY <1>26, <1>27, <1>28, <1>29 DEF Next

\* The inductive invariant of the first two results
LinkInv == TypeOK /\ JoinedInv

\* The invariant holds throughout
LEMMA LinkInvariant == Spec => []LinkInv
<1>1. Init => LinkInv
  BY InitType, InitJoined DEF LinkInv
<1>2. LinkInv /\ [Next]_vars => LinkInv'
  BY StepType, StepJoined DEF LinkInv
<1> QED BY <1>1, <1>2, PTL DEF Spec

\* No kernel knows, or is known by, one that no chain of approvals joins it to
THEOREM OnlyAgreedLinks == Spec => []LinkWasAgreed
<1>1. LinkInv => LinkWasAgreed
  BY DEF LinkInv, TypeOK, JoinedInv, KnownIsJoined, LinkWasAgreed, Joined, Network!Joined
<1> QED BY <1>1, LinkInvariant, PTL

-----------------------------------------------------------------------------
(* The interconnection implements KernelNetwork *)

\* Step by step: an approval changes no map, and everything else the map of one kernel at most
OneAtATime ==
  \/ UNCHANGED kernels /\ \E k, j \in Kernels : agreed' = agreed \cup {{k, j}}
  \/ UNCHANGED agreed /\ \E k \in Kernels : \A i \in Kernels \ {k} : kernels'[i] = kernels[i]

\* Every action is one of the two
LEMMA OneMapAtATime == TypeOK /\ Next => OneAtATime
<1> SUFFICES ASSUME TypeOK, Next PROVE OneAtATime
  OBVIOUS
<1> USE DEF OneAtATime
<1>0. ASSUME NEW k \in Kernels, Crash(k) PROVE OneAtATime
  BY <1>0 DEF Crash, TypeOK
<1>1. CASE Command
  <2>1. PICK k \in Kernels : \/ \E j \in Kernels \ {k} : ConnectKernel(k, j) \/ DisconnectFromKernel(k, j)
                             \/ Stop(k)
    BY <1>1 DEF Command
  <2>2. \/ Crash(k)
        \/ UNCHANGED agreed /\ UNCHANGED kernels
        \/ UNCHANGED agreed /\ \E j \in Kernels : kernels' = [kernels EXCEPT ![k][j] = "none"]
    BY <2>1 DEF ConnectKernel, DisconnectFromKernel, Stop
  <2> QED BY <1>0, <2>2 DEF TypeOK
<1>2. CASE Message
  BY <1>2 DEF Message, EnsureKernelConnected, TypeOK
<1>3. CASE Approve
  <2>1. PICK k \in Kernels : \E r \in pending[k] : ApprovePendingRequest(k, r)
    BY <1>3 DEF Approve
  <2>2. PICK r \in pending[k] : ApprovePendingRequest(k, r)
    BY <2>1
  <2>3. r.from \in Kernels
    BY DEF TypeOK
  <2> QED BY <2>2, <2>3 DEF ApprovePendingRequest
<1>4. CASE Goroutine
  <2>0. PICK k \in Kernels : \E t \in work[k] :
          \/ RequestLink(k, t) \/ Connect(k, t)
          \/ \E j \in t.list : DialNew(k, t, j)
          \/ BroadcastKnownKernels(k, t) \/ SyncKnownKernelsToKernel(k, t) \/ SyncPeerKernels(k, t)
          \/ SyncKnownKernels(k, t) \/ SyncTimeout(k, t) \/ SyncFails(k, t)
    BY <1>4 DEF Goroutine
  <2>1. PICK t \in work[k] :
          \/ RequestLink(k, t) \/ Connect(k, t)
          \/ \E j \in t.list : DialNew(k, t, j)
          \/ BroadcastKnownKernels(k, t) \/ SyncKnownKernelsToKernel(k, t) \/ SyncPeerKernels(k, t)
          \/ SyncKnownKernels(k, t) \/ SyncTimeout(k, t) \/ SyncFails(k, t)
    BY <2>0
  <2>2. ASSUME NEW c, ConnectFor(k, t, c) PROVE OneAtATime
    <3>1. UNCHANGED agreed /\ (UNCHANGED kernels \/ kernels' = [kernels EXCEPT ![k][c.to] = "none"])
      BY <2>2 DEF ConnectFor
    <3> QED BY <3>1 DEF TypeOK
  <2>3. CASE Connect(k, t)
    BY <2>2, <2>3 DEF Connect
  <2>4. CASE \E j \in t.list : DialNew(k, t, j)
    BY <2>2, <2>4 DEF DialNew
  <2>5. CASE SyncKnownKernels(k, t)
    BY <2>5, CallType DEF SyncKnownKernels, TypeOK
  <2>6. CASE RequestLink(k, t) \/ SyncTimeout(k, t) \/ SyncFails(k, t)
    BY <2>6 DEF RequestLink, SyncTimeout, SyncFails
  <2>7. CASE BroadcastKnownKernels(k, t) \/ SyncKnownKernelsToKernel(k, t) \/ SyncPeerKernels(k, t)
    BY <2>7 DEF BroadcastKnownKernels, SyncKnownKernelsToKernel, SyncPeerKernels
  <2> QED BY <2>1, <2>3, <2>4, <2>5, <2>6, <2>7
<1>5. CASE Registration
  <2>1. PICK c \in reg :
          \/ RegisterCheck(c) \/ RegisterStore(c) \/ RegisterClient(c) \/ RegisterAnswer(c)
          \/ RequestReturns(c) \/ ConnectReturns(c) \/ ApproveReturns(c) \/ CallFails(c)
    BY <1>5 DEF Registration
  <2>2. c.from \in Kernels /\ c.to \in Kernels
    BY CallType
  <2>3. CASE RegisterCheck(c) \/ RegisterAnswer(c) \/ RequestReturns(c) \/ ApproveReturns(c) \/ CallFails(c)
    BY <2>2, <2>3 DEF RegisterCheck, RegisterAnswer, RequestReturns, ApproveReturns, CallFails
  <2>4. CASE RegisterStore(c) \/ RegisterClient(c) \/ ConnectReturns(c)
    BY <2>2, <2>4 DEF RegisterStore, RegisterClient, CreateKernelClient, ConnectReturns, TypeOK
  <2> QED BY <2>1, <2>3, <2>4
<1>6. CASE Process
  BY <1>6 DEF Process, Start
<1> QED BY <1>1, <1>2, <1>3, <1>4, <1>5, <1>6 DEF Next

\* Whatever is asked, approved, told on, dialled, lost or restarted, and in whatever order, the
\* interconnection only takes steps the promise allows: an approval joins two kernels, or one
\* kernel revises what it knows by kernels it is joined to
THEOREM LinkRefinesNetwork == Spec => NetworkSpec
<1>1. Init => Network!Init
  BY DEF Init, Network!Init, Known
<1>2. LinkInv /\ LinkInv' /\ [Next]_vars => [Network!Next]_(Network!vars)
  <2> SUFFICES ASSUME LinkInv, LinkInv', [Next]_vars PROVE [Network!Next]_(Network!vars)
    OBVIOUS
  <2>1. CASE UNCHANGED vars
    BY <2>1 DEF vars, Network!vars, Known
  <2>2. CASE UNCHANGED kernels /\ \E k, j \in Kernels : agreed' = agreed \cup {{k, j}}
    BY <2>2 DEF Network!Next, Network!Agree, Known
  <2>3. ASSUME UNCHANGED agreed, NEW k \in Kernels,
               \A i \in Kernels \ {k} : kernels'[i] = kernels[i]
        PROVE  Network!Next
    <3>1. \A i \in Kernels : Known(i) \subseteq Kernels /\ Known(i)' \subseteq Kernels
      BY DEF Known
    <3>2. \A i \in Kernels \ {k} : Known(i)' = Known(i)
      BY <2>3 DEF Known
    <3>3. \A j \in Known(k)' : Joined(k, j)
      BY <2>3, JoinedSame DEF LinkInv, JoinedInv, KnownIsJoined, Known
    <3>4. Network!Revise(k)
      BY <2>3, <3>1, <3>2, <3>3 DEF Network!Revise, Joined
    <3> QED BY <3>4 DEF Network!Next
  <2> QED BY <2>1, <2>2, <2>3, OneMapAtATime DEF LinkInv, OneAtATime
<1> QED BY <1>1, <1>2, LinkInvariant, PTL DEF Spec, NetworkSpec, Network!Spec

-----------------------------------------------------------------------------
(* Links are mutual when all is quiet *)

\* Goroutine t of k tells j of k, or dials j
Tells(k, t, j) ==
  /\ t.to = j
  /\ \/ t.op = "connect" /\ t.then = "introduced"
     \/ t.op = "syncTo"
     \/ t.op = "sync" /\ k \in t.list
Dials(t, j) == t.op = "connect" /\ t.to = j

\* Something is under way after which j has an entry for k
Mending(k, j) ==
  \/ \E t \in work[k] : Tells(k, t, j)
  \/ \E t \in work[j] : Dials(t, k)
  \/ \E c \in reg : c.from = j /\ c.to = k /\ c.kind # "request"
  \/ \E c \in reg : c.from = k /\ c.to = j /\ c.kind = "plain" /\ c.at \in {"sent", "checked"}

\* j has an entry for k, or will have one
Covered(k, j) == kernels[j][k] # "none" \/ Mending(k, j)

\* All kernels run, and nobody's calls have lost their caller
AllRun ==
  /\ up = Kernels
  /\ \A k \in Kernels : \A t \in work[k] : t.then # "gone"
  /\ \A c \in reg : c.task.then # "gone"

\* A call has its caller, an approval is followed by a connect to the same kernel, and a request
\* for a link is not entered in the map
FitCall(c) ==
  /\ c.task.then # "gone"
  /\ c.kind = "approve" => c.task.op = "connect" /\ c.task.to = c.to
  /\ c.kind = "request" => c.at \in {"sent", "already", "pending"}

CallsFit == \A c \in reg : FitCall(c)

\* An entry without a Client is about to get one or to be deleted
KnownIsPending ==
  \A k, j \in Kernels : kernels[k][j] = "known" =>
    \/ \E t \in work[k] : Dials(t, j)
    \/ \E c \in reg : c.from = j /\ c.to = k /\ c.at = "stored"

\* Who has an entry has one at the other kernel too, or will have; so has who is being registered
EntryIsCovered == \A k, j \in Kernels : k # j /\ kernels[k][j] # "none" => Covered(k, j)
CallIsCovered == \A c \in reg : c.kind = "plain" /\ c.from # c.to => Covered(c.from, c.to)

\* The inductive invariant of the runs without faults
Mutual == AllRun /\ CallsFit /\ KnownIsPending /\ EntryIsCovered /\ CallIsCovered

\* As long as nothing is disconnected or stopped
MutualInv == used.faults = 0 => Mutual

\* Whoever is served by goroutine t of k, or by call c, is served
TaskServed(k, t) ==
  \A j \in Kernels : k # j => /\ Tells(k, t, j) => Covered(k, j)
                              /\ Dials(t, j) => Covered(j, k)
CallServed(c) ==
  c.from # c.to =>
    /\ c.kind # "request" => Covered(c.to, c.from)
    /\ c.kind = "plain" /\ c.at \in {"sent", "checked"} => Covered(c.from, c.to)

\* One that neither tells nor dials serves nobody
LEMMA OthersServe ==
  ASSUME NEW k, NEW t, t.op \notin {"connect", "syncTo", "sync"}
  PROVE  TaskServed(k, t)'
  BY DEF TaskServed, Tells, Dials

\* What a step has to show: an entry, a goroutine or a call that ends has done its part
LEMMA CoveredStays ==
  ASSUME TypeOK, TypeOK',
         \A k, j \in Kernels : k # j /\ kernels[j][k] # "none" => Covered(k, j)',
         \A k \in Kernels : \A t \in work[k] : t \in work'[k] \/ TaskServed(k, t)',
         \A c \in reg : c \in reg' \/ CallServed(c)'
  PROVE  \A k, j \in Kernels : k # j /\ Covered(k, j) => Covered(k, j)'
<1>1. \A k \in Kernels : \A t \in work[k] : TaskServed(k, t)'
  <2>1. TypeOK' => \A k \in Kernels : \A t \in work'[k] : TaskServed(k, t)'
    BY DEF TaskServed, Covered, Mending
  <2> QED BY <2>1
<1>2. \A c \in reg : CallServed(c)'
  <2>1. \A c \in reg' : CallServed(c)'
    BY DEF CallServed, Covered, Mending
  <2> QED BY <2>1
<1> SUFFICES ASSUME NEW k \in Kernels, NEW j \in Kernels, k # j, Covered(k, j)
             PROVE  Covered(k, j)'
  OBVIOUS
<1>3. CASE kernels[j][k] # "none"
  BY <1>3
<1>4. ASSUME NEW t \in work[k], Tells(k, t, j) PROVE Covered(k, j)'
  BY <1>4, <1>1 DEF TaskServed
<1>5. ASSUME NEW t \in work[j], Dials(t, k) PROVE Covered(k, j)'
  BY <1>5, <1>1 DEF TaskServed
<1>6. ASSUME NEW c \in reg, c.from = j, c.to = k, c.kind # "request" PROVE Covered(k, j)'
  BY <1>6, <1>2 DEF CallServed
<1>7. ASSUME NEW c \in reg, c.from = k, c.to = j, c.kind = "plain", c.at \in {"sent", "checked"}
      PROVE  Covered(k, j)'
  BY <1>7, <1>2 DEF CallServed
<1> QED BY <1>3, <1>4, <1>5, <1>6, <1>7 DEF Covered, Mending

\* ... and that the entries and calls it makes are covered, before the step or after it
LEMMA MutualStep ==
  ASSUME TypeOK, TypeOK', Mutual, up' = Kernels,
         \A k \in Kernels : \A t \in work'[k] : t \in work[k] \/ t.then # "gone",
         \A c \in reg' : c \in reg \/ FitCall(c),
         KnownIsPending',
         \A k, j \in Kernels : k # j /\ kernels[j][k] # "none" => Covered(k, j)',
         \A k \in Kernels : \A t \in work[k] : t \in work'[k] \/ TaskServed(k, t)',
         \A c \in reg : c \in reg' \/ CallServed(c)',
         \A k, j \in Kernels : k # j /\ kernels'[k][j] # "none" =>
           kernels[k][j] # "none" \/ Covered(k, j) \/ Covered(k, j)',
         \A c \in reg' : c.kind = "plain" /\ c.from # c.to =>
           Covered(c.from, c.to) \/ Covered(c.from, c.to)'
  PROVE  Mutual'
<1>1. \A k, j \in Kernels : k # j /\ Covered(k, j) => Covered(k, j)'
  BY CoveredStays
<1>2. AllRun' /\ CallsFit'
  BY DEF Mutual, AllRun, CallsFit, FitCall
<1>3. EntryIsCovered'
  BY <1>1 DEF Mutual, EntryIsCovered
<1>4. CallIsCovered'
  <2>1. \A c \in reg' : c.from \in Kernels /\ c.to \in Kernels
    BY DEF TypeOK, Calls
  <2> QED BY <1>1, <2>1 DEF CallIsCovered
<1> QED BY <1>2, <1>3, <1>4 DEF Mutual

\* A step that only starts and ends goroutines
LEMMA WorkStep ==
  ASSUME TypeOK, TypeOK', Mutual, UNCHANGED <<kernels, reg, up>>,
         \A k \in Kernels : \A t \in work'[k] : t \in work[k] \/ t.then # "gone",
         \A k \in Kernels : \A t \in work[k] : t \in work'[k] \/ (TaskServed(k, t)' /\ t.op # "connect")
  PROVE  Mutual'
<1>1. KnownIsPending'
  BY DEF Mutual, KnownIsPending, Dials
<1>2. up' = Kernels
  BY DEF Mutual, AllRun
<1>3. \A k, j \in Kernels : k # j /\ kernels[j][k] # "none" => Covered(k, j)'
  BY DEF Covered
<1>4. \A c \in reg' : c.kind = "plain" /\ c.from # c.to => Covered(c.from, c.to)
  BY DEF Mutual, CallIsCovered
<1> QED BY <1>1, <1>2, <1>3, <1>4, MutualStep

\* A call is made
LEMMA NewCallStep ==
  ASSUME TypeOK, TypeOK', Mutual, NEW c, FitCall(c), reg' = reg \cup {c},
         c.kind # "plain", UNCHANGED <<kernels, up>>,
         \A k \in Kernels : \A t \in work'[k] : t \in work[k] \/ t.then # "gone",
         \A k \in Kernels : \A t \in work[k] : t \in work'[k] \/ (TaskServed(k, t)' /\ t.op # "connect")
  PROVE  Mutual'
<1>1. KnownIsPending'
  BY DEF Mutual, KnownIsPending, Dials
<1>2. up' = Kernels
  BY DEF Mutual, AllRun
<1>3. \A k, j \in Kernels : k # j /\ kernels[j][k] # "none" => Covered(k, j)'
  BY DEF Covered
<1>4. \A d \in reg' : d.kind = "plain" /\ d.from # d.to => Covered(d.from, d.to)
  BY DEF Mutual, CallIsCovered
<1> QED BY <1>1, <1>2, <1>3, <1>4, MutualStep

\* What follows a connect does not lose its caller
LEMMA AfterRuns ==
  ASSUME NEW t \in Tasks, NEW ok \in BOOLEAN
  PROVE  /\ \A u \in After(t, ok) : u.then # "gone"
         /\ t.then = "introduced" => \E u \in After(t, ok) : u.op = "syncTo" /\ u.to = t.to
<1>1. CASE t.then = "approved"
  BY <1>1 DEF After, Task, Broadcast
<1>2. CASE t.then = "introduced"
  <2>1. After(t, ok) = {Task("syncTo", t.to, {}, "end")}
    BY <1>2 DEF After
  <2> QED BY <2>1 DEF Task
<1>3. CASE t.then = "rest"
  BY <1>3 DEF After, Task
<1>4. CASE t.then = "peer"
  BY <1>4 DEF After, Task
<1>5. CASE t.then \notin {"approved", "introduced", "rest", "peer"}
  BY <1>5 DEF After
<1> QED BY <1>1, <1>2, <1>3, <1>4, <1>5

\* connectToKernelInternal: the entry is there and stays, or is deleted and a call made that
\* will have it made again on both sides
LEMMA ConnectForMutual ==
  ASSUME TypeOK, TypeOK', Mutual, NEW k \in Kernels, NEW t \in work[k], NEW c \in Tasks,
         c.op = "connect", c.then # "gone", t = c \/ t.op = "dial", ConnectFor(k, t, c)
  PROVE  Mutual'
<1>0. c.to \in Kernels /\ up' = Kernels /\ t \in Tasks
  BY CallType DEF Tasks, ConnectFor, Mutual, AllRun
<1>1. CASE Linked(k, c.to)
  <2> DEFINE A == After(c, FALSE)
  <2>1. Becomes(k, t, A) /\ UNCHANGED <<kernels, reg>>
    BY <1>1 DEF ConnectFor
  <2>2. /\ \A u \in A : u.then # "gone"
        /\ c.then = "introduced" => \E u \in A : u.op = "syncTo" /\ u.to = c.to
    BY AfterRuns
  <2> HIDE DEF A
  <2>3. \A i \in Kernels : \A u \in work'[i] : u \in work[i] \/ u.then # "gone"
    BY <2>1, <2>2 DEF Becomes, TypeOK
  <2>4. \A i \in Kernels : \A u \in work[i] : u \in work'[i] \/ (i = k /\ u = t)
    BY <2>1 DEF Becomes, TypeOK
  <2>5. A \subseteq work'[k]
    BY <2>1 DEF Becomes, TypeOK
  <2>6. TaskServed(k, t)'
    <3>1. CASE t.op = "dial"
      BY <3>1, OthersServe
    <3>2. CASE t = c
      <4> SUFFICES ASSUME NEW j \in Kernels, k # j, t.to = j
                   PROVE  /\ Tells(k, t, j) => Covered(k, j)'
                          /\ Covered(j, k)'
        BY DEF TaskServed, Tells, Dials
      <4>1. Covered(j, k)'
        BY <1>1, <3>2, <2>1 DEF Covered, Linked
      <4>2. ASSUME Tells(k, t, j) PROVE Covered(k, j)'
        <5>1. c.then = "introduced" /\ c.to = j
          BY <4>2, <3>2 DEF Tells
        <5>2. PICK u \in work'[k] : u.op = "syncTo" /\ u.to = j
          BY <5>1, <2>2, <2>5
        <5> QED BY <5>2 DEF Covered, Mending, Tells
      <4> QED BY <4>1, <4>2
    <3> QED BY <3>1, <3>2
  <2>7. KnownIsPending'
    <3> SUFFICES ASSUME NEW i \in Kernels, NEW j \in Kernels, kernels'[i][j] = "known"
                 PROVE  \/ \E u \in work'[i] : Dials(u, j)
                        \/ \E d \in reg' : d.from = j /\ d.to = i /\ d.at = "stored"
      BY DEF KnownIsPending
    <3>1. kernels[i][j] = "known"
      BY <2>1
    <3>2. CASE \E d \in reg : d.from = j /\ d.to = i /\ d.at = "stored"
      BY <2>1, <3>2
    <3>3. ASSUME NEW u \in work[i], Dials(u, j)
          PROVE  \E v \in work'[i] : Dials(v, j)
      <4>1. ~(i = k /\ u = t)
        BY <3>1, <3>3, <1>1 DEF Dials, Linked
      <4> QED BY <4>1, <3>3, <2>4
    <3> QED BY <3>1, <3>2, <3>3 DEF Mutual, KnownIsPending
  <2>8. \A i, j \in Kernels : i # j /\ kernels[j][i] # "none" => Covered(i, j)'
    BY <2>1 DEF Covered
  <2>9. \A d \in reg' : d.kind = "plain" /\ d.from # d.to => Covered(d.from, d.to)
    BY <2>1 DEF Mutual, CallIsCovered
  <2> QED BY <1>0, <2>1, <2>3, <2>4, <2>6, <2>7, <2>8, <2>9, MutualStep
<1>2. CASE ~Linked(k, c.to)
  <2> DEFINE d == [from |-> k, to |-> c.to, kind |-> "plain", at |-> "sent", task |-> c]
  <2>1. /\ Becomes(k, t, {}) /\ reg' = reg \cup {d}
        /\ kernels' = [kernels EXCEPT ![k][c.to] = "none"]
    BY <1>2 DEF ConnectFor, Call
  <2>2. /\ d.from = k /\ d.to = c.to /\ d.kind = "plain" /\ d.at = "sent" /\ d.task = c
        /\ d \in reg'
    BY <2>1
  <2> HIDE DEF d
  <2>3. FitCall(d)
    BY <2>2 DEF FitCall
  <2>4. Covered(k, c.to)' /\ Covered(c.to, k)'
    BY <2>2 DEF Covered, Mending
  <2>5. \A i, j \in Kernels :
           kernels'[i][j] = IF i = k /\ j = c.to THEN "none" ELSE kernels[i][j]
    BY <2>1, <1>0 DEF TypeOK
  <2>6. \A i \in Kernels : \A u \in work'[i] : u \in work[i]
    BY <2>1 DEF Becomes, TypeOK
  <2>7. \A i \in Kernels : \A u \in work[i] : u \in work'[i] \/ (i = k /\ u = t)
    BY <2>1 DEF Becomes, TypeOK
  <2>8. TaskServed(k, t)'
    <3>1. CASE t.op = "dial"
      BY <3>1, OthersServe
    <3>2. CASE t = c
      BY <3>2, <2>4 DEF TaskServed, Tells, Dials
    <3> QED BY <3>1, <3>2
  <2>9. KnownIsPending'
    <3> SUFFICES ASSUME NEW i \in Kernels, NEW j \in Kernels, kernels'[i][j] = "known"
                 PROVE  \/ \E u \in work'[i] : Dials(u, j)
                        \/ \E e \in reg' : e.from = j /\ e.to = i /\ e.at = "stored"
      BY DEF KnownIsPending
    <3>1. kernels[i][j] = "known" /\ ~(i = k /\ j = c.to)
      BY <2>5
    <3>2. CASE \E e \in reg : e.from = j /\ e.to = i /\ e.at = "stored"
      BY <2>1, <3>2
    <3>3. ASSUME NEW u \in work[i], Dials(u, j)
          PROVE  \E v \in work'[i] : Dials(v, j)
      <4>1. ~(i = k /\ u = t)
        BY <3>1, <3>3 DEF Dials
      <4> QED BY <4>1, <3>3, <2>7
    <3> QED BY <3>1, <3>2, <3>3 DEF Mutual, KnownIsPending
  <2>10. \A i, j \in Kernels : i # j /\ kernels[j][i] # "none" => Covered(i, j)'
    BY <2>4, <2>5 DEF Covered
  <2>11. \A e \in reg' : e.kind = "plain" /\ e.from # e.to =>
            Covered(e.from, e.to) \/ Covered(e.from, e.to)'
    BY <2>1, <2>2, <2>4 DEF Mutual, CallIsCovered
  <2> QED BY <1>0, <2>1, <2>3, <2>5, <2>6, <2>7, <2>8, <2>9, <2>10, <2>11, MutualStep
<1> QED BY <1>1, <1>2

\* A call is served one step further: entry v of its caller is written, or left, at the called
LEMMA AdvanceMutual ==
  ASSUME TypeOK, TypeOK', Mutual, up' = up,
         NEW c \in reg, NEW d, reg' = (reg \ {c}) \cup {d},
         d.from = c.from, d.to = c.to, d.kind = c.kind, FitCall(d),
         \A k \in Kernels : \A t \in work[k] : t \in work'[k],
         \A k \in Kernels : \A t \in work'[k] : t \in work[k] \/ t.then # "gone",
         NEW v,
         \A k, j \in Kernels :
           kernels'[k][j] = IF k = c.to /\ j = c.from THEN v ELSE kernels[k][j],
         v = kernels[c.to][c.from] \/ (v # "none" /\ c.kind # "request"),
         c.at \in {"sent", "checked"} => v # "none" \/ d.at \in {"sent", "checked"},
         v = "known" => d.at = "stored" \/ (kernels[c.to][c.from] = "known" /\ c.at # "stored")
  PROVE  Mutual'
<1>0. c.from \in Kernels /\ c.to \in Kernels /\ up' = Kernels /\ d \in reg'
  BY CallType DEF Mutual, AllRun
<1>1. KnownIsPending'
  <2> SUFFICES ASSUME NEW k \in Kernels, NEW j \in Kernels, kernels'[k][j] = "known"
               PROVE  \/ \E t \in work'[k] : Dials(t, j)
                      \/ \E e \in reg' : e.from = j /\ e.to = k /\ e.at = "stored"
    BY DEF KnownIsPending
  <2>1. CASE k = c.to /\ j = c.from /\ d.at = "stored"
    BY <1>0, <2>1
  <2>2. CASE kernels[k][j] = "known" /\ (k = c.to /\ j = c.from => c.at # "stored")
    BY <2>2 DEF Mutual, KnownIsPending
  <2> QED BY <2>1, <2>2
<1>2. c.kind # "request" => Covered(c.to, c.from)'
  BY <1>0 DEF Covered, Mending
<1>3. \A k, j \in Kernels : k # j /\ kernels[j][k] # "none" => Covered(k, j)'
  BY DEF Covered
<1>4. CallServed(c)'
  BY <1>0, <1>2 DEF CallServed, Covered, Mending
<1>5. \A k, j \in Kernels : k # j /\ kernels'[k][j] # "none" =>
         kernels[k][j] # "none" \/ Covered(k, j) \/ Covered(k, j)'
  BY <1>2
<1>6. \A e \in reg' : e.kind = "plain" /\ e.from # e.to => Covered(e.from, e.to)
  BY DEF Mutual, CallIsCovered
<1>7. \A e \in reg' : e \in reg \/ FitCall(e)
  OBVIOUS
<1>8. \A e \in reg : e \in reg' \/ CallServed(e)'
  BY <1>4
<1> QED BY <1>0, <1>1, <1>3, <1>5, <1>6, <1>7, <1>8, MutualStep

\* RegisterKernel, from its check to its answer
LEMMA RegisterMutual ==
  ASSUME TypeOK, TypeOK', Mutual, NEW c \in reg,
         RegisterCheck(c) \/ RegisterStore(c) \/ RegisterClient(c) \/ RegisterAnswer(c)
  PROVE  Mutual'
<1>0. /\ c.from \in Kernels /\ c.to \in Kernels /\ c \in Calls
      /\ FitCall(c) /\ kernels[c.to][c.from] \in {"none", "known", "linked"}
  BY CallType DEF Mutual, CallsFit, TypeOK
<1>1. \A at : LET d == [c EXCEPT !.at = at]
              IN  d.from = c.from /\ d.to = c.to /\ d.kind = c.kind /\ d.task = c.task /\ d.at = at
  BY <1>0 DEF Calls
<1>2. ASSUME RegisterCheck(c) PROVE Mutual'
  <2>1. PICK at \in {"already", "pending", "checked"} :
          /\ Advance(c, at)
          /\ at = "already" => kernels[c.to][c.from] # "none"
          /\ at = "pending" <=> at # "already" /\ c.kind = "request"
    BY <1>2, <1>0 DEF RegisterCheck, Known
  <2> DEFINE d == [c EXCEPT !.at = at]
  <2>2. /\ d.from = c.from /\ d.to = c.to /\ d.kind = c.kind /\ d.task = c.task /\ d.at = at
        /\ reg' = (reg \ {c}) \cup {d}
    BY <1>1, <2>1 DEF Advance
  <2> HIDE DEF d
  <2>3. FitCall(d)
    BY <1>0, <2>1, <2>2 DEF FitCall
  <2>4. c.at = "sent" /\ UNCHANGED <<kernels, work, up>>
    BY <1>2 DEF RegisterCheck
  <2>5. c.kind = "request" \/ kernels[c.to][c.from] # "none" \/ d.at = "checked"
    BY <2>1, <2>2
  <2>6. CASE c.kind # "request"
    BY <2>2, <2>3, <2>4, <2>5, <2>6, AdvanceMutual
  <2>7. CASE c.kind = "request"
    <3>1. KnownIsPending'
      BY <2>2, <2>4, <2>7 DEF Mutual, KnownIsPending, Dials
    <3>2. CallServed(c)'
      BY <2>7 DEF CallServed
    <3>3. \A k, j \in Kernels : k # j /\ kernels[j][k] # "none" => Covered(k, j)'
      BY <2>4 DEF Covered
    <3>4. \A e \in reg' : e.kind = "plain" /\ e.from # e.to => Covered(e.from, e.to)
      BY <2>2, <2>7 DEF Mutual, CallIsCovered
    <3>5. \A e \in reg' : e \in reg \/ FitCall(e)
      BY <2>2, <2>3
    <3>6. \A e \in reg : e \in reg' \/ CallServed(e)'
      BY <2>2, <3>2
    <3>7. up' = Kernels
      BY <2>4 DEF Mutual, AllRun
    <3> QED BY <2>4, <3>1, <3>3, <3>4, <3>5, <3>6, <3>7, MutualStep
  <2> QED BY <2>6, <2>7
<1>3. ASSUME RegisterStore(c) PROVE Mutual'
  <2> DEFINE d == [c EXCEPT !.at = "stored"]
  <2>2. /\ d.from = c.from /\ d.to = c.to /\ d.kind = c.kind /\ d.task = c.task /\ d.at = "stored"
        /\ reg' = (reg \ {c}) \cup {d}
    BY <1>1, <1>3 DEF RegisterStore, Advance
  <2> HIDE DEF d
  <2>3. c.at = "checked" /\ c.kind # "request" /\ FitCall(d)
    BY <1>0, <1>3, <2>2 DEF RegisterStore, FitCall
  <2>4. UNCHANGED <<work, up>>
    BY <1>3 DEF RegisterStore
  <2>5. \A k, j \in Kernels :
           kernels'[k][j] = IF k = c.to /\ j = c.from THEN "known" ELSE kernels[k][j]
    BY <1>0, <1>3 DEF RegisterStore, TypeOK
  <2> QED BY <2>2, <2>3, <2>4, <2>5, AdvanceMutual
<1>4. ASSUME RegisterClient(c) PROVE Mutual'
  <2>1. PICK at \in {"registered", "client"} : Advance(c, at)
    BY <1>4 DEF RegisterClient
  <2> DEFINE d == [c EXCEPT !.at = at]
  <2>2. /\ d.from = c.from /\ d.to = c.to /\ d.kind = c.kind /\ d.task = c.task
        /\ reg' = (reg \ {c}) \cup {d}
    BY <1>1, <2>1 DEF Advance
  <2> HIDE DEF d
  <2>3. c.at = "stored" /\ c.kind # "request" /\ FitCall(d)
    BY <1>0, <1>4, <2>2 DEF RegisterClient, FitCall
  <2>4. /\ up' = up
        /\ \A k \in Kernels : \A t \in work[k] : t \in work'[k]
        /\ \A k \in Kernels : \A t \in work'[k] : t \in work[k] \/ t = Broadcast(c.from)
    BY <1>4, <1>0 DEF RegisterClient, TypeOK
  <2>5. Broadcast(c.from).then # "gone"
    BY DEF Broadcast, Task
  <2>6. \A k, j \in Kernels :
           kernels'[k][j] = IF k = c.to /\ j = c.from THEN "linked" ELSE kernels[k][j]
    BY <1>0, <1>4 DEF RegisterClient, CreateKernelClient, TypeOK
  <2> QED BY <2>2, <2>3, <2>4, <2>5, <2>6, AdvanceMutual
<1>5. ASSUME RegisterAnswer(c) PROVE Mutual'
  <2> DEFINE d == [c EXCEPT !.at = "registered"]
  <2>2. /\ d.from = c.from /\ d.to = c.to /\ d.kind = c.kind /\ d.task = c.task
        /\ reg' = (reg \ {c}) \cup {d}
    BY <1>1, <1>5 DEF RegisterAnswer, Advance
  <2> HIDE DEF d
  <2>3. c.at = "client" /\ c.kind # "request" /\ FitCall(d)
    BY <1>0, <1>5, <2>2 DEF RegisterAnswer, FitCall
  <2>4. UNCHANGED <<kernels, work, up>>
    BY <1>5 DEF RegisterAnswer
  <2> QED BY <2>2, <2>3, <2>4, AdvanceMutual
<1> QED BY <1>2, <1>3, <1>4, <1>5

\* The answer reaches the caller: a call that ends has done its part
LEMMA ReturnsMutual ==
  ASSUME TypeOK, TypeOK', Mutual, NEW c \in reg,
         RequestReturns(c) \/ ConnectReturns(c) \/ ApproveReturns(c)
  PROVE  Mutual'
<1>0. /\ c.from \in Kernels /\ c.to \in Kernels /\ c.task \in Tasks
      /\ FitCall(c) /\ c.task.then # "gone"
      /\ c.at \in Answers /\ reg' = reg \ {c} /\ up' = Kernels
  BY CallType DEF Mutual, AllRun, CallsFit, RequestReturns, ConnectReturns, ApproveReturns
<1>1. c.at \notin {"sent", "checked", "stored"}
  BY <1>0 DEF Answers
<1>2. \A e \in reg' : e.kind = "plain" /\ e.from # e.to => Covered(e.from, e.to)
  BY <1>0 DEF Mutual, CallIsCovered
<1>3. ASSUME UNCHANGED kernels, CallServed(c)',
             \A k \in Kernels : \A t \in work[k] : t \in work'[k],
             \A k \in Kernels : \A t \in work'[k] : t \in work[k] \/ t.then # "gone"
      PROVE  Mutual'
  <2>1. KnownIsPending'
    BY <1>0, <1>1, <1>3 DEF Mutual, KnownIsPending, Dials
  <2>2. \A k, j \in Kernels : k # j /\ kernels[j][k] # "none" => Covered(k, j)'
    BY <1>3 DEF Covered
  <2> QED BY <1>0, <1>2, <1>3, <2>1, <2>2, MutualStep
<1>4. ASSUME RequestReturns(c) PROVE Mutual'
  <2>1. c.kind = "request" /\ UNCHANGED <<kernels, work>>
    BY <1>0, <1>4 DEF RequestReturns
  <2> QED BY <1>3, <2>1 DEF CallServed
<1>5. ASSUME ConnectReturns(c) PROVE Mutual'
  <2> DEFINE A == After(c.task, TRUE)
             W == {Broadcast(c.to), SyncPeer(c.to)} \cup A
  <2>1. \A u \in W : u.then # "gone"
    <3>1. \A u \in A : u.then # "gone"
      BY <1>0, AfterRuns
    <3> HIDE DEF A
    <3> QED BY <3>1 DEF Broadcast, SyncPeer, Task
  <2>2. work' = [work EXCEPT ![c.from] = @ \cup W] /\ c.kind = "plain"
    BY <1>5 DEF ConnectReturns
  <2> HIDE DEF W
  <2>3. /\ \A k \in Kernels : \A t \in work[k] : t \in work'[k]
        /\ \A k \in Kernels : \A t \in work'[k] : t \in work[k] \/ t.then # "gone"
    BY <2>1, <2>2 DEF TypeOK
  <2>4. \A k, j \in Kernels :
           kernels'[k][j] = IF k = c.from /\ j = c.to THEN "linked" ELSE kernels[k][j]
    BY <1>0, <1>5 DEF ConnectReturns, TypeOK
  <2>5. KnownIsPending'
    BY <1>0, <1>1, <2>3, <2>4 DEF Mutual, KnownIsPending, Dials
  <2>6. \A k, j \in Kernels : k # j /\ kernels[j][k] # "none" => Covered(k, j)'
    BY <2>4 DEF Covered
  <2>7. CallServed(c)'
    BY <1>0, <1>1, <2>4 DEF CallServed, Covered
  <2>8. c.from # c.to => Covered(c.from, c.to)
    BY <2>2 DEF Mutual, CallIsCovered
  <2>9. \A k, j \in Kernels : k # j /\ kernels'[k][j] # "none" =>
           kernels[k][j] # "none" \/ Covered(k, j) \/ Covered(k, j)'
    BY <2>4, <2>8
  <2> QED BY <1>0, <1>2, <2>3, <2>5, <2>6, <2>7, <2>9, MutualStep
<1>6. ASSUME ApproveReturns(c) PROVE Mutual'
  <2>1. /\ c.kind = "approve" /\ UNCHANGED kernels
        /\ work' = [work EXCEPT ![c.from] = @ \cup {c.task}]
    BY <1>6 DEF ApproveReturns
  <2>2. Dials(c.task, c.to)
    BY <1>0, <2>1 DEF FitCall, Dials
  <2>3. /\ \A k \in Kernels : \A t \in work[k] : t \in work'[k]
        /\ \A k \in Kernels : \A t \in work'[k] : t \in work[k] \/ t = c.task
        /\ c.task \in work'[c.from]
    BY <1>0, <2>1 DEF TypeOK
  <2>4. CallServed(c)'
    BY <1>1, <2>1, <2>2, <2>3 DEF CallServed, Covered, Mending
  <2> QED BY <1>0, <1>3, <2>1, <2>3, <2>4
<1> QED BY <1>4, <1>5, <1>6

\* SyncKnownKernels: each kernel that gets an entry is dialled, and told of the called kernel;
\* the caller, if it was in its list, has an entry now
LEMMA SyncMutual ==
  ASSUME TypeOK, TypeOK', Mutual, NEW k \in Kernels, NEW t \in work[k], SyncKnownKernels(k, t)
  PROVE  Mutual'
<1> DEFINE j == t.to
           new == {x \in t.list \ {j} : kernels[j][x] = "none"}
           answer == (new \cup (Known(j) \ (t.list \cup {k}))) \ {k}
           A == IF answer = {} \/ t.then = "late" THEN {} ELSE {Task("dial", j, answer, "rest")}
           B == {Task("connect", x, {}, "introduced") : x \in new}
<1>1. j \in Kernels /\ new \subseteq Kernels /\ up' = Kernels /\ t.op = "sync"
  BY CallType DEF SyncKnownKernels, Mutual, AllRun
<1>2. /\ \A u \in A : u.then # "gone"
      /\ \A u \in B : u.then # "gone"
      /\ \A x \in new : \E u \in B : u.op = "connect" /\ u.to = x /\ u.then = "introduced"
  <2>1. \A u \in A : u.then # "gone"
    BY DEF Task
  <2> HIDE DEF new
  <2>2. \A x : LET u == Task("connect", x, {}, "introduced")
               IN  u.op = "connect" /\ u.to = x /\ u.then = "introduced"
    BY DEF Task
  <2>3. \A u \in B : \E x \in new : u = Task("connect", x, {}, "introduced")
    OBVIOUS
  <2>4. \A x \in new : Task("connect", x, {}, "introduced") \in B
    OBVIOUS
  <2> HIDE DEF A, B
  <2>5. \A u \in B : u.then # "gone"
    BY <2>2, <2>3
  <2>6. \A x \in new : \E u \in B : u.op = "connect" /\ u.to = x /\ u.then = "introduced"
    BY <2>2, <2>4
  <2> QED BY <2>1, <2>5, <2>6
<1>3. /\ kernels' = [kernels EXCEPT ![j] = [x \in Kernels |-> IF x \in new THEN "known" ELSE @[x]]]
      /\ work' = [work EXCEPT ![k] = (@ \ {t}) \cup A, ![j] = @ \cup B]
      /\ UNCHANGED reg
  BY DEF SyncKnownKernels
<1>4. \A x \in Kernels : x # j /\ x \in t.list => kernels[j][x] # "none" \/ x \in new
  OBVIOUS
<1>5. \A x \in new : kernels[j][x] = "none" /\ x # j
  OBVIOUS
<1>6. t.to = j
  OBVIOUS
<1> HIDE DEF j, new, A, B
<1>7. \A i, x \in Kernels :
         kernels'[i][x] = IF i = j /\ x \in new THEN "known" ELSE kernels[i][x]
  BY <1>1, <1>3 DEF TypeOK
<1>8. /\ \A i \in Kernels : \A u \in work[i] : u \in work'[i] \/ (i = k /\ u = t)
      /\ \A i \in Kernels : \A u \in work'[i] : u \in work[i] \/ u \in A \/ u \in B
      /\ B \subseteq work'[j]
  <2>1. CASE k = j
    <3>1. work'[j] = ((work[j] \ {t}) \cup A) \cup B
      BY <1>1, <1>3, <2>1 DEF TypeOK
    <3>2. \A i \in Kernels : i # j => work'[i] = work[i]
      BY <1>3, <2>1 DEF TypeOK
    <3> QED BY <2>1, <3>1, <3>2
  <2>2. CASE k # j
    <3>1. work'[k] = (work[k] \ {t}) \cup A
      BY <1>1, <1>3, <2>2 DEF TypeOK
    <3>2. work'[j] = work[j] \cup B
      BY <1>1, <1>3, <2>2 DEF TypeOK
    <3>3. \A i \in Kernels : i # j /\ i # k => work'[i] = work[i]
      BY <1>3 DEF TypeOK
    <3> QED BY <3>1, <3>2, <3>3
  <2> QED BY <2>1, <2>2
<1>9. KnownIsPending'
  <2> SUFFICES ASSUME NEW i \in Kernels, NEW x \in Kernels, kernels'[i][x] = "known"
               PROVE  \/ \E u \in work'[i] : Dials(u, x)
                      \/ \E e \in reg' : e.from = x /\ e.to = i /\ e.at = "stored"
    BY DEF KnownIsPending
  <2>1. CASE i = j /\ x \in new
    BY <2>1, <1>2, <1>8 DEF Dials
  <2>2. CASE kernels[i][x] = "known"
    <3>1. CASE \E e \in reg : e.from = x /\ e.to = i /\ e.at = "stored"
      BY <1>3, <3>1
    <3>2. ASSUME NEW u \in work[i], Dials(u, x) PROVE u \in work'[i]
      BY <1>1, <1>8, <3>2 DEF Dials
    <3> QED BY <2>2, <3>1, <3>2 DEF Mutual, KnownIsPending
  <2> QED BY <1>7, <2>1, <2>2
<1>10. \A i, x \in Kernels : i # x /\ kernels[x][i] # "none" => Covered(i, x)'
  BY <1>7 DEF Covered
<1>11. TaskServed(k, t)'
  <2>1. \A x : ~Dials(t, x)
    BY <1>1 DEF Dials
  <2>2. ASSUME NEW x \in Kernels, k # x, Tells(k, t, x) PROVE Covered(k, x)'
    <3>1. x = j /\ k \in t.list
      BY <2>2, <1>1, <1>6 DEF Tells
    <3>2. kernels'[j][k] # "none"
      BY <2>2, <3>1, <1>1, <1>4, <1>7
    <3> QED BY <3>1, <3>2 DEF Covered
  <2> QED BY <2>1, <2>2 DEF TaskServed
<1>12. ASSUME NEW x \in new PROVE Covered(j, x)'
  <2>1. PICK u \in B : u.op = "connect" /\ u.to = x /\ u.then = "introduced"
    BY <1>2
  <2> QED BY <2>1, <1>8 DEF Covered, Mending, Tells
<1>13. \A e \in reg' : e.kind = "plain" /\ e.from # e.to => Covered(e.from, e.to)
  BY <1>3 DEF Mutual, CallIsCovered
<1>14. /\ \A i \in Kernels : \A u \in work'[i] : u \in work[i] \/ u.then # "gone"
       /\ \A i \in Kernels : \A u \in work[i] : u \in work'[i] \/ TaskServed(i, u)'
  BY <1>2, <1>8, <1>11
<1>15. \A i, x \in Kernels : i # x /\ kernels'[i][x] # "none" =>
         kernels[i][x] # "none" \/ Covered(i, x) \/ Covered(i, x)'
  BY <1>7, <1>12
<1> QED BY <1>1, <1>3, <1>9, <1>10, <1>13, <1>14, <1>15, MutualStep

\* Goroutine t of k, which neither tells nor dials, ends, and those of T start
LEMMA BecomesMutual ==
  ASSUME TypeOK, TypeOK', Mutual, NEW k \in Kernels, NEW t \in work[k], NEW T,
         Becomes(k, t, T), \A u \in T : u.then # "gone",
         t.op \notin {"connect", "syncTo", "sync"}, UNCHANGED <<kernels, reg, up>>
  PROVE  Mutual'
<1>1. /\ \A i \in Kernels : \A u \in work'[i] : u \in work[i] \/ u \in T
      /\ \A i \in Kernels : \A u \in work[i] : u \in work'[i] \/ (i = k /\ u = t)
  BY DEF Becomes, TypeOK
<1>2. TaskServed(k, t)'
  BY OthersServe
<1> QED BY <1>1, <1>2, WorkStep

\* Goroutine t of k goes on as the one of T that serves the same kernels
LEMMA TellingMutual ==
  ASSUME TypeOK, TypeOK', Mutual, NEW k \in Kernels, NEW t \in work[k], NEW u,
         Becomes(k, t, {u}), u.then # "gone", u.op = "sync", u.to = t.to,
         t.op \in {"syncTo", "sync"},
         t.op = "syncTo" \/ k \in t.list => k \in u.list, UNCHANGED <<kernels, reg, up>>
  PROVE  Mutual'
<1>1. /\ \A i \in Kernels : \A v \in work'[i] : v \in work[i] \/ v = u
      /\ \A i \in Kernels : \A v \in work[i] : v \in work'[i] \/ (i = k /\ v = t)
      /\ u \in work'[k]
  BY DEF Becomes, TypeOK
<1>2. TaskServed(k, t)'
  BY <1>1 DEF TaskServed, Tells, Dials, Covered, Mending
<1> QED BY <1>1, <1>2, WorkStep

\* The operator's commands that are no faults, and a message about a channel
LEMMA CommandMutual ==
  ASSUME TypeOK, TypeOK', Mutual, NEW k \in Kernels, NEW j \in Kernels,
         ConnectKernel(k, j) \/ EnsureKernelConnected(k, j)
  PROVE  Mutual'
<1>1. ASSUME ConnectKernel(k, j) PROVE Mutual'
  <2>1. /\ \A i \in Kernels : \A u \in work'[i] : u \in work[i] \/ u = Task("request", j, {}, "shell")
        /\ \A i \in Kernels : \A u \in work[i] : u \in work'[i]
        /\ UNCHANGED <<kernels, reg, up>>
    BY <1>1 DEF ConnectKernel, TypeOK
  <2>2. Task("request", j, {}, "shell").then # "gone"
    BY DEF Task
  <2> QED BY <2>1, <2>2, WorkStep
<1>2. ASSUME EnsureKernelConnected(k, j) PROVE Mutual'
  <2>1. /\ \A i, x \in Kernels :
             kernels'[i][x] = IF i = k /\ x = j THEN "linked" ELSE kernels[i][x]
        /\ kernels[k][j] = "known" /\ UNCHANGED <<work, reg, up>>
    BY <1>2 DEF EnsureKernelConnected, TypeOK
  <2>2. KnownIsPending'
    BY <2>1 DEF Mutual, KnownIsPending, Dials
  <2>3. \A i, x \in Kernels : i # x /\ kernels[x][i] # "none" => Covered(i, x)'
    BY <2>1 DEF Covered
  <2>4. \A e \in reg' : e.kind = "plain" /\ e.from # e.to => Covered(e.from, e.to)
    BY <2>1 DEF Mutual, CallIsCovered
  <2>5. up' = Kernels
    BY <2>1 DEF Mutual, AllRun
  <2> QED BY <2>1, <2>2, <2>3, <2>4, <2>5, MutualStep
<1> QED BY <1>1, <1>2

\* ApprovePendingRequest: the connect that follows dials the requester, now or after the approval
LEMMA ApproveMutual ==
  ASSUME TypeOK, TypeOK', Mutual, NEW k \in Kernels, NEW r \in pending[k],
         ApprovePendingRequest(k, r)
  PROVE  Mutual'
<1> DEFINE connect == Task("connect", r.from, {}, "approved")
           c == [from |-> k, to |-> r.from, kind |-> "approve", at |-> "sent", task |-> connect]
<1>1. /\ connect.op = "connect" /\ connect.to = r.from /\ connect.then # "gone"
      /\ c.kind = "approve" /\ c.to = r.from /\ c.task = connect
  BY DEF Task
<1>2. /\ UNCHANGED <<kernels, up>>
      /\ \/ work' = [work EXCEPT ![k] = @ \cup {connect}] /\ UNCHANGED reg
         \/ reg' = reg \cup {c} /\ UNCHANGED work
  BY DEF ApprovePendingRequest, SendApprove
<1> HIDE DEF connect, c
<1>3. CASE work' = [work EXCEPT ![k] = @ \cup {connect}] /\ UNCHANGED reg
  <2>1. /\ \A i \in Kernels : \A u \in work'[i] : u \in work[i] \/ u = connect
        /\ \A i \in Kernels : \A u \in work[i] : u \in work'[i]
    BY <1>3 DEF TypeOK
  <2> QED BY <1>1, <1>2, <1>3, <2>1, WorkStep
<1>4. CASE reg' = reg \cup {c} /\ UNCHANGED work
  <2>1. FitCall(c)
    BY <1>1 DEF FitCall
  <2> QED BY <1>1, <1>2, <1>4, <2>1, NewCallStep
<1> QED BY <1>2, <1>3, <1>4

\* ConnectToKernel: the entry is there, or a request is sent
LEMMA RequestMutual ==
  ASSUME TypeOK, TypeOK', Mutual, NEW k \in Kernels, NEW t \in work[k], RequestLink(k, t)
  PROVE  Mutual'
<1> DEFINE c == [from |-> k, to |-> t.to, kind |-> "request", at |-> "sent", task |-> t]
<1>1. t.then # "gone" /\ t.op = "request"
  BY DEF Mutual, AllRun, RequestLink
<1>2. /\ Becomes(k, t, {}) /\ UNCHANGED <<kernels, up>>
      /\ UNCHANGED reg \/ reg' = reg \cup {c}
  BY DEF RequestLink, Call
<1>3. c.kind = "request" /\ FitCall(c)
  BY <1>1 DEF FitCall
<1> HIDE DEF c
<1>4. CASE UNCHANGED reg
  BY <1>1, <1>2, <1>4, BecomesMutual
<1>5. CASE reg' = reg \cup {c}
  <2>1. /\ \A i \in Kernels : \A u \in work'[i] : u \in work[i]
        /\ \A i \in Kernels : \A u \in work[i] : u \in work'[i] \/ (i = k /\ u = t)
    BY <1>2 DEF Becomes, TypeOK
  <2>2. TaskServed(k, t)'
    BY <1>1, OthersServe
  <2> QED BY <1>1, <1>2, <1>3, <1>5, <2>1, <2>2, NewCallStep
<1> QED BY <1>2, <1>4, <1>5

\* The goroutines that tell others which kernels are known
LEMMA TellMutual ==
  ASSUME TypeOK, TypeOK', Mutual, NEW k \in Kernels, NEW t \in work[k],
         \/ BroadcastKnownKernels(k, t) \/ SyncKnownKernelsToKernel(k, t)
         \/ SyncPeerKernels(k, t) \/ SyncTimeout(k, t)
  PROVE  Mutual'
<1>0. ASSUME NEW list, NEW wait, wait # "gone",
             Send(k, t, list, wait), t.op \in {"broadcast", "syncPeer"},
             UNCHANGED <<kernels, reg, up>>
      PROVE  Mutual'
  <2>1. PICK T \in {{}, {Task("sync", t.to, list, wait)}} : Becomes(k, t, T)
    BY <1>0 DEF Send
  <2>2. \A u \in T : u.then # "gone"
    BY <1>0, <2>1 DEF Task
  <2> QED BY <1>0, <2>1, <2>2, BecomesMutual
<1>1. ASSUME t.op \in {"broadcast", "syncPeer"}, Becomes(k, t, {}), UNCHANGED <<kernels, reg, up>>
      PROVE  Mutual'
  BY <1>1, BecomesMutual
<1>2. ASSUME BroadcastKnownKernels(k, t) PROVE Mutual'
  <2>1. /\ t.op = "broadcast" /\ UNCHANGED <<kernels, reg, up>>
        /\ Send(k, t, Known(k) \ {t.to}, "patient") \/ Becomes(k, t, {})
    BY <1>2 DEF BroadcastKnownKernels
  <2> QED BY <1>0, <1>1, <2>1
<1>3. ASSUME SyncKnownKernelsToKernel(k, t) PROVE Mutual'
  <2> DEFINE list == {k} \cup (Known(k) \ {t.to})
             u == Task("sync", t.to, list, "impatient")
  <2>1. t.op = "syncTo" /\ Send(k, t, list, "impatient") /\ UNCHANGED <<kernels, reg, up>>
    BY <1>3 DEF SyncKnownKernelsToKernel
  <2>2. k \in list /\ list # {}
    OBVIOUS
  <2> HIDE DEF list
  <2>3. /\ Becomes(k, t, {u})
        /\ u.op = "sync" /\ u.to = t.to /\ u.list = list /\ u.then # "gone"
    BY <2>1, <2>2 DEF Send, Task
  <2> HIDE DEF u
  <2> QED BY <2>1, <2>2, <2>3, TellingMutual
<1>4. ASSUME SyncPeerKernels(k, t) PROVE Mutual'
  <2> DEFINE list == {j \in Known(k) \ {t.to} : ~Linked(k, j)}
  <2>1. /\ t.op = "syncPeer" /\ UNCHANGED <<kernels, reg, up>>
        /\ \/ Send(k, t, list, "impatient")
           \/ Becomes(k, t, {Task("connect", t.to, {}, "peer")})
           \/ Becomes(k, t, {})
    BY <1>4 DEF SyncPeerKernels
  <2> HIDE DEF list
  <2>2. CASE Becomes(k, t, {Task("connect", t.to, {}, "peer")})
    <3>1. \A u \in {Task("connect", t.to, {}, "peer")} : u.then # "gone"
      BY DEF Task
    <3> QED BY <2>1, <2>2, <3>1, BecomesMutual
  <2> QED BY <1>0, <1>1, <2>1, <2>2
<1>5. ASSUME SyncTimeout(k, t) PROVE Mutual'
  <2> DEFINE u == [t EXCEPT !.then = "late"]
  <2>1. t.op = "sync" /\ Becomes(k, t, {u}) /\ UNCHANGED <<kernels, reg, up>>
    BY <1>5 DEF SyncTimeout
  <2>2. u.op = t.op /\ u.to = t.to /\ u.list = t.list /\ u.then = "late"
    BY CallType DEF Tasks
  <2> HIDE DEF u
  <2> QED BY <2>1, <2>2, TellingMutual
<1> QED BY <1>2, <1>3, <1>4, <1>5

\* At the start nothing is known and nobody is dialled
LEMMA InitMutual == Init => MutualInv
<1> SUFFICES ASSUME Init PROVE Mutual
  BY DEF MutualInv
<1>1. \A k, j \in Kernels : kernels[k][j] = "none"
  BY DEF Init
<1>2. \A k \in Kernels : \A t \in work[k] : t.then # "gone"
  <2>1. \A k \in Kernels : \A t \in work[k] : \E j \in Kernels : t = Task("request", j, {}, "end")
    BY LinkConstants DEF Init
  <2>2. \A j : Task("request", j, {}, "end").then # "gone"
    BY DEF Task
  <2> QED BY <2>1, <2>2
<1>3. reg = {} /\ up = Kernels
  BY DEF Init
<1> QED BY <1>1, <1>2, <1>3
        DEF Mutual, AllRun, CallsFit, KnownIsPending, EntryIsCovered, CallIsCovered

\* Every step keeps the links mutual, or is a fault
LEMMA StepMutual == TypeOK /\ TypeOK' /\ MutualInv /\ [Next]_vars => MutualInv'
<1> SUFFICES ASSUME TypeOK, TypeOK', MutualInv, [Next]_vars, used'.faults = 0
             PROVE  Mutual'
  BY DEF MutualInv
<1>1. ASSUME NEW k \in Kernels, NEW j \in Kernels, ConnectKernel(k, j)
      PROVE  used'.faults = used.faults
  BY <1>1, CountType DEF ConnectKernel
<1>2. ASSUME NEW k \in Kernels, NEW j \in Kernels, DisconnectFromKernel(k, j) \/ Stop(k)
      PROVE  FALSE
  <2>1. Count("faults")
    BY <1>2 DEF DisconnectFromKernel, Stop
  <2>2. used'.faults = used.faults + 1 /\ used.faults \in Nat
    BY <2>1, CountType
  <2> QED BY <2>2
<1>3. CASE UNCHANGED vars
  <2>1. Mutual
    BY <1>3 DEF MutualInv, vars
  <2> QED BY <1>3, <2>1 DEF vars, Mutual, AllRun, CallsFit, KnownIsPending, EntryIsCovered,
                            CallIsCovered, Covered, Mending, Tells, Dials, FitCall
<1>4. CASE Command
  <2>1. PICK k \in Kernels, j \in Kernels : ConnectKernel(k, j)
    BY <1>4, <1>2 DEF Command
  <2>2. Mutual
    BY <2>1, <1>1 DEF MutualInv
  <2> QED BY <2>1, <2>2, CommandMutual
<1>5. ASSUME ~Command, Next PROVE Mutual
  <2>1. UNCHANGED used
    <3>1. CASE Message
      BY <3>1 DEF Message, EnsureKernelConnected
    <3>2. CASE Approve
      BY <3>2 DEF Approve, ApprovePendingRequest
    <3>3. CASE Goroutine
      <4>1. ASSUME NEW k, NEW t, SyncKnownKernels(k, t) PROVE UNCHANGED used
        BY <4>1 DEF SyncKnownKernels
      <4>2. ASSUME NEW k, NEW t, SyncPeerKernels(k, t) PROVE UNCHANGED used
        BY <4>2 DEF SyncPeerKernels
      <4>3. ASSUME NEW k, NEW t, BroadcastKnownKernels(k, t) \/ SyncKnownKernelsToKernel(k, t)
            PROVE  UNCHANGED used
        BY <4>3 DEF BroadcastKnownKernels, SyncKnownKernelsToKernel
      <4>4. ASSUME NEW k, NEW t, RequestLink(k, t) \/ SyncTimeout(k, t) \/ SyncFails(k, t)
            PROVE  UNCHANGED used
        BY <4>4 DEF RequestLink, SyncTimeout, SyncFails
      <4>5. ASSUME NEW k, NEW t, Connect(k, t) \/ \E j \in t.list : DialNew(k, t, j)
            PROVE  UNCHANGED used
        BY <4>5 DEF Connect, DialNew, ConnectFor
      <4> QED BY <3>3, <4>1, <4>2, <4>3, <4>4, <4>5 DEF Goroutine
    <3>4. CASE Registration
      BY <3>4 DEF Registration, RegisterCheck, RegisterStore, RegisterClient, RegisterAnswer,
                  RequestReturns, ConnectReturns, ApproveReturns, CallFails
    <3>5. CASE Process
      BY <3>5 DEF Process, Start
    <3> QED BY <1>5, <3>1, <3>2, <3>3, <3>4, <3>5 DEF Next
  <2> QED BY <2>1 DEF MutualInv
<1>6. CASE Message
  <2>1. PICK k \in Kernels, j \in Kernels : EnsureKernelConnected(k, j)
    BY <1>6 DEF Message
  <2> QED BY <1>4, <1>5, <1>6, <2>1, CommandMutual DEF Next
<1>7. CASE Approve
  <2>1. PICK k \in Kernels : \E r \in pending[k] : ApprovePendingRequest(k, r)
    BY <1>7 DEF Approve
  <2> QED BY <1>4, <1>5, <1>7, <2>1, ApproveMutual DEF Next
<1>8. CASE Goroutine
  <2> SUFFICES ASSUME Mutual PROVE Mutual'
    BY <1>4, <1>5, <1>8 DEF Next
  <2>1. PICK k \in Kernels : \E t \in work[k] :
          \/ RequestLink(k, t) \/ Connect(k, t)
          \/ \E j \in t.list : DialNew(k, t, j)
          \/ BroadcastKnownKernels(k, t) \/ SyncKnownKernelsToKernel(k, t) \/ SyncPeerKernels(k, t)
          \/ SyncKnownKernels(k, t) \/ SyncTimeout(k, t) \/ SyncFails(k, t)
    BY <1>8 DEF Goroutine
  <2>2. PICK t \in work[k] :
          \/ RequestLink(k, t) \/ Connect(k, t)
          \/ \E j \in t.list : DialNew(k, t, j)
          \/ BroadcastKnownKernels(k, t) \/ SyncKnownKernelsToKernel(k, t) \/ SyncPeerKernels(k, t)
          \/ SyncKnownKernels(k, t) \/ SyncTimeout(k, t) \/ SyncFails(k, t)
    BY <2>1
  <2>3. t \in Tasks /\ t.to \in Kernels /\ t.list \subseteq Kernels /\ t.then # "gone" /\ up = Kernels
    BY CallType DEF Mutual, AllRun
  <2>4. CASE Connect(k, t)
    BY <2>3, <2>4, ConnectForMutual DEF Connect
  <2>5. ASSUME NEW j \in t.list, DialNew(k, t, j) PROVE Mutual'
    <3> DEFINE c == Task("connect", j, t.list \ {j}, "rest")
    <3>1. c \in Tasks
      BY <2>3, TaskType
    <3>2. c.op = "connect" /\ c.then # "gone"
      BY DEF Task
    <3>3. t.op = "dial" /\ ConnectFor(k, t, c)
      BY <2>5 DEF DialNew
    <3> HIDE DEF c
    <3> QED BY <3>1, <3>2, <3>3, ConnectForMutual
  <2>6. ~SyncFails(k, t)
    BY <2>3 DEF SyncFails
  <2> QED BY <2>2, <2>4, <2>5, <2>6, RequestMutual, TellMutual, SyncMutual
<1>9. CASE Registration
  <2> SUFFICES ASSUME Mutual PROVE Mutual'
    BY <1>4, <1>5, <1>9 DEF Next
  <2>1. ASSUME NEW c \in reg PROVE ~CallFails(c)
    BY CallType DEF CallFails, Mutual, AllRun
  <2> QED BY <1>9, <2>1, RegisterMutual, ReturnsMutual DEF Registration
<1>10. CASE Process
  <2> SUFFICES ASSUME Mutual PROVE FALSE
    BY <1>4, <1>5, <1>10 DEF Next
  <2> QED BY <1>10 DEF Process, Start, Mutual, AllRun
<1> QED BY <1>3, <1>4, <1>6, <1>7, <1>8, <1>9, <1>10 DEF Next

\* Once nothing is under way, what was to be mended has been
LEMMA QuietMutual == TypeOK /\ MutualInv => QuietIsMutual
<1> SUFFICES ASSUME TypeOK, Mutual, Quiet, NEW k \in Kernels, NEW j \in Kernels
             PROVE  kernels[k][j] = kernels[j][k] /\ kernels[k][j] # "known"
  BY DEF MutualInv, QuietIsMutual
<1>1. \A i, x \in Kernels : ~Mending(i, x)
  BY DEF Quiet, Mending
<1>2. \A i, x \in Kernels : kernels[i][x] # "known"
  BY DEF Mutual, KnownIsPending, Quiet
<1>3. \A i, x \in Kernels : i # x /\ kernels[i][x] # "none" => kernels[x][i] # "none"
  BY <1>1 DEF Mutual, EntryIsCovered, Covered
<1>4. kernels[k][j] \in {"none", "known", "linked"} /\ kernels[j][k] \in {"none", "known", "linked"}
  BY DEF TypeOK
<1> QED BY <1>2, <1>3, <1>4

\* The maps stay well formed, hold only kernels that approvals join, and are mutual whenever
\* everything has settled without a fault (RegisterKernel, connectToKernelInternal,
\* ApprovePendingRequest, SyncKnownKernels)
THEOREM LinksStayConsistent == Spec => []LinksConsistent
<1>1. TypeOK /\ MutualInv /\ [Next]_vars => TypeOK' /\ MutualInv'
  BY StepType, StepMutual
<1>2. Spec => [](TypeOK /\ MutualInv)
  BY <1>1, InitType, InitMutual, PTL DEF Spec
<1>3. Spec => []QuietIsMutual
  BY <1>2, QuietMutual, PTL
<1> QED BY <1>3, LinkTypes, OnlyAgreedLinks, PTL DEF LinksConsistent
=============================================================================
