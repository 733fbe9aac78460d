----------------------------- MODULE KernelLink -----------------------------
(***************************************************************************)
(* How kernels interconnect: multi_kernel_manager.go and the RPC handlers  *)
(* of kernel_service.go.                                                   *)
(*                                                                         *)
(* The operator of a kernel asks for a link (connect-kernel), the operator *)
(* of the other approves it (approve-request), and then the two tell each  *)
(* other, and so every kernel they know, which kernels they know           *)
(* (SyncKnownKernels).  A kernel told of another dials and registers with  *)
(* it without asking again.                                                *)
(*                                                                         *)
(* Each kernel is a set of goroutines around one map, kernels, and one     *)
(* lock, kernelsMu.  connectToKernelInternal and ConnectToKernel keep the  *)
(* lock while they wait for the other kernel's RegisterKernel, and the     *)
(* handler of RegisterKernel needs the lock of its own kernel three or     *)
(* four times: its check and its writes are separate critical sections.    *)
(***************************************************************************)
EXTENDS Naturals, FiniteSets

CONSTANTS
  Kernels,
  Seeds,               \* the seed_kernels of each kernel's configuration
  Contacts,            \* the kernels an operator may ask for a link
  MaxRequests,         \* bound: connect-kernel commands
  MaxFaults,           \* bound: disconnect-kernel commands and stopped processes
  MaxCommands          \* bound: both together

ASSUME LinkConstants ==
  /\ Seeds \in [Kernels -> SUBSET Kernels]
  /\ Contacts \in [Kernels -> SUBSET Kernels]
  /\ {MaxRequests, MaxFaults, MaxCommands} \subseteq Nat

VARIABLES
  kernels,             \* the map of each kernel: an entry is absent, "known" or "linked" (has a Client)
  pending,             \* pendingRequests of each kernel
  work,                \* goroutines of each kernel that wait for something
  reg,                 \* RegisterKernel calls being served, with their callers
  up,                  \* the kernels that run
  agreed,              \* history: pairs joined by an approval
  used                 \* requests and faults so far

vars == <<kernels, pending, work, reg, up, agreed, used>>

\* A goroutine: what it does, with which kernel, a list it carries, and what follows
Task(op, to, list, then) == [op |-> op, to |-> to, list |-> list, then |-> then]
Broadcast(j) == Task("broadcast", j, {}, "end")
SyncPeer(j) == Task("syncPeer", j, {}, "connect")

\* connectToKernelInternal and ConnectToKernel hold kernelsMu across the call they make
Holding(c) == c.kind # "approve" /\ c.task.then # "gone"
Locked(k) == \E c \in reg : c.from = k /\ Holding(c)

Linked(k, j) == kernels[k][j] = "linked"
Known(k) == {j \in Kernels : kernels[k][j] # "none"}

\* The operator's shell runs one command at a time
ShellBusy(k) ==
  \/ \E t \in work[k] : t.then \in {"shell", "approved"}
  \/ \E c \in reg : c.from = k /\ c.task.then \in {"shell", "approved"}

Init ==
  /\ kernels = [k \in Kernels |-> [j \in Kernels |-> "none"]]
  /\ pending = [k \in Kernels |-> {}]
  /\ work = [k \in Kernels |-> {Task("request", j, {}, "end") : j \in Seeds[k]}]
  /\ reg = {}
  /\ up = Kernels
  /\ agreed = {}
  /\ used = [requests |-> 0, faults |-> 0]

\* One more command or fault, within the bounds
Count(what) ==
  /\ used[what] < (IF what = "requests" THEN MaxRequests ELSE MaxFaults)
  /\ used.requests + used.faults < MaxCommands
  /\ used' = [used EXCEPT ![what] = @ + 1]

\* Goroutine t of k ends and those of T start
Becomes(k, t, T) == work' = [work EXCEPT ![k] = (@ \ {t}) \cup T]

\* A panic or a stop ends the process.  Nothing is kept; calls it made are served all the same
Crash(k) ==
  /\ up' = up \ {k}
  /\ kernels' = [kernels EXCEPT ![k] = [j \in Kernels |-> "none"]]
  /\ pending' = [pending EXCEPT ![k] = {}]
  /\ work' = [work EXCEPT ![k] = {[t EXCEPT !.then = "late"] : t \in {t \in @ : t.op = "sync"}}]
  /\ reg' = {IF c.from = k THEN [c EXCEPT !.task.then = "gone"] ELSE c : c \in reg}
  /\ UNCHANGED agreed

-----------------------------------------------------------------------------
(* The operator *)

\* connect-kernel
ConnectKernel(k, j) ==
  /\ k \in up /\ j \in Contacts[k] /\ ~ShellBusy(k)
  /\ Count("requests")
  /\ work' = [work EXCEPT ![k] = @ \cup {Task("request", j, {}, "shell")}]
  /\ UNCHANGED <<kernels, pending, reg, up, agreed>>

\* What follows a connectToKernelInternal, successful or not
After(t, ok) ==
  CASE t.then = "approved"   -> IF ok THEN {Broadcast(t.to)} ELSE {}
    [] t.then = "introduced" -> {Task("syncTo", t.to, {}, "end")}
    [] t.then = "rest"       -> IF t.list = {} THEN {} ELSE {Task("dial", t.to, t.list, "rest")}
    [] t.then = "peer"       -> {Task("syncPeer", t.to, {}, "end")}
    [] OTHER                 -> {}

\* sendInterconnectApprove calls RegisterKernel with the approval, and holds no lock
SendApprove(k, j, t) ==
  reg' = reg \cup {[from |-> k, to |-> j, kind |-> "approve", at |-> "sent", task |-> t]}

\* mutant: the requester is entered as known together with the approval
ApproveEnters(k, r) ==
  /\ k \in up /\ r \in pending[k] /\ ~ShellBusy(k) /\ ~Locked(k)
  /\ pending' = [pending EXCEPT ![k] = @ \ {r}]
  /\ agreed' = agreed \cup {{k, r.from}}
  /\ kernels' = [kernels EXCEPT ![k][r.from] = "known"]
  /\ work' = [work EXCEPT ![k] = @ \cup {Task("connect", r.from, {}, "approved")}]
  /\ UNCHANGED <<reg, up, used>>

\* ApprovePendingRequest: the request is taken out first, whatever becomes of the approval
ApprovePendingRequest(k, r) ==
  LET connect == Task("connect", r.from, {}, "approved")
  IN
  /\ k \in up /\ r \in pending[k] /\ ~ShellBusy(k) /\ ~Locked(k)
  /\ pending' = [pending EXCEPT ![k] = @ \ {r}]
  /\ agreed' = agreed \cup {{k, r.from}}
  /\ \/ /\ r.from \in Known(k)
        /\ work' = [work EXCEPT ![k] = @ \cup {connect}]
        /\ UNCHANGED reg
     \/ /\ r.from \notin Known(k)
        /\ SendApprove(k, r.from, connect)
        /\ UNCHANGED work
  /\ UNCHANGED <<kernels, up, used>>

\* DisconnectFromKernel closes the conn of the entry; the entry of a kernel that was only
\* heard of has none, and the nil pointer ends the process
DisconnectFromKernel(k, j) ==
  /\ k \in up /\ ~ShellBusy(k) /\ ~Locked(k) /\ Count("faults")
  /\ \/ /\ Linked(k, j)
        /\ kernels' = [kernels EXCEPT ![k][j] = "none"]
        /\ UNCHANGED <<pending, work, reg, up, agreed>>
     \/ kernels[k][j] = "known" /\ Crash(k)

-----------------------------------------------------------------------------
(* Dialling *)

\* A call of RegisterKernel by goroutine t, with kernelsMu of k held until it is answered
Call(k, j, kind, t) ==
  reg' = reg \cup {[from |-> k, to |-> j, kind |-> kind, at |-> "sent", task |-> t]}

\* ConnectToKernel refuses a kernel that has an entry, and otherwise sends a request
RequestLink(k, t) ==
  /\ t \in work[k] /\ t.op = "request" /\ ~Locked(k)
  /\ Becomes(k, t, {})
  /\ IF t.to \in Known(k) THEN UNCHANGED reg ELSE Call(k, t.to, "request", t)
  /\ UNCHANGED <<kernels, pending, up, agreed, used>>

\* connectToKernelInternal for t: an entry with a Client is left alone, another one deleted
ConnectFor(k, t, c) ==
  /\ ~Locked(k)
  /\ IF Linked(k, c.to)
     THEN Becomes(k, t, After(c, FALSE)) /\ UNCHANGED <<kernels, reg>>
     ELSE /\ Becomes(k, t, {})
          /\ kernels' = [kernels EXCEPT ![k][c.to] = "none"]
          /\ Call(k, c.to, "plain", c)
  /\ UNCHANGED <<pending, up, agreed, used>>

Connect(k, t) == t \in work[k] /\ t.op = "connect" /\ ConnectFor(k, t, t)

\* The loops over NewlyKnownKernels of the three synchronisations
DialNew(k, t, j) ==
  /\ t \in work[k] /\ t.op = "dial" /\ j \in t.list
  /\ ConnectFor(k, t, Task("connect", j, t.list \ {j}, "rest"))

Answers == {"registered", "already", "pending"}

\* EnsureKernelConnected, before a message about a channel: a Client without a registration
EnsureKernelConnected(k, j) ==
  /\ k \in up /\ ~Locked(k) /\ kernels[k][j] = "known"
  /\ kernels' = [kernels EXCEPT ![k][j] = "linked"]
  /\ UNCHANGED <<pending, work, reg, up, agreed, used>>

\* A request is answered: the caller has no link yet, and waits for an approval if at all.
\* An answer for a process that is gone is lost
RequestReturns(c) ==
  /\ c \in reg /\ (c.kind = "request" \/ c.task.then = "gone") /\ c.at \in Answers
  /\ reg' = reg \ {c}
  /\ UNCHANGED <<kernels, pending, work, up, agreed, used>>

\* mutant: "kernel already registered" is a rejection, as in ConnectToKernel
ConnectReturnsStrict(c) ==
  /\ c \in reg /\ c.kind = "plain" /\ c.task.then # "gone" /\ c.at \in Answers
  /\ reg' = reg \ {c}
  /\ kernels' = [kernels EXCEPT ![c.from][c.to] = IF c.at = "already" THEN @ ELSE "linked"]
  /\ work' = [work EXCEPT ![c.from] =
                @ \cup {Broadcast(c.to), SyncPeer(c.to)} \cup After(c.task, TRUE)]
  /\ UNCHANGED <<pending, up, agreed, used>>

\* "kernel already registered" is as good as a registration; two synchronisations start
\* (and a heartbeat, which only changes times and the log)
ConnectReturns(c) ==
  /\ c \in reg /\ c.kind = "plain" /\ c.task.then # "gone" /\ c.at \in Answers
  /\ reg' = reg \ {c}
  /\ kernels' = [kernels EXCEPT ![c.from][c.to] = "linked"]
  /\ work' = [work EXCEPT ![c.from] =
                @ \cup {Broadcast(c.to), SyncPeer(c.to)} \cup After(c.task, TRUE)]
  /\ UNCHANGED <<pending, up, agreed, used>>

\* sendInterconnectApprove does not look at the answer
ApproveReturns(c) ==
  /\ c \in reg /\ c.kind = "approve" /\ c.task.then # "gone" /\ c.at \in Answers
  /\ reg' = reg \ {c}
  /\ work' = [work EXCEPT ![c.from] = @ \cup {c.task}]
  /\ UNCHANGED <<kernels, pending, up, agreed, used>>

\* The called kernel does not run (or stopped in the middle): an error, and for an approval
\* the request is gone
CallFails(c) ==
  /\ c \in reg /\ c.to \notin up
  /\ reg' = reg \ {c}
  /\ work' = [work EXCEPT ![c.from] =
                @ \cup IF c.kind = "plain" THEN After(c.task, FALSE) ELSE {}]
  /\ UNCHANGED <<kernels, pending, up, agreed, used>>

-----------------------------------------------------------------------------
(* RegisterKernel at the kernel that is called *)

Advance(c, at) == reg' = (reg \ {c}) \cup {[c EXCEPT !.at = at]}

\* AddPendingRequest: the request is put aside for the operator, under a new id
AddPendingRequest(c) ==
  pending' = [pending EXCEPT ![c.to] = @ \cup {[from |-> c.from, id |-> used.requests]}]

\* Is it registered already?
RegisterCheck(c) ==
  /\ c \in reg /\ c.at = "sent" /\ c.to \in up /\ ~Locked(c.to)
  /\ \/ /\ c.from \in Known(c.to)
        /\ Advance(c, "already") /\ UNCHANGED pending
     \/ /\ c.from \notin Known(c.to) /\ c.kind = "request"
        /\ AddPendingRequest(c)
        /\ Advance(c, "pending")
     \/ /\ c.from \notin Known(c.to) /\ c.kind # "request"
        /\ Advance(c, "checked") /\ UNCHANGED pending
  /\ UNCHANGED <<kernels, work, up, agreed, used>>

\* The entry is written, without a Client, over whatever is there by now
RegisterStore(c) ==
  /\ c \in reg /\ c.at = "checked" /\ c.to \in up /\ ~Locked(c.to)
  /\ kernels' = [kernels EXCEPT ![c.to][c.from] = "known"]
  /\ Advance(c, "stored")
  /\ UNCHANGED <<pending, work, up, agreed, used>>

\* createKernelClient gives the entry a Client, and makes the entry if it has gone
CreateKernelClient(k, j) == kernels' = [kernels EXCEPT ![k][j] = "linked"]

\* createKernelClient; then BroadcastKnownKernels starts
RegisterClient(c) ==
  /\ c \in reg /\ c.at = "stored" /\ c.to \in up /\ ~Locked(c.to)
  /\ CreateKernelClient(c.to, c.from)
  /\ work' = [work EXCEPT ![c.to] = @ \cup {Broadcast(c.from)}]
  /\ Advance(c, IF c.kind = "approve" THEN "registered" ELSE "client")
  /\ UNCHANGED <<pending, up, agreed, used>>

\* The answer to a plain registration lists the known kernels, which takes the lock again
RegisterAnswer(c) ==
  /\ c \in reg /\ c.at = "client" /\ c.to \in up /\ ~Locked(c.to)
  /\ Advance(c, "registered")
  /\ UNCHANGED <<kernels, pending, work, up, agreed, used>>

-----------------------------------------------------------------------------
(* Telling each other which kernels are known *)

\* The goroutine waits for the answer to SyncKnownKernels; two of the three callers wait no
\* longer than connect_timeout
Send(k, t, list, wait) ==
  Becomes(k, t, IF list = {} THEN {} ELSE {Task("sync", t.to, list, wait)})

\* BroadcastKnownKernels
BroadcastKnownKernels(k, t) ==
  /\ t \in work[k] /\ t.op = "broadcast" /\ ~Locked(k)
  /\ IF Linked(k, t.to) THEN Send(k, t, Known(k) \ {t.to}, "patient") ELSE Becomes(k, t, {})
  /\ UNCHANGED <<kernels, pending, reg, up, agreed, used>>

\* SyncKnownKernelsToKernel lists this kernel too, and dials the other for the occasion
SyncKnownKernelsToKernel(k, t) ==
  /\ t \in work[k] /\ t.op = "syncTo" /\ ~Locked(k)
  /\ Send(k, t, {k} \cup (Known(k) \ {t.to}), "impatient")
  /\ UNCHANGED <<kernels, pending, reg, up, agreed, used>>

\* SyncPeerKernels tells only of kernels it has no link to, and first makes up for a missing Client
SyncPeerKernels(k, t) ==
  /\ t \in work[k] /\ t.op = "syncPeer" /\ ~Locked(k)
  /\ CASE Linked(k, t.to) ->
            Send(k, t, {j \in Known(k) \ {t.to} : ~Linked(k, j)}, "impatient")
       [] kernels[k][t.to] = "known" /\ t.then = "connect" ->
            Becomes(k, t, {Task("connect", t.to, {}, "peer")})
       [] OTHER -> Becomes(k, t, {})
  /\ UNCHANGED <<kernels, pending, reg, up, agreed, used>>

\* mutant: only the kernels the caller lacks are answered, those it tells of are not added
SyncKnownKernelsAnswers(k, t) ==
  LET answer == Known(t.to) \ (t.list \cup {k})
  IN
  /\ t \in work[k] /\ t.op = "sync" /\ t.to \in up /\ ~Locked(t.to)
  /\ Becomes(k, t, IF answer = {} \/ t.then = "late" THEN {} ELSE {Task("dial", t.to, answer, "rest")})
  /\ UNCHANGED <<kernels, pending, reg, up, agreed, used>>

\* SyncKnownKernels at kernel j: unknown kernels get an entry and are dialled, and the
\* answer names them and those the caller did not list
SyncKnownKernels(k, t) ==
  LET j == t.to
      new == {x \in t.list \ {j} : kernels[j][x] = "none"}
      answer == (new \cup (Known(j) \ (t.list \cup {k}))) \ {k}
  IN
  /\ t \in work[k] /\ t.op = "sync" /\ j \in up /\ ~Locked(j)
  /\ kernels' = [kernels EXCEPT ![j] = [x \in Kernels |-> IF x \in new THEN "known" ELSE @[x]]]
  /\ work' = [work EXCEPT
       ![k] = (@ \ {t}) \cup IF answer = {} \/ t.then = "late" THEN {}
                             ELSE {Task("dial", j, answer, "rest")},
       ![j] = @ \cup {Task("connect", x, {}, "introduced") : x \in new}]
  /\ UNCHANGED <<pending, reg, up, agreed, used>>

\* The handler waits for a lock, and the caller gives up; the handler goes on
SyncTimeout(k, t) ==
  /\ t \in work[k] /\ t.op = "sync" /\ t.then = "impatient" /\ t.to \in up /\ Locked(t.to)
  /\ Becomes(k, t, {[t EXCEPT !.then = "late"]})
  /\ UNCHANGED <<kernels, pending, reg, up, agreed, used>>

SyncFails(k, t) ==
  /\ t \in work[k] /\ t.op = "sync" /\ t.to \notin up
  /\ Becomes(k, t, {})
  /\ UNCHANGED <<kernels, pending, reg, up, agreed, used>>

-----------------------------------------------------------------------------
(* Restarts *)

Stop(k) ==
  /\ k \in up /\ Count("faults") /\ Crash(k)

Start(k) ==
  /\ k \notin up
  /\ up' = up \cup {k}
  /\ work' = [work EXCEPT ![k] = @ \cup {Task("request", j, {}, "end") : j \in Seeds[k]}]
  /\ UNCHANGED <<kernels, pending, reg, agreed, used>>

-----------------------------------------------------------------------------
Command ==
  \E k \in Kernels :
    \/ \E j \in Kernels \ {k} : ConnectKernel(k, j) \/ DisconnectFromKernel(k, j)
    \/ Stop(k)

Message == \E k \in Kernels : \E j \in Kernels \ {k} : EnsureKernelConnected(k, j)

Approve == \E k \in Kernels : \E r \in pending[k] : ApprovePendingRequest(k, r)

Goroutine ==
  \E k \in Kernels : \E t \in work[k] :
    \/ RequestLink(k, t) \/ Connect(k, t)
    \/ \E j \in t.list : DialNew(k, t, j)
    \/ BroadcastKnownKernels(k, t) \/ SyncKnownKernelsToKernel(k, t) \/ SyncPeerKernels(k, t)
    \/ SyncKnownKernels(k, t) \/ SyncTimeout(k, t) \/ SyncFails(k, t)

Registration ==
  \E c \in reg :
    \/ RegisterCheck(c) \/ RegisterStore(c) \/ RegisterClient(c) \/ RegisterAnswer(c)
    \/ RequestReturns(c) \/ ConnectReturns(c) \/ ApproveReturns(c) \/ CallFails(c)

Process == \E k \in Kernels : Start(k)

Next == Command \/ Message \/ Approve \/ Goroutine \/ Registration \/ Process

Spec == Init /\ [][Next]_vars

\* The runtime runs every goroutine that can go on, and calls are served
FairSpec == Spec /\ WF_vars(Goroutine) /\ WF_vars(Registration)

-----------------------------------------------------------------------------
(* Properties *)

Tasks == [op : {"request", "connect", "dial", "broadcast", "syncTo", "syncPeer", "sync"},
          to : Kernels, list : SUBSET Kernels,
          then : {"end", "shell", "approved", "introduced", "rest", "peer", "connect",
                  "patient", "impatient", "late", "gone"}]

Calls == [from : Kernels, to : Kernels, kind : {"request", "plain", "approve"},
          at : {"sent", "checked", "stored", "client", "registered", "already", "pending"},
          task : Tasks]

\* Every map, goroutine and call is well formed
TypeOK ==
  /\ kernels \in [Kernels -> [Kernels -> {"none", "known", "linked"}]]
  /\ pending \in [Kernels -> SUBSET [from : Kernels, id : Nat]]
  /\ work \in [Kernels -> SUBSET Tasks]
  /\ reg \subseteq Calls
  /\ up \subseteq Kernels
  /\ agreed \subseteq SUBSET Kernels
  /\ used \in [requests : Nat, faults : Nat]

\* The map as the promise of the interconnection sees it
Network == INSTANCE KernelNetwork WITH known <- [k \in Kernels |-> Known(k)]

\* REFINEMENT.  Whatever is asked, approved, told on, dialled, lost or restarted, and in
\* whatever order, a kernel comes to know only kernels that a chain of approvals joins it to.
NetworkSpec == Network!Spec

\* SAFETY.  A kernel that was never joined to a group by an approval is known to none of
\* them, and knows none of them.
LinkWasAgreed ==
  \A S \in SUBSET Kernels :
    Network!Closed(S) => \A k \in S, j \in Kernels \ S :
                           kernels[k][j] = "none" /\ kernels[j][k] = "none"

Quiet == reg = {} /\ \A k \in Kernels : work[k] = {}

\* SAFETY.  Without disconnect-kernel and restarts, once everything has settled links are
\* mutual and every kernel heard of is linked: nobody forwards to a kernel that ignores it.
QuietIsMutual ==
  Quiet /\ used.faults = 0 =>
    \A k, j \in Kernels : kernels[k][j] = kernels[j][k] /\ kernels[k][j] # "known"

\* A circle of kernels each of which keeps its lock and waits for the next
CircularWait ==
  \E S \in SUBSET Kernels \ {{}} : \A k \in S :
    \E c \in reg : c.from = k /\ Holding(c) /\ c.to \in S /\ c.at \notin Answers

JoinedAreLinked ==
  \A k \in Kernels, j \in Kernels :
    k # j /\ ~Linked(k, j) => ~Network!Joined(k, j)

\* LIVENESS.  Again and again all kernels that are joined are linked both ways, unless some
\* wait for each other in a circle, or were stopped or disconnected: nothing else keeps an
\* approval from taking effect, or the lists of known kernels from spreading.
JoinedGetLinked == []<>(JoinedAreLinked \/ CircularWait \/ used.faults > 0)

\* SAFETY.  The maps are well formed, hold only kernels joined by approvals, and agree once all is
\* quiet (RegisterKernel, connectToKernelInternal, ApprovePendingRequest)
LinksConsistent == TypeOK /\ LinkWasAgreed /\ QuietIsMutual
=============================================================================
