---------------------------- MODULE RouteForward ----------------------------
(***************************************************************************)
(* A channel whose members are connectors of several kernels: how packets  *)
(* and acknowledgements travel from kernel to kernel (PushData in          *)
(* kernel/circulation/channel_manager.go, ForwardData in                   *)
(* kernel/server/kernel_service.go and multi_kernel_manager.go, the        *)
(* callbacks of kernel/cmd/main.go), and what every kernel on the way      *)
(* records of them.                                                        *)
(*                                                                         *)
(* A packet moves by nested calls: PushData of one kernel calls            *)
(* ForwardData of the next, whose handler calls its own PushData, and a    *)
(* kernel writes its row of the business chain only when the calls it made *)
(* have returned.  An actor is a connector's call of StreamData or SendAck *)
(* with the stack of handlers it waits for; actors interleave where a call *)
(* is made, arrives and returns.                                           *)
(*                                                                         *)
(* What a kernel does with a packet for its own connectors is              *)
(* ChannelDelivery, and the details of its tables are DataEvidence; here a *)
(* hash is the sequence of the packets it covers, and a signature is       *)
(* determined by what is signed and the kernels that signed it in turn.    *)
(***************************************************************************)
EXTENDS RouteTable, SequencesExt

CONSTANTS
  Kernels,
  SenderKernels,       \* the kernels of SenderIDs, in that order
  ReceiverKernels,     \* the kernels of ReceiverIDs
  Routes,              \* the route configurations each kernel has loaded
  Presences,           \* what a receiver may be: "subscribed", "online" or "offline"
  Targets,             \* the kernels packets are addressed to; NoKernel is a broadcast
  MaxPackets,          \* bound: packets
  MaxFaults,           \* bound: calls that fail, channels closed, kernels restarted
  MaxDepth             \* bound: nested calls of one packet

Senders == Range(SenderKernels)
Members == Senders \cup ReceiverKernels

Hops == [from : Kernels \cup {NoKernel}, to : Kernels \cup {NoKernel}]

ASSUME ForwardConstants ==
  /\ Members \subseteq Kernels /\ Targets \subseteq ReceiverKernels \cup {NoKernel}
  /\ NoKernel \notin Kernels /\ Presences \subseteq {"subscribed", "online", "offline"}
  /\ SenderKernels # <<>> /\ Senders \cap ReceiverKernels = {}
  /\ SenderKernels \in Seq(Kernels)
  /\ \A k \in Kernels : \A c \in Routes[k] :
       c.hops \in Seq(Hops) /\ c.enabled \in BOOLEAN
  /\ {MaxPackets, MaxFaults, MaxDepth} \subseteq Nat

VARIABLES
  status,              \* the channel at each kernel: "active", "closed" or "none"
  listening,           \* the receiver there: "subscribed", "online" or "offline"
  chain,               \* business_data_chain of each kernel
  evidence,            \* DATA_SEND, DATA_RECEIVE and ACK_RECEIVED between kernels
  got,                 \* data packets a kernel has queued or kept for its receiver
  stack,               \* of every actor, the handlers that wait for each other
  pushed,              \* packets so far
  faults,              \* faults so far
  overlapped           \* two actors have been under way at once

vars == <<status, listening, chain, evidence, got, stack, pushed, faults, overlapped>>

\* A sender has one stream, a receiver acknowledges one packet at a time
Actors == {"data"} \X Senders \cup {"ack"} \X ReceiverKernels

\* kind "data", "end" (the empty packet at the end of a stream) or "ack"
Packet(n, kind, from, to, hash, sig) ==
  [n |-> n, kind |-> kind, from |-> from, to |-> to, hash |-> hash, sig |-> sig]

\* Handler at kernel at, called by kernel from: todo are the kernels still to be served, hash
\* is the hash this kernel computed
Frame(at, from, p, todo, hash) ==
  [at |-> at, from |-> from, p |-> p, pc |-> "forward", todo |-> todo, hash |-> hash]

\* A call that has not been handled yet
Called(at, from, p) ==
  [at |-> at, from |-> from, p |-> p, pc |-> "handle", todo |-> {}, hash |-> <<>>]

\* BusinessChainRecord; an acknowledgement covers no data
Row(p, hash, prevHash, sig) ==
  [n |-> p.n, ack |-> p.kind = "ack", hash |-> hash, prevHash |-> prevHash,
   prevSig |-> p.sig, sig |-> sig]

\* KernelSign
Sign(sig, k) == Append(sig, k)

Rows(k) == Range(chain[k])

\* GetLastDataHash
LastDataHash(k) ==
  LET data == {i \in DOMAIN chain[k] : ~chain[k][i].ack}
  IN  IF data = {} THEN <<>> ELSE chain[k][Max(data)].hash

Init ==
  /\ status = [k \in Kernels |-> IF k \in Members THEN "active" ELSE "none"]
  /\ listening \in [ReceiverKernels -> Presences]
  /\ chain = [k \in Kernels |-> <<>>]
  /\ evidence = [k \in Kernels |-> {}]
  /\ got = [k \in ReceiverKernels |-> <<>>]
  /\ stack = [a \in Actors |-> <<>>]
  /\ pushed = <<>> /\ faults = 0 /\ overlapped = FALSE

Event(type, n, peer) == [type |-> type, n |-> n, peer |-> peer]
Log(k, e) == evidence' = [evidence EXCEPT ![k] = @ \cup {e}]

Top(a) == Last(stack[a])
At(a, pc) == stack[a] # <<>> /\ Top(a).pc = pc
Return(a) == stack' = [stack EXCEPT ![a] = Front(@)]

\* A connector's call begins
Begin(a) ==
  /\ stack[a] = <<>>
  /\ overlapped' = (overlapped \/ \E b \in Actors : stack[b] # <<>>)

Fault(happens) == IF happens THEN faults < MaxFaults /\ faults' = faults + 1 ELSE UNCHANGED faults

-----------------------------------------------------------------------------
(* PushData at kernel k *)

\* GetPreviousHop: the kernels before this one on the routes
Back(k) == PreviousHops(Routes[k], k) \ {NoKernel, k}

\* mutant: an acknowledgement is only sent back along the route
BackOnly(k, p) ==
  IF p.kind = "ack" THEN {{j} \ {NoKernel} : j \in PreviousHops(Routes[k], k)}
  ELSE {IF p.to # NoKernel THEN {p.to} ELSE ReceiverKernels}

\* mutant: a broadcast goes to all members of the channel
LegsAllMembers(k, p) ==
  IF p.kind = "ack" /\ p.to # k /\ Back(k) # {} THEN {{j} : j \in Back(k)}
  ELSE {IF p.to # NoKernel THEN {p.to} ELSE Members}

\* The kernels a packet is for.  An acknowledgement goes back along the route where there is a
\* hop before this kernel's, and to its own target where there is none; a broadcast goes to the
\* kernels of all receivers, as this kernel knows them
Legs(k, p) ==
  IF p.kind = "ack" /\ p.to # k /\ Back(k) # {} THEN {{j} : j \in Back(k)}
  ELSE {IF p.to # NoKernel THEN {p.to} ELSE ReceiverKernels}

ForMe(k, p) == p.kind = "data" /\ k \in ReceiverKernels /\ p.to \in {NoKernel, k}

\* Queued for the subscriber, or kept for a receiver a broadcast did not find; a packet for
\* this connector alone is kept for nobody
Deliver(k, p) ==
  got' = IF ForMe(k, p) /\ (listening[k] = "subscribed" \/ p.to = NoKernel)
         THEN [got EXCEPT ![k] = Append(@, p.n)] ELSE got

\* The receiver of a broadcast is online and not subscribed: the packet is buffered
ShouldBuffer(k, p) ==
  p.to = NoKernel /\ k \in ReceiverKernels /\ listening[k] = "online"

\* PushData at kernel k of a packet that came from kernel from: it is queued, AfterSent records
\* DATA_RECEIVE, and the handler goes on to the kernels in todo.  A packet that was buffered
\* for a local receiver goes no further, and neither does one the channel refuses
PushData(a, below, k, from, p, hash) ==
  LET Goes(todo) == stack' = [stack EXCEPT ![a] = Append(below, Frame(k, from, p, todo, hash))]
      e == IF p.kind = "ack" THEN Event("ACK_RECEIVED", p.n, k)
                             ELSE Event("DATA_RECEIVE", p.n, from)
  IN
  \/ /\ status[k] = "active"
     /\ Deliver(k, p)
     /\ IF p.kind = "ack" \/ (p.kind = "data" /\ k # from) THEN Log(k, e) ELSE UNCHANGED evidence
     /\ \E legs \in Legs(k, p) : Goes(IF ShouldBuffer(k, p) THEN {} ELSE legs \ {k})
  \/ /\ status[k] # "active"
     /\ IF p.kind = "ack" THEN Log(k, e) ELSE UNCHANGED evidence
     /\ Goes({})
     /\ UNCHANGED got

-----------------------------------------------------------------------------
(* The connectors *)

\* StreamData: the packet is hashed, signed and recorded at the sender's kernel, and pushed
StreamData(k, to) ==
  LET n == Len(pushed) + 1
      p == Packet(n, "data", k, to, <<>>, <<>>)
      hash == Append(LastDataHash(k), n)
  IN
  /\ status[k] = "active" /\ n <= MaxPackets
  /\ pushed' = Append(pushed, [kind |-> "data", from |-> k, hash |-> hash])
  /\ chain' = [chain EXCEPT ![k] = Append(@, Row(p, hash, LastDataHash(k), Sign(<<>>, k)))]
  /\ Begin(<<"data", k>>)
  /\ PushData(<<"data", k>>, <<>>, k, k, [p EXCEPT !.hash = hash, !.sig = Sign(<<>>, k)], hash)
  /\ UNCHANGED <<status, listening, faults>>

\* At the end of a stream that had data an empty packet goes to the other kernels, always as a broadcast
StreamEOF(k) ==
  LET n == Len(pushed) + 1
      mine == SelectSeq(pushed, LAMBDA p : p.from = k)
  IN
  /\ status[k] = "active" /\ n <= MaxPackets
  /\ mine # <<>> /\ Last(mine).kind = "data"
  /\ pushed' = Append(pushed, [kind |-> "end", from |-> k, hash |-> <<>>])
  /\ Begin(<<"data", k>>)
  /\ PushData(<<"data", k>>, <<>>, k, k, Packet(n, "end", k, NoKernel, <<>>, <<>>), <<>>)
  /\ UNCHANGED <<status, listening, chain, faults>>

\* RecordAck: an acknowledgement with the same signature is recorded once
RecordAck(k, p) ==
  IF \E r \in Rows(k) : r.ack /\ r.n = p.n /\ r.prevSig = p.sig THEN chain
  ELSE [chain EXCEPT ![k] = Append(@, Row(p, <<>>, <<>>, Sign(p.sig, k)))]

\* SendAck: it is recorded here, and addressed to the first sender of the channel
SendAck(k, n) ==
  LET p == Packet(n, "ack", k, SenderKernels[1], <<>>, <<>>)
  IN
  /\ status[k] = "active"
  /\ n \in Range(got[k]) /\ \A r \in Rows(k) : ~(r.ack /\ r.n = n)
  /\ chain' = RecordAck(k, p)
  /\ Begin(<<"ack", k>>)
  /\ PushData(<<"ack", k>>, <<>>, k, k, [p EXCEPT !.sig = Sign(<<>>, k)], <<>>)
  /\ UNCHANGED <<status, listening, pushed, faults>>

\* Where kernel k sends what is for kernel rk: to the next hop of a route, or to rk itself if
\* there is none or it has no name
Towards(k, rk) ==
  LET next == NextHops(Routes[k], k, rk)
  IN  IF next = {} THEN {rk} ELSE {IF j = NoKernel THEN rk ELSE j : j \in next}

\* mutant: a call whose answer is lost is made again
ForwardToKernelAgain(a, rk) ==
  LET f == Top(a)
  IN
  /\ At(a, "forward") /\ rk \in f.todo /\ Len(stack[a]) < MaxDepth
  /\ \E to \in Towards(f.at, rk), lost \in BOOLEAN :
       /\ IF f.p.kind = "data" THEN Log(f.at, Event("DATA_SEND", f.p.n, to))
                               ELSE UNCHANGED evidence
       /\ Fault(lost)
       /\ stack' = [stack EXCEPT ![a] =
            Append(Append(Front(@), [f EXCEPT !.todo = IF lost THEN @ ELSE @ \ {rk}]),
                   Called(to, f.at, f.p))]
  /\ UNCHANGED <<status, listening, chain, got, pushed, overlapped>>

\* mutant: DATA_SEND is recorded for the final target, not for the next hop
ForwardToKernelFinal(a, rk) ==
  LET f == Top(a)
  IN
  /\ At(a, "forward") /\ rk \in f.todo /\ Len(stack[a]) < MaxDepth
  /\ \E to \in Towards(f.at, rk), lost \in BOOLEAN :
       /\ IF f.p.kind = "data" THEN Log(f.at, Event("DATA_SEND", f.p.n, rk))
                               ELSE UNCHANGED evidence
       /\ Fault(lost)
       /\ stack' = [stack EXCEPT ![a] =
            LET rest == Append(Front(@), [f EXCEPT !.todo = @ \ {rk}])
            IN  IF lost THEN rest ELSE Append(rest, Called(to, f.at, f.p))]
  /\ UNCHANGED <<status, listening, chain, got, pushed, overlapped>>

\* One turn of PushData's last loop: the next hop towards rk, or rk itself; DATA_SEND is
\* recorded first, and a call that fails is only logged
ForwardToKernel(a, rk) ==
  LET f == Top(a)
  IN
  /\ At(a, "forward") /\ rk \in f.todo /\ Len(stack[a]) < MaxDepth
  /\ \E to \in Towards(f.at, rk), lost \in BOOLEAN :
       /\ IF f.p.kind = "data" THEN Log(f.at, Event("DATA_SEND", f.p.n, to))
                               ELSE UNCHANGED evidence
       /\ Fault(lost)
       /\ stack' = [stack EXCEPT ![a] =
            LET rest == Append(Front(@), [f EXCEPT !.todo = @ \ {rk}])
            IN  IF lost THEN rest ELSE Append(rest, Called(to, f.at, f.p))]
  /\ UNCHANGED <<status, listening, chain, got, pushed, overlapped>>

-----------------------------------------------------------------------------
(* ForwardData at the kernel that is called *)

\* A kernel without the channel answers with a failure, which the caller does not look at
ForwardRefused(a) ==
  /\ At(a, "handle") /\ status[Top(a).at] = "none"
  /\ Return(a)
  /\ UNCHANGED <<status, listening, chain, evidence, got, pushed, faults, overlapped>>

\* mutant: the packet is signed in the name of the sender's kernel
ForwardDataUnsigned(a) ==
  LET f == Top(a)
  IN
  /\ At(a, "handle") /\ status[f.at] # "none"
  /\ PushData(a, Front(stack[a]), f.at, f.from,
              [f.p EXCEPT !.sig = Append(@, Head(SenderKernels))],
              Append(LastDataHash(f.at), f.p.n))
  /\ UNCHANGED <<status, listening, chain, pushed, faults, overlapped>>

\* The packet keeps the hash it came with, and its signature becomes this kernel's.  The hash
\* is computed again from the payload and the last hash of this kernel.  If PushData refuses,
\* ForwardData goes on all the same
ForwardData(a) ==
  LET f == Top(a)
  IN
  /\ At(a, "handle") /\ status[f.at] # "none"
  /\ PushData(a, Front(stack[a]), f.at, f.from, [f.p EXCEPT !.sig = Sign(@, f.at)],
              Append(LastDataHash(f.at), f.p.n))
  /\ UNCHANGED <<status, listening, chain, pushed, faults, overlapped>>

\* After PushData: the row of the business chain, with the hash and the signature computed
\* before it and the last hash as it is now; nothing for an empty packet, and at the
\* sender's or the acknowledging kernel the row is there already
RecordRow(a) ==
  LET f == Top(a)
      in == [f.p EXCEPT !.sig = Front(@)]
  IN
  /\ At(a, "forward") /\ f.todo = {}
  /\ chain' = IF f.p.kind = "end" \/ f.at = f.from THEN chain
              ELSE IF f.p.kind = "ack" THEN RecordAck(f.at, in)
              ELSE [chain EXCEPT ![f.at] =
                      Append(@, Row(in, f.hash, LastDataHash(f.at), f.p.sig))]
  /\ Return(a)
  /\ UNCHANGED <<status, listening, evidence, got, pushed, faults, overlapped>>

-----------------------------------------------------------------------------
(* Faults *)

\* The channel is closed at one kernel, the others not having heard of it yet
CloseChannel(k) ==
  /\ status[k] = "active" /\ Fault(TRUE)
  /\ status' = [status EXCEPT ![k] = "closed"]
  /\ UNCHANGED <<listening, chain, evidence, got, stack, pushed, overlapped>>

\* A kernel that restarts has its tables, and no channels
Restart(k) ==
  /\ status[k] # "none" /\ Fault(TRUE)
  /\ \A a \in Actors : \A f \in Range(stack[a]) : f.at # k
  /\ status' = [status EXCEPT ![k] = "none"]
  /\ UNCHANGED <<listening, chain, evidence, got, stack, pushed, overlapped>>

Step(a) ==
  \/ ForwardRefused(a) \/ ForwardData(a) \/ RecordRow(a)
  \/ \E rk \in Kernels : ForwardToKernel(a, rk)

Next ==
  \/ \E k \in Senders : StreamEOF(k) \/ \E to \in Targets : StreamData(k, to)
  \/ \E k \in ReceiverKernels, n \in 1 .. MaxPackets : SendAck(k, n)
  \/ \E a \in Actors : Step(a)
  \/ \E k \in Kernels : CloseChannel(k) \/ Restart(k)

Spec == Init /\ [][Next]_vars

\* Some handler goes on while one can; connectors need not send or acknowledge
FairSpec == Spec /\ WF_vars(\E a \in Actors : Step(a))

-----------------------------------------------------------------------------
(* Properties *)

Signatures == Seq(Kernels)
Hashes == Seq(1 .. MaxPackets)
Numbers == 1 .. MaxPackets
Kinds == {"data", "end", "ack"}

Packets == [n : Numbers, kind : Kinds, from : Kernels, to : Kernels \cup {NoKernel},
            hash : Hashes, sig : Signatures]
Frames == [at : Kernels, from : Kernels, p : Packets, pc : {"handle", "forward"},
           todo : SUBSET Kernels, hash : Hashes]
ChainRows == [n : Numbers, ack : BOOLEAN, hash : Hashes, prevHash : Hashes,
              prevSig : Signatures, sig : Signatures]
Events == [type : {"DATA_SEND", "DATA_RECEIVE", "ACK_RECEIVED"}, n : Numbers, peer : Kernels]

\* Every table, handler and packet is well formed
TypeOK ==
  /\ status \in [Kernels -> {"active", "closed", "none"}]
  /\ listening \in [ReceiverKernels -> Presences]
  /\ chain \in [Kernels -> Seq(ChainRows)]
  /\ evidence \in [Kernels -> SUBSET Events]
  /\ got \in [ReceiverKernels -> Seq(Numbers)]
  /\ stack \in [Actors -> Seq(Frames)]
  /\ pushed \in Seq([kind : Kinds, from : Kernels, hash : Hashes]) /\ Len(pushed) <= MaxPackets
  /\ faults \in 0 .. MaxFaults /\ overlapped \in BOOLEAN

\* SAFETY.  A packet does not come back to a kernel that is still forwarding it: "skip the
\* current kernel (to avoid circular forwarding)" (channel_manager.go:1513).
NoCircularForwarding ==
  \A a \in Actors : \A i, j \in DOMAIN stack[a] : i # j => stack[a][i].at # stack[a][j].at

\* SAFETY.  Whatever fails on the way, a receiver is handed a packet at most once: nothing is
\* retried, and a packet does not arrive by two ways.
DeliveredOnce == \A k \in ReceiverKernels : IsInjective(got[k])

\* SAFETY.  A kernel that has recorded the receipt of a packet from another finds there the
\* record of its having been sent, at any time, whatever fails between the two.
SentBeforeReceived ==
  \A k \in Kernels : \A e \in evidence[k] :
    e.type = "DATA_RECEIVE" => Event("DATA_SEND", e.n, k) \in evidence[e.peer]

InProgress(k, n) == \E a \in Actors : \E f \in Range(stack[a]) : f.at = k /\ f.p.n = n

\* SAFETY.  The business chains of the kernels are one chain: the signature a row follows is
\* that of a row for the same packet at the kernel which made it, unless that kernel still
\* waits for the calls it made.
SignaturesLink ==
  \A k \in Kernels : \A r \in Rows(k) :
    r.prevSig = <<>> \/ LET j == Last(r.prevSig)
                        IN  \/ InProgress(j, r.n)
                            \/ \E q \in Rows(j) : q.n = r.n /\ q.ack = r.ack /\ q.sig = r.prevSig

\* SAFETY.  An acknowledgement comes back to the sender by the kernels the packet took, in
\* the opposite order, and each of them has signed it.
AckRetracesData ==
  \A k \in Senders, j \in ReceiverKernels :
    \A r \in Rows(k), d \in Rows(j) :
      r.ack /\ ~d.ack /\ d.n = r.n /\ pushed[r.n].from = k /\ r.sig[1] = j =>
        r.sig = Reverse(d.sig)

\* SAFETY.  "The data_hash computed here should be the one the hop before passed on"
\* (kernel_service.go:1006): true as long as there is one sender and one target, nothing fails
\* and no two packets are under way at once.
HashesAgree ==
  /\ ~overlapped /\ faults = 0 /\ (\A t, u \in Targets : t = u)
  /\ \A i, j \in DOMAIN pushed : pushed[i].from = pushed[j].from
  =>
    \A k \in Kernels : \A r \in Rows(k) : ~r.ack => r.hash = pushed[r.n].hash

Acknowledged(k) == {r.n : r \in {r \in Rows(k) : r.ack}}

\* LIVENESS.  Acknowledgements do not stay on the way: again and again every one that was
\* given has reached the kernel of the sender it is for, unless something fails.
AcksArrive ==
  []<>(\/ faults > 0
       \/ \A j \in ReceiverKernels : Acknowledged(j) \subseteq Acknowledged(SenderKernels[1]))

\* SAFETY.  The tables are well formed, and the signatures make one chain of the business chains
\* of the kernels (ForwardData, RecordDataHash, RecordAck).
ChainsConsistent == TypeOK /\ SignaturesLink

\* SAFETY.  What the kernels have recorded of one packet agrees: the kernels that signed it on
\* its way and the way back of its acknowledgement, and its hash.
RowsAgree == AckRetracesData /\ HashesAgree
=============================================================================
