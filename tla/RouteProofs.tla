---------------------------- MODULE RouteProofs -----------------------------
(***************************************************************************)
(* Proofs about routes: RouteForward, for any kernels, routes, packets and *)
(* faults; RouteStore and MultiHopRoute, for any files, routes and peers.  *)
(*                                                                         *)
(* That a kernel finds the sending of what it has received on record at    *)
(* the kernel before it needs the same of the calls that are on their way. *)
(* That the signatures of the business chains link the kernels needs what  *)
(* the waiting handlers of a packet have to do with each other: a row is   *)
(* written when the calls behind it have returned, so that it is linked to *)
(* a handler first and to that handler's own row later.                    *)
(*                                                                         *)
(* That nothing circulates, that a packet is handed over once and that the *)
(* records agree depend on the routes.  What they have to be like is       *)
(* stated: Nearer, OneTarget, OneWay and WayBack; a StraightRoute past any *)
(* number of kernels is.  The hashes agree because a packet is recorded    *)
(* from the receivers back: what the kernels behind a handler last hashed  *)
(* is what its packet follows on the way there, and the packet itself on   *)
(* the way back.                                                           *)
(*                                                                         *)
(* That nobody is linked unasked needs that an id stands for one peer,     *)
(* wherever requests, approvals, hops and retries keep it; that a session  *)
(* is completed once needs that a name leads to a session of that name.    *)
(***************************************************************************)
EXTENDS RouteForward, MultiHopRoute, FiniteSetTheorems, SequenceTheorems,
        WellFoundedInduction, TLAPS

-----------------------------------------------------------------------------
(* Routes *)

\* A set of numbers that is not empty has a smallest member
LEMMA LeastMember ==
  ASSUME NEW S \in SUBSET Nat, S # {}
  PROVE  \E x \in S : \A y \in S : x =< y
<1> DEFINE R == OpToRel(<, Nat)
<1>1. IsWellFoundedOn(R, Nat)
  BY NatLessThanWellFounded
<1> HIDE DEF R
<1>2. PICK x \in S : \A y \in S : ~ (<<y, x>> \in R)
  BY <1>1, WFMin
<1>3. ASSUME NEW y \in S PROVE x =< y
  <2>1. ~ (<<y, x>> \in R)
    BY <1>2
  <2>2. x \in Nat /\ y \in Nat
    OBVIOUS
  <2>3. ~ (y < x)
    BY <2>1, <2>2 DEF R, OpToRel
  <2> QED BY <2>2, <2>3
<1> QED BY <1>3

\* That member is the minimum
LEMMA MinIsMember ==
  ASSUME NEW S \in SUBSET Nat, S # {}
  PROVE  Min(S) \in S
<1>1. \E z \in S : \A y \in S : z =< y
  BY LeastMember
<1> QED BY <1>1 DEF Min

\* A set of numbers up to n that is not empty has a largest member
LEMMA MaxIsMember ==
  ASSUME NEW n \in Nat, NEW S \in SUBSET (1 .. n), S # {}
  PROVE  Max(S) \in S
<1> DEFINE T == {n - i : i \in S}
<1>1. T \subseteq Nat /\ T # {}
  <2>1. ASSUME NEW i \in S PROVE n - i \in Nat
    OBVIOUS
  <2>2. PICK i \in S : TRUE
    OBVIOUS
  <2>3. n - i \in T
    OBVIOUS
  <2> QED BY <2>1, <2>3
<1> DEFINE R == OpToRel(<, Nat)
<1>2. IsWellFoundedOn(R, Nat)
  BY NatLessThanWellFounded
<1> HIDE DEF R
<1>3. PICK x \in T : \A y \in T : ~ (<<y, x>> \in R)
  BY <1>1, <1>2, WFMin
<1>4. PICK i \in S : x = n - i
  BY <1>3
<1>5. ASSUME NEW j \in S PROVE i >= j
  <2>1. n - j \in T /\ n - j \in Nat /\ x \in Nat
    BY <1>1
  <2>2. ~ (<<n - j, x>> \in R)
    BY <1>3, <2>1
  <2>3. ~ (n - j < x)
    BY <2>1, <2>2 DEF R, OpToRel
  <2> QED BY <1>4, <2>3
<1>6. \E z \in S : \A y \in S : z >= y
  BY <1>5
<1> QED BY <1>6 DEF Max

\* A route does not lead from a kernel to itself
NoHopToItself ==
  \A k \in Kernels : \A c \in Routes[k] :
    \A i \in DOMAIN c.hops : c.hops[i].from # c.hops[i].to

\* A packet for a kernel goes on to a kernel, and to another one unless a route says otherwise
LEMMA TowardsKernels ==
  ASSUME NEW k \in Kernels, NEW rk \in Kernels, NEW to \in Towards(k, rk)
  PROVE  /\ to \in Kernels
         /\ NoHopToItself /\ rk # k => to # k
<1> DEFINE next == NextHops(Routes[k], k, rk)
<1>1. CASE next = {}
  BY <1>1 DEF Towards
<1>2. CASE next # {}
  <2>1. PICK j \in next : to = IF j = NoKernel THEN rk ELSE j
    BY <1>2 DEF Towards
  <2>2. PICK c \in Routes[k] :
          Onward(c, k, rk) # {} /\ j = c.hops[Min(Onward(c, k, rk))].to
    BY <2>1 DEF NextHops
  <2>3. c.hops \in Seq(Hops)
    BY ForwardConstants
  <2>4. Onward(c, k, rk) \in SUBSET Nat
    BY <2>3 DEF Onward
  <2>5. Min(Onward(c, k, rk)) \in Onward(c, k, rk)
    BY <2>2, <2>4, MinIsMember
  <2> DEFINE m == Min(Onward(c, k, rk))
  <2>6. m \in DOMAIN c.hops /\ c.hops[m].from = k
    BY <2>5 DEF Onward
  <2> HIDE DEF m
  <2>7. c.hops[m].to \in Kernels \cup {NoKernel}
    <3>1. c.hops[m] \in Hops
      BY <2>3, <2>6
    <3> QED BY <3>1 DEF Hops
  <2>8. NoHopToItself => c.hops[m].to # k
    BY <2>6 DEF NoHopToItself
  <2> QED BY <2>1, <2>2, <2>7, <2>8 DEF m
<1> QED BY <1>1, <1>2

\* The kernels a packet is for are kernels
LEMMA LegsKernels ==
  ASSUME NEW k \in Kernels, NEW p \in Packets, NEW legs \in Legs(k, p)
  PROVE  legs \subseteq Kernels
<1>1. Back(k) \subseteq Kernels
  <2> SUFFICES ASSUME NEW j \in PreviousHops(Routes[k], k), j # NoKernel PROVE j \in Kernels
    BY DEF Back
  <2>1. PICK c \in Routes[k] :
          /\ Arriving(c, k) # {}
          /\ j = IF Min(Arriving(c, k)) > 1 THEN c.hops[Min(Arriving(c, k)) - 1].to ELSE NoKernel
    BY DEF PreviousHops
  <2>2. c.hops \in Seq(Hops)
    BY ForwardConstants
  <2>3. Arriving(c, k) \in SUBSET Nat
    BY <2>2 DEF Arriving
  <2> DEFINE m == Min(Arriving(c, k))
  <2>4. m \in Arriving(c, k)
    BY <2>1, <2>3, MinIsMember
  <2>5. m > 1 /\ j = c.hops[m - 1].to
    BY <2>1
  <2> HIDE DEF m
  <2>6. m \in 1 .. Len(c.hops) /\ Len(c.hops) \in Nat
    BY <2>2, <2>4 DEF Arriving
  <2>7. m - 1 \in 1 .. Len(c.hops)
    BY <2>5, <2>6
  <2>8. c.hops[m - 1] \in Hops
    BY <2>2, <2>7
  <2> QED BY <2>5, <2>8 DEF Hops
<1>2. p.to \in Kernels \cup {NoKernel}
  BY DEF Packets
<1>3. ReceiverKernels \subseteq Kernels
  BY ForwardConstants DEF Members
<1>4. \/ \E j \in Back(k) : legs = {j}
      \/ p.to # NoKernel /\ legs = {p.to}
      \/ legs = ReceiverKernels
  BY DEF Legs
<1> QED BY <1>1, <1>2, <1>3, <1>4

-----------------------------------------------------------------------------
(* Tables and stacks *)

\* The last hash of a chain
LEMMA LastHashType ==
  ASSUME TypeOK, NEW k \in Kernels
  PROVE  LastDataHash(k) \in Hashes
<1> DEFINE data == {i \in DOMAIN chain[k] : ~chain[k][i].ack}
<1>1. chain[k] \in Seq(ChainRows)
  BY DEF TypeOK
<1>2. CASE data = {}
  BY <1>2 DEF LastDataHash, Hashes
<1>3. CASE data # {}
  <2>1. Len(chain[k]) \in Nat /\ data \in SUBSET (1 .. Len(chain[k]))
    BY <1>1
  <2>2. Max(data) \in data
    BY <1>3, <2>1, MaxIsMember
  <2>3. Max(data) \in DOMAIN chain[k]
    BY <2>2
  <2>4. LastDataHash(k) = chain[k][Max(data)].hash
    BY <1>3, Zenon DEF LastDataHash
  <2> HIDE DEF data
  <2>5. chain[k][Max(data)] \in ChainRows
    BY <1>1, <2>3
  <2> QED BY <2>4, <2>5 DEF ChainRows
<1> QED BY <1>2, <1>3

\* A hash covers one more packet
LEMMA NextHashType ==
  ASSUME TypeOK, NEW k \in Kernels, NEW n \in Numbers
  PROVE  Append(LastDataHash(k), n) \in Hashes
  BY LastHashType DEF Hashes, Numbers

\* A row is added to a chain
LEMMA RowAdded ==
  ASSUME TypeOK, NEW k \in Kernels, NEW row \in ChainRows,
         chain' = [chain EXCEPT ![k] = Append(@, row)]
  PROVE  /\ chain' \in [Kernels -> Seq(ChainRows)]
         /\ \A j \in Kernels : Rows(j)' = IF j = k THEN Rows(j) \cup {row} ELSE Rows(j)
<1>1. \A j \in Kernels : chain[j] \in Seq(ChainRows)
  BY DEF TypeOK
<1>2. chain \in [Kernels -> Seq(ChainRows)]
  BY DEF TypeOK
<1>3. /\ Append(chain[k], row) \in Seq(ChainRows)
      /\ Len(Append(chain[k], row)) = Len(chain[k]) + 1
      /\ \A i \in 1 .. Len(chain[k]) : Append(chain[k], row)[i] = chain[k][i]
      /\ Append(chain[k], row)[Len(chain[k]) + 1] = row
  BY <1>1, AppendProperties
<1>4. chain' \in [Kernels -> Seq(ChainRows)]
  BY <1>2, <1>3
<1>5. chain'[k] = Append(chain[k], row) /\ \A j \in Kernels : j # k => chain'[j] = chain[j]
  BY <1>2
<1>6. \A j \in Kernels : j # k => Rows(j)' = Rows(j)
  BY <1>5 DEF Rows
<1>7. Rows(k)' = Rows(k) \cup {row}
  <2>1. /\ Rows(k) = {chain[k][i] : i \in 1 .. Len(chain[k])}
        /\ Rows(k)' = {chain'[k][i] : i \in 1 .. Len(chain'[k])}
    <3>1. chain[k] \in Seq(ChainRows) /\ chain'[k] \in Seq(ChainRows)
      BY <1>1, <1>3, <1>5
    <3> QED BY <3>1, RangeEquality, Zenon DEF Rows
  <2> DEFINE l == Len(chain[k])
  <2>2. l \in Nat /\ Len(chain'[k]) = l + 1
    BY <1>1, <1>3, <1>5
  <2>3. chain'[k][l + 1] = row /\ \A i \in 1 .. l : chain'[k][i] = chain[k][i]
    BY <1>3, <1>5
  <2> HIDE DEF l
  <2>4. \A i \in 1 .. l + 1 : i \in 1 .. l \/ i = l + 1
    BY <2>2
  <2>5. /\ l + 1 \in 1 .. l + 1 /\ \A i \in 1 .. l : i \in 1 .. l + 1
    BY <2>2
  <2>6. Rows(k) = {chain[k][i] : i \in 1 .. l} /\ Rows(k)' = {chain'[k][i] : i \in 1 .. l + 1}
    BY <2>1, <2>2 DEF l
  <2>7. \A r \in Rows(k)' : r \in Rows(k) \cup {row}
    BY <2>3, <2>4, <2>6
  <2>8. \A r \in Rows(k) \cup {row} : r \in Rows(k)'
    BY <2>3, <2>5, <2>6
  <2> QED BY <2>7, <2>8
<1> QED BY <1>4, <1>6, <1>7

\* The waiting handlers below the one that is at work
LEMMA TopFrame ==
  ASSUME TypeOK, NEW a \in Actors, stack[a] # <<>>
  PROVE  /\ Top(a) = stack[a][Len(stack[a])] /\ Top(a) \in Frames
         /\ Len(stack[a]) \in Nat \ {0}
         /\ Front(stack[a]) \in Seq(Frames) /\ Len(Front(stack[a])) = Len(stack[a]) - 1
         /\ \A i \in 1 .. Len(stack[a]) - 1 : Front(stack[a])[i] = stack[a][i]
<1>1. stack[a] \in Seq(Frames)
  BY DEF TypeOK
<1>2. Len(stack[a]) \in Nat \ {0}
  BY <1>1
<1>3. stack[a][Len(stack[a])] \in Frames
  BY <1>1, <1>2
<1>4. /\ SubSeq(stack[a], 1, Len(stack[a]) - 1) \in Seq(Frames)
      /\ Len(SubSeq(stack[a], 1, Len(stack[a]) - 1)) = Len(stack[a]) - 1
      /\ \A i \in 1 .. Len(stack[a]) - 1 : SubSeq(stack[a], 1, Len(stack[a]) - 1)[i] = stack[a][i]
  BY <1>1, <1>2
<1> QED BY <1>2, <1>3, <1>4 DEF Top, Last, Front

-----------------------------------------------------------------------------
(* The invariants *)

\* Whoever is called with a packet was called by a kernel that has recorded the sending
SentInv ==
  \A a \in Actors : \A i \in 1 .. Len(stack[a]) :
    LET f == stack[a][i]
    IN  f.pc = "handle" /\ f.p.kind = "data" => Event("DATA_SEND", f.p.n, f.at) \in evidence[f.from]

\* A kernel that forwards a packet has signed it
SignedInv ==
  \A a \in Actors : \A i \in 1 .. Len(stack[a]) :
    LET f == stack[a][i]
    IN  f.pc = "forward" /\ f.p.kind # "end" => \E s \in Signatures : f.p.sig = Append(s, f.at)

\* The first handler of a call: it is that of the connector's own kernel, whose row is written
RootFrame(f, ch) ==
  /\ f.pc = "forward" /\ f.at = f.from
  /\ f.p.kind # "end" =>
       \E q \in Range(ch[f.at]) : q.n = f.p.n /\ q.ack = (f.p.kind = "ack") /\ q.sig = f.p.sig

\* A handler f and the one g that waits for it: the signature grows at every kernel
Follows(f, g) ==
  /\ g.pc = "forward" /\ f.from = g.at /\ f.at # f.from
  /\ f.p.n = g.p.n /\ f.p.kind = g.p.kind
  /\ f.p.sig = IF f.pc = "handle" THEN g.p.sig ELSE Append(g.p.sig, f.at)

\* The handlers of a call wait for each other, and none is to call its own kernel
Fits(s, i, ch) ==
  /\ s[i].at \notin s[i].todo
  /\ IF i = 1 THEN RootFrame(s[i], ch) ELSE Follows(s[i], s[i - 1])

StackInv == \A a \in Actors : \A i \in 1 .. Len(stack[a]) : Fits(stack[a], i, chain)

\* Every row is signed by its kernel after the kernels before it
RowsSigned == \A k \in Kernels : \A r \in Rows(k) : r.sig = Append(r.prevSig, k)

\* The kernel whose row r follows
Signer(r) == r.prevSig[Len(r.prevSig)]

\* Handler f stands for the row that r follows, and that is not written yet
StandsFor(f, r) ==
  /\ f.pc = "forward" /\ f.p.kind # "end" /\ f.at = Signer(r)
  /\ f.p.n = r.n /\ r.ack = (f.p.kind = "ack") /\ f.p.sig = r.prevSig

Written(r, ch) ==
  \E q \in Range(ch[Signer(r)]) : q.n = r.n /\ q.ack = r.ack /\ q.sig = r.prevSig

\* The row that r follows is written, or a handler stands for it
Linked(r, st, ch) ==
  \/ \E a \in Actors : \E i \in 1 .. Len(st[a]) : StandsFor(st[a][i], r)
  \/ Written(r, ch)

LinkInv ==
  \A k \in Kernels : \A r \in Rows(k) : r.prevSig # <<>> => Linked(r, stack, chain)

-----------------------------------------------------------------------------
(* What the handlers do *)

\* The records are kept, and those of received data that are added are for packet p, which
\* came to kernel k from another kernel
OnlyReceives(k, from, p) ==
  \A j \in Kernels :
    /\ evidence[j] \subseteq evidence'[j]
    /\ \A e \in evidence'[j] \ evidence[j] :
         e.type = "DATA_RECEIVE" =>
           j = k /\ p.kind = "data" /\ k # from /\ e = Event("DATA_RECEIVE", p.n, from)

\* A record is added
LEMMA LogType ==
  ASSUME TypeOK, NEW k \in Kernels, NEW e \in Events, Log(k, e)
  PROVE  /\ evidence' \in [Kernels -> SUBSET Events]
         /\ \A j \in Kernels : evidence'[j] = IF j = k THEN evidence[k] \cup {e} ELSE evidence[j]
<1>1. evidence \in [Kernels -> SUBSET Events]
  BY DEF TypeOK
<1>2. evidence' = [evidence EXCEPT ![k] = evidence[k] \cup {e}]
  BY DEF Log
<1> QED BY <1>1, <1>2

\* PushData leaves a handler that forwards the packet to other kernels than its own
LEMMA PushEffect ==
  ASSUME TypeOK, NEW a, NEW below, NEW k \in Kernels, NEW from \in Kernels, NEW p \in Packets,
         NEW hash \in Hashes, PushData(a, below, k, from, p, hash)
  PROVE  /\ \E todo \in SUBSET (Kernels \ {k}) :
              stack' = [stack EXCEPT ![a] = Append(below, Frame(k, from, p, todo, hash))]
         /\ got' \in [ReceiverKernels -> Seq(Numbers)]
         /\ evidence' \in [Kernels -> SUBSET Events]
         /\ OnlyReceives(k, from, p)
<1> DEFINE e == IF p.kind = "ack" THEN Event("ACK_RECEIVED", p.n, k)
                ELSE Event("DATA_RECEIVE", p.n, from)
<1>1. e \in Events
  BY DEF Event, Events, Packets
<1>2. got \in [ReceiverKernels -> Seq(Numbers)] /\ evidence \in [Kernels -> SUBSET Events]
  BY DEF TypeOK
<1>3. ASSUME Log(k, e), p.kind = "ack" \/ (p.kind = "data" /\ k # from)
      PROVE  evidence' \in [Kernels -> SUBSET Events] /\ OnlyReceives(k, from, p)
  <2>1. e.type = "DATA_RECEIVE" => p.kind # "ack" /\ e = Event("DATA_RECEIVE", p.n, from)
    BY DEF Event
  <2> HIDE DEF e
  <2>2. /\ evidence' \in [Kernels -> SUBSET Events]
        /\ \A j \in Kernels : evidence'[j] = IF j = k THEN evidence[k] \cup {e} ELSE evidence[j]
    BY <1>1, <1>3, LogType
  <2> QED BY <1>3, <2>1, <2>2 DEF OnlyReceives
<1>4. ASSUME evidence' = evidence
      PROVE  evidence' \in [Kernels -> SUBSET Events] /\ OnlyReceives(k, from, p)
  BY <1>2, <1>4 DEF OnlyReceives
<1>5. CASE status[k] = "active"
  <2>1. Deliver(k, p)
    BY <1>5 DEF PushData
  <2>2. got' \in [ReceiverKernels -> Seq(Numbers)]
    <3>1. p.n \in Numbers
      BY DEF Packets
    <3>2. CASE got' = got
      BY <1>2, <3>2
    <3>3. CASE got' = [got EXCEPT ![k] = Append(@, p.n)] /\ k \in ReceiverKernels
      <4>1. Append(got[k], p.n) \in Seq(Numbers)
        BY <1>2, <3>1, <3>3
      <4> QED BY <1>2, <3>3, <4>1
    <3> QED BY <2>1, <3>2, <3>3 DEF Deliver, ForMe
  <2>3. \/ Log(k, e) /\ (p.kind = "ack" \/ (p.kind = "data" /\ k # from))
        \/ evidence' = evidence
    BY <1>5 DEF PushData
  <2>4. PICK legs \in Legs(k, p) :
          stack' = [stack EXCEPT ![a] =
            Append(below, Frame(k, from, p, IF ShouldBuffer(k, p) THEN {} ELSE legs \ {k}, hash))]
    BY <1>5 DEF PushData
  <2>5. (IF ShouldBuffer(k, p) THEN {} ELSE legs \ {k}) \in SUBSET (Kernels \ {k})
    BY LegsKernels
  <2> QED BY <1>3, <1>4, <2>2, <2>3, <2>4, <2>5
<1>6. CASE status[k] # "active"
  <2>1. /\ (Log(k, e) /\ p.kind = "ack") \/ evidence' = evidence
        /\ stack' = [stack EXCEPT ![a] = Append(below, Frame(k, from, p, {}, hash))]
        /\ got' = got
    BY <1>6 DEF PushData
  <2> QED BY <1>2, <1>3, <1>4, <2>1
<1> QED BY <1>5, <1>6

\* A row for packet p
LEMMA RowType ==
  ASSUME NEW p \in Packets, NEW hash \in Hashes, NEW prevHash \in Hashes, NEW sig \in Signatures
  PROVE  /\ Row(p, hash, prevHash, sig) \in ChainRows
         /\ Row(p, hash, prevHash, sig).n = p.n
         /\ Row(p, hash, prevHash, sig).ack = (p.kind = "ack")
         /\ Row(p, hash, prevHash, sig).prevSig = p.sig /\ Row(p, hash, prevHash, sig).sig = sig
  BY DEF Row, ChainRows, Packets

\* A kernel signs
LEMMA SignType ==
  ASSUME NEW sig \in Signatures, NEW k \in Kernels
  PROVE  /\ Sign(sig, k) \in Signatures /\ Sign(sig, k) = Append(sig, k)
         /\ Len(Sign(sig, k)) = Len(sig) + 1 /\ Sign(sig, k)[Len(sig) + 1] = k
         /\ Len(sig) \in Nat /\ Sign(sig, k) # <<>>
  BY AppendProperties DEF Sign, Signatures

\* Every row that is added is at kernel k, for packet p with its signature, and signed by k
RowsFor(k, p) ==
  \A j \in Kernels :
    /\ Rows(j) \subseteq Rows(j)'
    /\ \A r \in Rows(j)' \ Rows(j) :
         /\ j = k /\ r.n = p.n /\ r.ack = (p.kind = "ack")
         /\ r.prevSig = p.sig /\ r.sig = Append(p.sig, k)

\* There is a row for packet p at kernel k
HasRow(k, p) == \E r \in Rows(k) : r.n = p.n /\ r.ack = (p.kind = "ack") /\ r.prevSig = p.sig

\* A row for packet p is added
LEMMA AppendEffect ==
  ASSUME TypeOK, NEW k \in Kernels, NEW p \in Packets, NEW hash \in Hashes, NEW prev \in Hashes,
         chain' = [chain EXCEPT ![k] = Append(@, Row(p, hash, prev, Append(p.sig, k)))]
  PROVE  chain' \in [Kernels -> Seq(ChainRows)] /\ RowsFor(k, p) /\ HasRow(k, p)'
<1> DEFINE row == Row(p, hash, prev, Append(p.sig, k))
<1>1. Append(p.sig, k) \in Signatures
  <2>1. p.sig \in Signatures
    BY DEF Packets
  <2> QED BY <2>1 DEF Signatures
<1>2. /\ row \in ChainRows /\ row.n = p.n /\ row.ack = (p.kind = "ack")
      /\ row.prevSig = p.sig /\ row.sig = Append(p.sig, k)
  BY <1>1, RowType
<1> HIDE DEF row
<1>3. chain' = [chain EXCEPT ![k] = Append(@, row)]
  BY DEF row
<1>4. /\ chain' \in [Kernels -> Seq(ChainRows)]
      /\ \A j \in Kernels : Rows(j)' = IF j = k THEN Rows(j) \cup {row} ELSE Rows(j)
  BY <1>2, <1>3, RowAdded
<1>5. RowsFor(k, p)
  BY <1>2, <1>4 DEF RowsFor
<1>6. HasRow(k, p)'
  BY <1>2, <1>4 DEF HasRow
<1> QED BY <1>4, <1>5, <1>6

\* RecordAck leaves a row for the acknowledgement
LEMMA RecordAckEffect ==
  ASSUME TypeOK, NEW k \in Kernels, NEW p \in Packets, p.kind = "ack", chain' = RecordAck(k, p)
  PROVE  chain' \in [Kernels -> Seq(ChainRows)] /\ RowsFor(k, p) /\ HasRow(k, p)'
<1>1. CASE \E r \in Rows(k) : r.ack /\ r.n = p.n /\ r.prevSig = p.sig
  <2>1. chain' = chain
    BY <1>1 DEF RecordAck
  <2>2. chain' \in [Kernels -> Seq(ChainRows)]
    BY <2>1 DEF TypeOK
  <2>3. \A j : Rows(j)' = Rows(j)
    BY <2>1 DEF Rows
  <2>4. RowsFor(k, p)
    BY <2>3 DEF RowsFor
  <2>5. \A r \in Rows(k) : r.ack \in BOOLEAN
    <3>1. chain[k] \in Seq(ChainRows)
      BY DEF TypeOK
    <3>2. Rows(k) \subseteq ChainRows
      BY <3>1, RangeOfSeq DEF Rows
    <3> QED BY <3>2 DEF ChainRows
  <2>6. HasRow(k, p)'
    BY <1>1, <2>3, <2>5 DEF HasRow
  <2> QED BY <2>2, <2>4, <2>6
<1>2. CASE ~ \E r \in Rows(k) : r.ack /\ r.n = p.n /\ r.prevSig = p.sig
  <2>1. chain' = [chain EXCEPT ![k] = Append(@, Row(p, <<>>, <<>>, Append(p.sig, k)))]
    BY <1>2 DEF RecordAck, Sign
  <2>2. <<>> \in Hashes
    BY DEF Hashes
  <2> QED BY <2>1, <2>2, AppendEffect
<1> QED BY <1>1, <1>2

-----------------------------------------------------------------------------
(* Every step, by what it does to the stack of one actor *)

\* A connector's call begins at its kernel, which signs packet q
Starts(a, f, q) ==
  /\ stack[a] = <<>> /\ stack' = [stack EXCEPT ![a] = Append(<<>>, f)]
  /\ f.pc = "forward" /\ f.at = f.from /\ f.at \notin f.todo
  /\ OnlyReceives(f.at, f.at, f.p)
  /\ IF f.p.kind = "end" THEN chain' = chain
     ELSE /\ q.n = f.p.n /\ q.kind = f.p.kind /\ q.sig = <<>> /\ f.p.sig = Append(<<>>, f.at)
          /\ RowsFor(f.at, q) /\ HasRow(f.at, q)'

\* A stack whose top is replaced
LEMMA StackType ==
  ASSUME TypeOK, NEW a \in Actors, NEW s \in Seq(Frames), stack' = [stack EXCEPT ![a] = s]
  PROVE  /\ stack' \in [Actors -> Seq(Frames)]
         /\ stack'[a] = s /\ \A b \in Actors : b # a => stack'[b] = stack[b]
  BY DEF TypeOK

\* The handler of a connector's call
LEMMA StartStack ==
  ASSUME TypeOK, NEW a \in Actors, NEW k \in Kernels, NEW p \in Packets, NEW hash \in Hashes,
         PushData(a, <<>>, k, k, p, hash)
  PROVE  /\ \E f \in Frames :
              /\ stack' = [stack EXCEPT ![a] = Append(<<>>, f)]
              /\ f.p = p /\ f.pc = "forward" /\ f.at = k /\ f.from = k /\ f.at \notin f.todo
         /\ stack' \in [Actors -> Seq(Frames)]
         /\ got' \in [ReceiverKernels -> Seq(Numbers)]
         /\ evidence' \in [Kernels -> SUBSET Events]
         /\ OnlyReceives(k, k, p)
<1> DEFINE below == <<>>
<1>1. PushData(a, below, k, k, p, hash)
  OBVIOUS
<1> HIDE DEF below
<1>2. /\ \E todo \in SUBSET (Kernels \ {k}) :
            stack' = [stack EXCEPT ![a] = Append(below, Frame(k, k, p, todo, hash))]
      /\ got' \in [ReceiverKernels -> Seq(Numbers)]
      /\ evidence' \in [Kernels -> SUBSET Events]
      /\ OnlyReceives(k, k, p)
  BY <1>1, PushEffect
<1>3. PICK todo \in SUBSET (Kernels \ {k}) :
        stack' = [stack EXCEPT ![a] = Append(<<>>, Frame(k, k, p, todo, hash))]
  BY <1>2 DEF below
<1> DEFINE f == Frame(k, k, p, todo, hash)
<1>4. /\ f \in Frames /\ f.p = p /\ f.pc = "forward" /\ f.at = k /\ f.from = k
      /\ f.at \notin f.todo
  BY DEF Frame, Frames
<1> HIDE DEF f
<1>5. Append(<<>>, f) \in Seq(Frames) /\ stack' = [stack EXCEPT ![a] = Append(<<>>, f)]
  BY <1>3, <1>4 DEF f
<1>6. stack' \in [Actors -> Seq(Frames)]
  BY <1>5, StackType
<1> QED BY <1>2, <1>4, <1>5, <1>6

\* A packet, and the packet with another signature
LEMMA PacketType ==
  ASSUME NEW n \in Numbers, NEW kind \in Kinds, NEW k \in Kernels,
         NEW to \in Kernels \cup {NoKernel}, NEW hash \in Hashes, NEW sig \in Signatures
  PROVE  /\ Packet(n, kind, k, to, hash, sig) \in Packets
         /\ Packet(n, kind, k, to, hash, sig).n = n
         /\ Packet(n, kind, k, to, hash, sig).kind = kind
         /\ Packet(n, kind, k, to, hash, sig).sig = sig
  BY DEF Packet, Packets

LEMMA SignedType ==
  ASSUME NEW p \in Packets, NEW sig \in Signatures
  PROVE  /\ [p EXCEPT !.sig = sig] \in Packets
         /\ [p EXCEPT !.sig = sig].n = p.n /\ [p EXCEPT !.sig = sig].kind = p.kind
         /\ [p EXCEPT !.sig = sig].sig = sig
  BY DEF Packets

\* The empty hash and the signature of one kernel
LEMMA EmptyTypes ==
  ASSUME NEW k \in Kernels
  PROVE  <<>> \in Hashes /\ <<>> \in Signatures /\ Append(<<>>, k) \in Signatures
  BY DEF Hashes, Signatures

\* One more packet is counted
LEMMA PushedType ==
  ASSUME TypeOK, NEW kind \in Kinds, NEW k \in Kernels, NEW hash \in Hashes,
         Len(pushed) + 1 \in Numbers,
         pushed' = Append(pushed, [kind |-> kind, from |-> k, hash |-> hash])
  PROVE  /\ pushed' \in Seq([kind : Kinds, from : Kernels, hash : Hashes])
         /\ Len(pushed') <= MaxPackets
<1>1. [kind |-> kind, from |-> k, hash |-> hash] \in [kind : Kinds, from : Kernels, hash : Hashes]
  OBVIOUS
<1>2. pushed \in Seq([kind : Kinds, from : Kernels, hash : Hashes])
  BY DEF TypeOK
<1>3. Len(pushed) + 1 <= MaxPackets
  BY ForwardConstants DEF Numbers
<1> QED BY <1>1, <1>2, <1>3, AppendProperties

\* A connector sends a packet
LEMMA StreamDataEffect ==
  ASSUME TypeOK, NEW k \in Senders, NEW to \in Targets, StreamData(k, to)
  PROVE  TypeOK' /\ \E a \in Actors, f \in Frames, q \in Packets : Starts(a, f, q)
<1> DEFINE a == <<"data", k>>
<1>1. k \in Kernels /\ to \in Kernels \cup {NoKernel} /\ a \in Actors
  BY ForwardConstants DEF Members, Actors
<1>2. PICK n \in Numbers : n = Len(pushed) + 1
  BY DEF StreamData, TypeOK, Numbers
<1>3. PICK hash \in Hashes : hash = Append(LastDataHash(k), n)
  BY <1>1, NextHashType
<1>4. PICK q : q = Packet(n, "data", k, to, <<>>, <<>>)
  OBVIOUS
<1>5. PICK p : p = [q EXCEPT !.hash = hash, !.sig = Sign(<<>>, k)]
  OBVIOUS
<1>6. /\ PushData(a, <<>>, k, k, p, hash) /\ Begin(a)
      /\ chain' = [chain EXCEPT ![k] = Append(@, Row(q, hash, LastDataHash(k), Sign(<<>>, k)))]
      /\ pushed' = Append(pushed, [kind |-> "data", from |-> k, hash |-> hash])
      /\ UNCHANGED <<status, listening, faults>>
  BY <1>2, <1>3, <1>4, <1>5 DEF StreamData
<1>7. q \in Packets /\ q.n = n /\ q.kind = "data" /\ q.sig = <<>>
  <2>1. <<>> \in Hashes /\ <<>> \in Signatures /\ "data" \in Kinds
    BY <1>1, EmptyTypes DEF Kinds
  <2> QED BY <1>1, <1>4, <2>1, PacketType
<1>8. p \in Packets /\ p.n = n /\ p.kind = "data" /\ p.sig = Append(<<>>, k)
  <2>1. Sign(<<>>, k) \in Signatures /\ Sign(<<>>, k) = Append(<<>>, k)
    BY <1>1, EmptyTypes DEF Sign
  <2> QED BY <1>5, <1>7, <2>1 DEF Packets
<1>9. chain' \in [Kernels -> Seq(ChainRows)] /\ RowsFor(k, q) /\ HasRow(k, q)'
  <2>1. LastDataHash(k) \in Hashes
    BY <1>1, LastHashType
  <2>2. chain' = [chain EXCEPT ![k] = Append(@, Row(q, hash, LastDataHash(k), Append(q.sig, k)))]
    BY <1>6, <1>7 DEF Sign
  <2> QED BY <1>1, <1>7, <2>1, <2>2, AppendEffect
<1>10. /\ \E f \in Frames :
            /\ stack' = [stack EXCEPT ![a] = Append(<<>>, f)]
            /\ f.p = p /\ f.pc = "forward" /\ f.at = k /\ f.from = k /\ f.at \notin f.todo
       /\ stack' \in [Actors -> Seq(Frames)]
       /\ got' \in [ReceiverKernels -> Seq(Numbers)]
       /\ evidence' \in [Kernels -> SUBSET Events]
       /\ OnlyReceives(k, k, p)
  BY <1>1, <1>6, <1>8, StartStack
<1>11. /\ pushed' \in Seq([kind : Kinds, from : Kernels, hash : Hashes])
       /\ Len(pushed') <= MaxPackets
  BY <1>1, <1>2, <1>6, PushedType DEF Kinds
<1>12. overlapped' \in BOOLEAN /\ stack[a] = <<>>
  BY <1>6 DEF Begin, TypeOK
<1>13. TypeOK'
  BY <1>6, <1>9, <1>10, <1>11, <1>12 DEF TypeOK, Rows
<1>14. PICK f \in Frames :
         /\ stack' = [stack EXCEPT ![a] = Append(<<>>, f)]
         /\ f.p = p /\ f.pc = "forward" /\ f.at = k /\ f.from = k /\ f.at \notin f.todo
  BY <1>10
<1>15. Starts(a, f, q)
  BY <1>7, <1>8, <1>9, <1>10, <1>12, <1>14 DEF Starts
<1> QED BY <1>1, <1>7, <1>13, <1>15

\* The end of a stream is sent
LEMMA StreamEOFEffect ==
  ASSUME TypeOK, NEW k \in Senders, StreamEOF(k)
  PROVE  TypeOK' /\ \E a \in Actors, f \in Frames, q \in Packets : Starts(a, f, q)
<1> DEFINE a == <<"data", k>>
<1>1. k \in Kernels /\ a \in Actors
  BY ForwardConstants DEF Members, Actors
<1>2. PICK n \in Numbers : n = Len(pushed) + 1
  BY DEF StreamEOF, TypeOK, Numbers
<1>3. PICK p : p = Packet(n, "end", k, NoKernel, <<>>, <<>>)
  OBVIOUS
<1>4. /\ PushData(a, <<>>, k, k, p, <<>>) /\ Begin(a)
      /\ pushed' = Append(pushed, [kind |-> "end", from |-> k, hash |-> <<>>])
      /\ UNCHANGED <<status, listening, chain, faults>>
  BY <1>2, <1>3 DEF StreamEOF
<1>5. <<>> \in Hashes /\ <<>> \in Signatures /\ "end" \in Kinds
  BY <1>1, EmptyTypes DEF Kinds
<1>6. p \in Packets /\ p.kind = "end"
  BY <1>1, <1>3, <1>5, PacketType
<1>7. /\ \E f \in Frames :
            /\ stack' = [stack EXCEPT ![a] = Append(<<>>, f)]
            /\ f.p = p /\ f.pc = "forward" /\ f.at = k /\ f.from = k /\ f.at \notin f.todo
      /\ stack' \in [Actors -> Seq(Frames)]
      /\ got' \in [ReceiverKernels -> Seq(Numbers)]
      /\ evidence' \in [Kernels -> SUBSET Events]
      /\ OnlyReceives(k, k, p)
  BY <1>1, <1>4, <1>5, <1>6, StartStack
<1>8. /\ pushed' \in Seq([kind : Kinds, from : Kernels, hash : Hashes])
      /\ Len(pushed') <= MaxPackets
  BY <1>1, <1>2, <1>4, <1>5, PushedType
<1>9. overlapped' \in BOOLEAN /\ stack[a] = <<>>
  BY <1>4 DEF Begin, TypeOK
<1>10. TypeOK'
  BY <1>4, <1>7, <1>8, <1>9 DEF TypeOK
<1>11. PICK f \in Frames :
         /\ stack' = [stack EXCEPT ![a] = Append(<<>>, f)]
         /\ f.p = p /\ f.pc = "forward" /\ f.at = k /\ f.from = k /\ f.at \notin f.todo
  BY <1>7
<1>12. Starts(a, f, p)
  BY <1>4, <1>6, <1>7, <1>9, <1>11 DEF Starts
<1> QED BY <1>1, <1>6, <1>10, <1>12

\* A connector acknowledges a packet
LEMMA SendAckEffect ==
  ASSUME TypeOK, NEW k \in ReceiverKernels, NEW n \in Numbers, SendAck(k, n)
  PROVE  TypeOK' /\ \E a \in Actors, f \in Frames, q \in Packets : Starts(a, f, q)
<1> DEFINE a == <<"ack", k>>
<1>1. k \in Kernels /\ a \in Actors
  BY ForwardConstants DEF Members, Actors
<1>2. SenderKernels[1] \in Kernels
  BY ForwardConstants
<1>3. PICK q : q = Packet(n, "ack", k, SenderKernels[1], <<>>, <<>>)
  OBVIOUS
<1>4. PICK p : p = [q EXCEPT !.sig = Sign(<<>>, k)]
  OBVIOUS
<1>5. /\ PushData(a, <<>>, k, k, p, <<>>) /\ Begin(a)
      /\ chain' = RecordAck(k, q)
      /\ UNCHANGED <<status, listening, pushed, faults>>
  BY <1>3, <1>4 DEF SendAck
<1>6. <<>> \in Hashes /\ <<>> \in Signatures /\ Append(<<>>, k) \in Signatures /\ "ack" \in Kinds
  BY <1>1, EmptyTypes DEF Kinds
<1>7. q \in Packets /\ q.n = n /\ q.kind = "ack" /\ q.sig = <<>>
  BY <1>1, <1>2, <1>3, <1>6, PacketType
<1>8. p \in Packets /\ p.n = n /\ p.kind = "ack" /\ p.sig = Append(<<>>, k)
  BY <1>4, <1>6, <1>7, SignedType DEF Sign
<1>9. chain' \in [Kernels -> Seq(ChainRows)] /\ RowsFor(k, q) /\ HasRow(k, q)'
  BY <1>1, <1>5, <1>7, RecordAckEffect
<1>10. /\ \E f \in Frames :
             /\ stack' = [stack EXCEPT ![a] = Append(<<>>, f)]
             /\ f.p = p /\ f.pc = "forward" /\ f.at = k /\ f.from = k /\ f.at \notin f.todo
       /\ stack' \in [Actors -> Seq(Frames)]
       /\ got' \in [ReceiverKernels -> Seq(Numbers)]
       /\ evidence' \in [Kernels -> SUBSET Events]
       /\ OnlyReceives(k, k, p)
  BY <1>1, <1>5, <1>6, <1>8, StartStack
<1>11. overlapped' \in BOOLEAN /\ stack[a] = <<>>
  BY <1>5 DEF Begin, TypeOK
<1>12. TypeOK'
  BY <1>5, <1>9, <1>10, <1>11 DEF TypeOK
<1>13. PICK f \in Frames :
         /\ stack' = [stack EXCEPT ![a] = Append(<<>>, f)]
         /\ f.p = p /\ f.pc = "forward" /\ f.at = k /\ f.from = k /\ f.at \notin f.todo
  BY <1>10
<1>14. Starts(a, f, q)
  BY <1>7, <1>8, <1>9, <1>10, <1>11, <1>13 DEF Starts
<1> QED BY <1>1, <1>7, <1>12, <1>14

\* Handler f has taken rk from those to be served; with c there is a call to be handled
Forwards(a, rk, g, c) ==
  /\ stack[a] # <<>> /\ Top(a).pc = "forward" /\ rk \in Top(a).todo
  /\ g.at = Top(a).at /\ g.from = Top(a).from /\ g.p = Top(a).p /\ g.pc = "forward"
  /\ g.todo \subseteq Top(a).todo
  /\ c.pc = "handle" /\ c.from = Top(a).at /\ c.p = Top(a).p /\ c.todo = {}
  /\ NoHopToItself /\ rk # c.from => c.at # c.from
  /\ \/ stack' = [stack EXCEPT ![a] = Append(Front(stack[a]), g)]
     \/ stack' = [stack EXCEPT ![a] = Append(Append(Front(stack[a]), g), c)]
  /\ \A j \in Kernels :
       /\ evidence[j] \subseteq evidence'[j]
       /\ \A e \in evidence'[j] \ evidence[j] : e.type = "DATA_SEND"
  /\ c.p.kind = "data" => Event("DATA_SEND", c.p.n, c.at) \in evidence'[c.from]
  /\ chain' = chain

\* A turn of the loop that forwards a packet
LEMMA ForwardEffect ==
  ASSUME TypeOK, NEW a \in Actors, NEW rk \in Kernels, ForwardToKernel(a, rk)
  PROVE  TypeOK' /\ \E g \in Frames, c \in Frames : Forwards(a, rk, g, c)
<1>1. stack[a] # <<>> /\ Top(a).pc = "forward" /\ rk \in Top(a).todo
  BY DEF ForwardToKernel, At
<1>2. PICK f \in Frames : f = Top(a)
  BY <1>1, TopFrame
<1>3. PICK to \in Towards(f.at, rk), lost \in BOOLEAN :
        /\ IF f.p.kind = "data" THEN Log(f.at, Event("DATA_SEND", f.p.n, to))
                                ELSE UNCHANGED evidence
        /\ Fault(lost)
        /\ stack' = [stack EXCEPT ![a] =
             IF lost THEN Append(Front(stack[a]), [f EXCEPT !.todo = f.todo \ {rk}])
             ELSE Append(Append(Front(stack[a]), [f EXCEPT !.todo = f.todo \ {rk}]),
                         Called(to, f.at, f.p))]
  BY <1>2 DEF ForwardToKernel, TypeOK
<1>4. f.at \in Kernels /\ to \in Kernels /\ (NoHopToItself /\ rk # f.at => to # f.at)
  BY <1>2, <1>3, TowardsKernels DEF Frames
<1>5. UNCHANGED <<status, listening, chain, got, pushed, overlapped>>
  BY DEF ForwardToKernel
<1>6. PICK g \in Frames : /\ g = [f EXCEPT !.todo = f.todo \ {rk}]
                          /\ g.at = f.at /\ g.from = f.from /\ g.p = f.p /\ g.pc = f.pc
                          /\ g.todo \subseteq f.todo
  <2> DEFINE h == [f EXCEPT !.todo = f.todo \ {rk}]
  <2>1. /\ h \in Frames /\ h.at = f.at /\ h.from = f.from /\ h.p = f.p /\ h.pc = f.pc
        /\ h.todo = f.todo \ {rk}
    BY DEF Frames
  <2> HIDE DEF h
  <2>2. \E g \in Frames : /\ g = h
                          /\ g.at = f.at /\ g.from = f.from /\ g.p = f.p /\ g.pc = f.pc
                          /\ g.todo \subseteq f.todo
    BY <2>1
  <2> QED BY <2>2 DEF h
<1>7. PICK c \in Frames : /\ c = Called(to, f.at, f.p)
                          /\ c.at = to /\ c.from = f.at /\ c.p = f.p /\ c.pc = "handle"
                          /\ c.todo = {}
  <2>1. <<>> \in Hashes
    BY DEF Hashes
  <2>2. f.p \in Packets
    BY DEF Frames
  <2> DEFINE h == Called(to, f.at, f.p)
  <2>3. /\ h \in Frames /\ h.at = to /\ h.from = f.at /\ h.p = f.p /\ h.pc = "handle"
        /\ h.todo = {}
    BY <1>4, <2>1, <2>2 DEF Called, Frames
  <2> HIDE DEF h
  <2>4. \E c \in Frames : /\ c = h
                          /\ c.at = to /\ c.from = f.at /\ c.p = f.p /\ c.pc = "handle"
                          /\ c.todo = {}
    BY <2>3
  <2> QED BY <2>4 DEF h
<1>8. /\ evidence' \in [Kernels -> SUBSET Events]
      /\ \A j \in Kernels :
           /\ evidence[j] \subseteq evidence'[j]
           /\ \A e \in evidence'[j] \ evidence[j] : e.type = "DATA_SEND"
      /\ c.p.kind = "data" => Event("DATA_SEND", c.p.n, c.at) \in evidence'[c.from]
  <2> DEFINE e == Event("DATA_SEND", f.p.n, to)
  <2>1. e \in Events /\ e.type = "DATA_SEND"
    BY <1>4 DEF Event, Events, Frames, Packets
  <2>2. CASE f.p.kind = "data"
    <3>1. Log(f.at, e)
      BY <1>3, <2>2
    <3>2. Event("DATA_SEND", c.p.n, c.at) = e
      BY <1>7
    <3> HIDE DEF e
    <3>3. /\ evidence' \in [Kernels -> SUBSET Events]
          /\ \A j \in Kernels :
               evidence'[j] = IF j = f.at THEN evidence[f.at] \cup {e} ELSE evidence[j]
      BY <1>4, <2>1, <3>1, LogType
    <3> QED BY <1>4, <1>7, <2>1, <3>2, <3>3
  <2>3. CASE f.p.kind # "data"
    BY <1>3, <1>7, <2>3 DEF TypeOK
  <2> QED BY <2>2, <2>3
<1>9. faults' \in 0 .. MaxFaults
  BY <1>3, ForwardConstants DEF Fault, TypeOK
<1>10. \/ stack' = [stack EXCEPT ![a] = Append(Front(stack[a]), g)]
       \/ stack' = [stack EXCEPT ![a] = Append(Append(Front(stack[a]), g), c)]
  BY <1>3, <1>6, <1>7
<1>11. stack' \in [Actors -> Seq(Frames)]
  <2>1. Front(stack[a]) \in Seq(Frames)
    BY <1>1, TopFrame
  <2>2. Append(Front(stack[a]), g) \in Seq(Frames)
    BY <2>1
  <2>3. Append(Append(Front(stack[a]), g), c) \in Seq(Frames)
    BY <2>2
  <2> QED BY <1>10, <2>2, <2>3, StackType
<1>12. TypeOK'
  BY <1>5, <1>8, <1>9, <1>11 DEF TypeOK
<1>13. Forwards(a, rk, g, c)
  BY <1>1, <1>2, <1>4, <1>5, <1>6, <1>7, <1>8, <1>10 DEF Forwards
<1> QED BY <1>12, <1>13

\* The call is handled: the kernel signs the packet and goes on to forward it
Handles(a, g) ==
  /\ stack[a] # <<>> /\ Top(a).pc = "handle"
  /\ g.at = Top(a).at /\ g.from = Top(a).from /\ g.pc = "forward" /\ g.at \notin g.todo
  /\ g.p.n = Top(a).p.n /\ g.p.kind = Top(a).p.kind /\ g.p.sig = Append(Top(a).p.sig, g.at)
  /\ stack' = [stack EXCEPT ![a] = Append(Front(stack[a]), g)]
  /\ OnlyReceives(g.at, g.from, g.p)
  /\ chain' = chain

LEMMA HandleEffect ==
  ASSUME TypeOK, NEW a \in Actors, ForwardData(a)
  PROVE  TypeOK' /\ \E g \in Frames : Handles(a, g)
<1>1. stack[a] # <<>> /\ Top(a).pc = "handle"
  BY DEF ForwardData, At
<1>2. PICK f \in Frames : f = Top(a)
  BY <1>1, TopFrame
<1>3. f.at \in Kernels /\ f.from \in Kernels /\ f.p \in Packets
  BY DEF Frames
<1>4. f.p.n \in Numbers /\ f.p.sig \in Signatures
  BY <1>3 DEF Packets
<1>5. PICK hash \in Hashes : hash = Append(LastDataHash(f.at), f.p.n)
  BY <1>3, <1>4, NextHashType
<1>6. Sign(f.p.sig, f.at) \in Signatures /\ Sign(f.p.sig, f.at) = Append(f.p.sig, f.at)
  BY <1>3, <1>4, SignType
<1>7. PICK p \in Packets :
        /\ p = [f.p EXCEPT !.sig = Sign(f.p.sig, f.at)]
        /\ p.n = f.p.n /\ p.kind = f.p.kind /\ p.sig = Append(f.p.sig, f.at)
  BY <1>3, <1>6, SignedType
<1>8. PICK below \in Seq(Frames) : below = Front(stack[a])
  BY <1>1, TopFrame
<1>9. /\ PushData(a, below, f.at, f.from, p, hash)
      /\ UNCHANGED <<status, listening, chain, pushed, faults, overlapped>>
  BY <1>2, <1>5, <1>7, <1>8 DEF ForwardData
<1>10. /\ \E todo \in SUBSET (Kernels \ {f.at}) :
            stack' = [stack EXCEPT ![a] = Append(below, Frame(f.at, f.from, p, todo, hash))]
       /\ got' \in [ReceiverKernels -> Seq(Numbers)]
       /\ evidence' \in [Kernels -> SUBSET Events]
       /\ OnlyReceives(f.at, f.from, p)
  BY <1>3, <1>9, PushEffect
<1>11. PICK todo \in SUBSET (Kernels \ {f.at}) :
         stack' = [stack EXCEPT ![a] = Append(below, Frame(f.at, f.from, p, todo, hash))]
  BY <1>10
<1>12. PICK g \in Frames :
         /\ g = Frame(f.at, f.from, p, todo, hash)
         /\ g.at = f.at /\ g.from = f.from /\ g.pc = "forward" /\ g.p = p /\ g.at \notin g.todo
  <2> DEFINE h == Frame(f.at, f.from, p, todo, hash)
  <2>1. /\ h \in Frames /\ h.at = f.at /\ h.from = f.from /\ h.pc = "forward" /\ h.p = p
        /\ h.at \notin h.todo
    BY <1>3 DEF Frame, Frames
  <2> HIDE DEF h
  <2>2. \E g \in Frames :
          /\ g = h
          /\ g.at = f.at /\ g.from = f.from /\ g.pc = "forward" /\ g.p = p /\ g.at \notin g.todo
    BY <2>1
  <2> QED BY <2>2 DEF h
<1>13. stack' = [stack EXCEPT ![a] = Append(below, g)] /\ Append(below, g) \in Seq(Frames)
  BY <1>11, <1>12
<1>14. stack' \in [Actors -> Seq(Frames)]
  BY <1>13, StackType
<1>15. TypeOK'
  BY <1>9, <1>10, <1>14 DEF TypeOK
<1>16. Handles(a, g)
  BY <1>1, <1>2, <1>7, <1>8, <1>9, <1>10, <1>12, <1>13 DEF Handles
<1> QED BY <1>15, <1>16

\* Handler f of a returns; packet q is what it was called with
Returns(a, f, q) ==
  /\ stack[a] # <<>> /\ f = Top(a)
  /\ stack' = [stack EXCEPT ![a] = Front(stack[a])]
  /\ evidence' = evidence
  /\ IF f.pc = "handle" \/ f.p.kind = "end" \/ f.at = f.from THEN chain' = chain
     ELSE /\ q.n = f.p.n /\ q.kind = f.p.kind /\ f.p.sig = Append(q.sig, f.at)
          /\ RowsFor(f.at, q) /\ HasRow(f.at, q)'

\* All but the last signature
LEMMA FrontOfAppend ==
  ASSUME NEW s \in Signatures, NEW k \in Kernels
  PROVE  Front(Append(s, k)) = s
<1>1. s \in Seq(Kernels) /\ Len(s) \in Nat
  BY DEF Signatures
<1>2. /\ Append(s, k) \in Seq(Kernels) /\ Len(Append(s, k)) = Len(s) + 1
      /\ \A i \in 1 .. Len(s) : Append(s, k)[i] = s[i]
  BY <1>1, AppendProperties
<1>3. Front(Append(s, k)) = SubSeq(Append(s, k), 1, Len(s))
  BY <1>1, <1>2 DEF Front
<1>4. /\ SubSeq(Append(s, k), 1, Len(s)) \in Seq(Kernels)
      /\ Len(SubSeq(Append(s, k), 1, Len(s))) = Len(s)
      /\ \A i \in 1 .. Len(s) : SubSeq(Append(s, k), 1, Len(s))[i] = Append(s, k)[i]
  BY <1>1, <1>2
<1> QED BY <1>1, <1>2, <1>3, <1>4, SeqEqual

\* A handler returns
LEMMA ReturnEffect ==
  ASSUME TypeOK, SignedInv, NEW a \in Actors, ForwardRefused(a) \/ RecordRow(a)
  PROVE  TypeOK' /\ \E f \in Frames, q \in Packets : Returns(a, f, q)
<1>1. /\ stack[a] # <<>> /\ Top(a).pc = (IF ForwardRefused(a) THEN "handle" ELSE "forward")
  BY DEF ForwardRefused, RecordRow, At
<1>2. PICK f \in Frames : f = Top(a)
  BY <1>1, TopFrame
<1>3. /\ stack' = [stack EXCEPT ![a] = Front(stack[a])]
      /\ UNCHANGED <<status, listening, evidence, got, pushed, faults, overlapped>>
  BY DEF ForwardRefused, RecordRow, Return
<1>4. Front(stack[a]) \in Seq(Frames)
  BY <1>1, TopFrame
<1>5. stack' \in [Actors -> Seq(Frames)]
  BY <1>3, <1>4, StackType
<1>6. chain' \in [Kernels -> Seq(ChainRows)] => TypeOK'
  BY <1>3, <1>5 DEF TypeOK
<1>7. f.at \in Kernels /\ f.p \in Packets /\ f.hash \in Hashes
  BY DEF Frames
<1>8. CASE f.pc = "handle" \/ f.p.kind = "end" \/ f.at = f.from
  <2>1. chain' = chain
    <3>1. CASE ForwardRefused(a)
      BY <3>1 DEF ForwardRefused
    <3>2. CASE ~ForwardRefused(a) /\ RecordRow(a)
      <4>1. f.p.kind = "end" \/ f.at = f.from
        BY <1>1, <1>2, <1>8, <3>2
      <4> QED BY <1>2, <3>2, <4>1 DEF RecordRow
    <3> QED BY <3>1, <3>2
  <2>2. Returns(a, f, f.p)
    BY <1>1, <1>2, <1>3, <1>8, <2>1 DEF Returns
  <2>3. chain' \in [Kernels -> Seq(ChainRows)]
    BY <2>1 DEF TypeOK
  <2> QED BY <1>6, <1>7, <2>2, <2>3
<1>9. CASE f.pc # "handle" /\ f.p.kind # "end" /\ f.at # f.from
  <2>1. f = stack[a][Len(stack[a])] /\ Len(stack[a]) \in 1 .. Len(stack[a]) /\ f.pc = "forward"
    BY <1>1, <1>2, <1>9, TopFrame DEF Frames
  <2>2. PICK s \in Signatures : f.p.sig = Append(s, f.at)
    BY <1>9, <2>1 DEF SignedInv
  <2>3. Front(f.p.sig) = s
    BY <1>7, <2>2, FrontOfAppend
  <2>4. PICK q \in Packets : /\ q = [f.p EXCEPT !.sig = s]
                             /\ q.n = f.p.n /\ q.kind = f.p.kind /\ q.sig = s
    BY <1>7, SignedType
  <2>5. [f.p EXCEPT !.sig = Front(f.p.sig)] = q
    BY <2>3, <2>4
  <2>6. RecordRow(a)
    BY <1>1, <1>2, <1>9
  <2>7. CASE f.p.kind = "ack"
    <3>1. chain' = RecordAck(f.at, q)
      BY <1>2, <1>9, <2>5, <2>6, <2>7 DEF RecordRow
    <3>2. chain' \in [Kernels -> Seq(ChainRows)] /\ RowsFor(f.at, q) /\ HasRow(f.at, q)'
      BY <1>7, <2>4, <2>7, <3>1, RecordAckEffect
    <3>3. Returns(a, f, q)
      BY <1>1, <1>2, <1>3, <1>9, <2>2, <2>4, <3>2 DEF Returns
    <3> QED BY <1>6, <3>2, <3>3
  <2>8. CASE f.p.kind # "ack"
    <3>1. chain' = [chain EXCEPT ![f.at] =
                      Append(@, Row(q, f.hash, LastDataHash(f.at), Append(q.sig, f.at)))]
      BY <1>2, <1>9, <2>2, <2>4, <2>5, <2>6, <2>8 DEF RecordRow
    <3>2. LastDataHash(f.at) \in Hashes
      BY <1>7, LastHashType
    <3>3. chain' \in [Kernels -> Seq(ChainRows)] /\ RowsFor(f.at, q) /\ HasRow(f.at, q)'
      BY <1>7, <2>4, <3>1, <3>2, AppendEffect
    <3>4. Returns(a, f, q)
      BY <1>1, <1>2, <1>3, <1>9, <2>2, <2>4, <3>3 DEF Returns
    <3> QED BY <1>6, <3>3, <3>4
  <2> QED BY <2>7, <2>8
<1> QED BY <1>8, <1>9

\* The step is none of a handler or a connector
Elsewhere == chain' = chain /\ evidence' = evidence /\ stack' = stack

\* Every step keeps the types, and is of one of five kinds
LEMMA StepKinds ==
  ASSUME TypeOK, SignedInv, [Next]_vars
  PROVE  /\ TypeOK'
         /\ \/ \E a \in Actors, f \in Frames, q \in Packets : Starts(a, f, q)
            \/ \E a \in Actors, rk \in Kernels, g \in Frames, c \in Frames : Forwards(a, rk, g, c)
            \/ \E a \in Actors, g \in Frames : Handles(a, g)
            \/ \E a \in Actors, f \in Frames, q \in Packets : Returns(a, f, q)
            \/ Elsewhere
<1>1. ASSUME NEW k \in Senders, StreamEOF(k) \/ \E to \in Targets : StreamData(k, to)
      PROVE  TypeOK' /\ \E a \in Actors, f \in Frames, q \in Packets : Starts(a, f, q)
  BY <1>1, StreamEOFEffect, StreamDataEffect
<1>2. ASSUME NEW k \in ReceiverKernels, NEW n \in 1 .. MaxPackets, SendAck(k, n)
      PROVE  TypeOK' /\ \E a \in Actors, f \in Frames, q \in Packets : Starts(a, f, q)
  BY <1>2, SendAckEffect DEF Numbers
<1>3. ASSUME NEW a \in Actors, ForwardRefused(a) \/ RecordRow(a)
      PROVE  TypeOK' /\ \E f \in Frames, q \in Packets : Returns(a, f, q)
  BY <1>3, ReturnEffect
<1>4. ASSUME NEW a \in Actors, ForwardData(a)
      PROVE  TypeOK' /\ \E g \in Frames : Handles(a, g)
  BY <1>4, HandleEffect
<1>5. ASSUME NEW a \in Actors, NEW rk \in Kernels, ForwardToKernel(a, rk)
      PROVE  TypeOK' /\ \E g \in Frames, c \in Frames : Forwards(a, rk, g, c)
  BY <1>5, ForwardEffect
<1>6. ASSUME NEW k \in Kernels, CloseChannel(k) \/ Restart(k)
      PROVE  TypeOK' /\ Elsewhere
  <2>1. /\ UNCHANGED <<listening, chain, evidence, got, stack, pushed, overlapped>>
        /\ Fault(TRUE)
        /\ status' = [status EXCEPT ![k] = "closed"] \/ status' = [status EXCEPT ![k] = "none"]
    BY <1>6 DEF CloseChannel, Restart
  <2>2. faults' \in 0 .. MaxFaults
    BY <2>1, ForwardConstants DEF Fault, TypeOK
  <2>3. status' \in [Kernels -> {"active", "closed", "none"}]
    BY <2>1 DEF TypeOK
  <2> QED BY <2>1, <2>2, <2>3 DEF TypeOK, Elsewhere
<1>7. CASE UNCHANGED vars
  BY <1>7 DEF vars, TypeOK, Elsewhere
<1> QED BY <1>1, <1>2, <1>3, <1>4, <1>5, <1>6, <1>7 DEF Next, Step

-----------------------------------------------------------------------------
(* The stacks after a step of each kind *)

LEMMA StartsStack ==
  ASSUME TypeOK, NEW a \in Actors, NEW f \in Frames, NEW q, Starts(a, f, q)
  PROVE  /\ \A b \in Actors : b # a => stack'[b] = stack[b]
         /\ Len(stack'[a]) = 1 /\ stack'[a][1] = f
<1>1. Append(<<>>, f) \in Seq(Frames) /\ stack' = [stack EXCEPT ![a] = Append(<<>>, f)]
  BY DEF Starts
<1>2. stack'[a] = Append(<<>>, f) /\ \A b \in Actors : b # a => stack'[b] = stack[b]
  BY <1>1, StackType
<1>3. Len(Append(<<>>, f)) = 1 /\ Append(<<>>, f)[1] = f
  OBVIOUS
<1> QED BY <1>2, <1>3

\* One frame in place of the top
LEMMA TopReplaced ==
  ASSUME TypeOK, NEW a \in Actors, stack[a] # <<>>, NEW g \in Frames,
         stack' = [stack EXCEPT ![a] = Append(Front(stack[a]), g)]
  PROVE  /\ \A b \in Actors : b # a => stack'[b] = stack[b]
         /\ Len(stack[a]) \in Nat \ {0} /\ Len(stack'[a]) = Len(stack[a])
         /\ \A i \in 1 .. Len(stack[a]) - 1 : stack'[a][i] = stack[a][i]
         /\ stack'[a][Len(stack[a])] = g
<1>1. /\ Len(stack[a]) \in Nat \ {0}
      /\ Front(stack[a]) \in Seq(Frames) /\ Len(Front(stack[a])) = Len(stack[a]) - 1
      /\ \A i \in 1 .. Len(stack[a]) - 1 : Front(stack[a])[i] = stack[a][i]
  BY TopFrame
<1> DEFINE s == Append(Front(stack[a]), g)
<1>2. /\ s \in Seq(Frames) /\ Len(s) = Len(Front(stack[a])) + 1
      /\ \A i \in 1 .. Len(Front(stack[a])) : s[i] = Front(stack[a])[i]
      /\ s[Len(Front(stack[a])) + 1] = g
  BY <1>1, AppendProperties
<1>3. stack'[a] = s /\ \A b \in Actors : b # a => stack'[b] = stack[b]
  BY <1>2, StackType
<1> HIDE DEF s
<1>4. Len(s) = Len(stack[a]) /\ s[Len(stack[a])] = g
  BY <1>1, <1>2
<1> QED BY <1>1, <1>2, <1>3, <1>4

LEMMA ReturnsStack ==
  ASSUME TypeOK, NEW a \in Actors, NEW f, NEW q, Returns(a, f, q)
  PROVE  /\ \A b \in Actors : b # a => stack'[b] = stack[b]
         /\ Len(stack[a]) \in Nat \ {0} /\ Len(stack'[a]) = Len(stack[a]) - 1
         /\ \A i \in 1 .. Len(stack[a]) - 1 : stack'[a][i] = stack[a][i]
         /\ stack[a][Len(stack[a])] = f
<1>1. stack[a] # <<>> /\ f = Top(a) /\ stack' = [stack EXCEPT ![a] = Front(stack[a])]
  BY DEF Returns
<1>2. /\ Top(a) = stack[a][Len(stack[a])] /\ Len(stack[a]) \in Nat \ {0}
      /\ Front(stack[a]) \in Seq(Frames) /\ Len(Front(stack[a])) = Len(stack[a]) - 1
      /\ \A i \in 1 .. Len(stack[a]) - 1 : Front(stack[a])[i] = stack[a][i]
  BY <1>1, TopFrame
<1>3. stack'[a] = Front(stack[a]) /\ \A b \in Actors : b # a => stack'[b] = stack[b]
  BY <1>1, <1>2, StackType
<1> QED BY <1>1, <1>2, <1>3

\* Every handler was there before the step, or is the one the step has left or called
LEMMA StartsFrames ==
  ASSUME TypeOK, NEW a \in Actors, NEW f \in Frames, NEW q, Starts(a, f, q),
         NEW b \in Actors, NEW i \in 1 .. Len(stack'[b])
  PROVE  \/ i \in 1 .. Len(stack[b]) /\ stack'[b][i] = stack[b][i]
         \/ b = a /\ i = 1 /\ stack'[b][i] = f
<1>1. CASE b # a
  BY <1>1, StartsStack
<1>2. CASE b = a
  BY <1>2, StartsStack
<1> QED BY <1>1, <1>2

\* g is in place of the top of a's stack, with c above it if the call got through
OneMore(a, g, c) ==
  \A b \in Actors : \A i \in 1 .. Len(stack'[b]) :
    \/ /\ i \in 1 .. Len(stack[b]) /\ stack'[b][i] = stack[b][i]
       /\ b = a => i # Len(stack[a])
    \/ b = a /\ i = Len(stack[a]) /\ stack'[b][i] = g
    \/ b = a /\ i = Len(stack[a]) + 1 /\ stack'[b][i] = c

\* Every handler is still there, the top of a's stack as g
StillThere(a, g) ==
  \A b \in Actors : \A i \in 1 .. Len(stack[b]) :
    i \in 1 .. Len(stack'[b]) /\ stack'[b][i] = IF b = a /\ i = Len(stack[a]) THEN g ELSE stack[b][i]

LEMMA ForwardsFrames ==
  ASSUME TypeOK, NEW a \in Actors, NEW rk \in Kernels, NEW g \in Frames, NEW c \in Frames,
         Forwards(a, rk, g, c)
  PROVE  OneMore(a, g, c) /\ StillThere(a, g)
<1>1. stack[a] # <<>>
  BY DEF Forwards
<1>2. CASE stack' = [stack EXCEPT ![a] = Append(Front(stack[a]), g)]
  <2>1. /\ \A d \in Actors : d # a => stack'[d] = stack[d]
        /\ Len(stack[a]) \in Nat \ {0} /\ Len(stack'[a]) = Len(stack[a])
        /\ \A j \in 1 .. Len(stack[a]) - 1 : stack'[a][j] = stack[a][j]
        /\ stack'[a][Len(stack[a])] = g
    BY <1>1, <1>2, TopReplaced
  <2>2. OneMore(a, g, c)
    BY <2>1 DEF OneMore
  <2>3. StillThere(a, g)
    BY <2>1 DEF StillThere
  <2> QED BY <2>2, <2>3
<1>3. CASE stack' = [stack EXCEPT ![a] = Append(Append(Front(stack[a]), g), c)]
  <2>1. /\ Len(stack[a]) \in Nat \ {0}
        /\ Front(stack[a]) \in Seq(Frames) /\ Len(Front(stack[a])) = Len(stack[a]) - 1
        /\ \A j \in 1 .. Len(stack[a]) - 1 : Front(stack[a])[j] = stack[a][j]
    BY <1>1, TopFrame
  <2> DEFINE s == Append(Front(stack[a]), g)
  <2> DEFINE t == Append(s, c)
  <2>2. /\ s \in Seq(Frames) /\ Len(s) = Len(Front(stack[a])) + 1
        /\ \A j \in 1 .. Len(Front(stack[a])) : s[j] = Front(stack[a])[j]
        /\ s[Len(Front(stack[a])) + 1] = g
    BY <2>1, AppendProperties
  <2>3. Len(s) = Len(stack[a]) /\ s[Len(stack[a])] = g
    BY <2>1, <2>2
  <2>4. stack' = [stack EXCEPT ![a] = t]
    BY <1>3
  <2> HIDE DEF s
  <2>5. /\ t \in Seq(Frames) /\ Len(t) = Len(s) + 1
        /\ \A j \in 1 .. Len(s) : t[j] = s[j]
        /\ t[Len(s) + 1] = c
    BY <2>2, AppendProperties
  <2> HIDE DEF t
  <2>6. stack'[a] = t /\ \A d \in Actors : d # a => stack'[d] = stack[d]
    BY <2>4, <2>5, StackType
  <2>7. \A j \in 1 .. Len(stack[a]) - 1 : j \in 1 .. Len(s) /\ j \in 1 .. Len(Front(stack[a]))
    BY <2>1, <2>3
  <2>8. Len(stack[a]) \in 1 .. Len(s)
    BY <2>1, <2>3
  <2>9. /\ \A d \in Actors : d # a => stack'[d] = stack[d]
        /\ Len(stack[a]) \in Nat \ {0} /\ Len(stack'[a]) = Len(stack[a]) + 1
        /\ \A j \in 1 .. Len(stack[a]) - 1 : stack'[a][j] = stack[a][j]
        /\ stack'[a][Len(stack[a])] = g /\ stack'[a][Len(stack[a]) + 1] = c
    BY <2>1, <2>2, <2>3, <2>5, <2>6, <2>7, <2>8
  <2>10. OneMore(a, g, c)
    BY <2>9 DEF OneMore
  <2>11. StillThere(a, g)
    BY <2>9 DEF StillThere
  <2> QED BY <2>10, <2>11
<1> QED BY <1>2, <1>3 DEF Forwards

LEMMA HandlesFrames ==
  ASSUME TypeOK, NEW a \in Actors, NEW g \in Frames, Handles(a, g),
         NEW b \in Actors, NEW i \in 1 .. Len(stack'[b])
  PROVE  \/ /\ i \in 1 .. Len(stack[b]) /\ stack'[b][i] = stack[b][i]
            /\ b = a => i # Len(stack[a])
         \/ b = a /\ i = Len(stack[a]) /\ stack'[b][i] = g
<1>1. /\ \A d \in Actors : d # a => stack'[d] = stack[d]
      /\ Len(stack[a]) \in Nat \ {0} /\ Len(stack'[a]) = Len(stack[a])
      /\ \A j \in 1 .. Len(stack[a]) - 1 : stack'[a][j] = stack[a][j]
      /\ stack'[a][Len(stack[a])] = g
  BY TopReplaced DEF Handles
<1> QED BY <1>1

LEMMA ReturnsFrames ==
  ASSUME TypeOK, NEW a \in Actors, NEW f, NEW q, Returns(a, f, q),
         NEW b \in Actors, NEW i \in 1 .. Len(stack'[b])
  PROVE  /\ i \in 1 .. Len(stack[b]) /\ stack'[b][i] = stack[b][i]
         /\ b = a => i # Len(stack[a])
<1>1. /\ \A d \in Actors : d # a => stack'[d] = stack[d]
      /\ Len(stack[a]) \in Nat \ {0} /\ Len(stack'[a]) = Len(stack[a]) - 1
      /\ \A j \in 1 .. Len(stack[a]) - 1 : stack'[a][j] = stack[a][j]
  BY ReturnsStack
<1> QED BY <1>1

LEMMA HandlesKeeps ==
  ASSUME TypeOK, NEW a \in Actors, NEW g \in Frames, Handles(a, g)
  PROVE  StillThere(a, g)
<1>1. /\ \A d \in Actors : d # a => stack'[d] = stack[d]
      /\ Len(stack[a]) \in Nat \ {0} /\ Len(stack'[a]) = Len(stack[a])
      /\ \A j \in 1 .. Len(stack[a]) - 1 : stack'[a][j] = stack[a][j]
      /\ stack'[a][Len(stack[a])] = g
  BY TopReplaced DEF Handles
<1> QED BY <1>1 DEF StillThere

-----------------------------------------------------------------------------
(* What was received was sent *)

\* A kernel that forwards a packet has signed it, after every step
LEMMA StepSigned ==
  ASSUME TypeOK, SignedInv, [Next]_vars
  PROVE  SignedInv'
<1> DEFINE Signed(f) ==
      f.pc = "forward" /\ f.p.kind # "end" => \E s \in Signatures : f.p.sig = Append(s, f.at)
<1>1. \A b \in Actors : \A i \in 1 .. Len(stack[b]) : Signed(stack[b][i])
  BY DEF SignedInv
<1> SUFFICES ASSUME NEW b \in Actors, NEW i \in 1 .. Len(stack'[b])
             PROVE  Signed(stack'[b][i])
  BY DEF SignedInv
<1>2. i \in 1 .. Len(stack[b]) /\ stack'[b][i] = stack[b][i] => Signed(stack'[b][i])
  BY <1>1
<1>3. ASSUME NEW a \in Actors, stack[a] # <<>>
      PROVE  Top(a) \in Frames /\ Signed(Top(a))
  <2>1. Top(a) = stack[a][Len(stack[a])] /\ Len(stack[a]) \in Nat \ {0} /\ Top(a) \in Frames
    BY <1>3, TopFrame
  <2> QED BY <1>1, <2>1
<1>4. ASSUME NEW a \in Actors, NEW f \in Frames, NEW q \in Packets, Starts(a, f, q)
      PROVE  Signed(f)
  <2>1. f.p.kind # "end" => f.p.sig = Append(<<>>, f.at)
    BY <1>4 DEF Starts
  <2>2. <<>> \in Signatures
    BY DEF Signatures
  <2> QED BY <2>1, <2>2
<1>5. ASSUME NEW a \in Actors, NEW rk \in Kernels, NEW g \in Frames, NEW c \in Frames,
             Forwards(a, rk, g, c)
      PROVE  Signed(g) /\ Signed(c)
  <2>1. /\ stack[a] # <<>> /\ g.at = Top(a).at /\ g.p = Top(a).p /\ Top(a).pc = "forward"
        /\ c.pc = "handle"
    BY <1>5 DEF Forwards
  <2>2. Signed(Top(a))
    BY <1>3, <2>1
  <2> QED BY <2>1, <2>2
<1>6. ASSUME NEW a \in Actors, NEW g \in Frames, Handles(a, g)
      PROVE  Signed(g)
  <2>1. stack[a] # <<>> /\ g.p.sig = Append(Top(a).p.sig, g.at)
    BY <1>6 DEF Handles
  <2>2. Top(a).p.sig \in Signatures
    BY <1>3, <2>1 DEF Frames, Packets
  <2> QED BY <2>1, <2>2
<1> HIDE DEF Signed
<1>7. CASE \E a \in Actors, f \in Frames, q \in Packets : Starts(a, f, q)
  BY <1>2, <1>4, <1>7, StartsFrames
<1>8. CASE \E a \in Actors, rk \in Kernels, g \in Frames, c \in Frames : Forwards(a, rk, g, c)
  <2>1. PICK a \in Actors, rk \in Kernels, g \in Frames, c \in Frames : Forwards(a, rk, g, c)
    BY <1>8
  <2>2. OneMore(a, g, c)
    BY <2>1, ForwardsFrames
  <2>3. \/ i \in 1 .. Len(stack[b]) /\ stack'[b][i] = stack[b][i]
        \/ stack'[b][i] = g \/ stack'[b][i] = c
    BY <2>2 DEF OneMore
  <2>4. Signed(g) /\ Signed(c)
    BY <1>5, <2>1
  <2> QED BY <1>2, <2>3, <2>4
<1>9. CASE \E a \in Actors, g \in Frames : Handles(a, g)
  BY <1>2, <1>6, <1>9, HandlesFrames
<1>10. CASE \E a \in Actors, f \in Frames, q \in Packets : Returns(a, f, q)
  BY <1>2, <1>10, ReturnsFrames
<1>11. CASE Elsewhere
  BY <1>2, <1>11 DEF Elsewhere
<1> QED BY <1>7, <1>8, <1>9, <1>10, <1>11, StepKinds

\* The records are kept
Kept == \A j \in Kernels : evidence[j] \subseteq evidence'[j]

\* What a step records of received data was sent
Backed ==
  \A j \in Kernels : \A e \in evidence'[j] \ evidence[j] :
    e.type = "DATA_RECEIVE" => Event("DATA_SEND", e.n, j) \in evidence'[e.peer]

\* Handlers and receipts have their records of sending after every step
LEMMA StepSent ==
  ASSUME TypeOK, SignedInv, SentInv, SentBeforeReceived, [Next]_vars
  PROVE  SentInv' /\ SentBeforeReceived'
<1> DEFINE Sent(f, ev) ==
      f.pc = "handle" /\ f.p.kind = "data" => Event("DATA_SEND", f.p.n, f.at) \in ev[f.from]
<1>1. \A b \in Actors : \A i \in 1 .. Len(stack[b]) :
        stack[b][i] \in Frames /\ Sent(stack[b][i], evidence)
  <2>1. \A b \in Actors : stack[b] \in Seq(Frames)
    BY DEF TypeOK
  <2>2. \A b \in Actors : \A i \in 1 .. Len(stack[b]) : stack[b][i] \in Frames
    BY <2>1
  <2>3. \A b \in Actors : \A i \in 1 .. Len(stack[b]) : Sent(stack[b][i], evidence)
    BY DEF SentInv
  <2> QED BY <2>2, <2>3
<1>2. ASSUME Kept, NEW f \in Frames, Sent(f, evidence)
      PROVE  Sent(f, evidence')
  <2>1. f.from \in Kernels
    BY DEF Frames
  <2> QED BY <1>2, <2>1 DEF Kept
<1>3. ASSUME Kept, Backed
      PROVE  SentBeforeReceived'
  <2> SUFFICES ASSUME NEW k \in Kernels, NEW e \in evidence'[k], e.type = "DATA_RECEIVE"
               PROVE  Event("DATA_SEND", e.n, k) \in evidence'[e.peer]
    BY DEF SentBeforeReceived, Event
  <2>1. CASE e \in evidence[k]
    <3>1. Event("DATA_SEND", e.n, k) \in evidence[e.peer]
      BY <2>1 DEF SentBeforeReceived
    <3>2. e.peer \in Kernels
      BY <2>1 DEF TypeOK, Events
    <3> QED BY <1>3, <3>1, <3>2 DEF Kept
  <2>2. CASE e \notin evidence[k]
    BY <1>3, <2>2 DEF Backed
  <2> QED BY <2>1, <2>2
<1> HIDE DEF Sent
<1>4. ASSUME \A b \in Actors : \A i \in 1 .. Len(stack'[b]) : Sent(stack'[b][i], evidence')
      PROVE  SentInv'
  BY <1>4 DEF SentInv, Sent
<1>5. ASSUME Kept, NEW b \in Actors, NEW i \in 1 .. Len(stack'[b]),
             i \in 1 .. Len(stack[b]) /\ stack'[b][i] = stack[b][i]
      PROVE  Sent(stack'[b][i], evidence')
  BY <1>1, <1>2, <1>5
<1>6. CASE \E a \in Actors, f \in Frames, q \in Packets : Starts(a, f, q)
  <2>1. PICK a \in Actors, f \in Frames, q \in Packets : Starts(a, f, q)
    BY <1>6
  <2>2. Kept /\ Backed
    BY <2>1 DEF Starts, OnlyReceives, Kept, Backed
  <2>3. Sent(f, evidence')
    BY <2>1 DEF Starts, Sent
  <2>4. ASSUME NEW b \in Actors, NEW i \in 1 .. Len(stack'[b])
        PROVE  Sent(stack'[b][i], evidence')
    <3>1. (i \in 1 .. Len(stack[b]) /\ stack'[b][i] = stack[b][i]) \/ stack'[b][i] = f
      BY <2>1, StartsFrames
    <3> QED BY <1>5, <2>2, <2>3, <3>1
  <2> QED BY <1>3, <1>4, <2>2, <2>4
<1>7. CASE \E a \in Actors, rk \in Kernels, g \in Frames, c \in Frames : Forwards(a, rk, g, c)
  <2>1. PICK a \in Actors, rk \in Kernels, g \in Frames, c \in Frames : Forwards(a, rk, g, c)
    BY <1>7
  <2>2. Kept /\ Backed
    BY <2>1 DEF Forwards, Kept, Backed
  <2>3. Sent(g, evidence') /\ Sent(c, evidence')
    BY <2>1 DEF Forwards, Sent
  <2>4. OneMore(a, g, c)
    BY <2>1, ForwardsFrames
  <2>5. ASSUME NEW b \in Actors, NEW i \in 1 .. Len(stack'[b])
        PROVE  Sent(stack'[b][i], evidence')
    <3>1. \/ i \in 1 .. Len(stack[b]) /\ stack'[b][i] = stack[b][i]
          \/ stack'[b][i] = g \/ stack'[b][i] = c
      BY <2>4 DEF OneMore
    <3> QED BY <1>5, <2>2, <2>3, <3>1
  <2> QED BY <1>3, <1>4, <2>2, <2>5
<1>8. CASE \E a \in Actors, g \in Frames : Handles(a, g)
  <2>1. PICK a \in Actors, g \in Frames : Handles(a, g)
    BY <1>8
  <2>2. /\ stack[a] # <<>> /\ Top(a).pc = "handle" /\ g.pc = "forward"
        /\ g.at = Top(a).at /\ g.from = Top(a).from
        /\ g.p.n = Top(a).p.n /\ g.p.kind = Top(a).p.kind
        /\ OnlyReceives(g.at, g.from, g.p)
    BY <2>1 DEF Handles
  <2>3. Kept
    BY <2>2 DEF OnlyReceives, Kept
  <2>4. Top(a) \in Frames /\ Sent(Top(a), evidence')
    <3>1. Top(a) = stack[a][Len(stack[a])] /\ Len(stack[a]) \in Nat \ {0} /\ Top(a) \in Frames
      BY <2>2, TopFrame
    <3>2. Sent(Top(a), evidence)
      BY <1>1, <3>1
    <3> QED BY <1>2, <2>3, <3>1, <3>2
  <2>5. Backed
    <3> SUFFICES ASSUME NEW j \in Kernels, NEW e \in evidence'[j] \ evidence[j],
                        e.type = "DATA_RECEIVE"
                 PROVE  Event("DATA_SEND", e.n, j) \in evidence'[e.peer]
      BY DEF Backed
    <3>1. j = g.at /\ g.p.kind = "data" /\ e = Event("DATA_RECEIVE", g.p.n, g.from)
      BY <2>2 DEF OnlyReceives
    <3>2. e.n = g.p.n /\ e.peer = g.from
      BY <3>1 DEF Event
    <3>3. Event("DATA_SEND", g.p.n, g.at) \in evidence'[g.from]
      BY <2>2, <2>4, <3>1 DEF Sent
    <3> QED BY <3>1, <3>2, <3>3
  <2>6. Sent(g, evidence')
    BY <2>2 DEF Sent
  <2>7. ASSUME NEW b \in Actors, NEW i \in 1 .. Len(stack'[b])
        PROVE  Sent(stack'[b][i], evidence')
    <3>1. (i \in 1 .. Len(stack[b]) /\ stack'[b][i] = stack[b][i]) \/ stack'[b][i] = g
      BY <2>1, HandlesFrames
    <3> QED BY <1>5, <2>3, <2>6, <3>1
  <2> QED BY <1>3, <1>4, <2>3, <2>5, <2>7
<1>9. CASE \E a \in Actors, f \in Frames, q \in Packets : Returns(a, f, q)
  <2>1. PICK a \in Actors, f \in Frames, q \in Packets : Returns(a, f, q)
    BY <1>9
  <2>2. Kept /\ Backed
    BY <2>1 DEF Returns, Kept, Backed
  <2>3. ASSUME NEW b \in Actors, NEW i \in 1 .. Len(stack'[b])
        PROVE  Sent(stack'[b][i], evidence')
    <3>1. i \in 1 .. Len(stack[b]) /\ stack'[b][i] = stack[b][i]
      BY <2>1, ReturnsFrames
    <3> QED BY <1>5, <2>2, <3>1
  <2> QED BY <1>3, <1>4, <2>2, <2>3
<1>10. CASE Elsewhere
  <2>1. Kept /\ Backed
    BY <1>10 DEF Elsewhere, Kept, Backed
  <2>2. ASSUME NEW b \in Actors, NEW i \in 1 .. Len(stack'[b])
        PROVE  Sent(stack'[b][i], evidence')
    <3>1. i \in 1 .. Len(stack[b]) /\ stack'[b][i] = stack[b][i]
      BY <1>10 DEF Elsewhere
    <3> QED BY <1>5, <2>1, <3>1
  <2> QED BY <1>3, <1>4, <2>1, <2>2
<1> QED BY <1>6, <1>7, <1>8, <1>9, <1>10, StepKinds

\* Before anything is sent
LEMMA InitForward ==
  ASSUME Init
  PROVE  TypeOK /\ SignedInv /\ SentInv /\ SentBeforeReceived
<1>1. Members \subseteq Kernels /\ MaxPackets \in Nat /\ MaxFaults \in Nat
  BY ForwardConstants
<1>2. stack = [a \in Actors |-> <<>>] /\ evidence = [k \in Kernels |-> {}]
  BY DEF Init
<1>3. /\ status \in [Kernels -> {"active", "closed", "none"}]
      /\ listening \in [ReceiverKernels -> Presences]
      /\ chain \in [Kernels -> Seq(ChainRows)]
      /\ evidence \in [Kernels -> SUBSET Events]
      /\ got \in [ReceiverKernels -> Seq(Numbers)]
      /\ stack \in [Actors -> Seq(Frames)]
  <2>1. <<>> \in Seq(ChainRows) /\ <<>> \in Seq(Numbers) /\ <<>> \in Seq(Frames)
    OBVIOUS
  <2>2. chain \in [Kernels -> Seq(ChainRows)] /\ got \in [ReceiverKernels -> Seq(Numbers)]
    BY <2>1 DEF Init
  <2>3. stack \in [Actors -> Seq(Frames)]
    BY <1>2, <2>1
  <2>4. evidence \in [Kernels -> SUBSET Events]
    BY <1>2
  <2>5. status = [k \in Kernels |-> IF k \in Members THEN "active" ELSE "none"]
    BY DEF Init
  <2>6. status \in [Kernels -> {"active", "closed", "none"}]
    BY <2>5
  <2>7. listening \in [ReceiverKernels -> Presences]
    BY DEF Init
  <2> QED BY <2>2, <2>3, <2>4, <2>6, <2>7
<1>4. /\ pushed \in Seq([kind : Kinds, from : Kernels, hash : Hashes])
      /\ Len(pushed) <= MaxPackets /\ faults \in 0 .. MaxFaults /\ overlapped \in BOOLEAN
  <2>1. pushed = <<>> /\ faults = 0 /\ overlapped = FALSE
    BY DEF Init
  <2>2. /\ pushed \in Seq([kind : Kinds, from : Kernels, hash : Hashes])
        /\ Len(pushed) <= MaxPackets /\ faults \in 0 .. MaxFaults
    BY <1>1, <2>1
  <2>3. overlapped \in BOOLEAN
    BY <2>1, Zenon
  <2> QED BY <2>2, <2>3
<1>5. TypeOK
  BY <1>3, <1>4 DEF TypeOK
<1>6. \A a \in Actors : Len(stack[a]) = 0
  BY <1>2
<1> QED BY <1>2, <1>5, <1>6 DEF SignedInv, SentInv, SentBeforeReceived

\* The inductive invariant
ForwardInv == TypeOK /\ SignedInv /\ SentInv /\ SentBeforeReceived

\* Whatever connectors send, whatever calls are lost, channels closed and kernels restarted,
\* the invariant holds
LEMMA ForwardInvariant == Spec => []ForwardInv
<1>1. Init => ForwardInv
  BY InitForward DEF ForwardInv
<1>2. ForwardInv /\ [Next]_vars => ForwardInv'
  BY StepKinds, StepSigned, StepSent DEF ForwardInv
<1> QED BY <1>1, <1>2, PTL DEF Spec

\* THEOREM.  The tables, handlers and packets of every kernel are well formed: a packet is only
\* ever handed to a kernel, whatever the routes say (PushData, ForwardData)
THEOREM ForwardTypes == Spec => []TypeOK
<1>1. ForwardInv => TypeOK
  BY DEF ForwardInv
<1> QED BY <1>1, ForwardInvariant, PTL

\* THEOREM.  A kernel that has recorded the receipt of a packet from another finds there the
\* record of its having been sent, for any number of kernels, any routes and any faults
\* (DATA_SEND before the call of ForwardData, DATA_RECEIVE in AfterSent)
THEOREM ReceivedWasSent == Spec => []SentBeforeReceived
<1>1. ForwardInv => SentBeforeReceived
  BY DEF ForwardInv
<1> QED BY <1>1, ForwardInvariant, PTL

-----------------------------------------------------------------------------
(* The business chains are one chain *)

\* The rows are kept
RowsKept == \A j \in Kernels : Rows(j) \subseteq Rows(j)'

\* Every row of a kernel stays, and is signed by it after every step
LEMMA StepRows ==
  ASSUME TypeOK, SignedInv, RowsSigned, [Next]_vars
  PROVE  RowsSigned' /\ RowsKept
<1>1. ASSUME NEW k \in Kernels, NEW q, RowsFor(k, q)
      PROVE  RowsSigned' /\ RowsKept
  <2>1. \A j \in Kernels : \A r \in Rows(j)' : r.sig = Append(r.prevSig, j)
    BY <1>1 DEF RowsFor, RowsSigned
  <2> QED BY <1>1, <2>1 DEF RowsFor, RowsSigned, RowsKept
<1>2. ASSUME chain' = chain
      PROVE  RowsSigned' /\ RowsKept
  BY <1>2 DEF RowsSigned, RowsKept, Rows
<1>3. \A f \in Frames : f.at \in Kernels
  BY DEF Frames
<1>4. CASE \E a \in Actors, f \in Frames, q \in Packets : Starts(a, f, q)
  BY <1>1, <1>2, <1>3, <1>4 DEF Starts
<1>5. CASE \E a \in Actors, rk \in Kernels, g \in Frames, c \in Frames : Forwards(a, rk, g, c)
  BY <1>2, <1>5 DEF Forwards
<1>6. CASE \E a \in Actors, g \in Frames : Handles(a, g)
  BY <1>2, <1>6 DEF Handles
<1>7. CASE \E a \in Actors, f \in Frames, q \in Packets : Returns(a, f, q)
  BY <1>1, <1>2, <1>3, <1>7 DEF Returns
<1>8. CASE Elsewhere
  BY <1>2, <1>8 DEF Elsewhere
<1> QED BY <1>4, <1>5, <1>6, <1>7, <1>8, StepKinds

\* The row a signature ends with is there once the row for the packet before it is
LEMMA RowFollows ==
  ASSUME NEW k \in Kernels, NEW q, HasRow(k, q)', RowsSigned'
  PROVE  \E r \in Range(chain'[k]) :
           r.n = q.n /\ r.ack = (q.kind = "ack") /\ r.sig = Append(q.sig, k)
<1>1. PICK r \in Rows(k)' : r.n = q.n /\ r.ack = (q.kind = "ack") /\ r.prevSig = q.sig
  BY DEF HasRow
<1>2. r.sig = Append(q.sig, k)
  BY <1>1 DEF RowsSigned
<1> QED BY <1>1, <1>2 DEF Rows

\* The first handler stays one when rows are added
LEMMA RootKept ==
  ASSUME RowsKept, NEW f \in Frames, RootFrame(f, chain)
  PROVE  RootFrame(f, chain')
<1>1. f.at \in Kernels
  BY DEF Frames
<1>2. Range(chain[f.at]) \subseteq Range(chain'[f.at])
  BY <1>1 DEF RowsKept, Rows
<1> QED BY <1>2 DEF RootFrame

\* The handlers of a call wait for each other after every step
LEMMA StepStack ==
  ASSUME NoHopToItself, TypeOK, SignedInv, RowsSigned, StackInv, [Next]_vars
  PROVE  StackInv'
<1> SUFFICES ASSUME NEW b \in Actors, NEW i \in 1 .. Len(stack'[b])
             PROVE  Fits(stack'[b], i, chain')
  BY DEF StackInv
<1>1. RowsSigned' /\ RowsKept
  BY StepRows
<1>2. \A a \in Actors : stack[a] \in Seq(Frames)
  BY DEF TypeOK
<1>3. \A a \in Actors : \A j \in 1 .. Len(stack[a]) :
        stack[a][j] \in Frames /\ Fits(stack[a], j, chain)
  BY <1>2 DEF StackInv
<1>4. i = 1 \/ i - 1 \in 1 .. Len(stack'[b])
  OBVIOUS
<1>5. ASSUME i \in 1 .. Len(stack[b]), stack'[b][i] = stack[b][i],
             i # 1 => stack'[b][i - 1] = stack[b][i - 1]
      PROVE  Fits(stack'[b], i, chain')
  <2>1. Fits(stack[b], i, chain) /\ stack[b][i] \in Frames
    BY <1>3, <1>5
  <2>2. RootFrame(stack[b][i], chain) => RootFrame(stack[b][i], chain')
    BY <1>1, <2>1, RootKept
  <2> QED BY <1>5, <2>1, <2>2 DEF Fits
<1>6. CASE \E a \in Actors, f \in Frames, q \in Packets : Starts(a, f, q)
  <2>1. PICK a \in Actors, f \in Frames, q \in Packets : Starts(a, f, q)
    BY <1>6
  <2>2. /\ \A d \in Actors : d # a => stack'[d] = stack[d]
        /\ Len(stack'[a]) = 1 /\ stack'[a][1] = f
    BY <2>1, StartsStack
  <2>3. CASE b # a
    BY <1>5, <2>2, <2>3
  <2>4. CASE b = a
    <3>1. i = 1 /\ stack'[b][i] = f
      <4>1. i \in 1 .. Len(stack'[a])
        BY <2>4
      <4>2. i = 1
        BY <2>2, <4>1
      <4> QED BY <2>2, <2>4, <4>2
    <3>2. f.pc = "forward" /\ f.at = f.from /\ f.at \notin f.todo /\ f.at \in Kernels
      BY <2>1 DEF Starts, Frames
    <3>3. ASSUME f.p.kind # "end"
          PROVE  \E r \in Range(chain'[f.at]) :
                   r.n = f.p.n /\ r.ack = (f.p.kind = "ack") /\ r.sig = f.p.sig
      <4>1. /\ q.n = f.p.n /\ q.kind = f.p.kind /\ f.p.sig = Append(q.sig, f.at)
            /\ HasRow(f.at, q)'
        BY <2>1, <3>3 DEF Starts
      <4>2. \E r \in Range(chain'[f.at]) :
              r.n = q.n /\ r.ack = (q.kind = "ack") /\ r.sig = Append(q.sig, f.at)
        BY <1>1, <3>2, <4>1, RowFollows
      <4> QED BY <4>1, <4>2
    <3>4. RootFrame(f, chain')
      BY <3>2, <3>3 DEF RootFrame
    <3> QED BY <3>1, <3>2, <3>4 DEF Fits
  <2> QED BY <2>3, <2>4
<1>7. CASE \E a \in Actors, rk \in Kernels, g \in Frames, c \in Frames : Forwards(a, rk, g, c)
  <2>1. PICK a \in Actors, rk \in Kernels, g \in Frames, c \in Frames : Forwards(a, rk, g, c)
    BY <1>7
  <2>2. OneMore(a, g, c)
    BY <2>1, ForwardsFrames
  <2>3. /\ stack[a] # <<>> /\ Top(a).pc = "forward" /\ rk \in Top(a).todo
        /\ g.at = Top(a).at /\ g.from = Top(a).from /\ g.p = Top(a).p /\ g.pc = "forward"
        /\ g.todo \subseteq Top(a).todo
        /\ c.pc = "handle" /\ c.from = Top(a).at /\ c.p = Top(a).p /\ c.todo = {}
        /\ rk # c.from => c.at # c.from
    BY <2>1 DEF Forwards
  <2>4. /\ Top(a) = stack[a][Len(stack[a])] /\ Len(stack[a]) \in Nat \ {0}
        /\ Len(stack[a]) \in 1 .. Len(stack[a]) /\ Top(a) \in Frames
    BY <2>3, TopFrame
  <2>5. Fits(stack[a], Len(stack[a]), chain)
    BY <1>3, <2>4
  <2>6. g.at \notin g.todo /\ c.at # c.from
    <3>1. Top(a).at \notin Top(a).todo
      BY <2>4, <2>5 DEF Fits
    <3> QED BY <2>3, <3>1
  <2>7. \/ /\ i \in 1 .. Len(stack[b]) /\ stack'[b][i] = stack[b][i]
           /\ b = a => i # Len(stack[a])
        \/ b = a /\ i = Len(stack[a]) /\ stack'[b][i] = g
        \/ b = a /\ i = Len(stack[a]) + 1 /\ stack'[b][i] = c
    BY <2>2 DEF OneMore
  <2>8. i # 1 =>
          \/ /\ i - 1 \in 1 .. Len(stack[b]) /\ stack'[b][i - 1] = stack[b][i - 1]
             /\ b = a => i - 1 # Len(stack[a])
          \/ b = a /\ i - 1 = Len(stack[a]) /\ stack'[b][i - 1] = g
          \/ b = a /\ i - 1 = Len(stack[a]) + 1 /\ stack'[b][i - 1] = c
    BY <1>4, <2>2 DEF OneMore
  <2>9. CASE /\ i \in 1 .. Len(stack[b]) /\ stack'[b][i] = stack[b][i]
             /\ b = a => i # Len(stack[a])
    <3>1. i # 1 => stack'[b][i - 1] = stack[b][i - 1]
      BY <2>4, <2>8, <2>9
    <3> QED BY <1>5, <2>9, <3>1
  <2>10. CASE b = a /\ i = Len(stack[a]) /\ stack'[b][i] = g
    <3>1. CASE i = 1
      <4>1. RootFrame(Top(a), chain')
        <5>1. RootFrame(Top(a), chain)
          BY <2>4, <2>5, <2>10, <3>1 DEF Fits
        <5> QED BY <1>1, <2>4, <5>1, RootKept
      <4>2. RootFrame(g, chain')
        BY <2>3, <4>1 DEF RootFrame
      <4> QED BY <2>6, <2>10, <3>1, <4>2 DEF Fits
    <3>2. CASE i # 1
      <4>1. stack'[b][i - 1] = stack[a][i - 1]
        BY <2>4, <2>8, <2>10, <3>2
      <4>2. Follows(Top(a), stack[a][i - 1])
        BY <2>4, <2>5, <2>10, <3>2 DEF Fits
      <4>3. Follows(g, stack[a][i - 1])
        BY <2>3, <4>2 DEF Follows
      <4> QED BY <2>6, <2>10, <3>2, <4>1, <4>3 DEF Fits
    <3> QED BY <3>1, <3>2
  <2>11. CASE b = a /\ i = Len(stack[a]) + 1 /\ stack'[b][i] = c
    <3>1. i # 1 /\ stack'[b][i - 1] = g
      BY <2>4, <2>8, <2>11
    <3>2. Follows(c, g)
      BY <2>3, <2>6 DEF Follows
    <3> QED BY <2>3, <2>11, <3>1, <3>2 DEF Fits
  <2> QED BY <2>7, <2>9, <2>10, <2>11
<1>8. CASE \E a \in Actors, g \in Frames : Handles(a, g)
  <2>1. PICK a \in Actors, g \in Frames : Handles(a, g)
    BY <1>8
  <2>2. /\ stack[a] # <<>> /\ Top(a).pc = "handle" /\ g.pc = "forward" /\ g.at \notin g.todo
        /\ g.at = Top(a).at /\ g.from = Top(a).from
        /\ g.p.n = Top(a).p.n /\ g.p.kind = Top(a).p.kind
        /\ g.p.sig = Append(Top(a).p.sig, g.at)
    BY <2>1 DEF Handles
  <2>3. /\ Top(a) = stack[a][Len(stack[a])] /\ Len(stack[a]) \in Nat \ {0}
        /\ Len(stack[a]) \in 1 .. Len(stack[a])
    BY <2>2, TopFrame
  <2>4. Fits(stack[a], Len(stack[a]), chain)
    BY <1>3, <2>3
  <2>5. Len(stack[a]) # 1 /\ Follows(Top(a), stack[a][Len(stack[a]) - 1])
    BY <2>2, <2>3, <2>4 DEF Fits, RootFrame
  <2>6. Follows(g, stack[a][Len(stack[a]) - 1])
    BY <2>2, <2>5 DEF Follows
  <2>7. \/ /\ i \in 1 .. Len(stack[b]) /\ stack'[b][i] = stack[b][i]
           /\ b = a => i # Len(stack[a])
        \/ b = a /\ i = Len(stack[a]) /\ stack'[b][i] = g
    BY <2>1, HandlesFrames
  <2>8. i # 1 =>
          \/ /\ i - 1 \in 1 .. Len(stack[b]) /\ stack'[b][i - 1] = stack[b][i - 1]
             /\ b = a => i - 1 # Len(stack[a])
          \/ b = a /\ i - 1 = Len(stack[a]) /\ stack'[b][i - 1] = g
    BY <1>4, <2>1, HandlesFrames
  <2>9. CASE /\ i \in 1 .. Len(stack[b]) /\ stack'[b][i] = stack[b][i]
             /\ b = a => i # Len(stack[a])
    <3>1. i # 1 => stack'[b][i - 1] = stack[b][i - 1]
      BY <2>3, <2>8, <2>9
    <3> QED BY <1>5, <2>9, <3>1
  <2>10. CASE b = a /\ i = Len(stack[a]) /\ stack'[b][i] = g
    <3>1. i # 1 /\ stack'[b][i - 1] = stack[a][i - 1]
      BY <2>3, <2>5, <2>8, <2>10
    <3> QED BY <2>2, <2>6, <2>10, <3>1 DEF Fits
  <2> QED BY <2>7, <2>9, <2>10
<1>9. CASE \E a \in Actors, f \in Frames, q \in Packets : Returns(a, f, q)
  <2>1. PICK a \in Actors, f \in Frames, q \in Packets : Returns(a, f, q)
    BY <1>9
  <2>2. i \in 1 .. Len(stack[b]) /\ stack'[b][i] = stack[b][i]
    BY <2>1, ReturnsFrames
  <2>3. i # 1 => stack'[b][i - 1] = stack[b][i - 1]
    BY <1>4, <2>1, ReturnsFrames
  <2> QED BY <1>5, <2>2, <2>3
<1>10. CASE Elsewhere
  <2>1. stack' = stack
    BY <1>10 DEF Elsewhere
  <2> QED BY <1>5, <2>1
<1> QED BY <1>6, <1>7, <1>8, <1>9, <1>10, StepKinds

\* A row that follows another follows that of a kernel
LEMMA SignerIsKernel ==
  ASSUME NEW r \in ChainRows, r.prevSig # <<>>
  PROVE  Signer(r) \in Kernels
<1>1. r.prevSig \in Seq(Kernels)
  BY DEF ChainRows, Signatures
<1>2. Len(r.prevSig) \in 1 .. Len(r.prevSig)
  BY <1>1
<1> QED BY <1>1, <1>2 DEF Signer

\* A row that is written stays
LEMMA WrittenKept ==
  ASSUME RowsKept, NEW r \in ChainRows, r.prevSig # <<>>, Written(r, chain)
  PROVE  Written(r, chain')
<1>1. Signer(r) \in Kernels
  BY SignerIsKernel
<1>2. Range(chain[Signer(r)]) \subseteq Range(chain'[Signer(r)])
  BY <1>1 DEF RowsKept, Rows
<1> QED BY <1>2 DEF Written

\* When the handler that stands for a row returns, the row is there
LEMMA ReturnsWritten ==
  ASSUME TypeOK, RowsKept, RowsSigned', StackInv, NEW a \in Actors, NEW f \in Frames, NEW q \in Packets,
         Returns(a, f, q), NEW r \in ChainRows, r.prevSig # <<>>, StandsFor(f, r)
  PROVE  Written(r, chain')
<1>1. /\ f.pc = "forward" /\ f.p.kind # "end" /\ f.at = Signer(r) /\ f.at \in Kernels
      /\ f.p.n = r.n /\ r.ack = (f.p.kind = "ack") /\ f.p.sig = r.prevSig
  BY DEF StandsFor, Frames
<1>2. stack[a][Len(stack[a])] = f /\ Len(stack[a]) \in Nat \ {0}
  BY ReturnsStack
<1>3. Fits(stack[a], Len(stack[a]), chain)
  BY <1>2 DEF StackInv
<1>4. CASE Len(stack[a]) = 1
  <2>1. RootFrame(f, chain)
    BY <1>2, <1>3, <1>4 DEF Fits
  <2>2. Written(r, chain)
    BY <1>1, <2>1 DEF RootFrame, Written
  <2> QED BY <2>2, WrittenKept
<1>5. CASE Len(stack[a]) # 1
  <2>1. f.at # f.from
    BY <1>2, <1>3, <1>5 DEF Fits, Follows
  <2>2. q.n = f.p.n /\ q.kind = f.p.kind /\ f.p.sig = Append(q.sig, f.at) /\ HasRow(f.at, q)'
    BY <1>1, <2>1 DEF Returns
  <2>3. \E x \in Range(chain'[f.at]) :
          x.n = q.n /\ x.ack = (q.kind = "ack") /\ x.sig = Append(q.sig, f.at)
    BY <1>1, <2>2, RowFollows
  <2> QED BY <1>1, <2>2, <2>3 DEF Written
<1> QED BY <1>4, <1>5

\* The row a handler writes follows that of the handler which waits for it
LEMMA ReturnsLinked ==
  ASSUME TypeOK, SignedInv, StackInv, NEW a \in Actors, NEW f \in Frames, NEW q \in Packets,
         Returns(a, f, q), f.pc = "forward", f.p.kind # "end", f.at # f.from,
         NEW r, r.n = q.n, r.ack = (q.kind = "ack"), r.prevSig = q.sig
  PROVE  \E i \in 1 .. Len(stack'[a]) : StandsFor(stack'[a][i], r)
<1>1. /\ stack[a][Len(stack[a])] = f /\ Len(stack[a]) \in Nat \ {0}
      /\ Len(stack'[a]) = Len(stack[a]) - 1
      /\ \A i \in 1 .. Len(stack[a]) - 1 : stack'[a][i] = stack[a][i]
  BY ReturnsStack
<1>2. Fits(stack[a], Len(stack[a]), chain)
  BY <1>1 DEF StackInv
<1>3. Len(stack[a]) # 1
  BY <1>1, <1>2 DEF Fits, RootFrame
<1>4. PICK m \in 1 .. Len(stack'[a]) :
        m = Len(stack[a]) - 1 /\ stack'[a][m] = stack[a][m] /\ m \in 1 .. Len(stack[a])
  <2>1. PICK n \in Nat : n = Len(stack[a])
    BY <1>1
  <2>2. n # 0 /\ n # 1 /\ Len(stack'[a]) = n - 1
    BY <1>1, <1>3, <2>1
  <2>3. n - 1 \in 1 .. n - 1 /\ n - 1 \in 1 .. n
    BY <2>2
  <2>4. stack'[a][n - 1] = stack[a][n - 1]
    BY <1>1, <2>1, <2>3
  <2> QED BY <2>1, <2>2, <2>3, <2>4
<1>5. stack[a] \in Seq(Frames)
  BY DEF TypeOK
<1>6. PICK g \in Frames : g = stack[a][m]
  BY <1>4, <1>5
<1>7. Follows(f, g)
  BY <1>1, <1>2, <1>3, <1>4, <1>6 DEF Fits
<1>8. q.n = f.p.n /\ q.kind = f.p.kind /\ f.p.sig = Append(q.sig, f.at)
  BY DEF Returns
<1>9. /\ g.pc = "forward" /\ g.p.n = q.n /\ g.p.kind = q.kind /\ g.p.kind # "end"
      /\ f.p.sig = Append(g.p.sig, f.at)
  BY <1>7, <1>8 DEF Follows
<1>10. g.p.sig = q.sig
  <2>1. g.p.sig \in Signatures /\ q.sig \in Signatures /\ f.at \in Kernels
    BY DEF Frames, Packets
  <2>2. Front(f.p.sig) = g.p.sig /\ Front(f.p.sig) = q.sig
    BY <1>8, <1>9, <2>1, FrontOfAppend
  <2> QED BY <2>2
<1>11. g.at = Signer(r)
  <2>1. PICK s \in Signatures : g.p.sig = Append(s, g.at)
    BY <1>4, <1>6, <1>9 DEF SignedInv
  <2>2. s \in Seq(Kernels) /\ g.at \in Kernels
    BY DEF Signatures, Frames
  <2>3. Len(Append(s, g.at)) = Len(s) + 1 /\ Append(s, g.at)[Len(s) + 1] = g.at
    BY <2>2, AppendProperties
  <2>4. r.prevSig = Append(s, g.at)
    BY <1>10, <2>1
  <2> QED BY <2>3, <2>4 DEF Signer
<1>12. StandsFor(g, r)
  BY <1>9, <1>10, <1>11 DEF StandsFor
<1> QED BY <1>4, <1>6, <1>12

\* Every row is linked to the one before it after every step
LEMMA StepLinks ==
  ASSUME NoHopToItself, TypeOK, SignedInv, RowsSigned, StackInv, LinkInv, [Next]_vars
  PROVE  LinkInv'
<1>1. RowsSigned' /\ RowsKept
  BY StepRows
<1>2. TypeOK'
  BY StepKinds
<1> SUFFICES ASSUME NEW k \in Kernels, NEW r \in Rows(k)', r.prevSig # <<>>
             PROVE  Linked(r, stack', chain')
  BY DEF LinkInv
<1>3. r \in ChainRows
  <2>1. chain'[k] \in Seq(ChainRows)
    BY <1>2 DEF TypeOK
  <2> QED BY <2>1, RangeOfSeq DEF Rows
<1>4. CASE Written(r, chain)
  BY <1>1, <1>3, <1>4, WrittenKept DEF Linked
<1>5. ASSUME NEW b \in Actors, NEW i \in 1 .. Len(stack'[b]), StandsFor(stack'[b][i], r)
      PROVE  Linked(r, stack', chain')
  BY <1>5 DEF Linked
<1>6. ASSUME NEW b \in Actors, NEW i \in 1 .. Len(stack[b]), StandsFor(stack[b][i], r)
      PROVE  Linked(r, stack', chain')
  <2>1. ASSUME NEW a \in Actors, NEW f \in Frames, NEW q \in Packets, Starts(a, f, q)
        PROVE  Linked(r, stack', chain')
    <3>1. stack[a] = <<>> /\ \A d \in Actors : d # a => stack'[d] = stack[d]
      BY <2>1, StartsStack DEF Starts
    <3>2. b # a
      BY <3>1
    <3> QED BY <1>5, <1>6, <3>1, <3>2
  <2>2. ASSUME NEW a \in Actors, NEW rk \in Kernels, NEW g \in Frames, NEW c \in Frames,
               Forwards(a, rk, g, c)
        PROVE  Linked(r, stack', chain')
    <3>1. StillThere(a, g)
      BY <2>2, ForwardsFrames
    <3>2. i \in 1 .. Len(stack'[b]) /\
            stack'[b][i] = IF b = a /\ i = Len(stack[a]) THEN g ELSE stack[b][i]
      BY <3>1 DEF StillThere
    <3>3. stack[a] # <<>> /\ g.at = Top(a).at /\ g.p = Top(a).p /\ g.pc = "forward"
      BY <2>2 DEF Forwards
    <3>4. Top(a) = stack[a][Len(stack[a])]
      BY <3>3, TopFrame
    <3>5. b = a /\ i = Len(stack[a]) => StandsFor(g, r)
      BY <1>6, <3>3, <3>4 DEF StandsFor
    <3> QED BY <1>5, <1>6, <3>2, <3>5
  <2>3. ASSUME NEW a \in Actors, NEW g \in Frames, Handles(a, g)
        PROVE  Linked(r, stack', chain')
    <3>1. StillThere(a, g)
      BY <2>3, HandlesKeeps
    <3>2. i \in 1 .. Len(stack'[b]) /\
            stack'[b][i] = IF b = a /\ i = Len(stack[a]) THEN g ELSE stack[b][i]
      BY <3>1 DEF StillThere
    <3>3. stack[a] # <<>> /\ Top(a).pc = "handle"
      BY <2>3 DEF Handles
    <3>4. Top(a) = stack[a][Len(stack[a])]
      BY <3>3, TopFrame
    <3>5. ~(b = a /\ i = Len(stack[a]))
      BY <1>6, <3>3, <3>4 DEF StandsFor
    <3> QED BY <1>5, <1>6, <3>2, <3>5
  <2>4. ASSUME NEW a \in Actors, NEW f \in Frames, NEW q \in Packets, Returns(a, f, q)
        PROVE  Linked(r, stack', chain')
    <3>1. /\ \A d \in Actors : d # a => stack'[d] = stack[d]
          /\ Len(stack[a]) \in Nat \ {0} /\ Len(stack'[a]) = Len(stack[a]) - 1
          /\ \A j \in 1 .. Len(stack[a]) - 1 : stack'[a][j] = stack[a][j]
          /\ stack[a][Len(stack[a])] = f
      BY <2>4, ReturnsStack
    <3>2. CASE b # a
      BY <1>5, <1>6, <3>1, <3>2
    <3>3. CASE b = a /\ i # Len(stack[a])
      <4>1. i \in 1 .. Len(stack'[b]) /\ stack'[b][i] = stack[b][i]
        BY <3>1, <3>3
      <4> QED BY <1>5, <1>6, <4>1
    <3>4. CASE b = a /\ i = Len(stack[a])
      <4>1. StandsFor(f, r)
        BY <1>6, <3>1, <3>4
      <4>2. Written(r, chain')
        BY <1>1, <1>3, <2>4, <4>1, ReturnsWritten
      <4> QED BY <4>2 DEF Linked
    <3> QED BY <3>2, <3>3, <3>4
  <2>5. CASE Elsewhere
    BY <1>5, <1>6, <2>5 DEF Elsewhere
  <2> QED BY <2>1, <2>2, <2>3, <2>4, <2>5, StepKinds
<1>7. CASE r \in Rows(k)
  <2>1. Linked(r, stack, chain)
    BY <1>7 DEF LinkInv
  <2> QED BY <1>4, <1>6, <2>1 DEF Linked
<1>8. CASE r \notin Rows(k)
  <2>1. chain' # chain
    BY <1>8 DEF Rows
  <2>2. ASSUME NEW a \in Actors, NEW f \in Frames, NEW q \in Packets, Starts(a, f, q)
        PROVE  FALSE
    <3>1. RowsFor(f.at, q) /\ q.sig = <<>>
      BY <2>1, <2>2 DEF Starts
    <3> QED BY <1>8, <3>1 DEF RowsFor
  <2>3. ASSUME NEW a \in Actors, NEW f \in Frames, NEW q \in Packets, Returns(a, f, q)
        PROVE  Linked(r, stack', chain')
    <3>1. f.pc # "handle" /\ f.p.kind # "end" /\ f.at # f.from /\ RowsFor(f.at, q)
      BY <2>1, <2>3 DEF Returns
    <3>2. f.pc = "forward"
      BY <3>1 DEF Frames
    <3>3. r.n = q.n /\ r.ack = (q.kind = "ack") /\ r.prevSig = q.sig
      BY <1>8, <3>1 DEF RowsFor
    <3>4. \E i \in 1 .. Len(stack'[a]) : StandsFor(stack'[a][i], r)
      BY <2>3, <3>1, <3>2, <3>3, ReturnsLinked
    <3> QED BY <1>5, <3>4
  <2>4. CASE \E a \in Actors, rk \in Kernels, g \in Frames, c \in Frames : Forwards(a, rk, g, c)
    BY <2>1, <2>4 DEF Forwards
  <2>5. CASE \E a \in Actors, g \in Frames : Handles(a, g)
    BY <2>1, <2>5 DEF Handles
  <2>6. CASE Elsewhere
    BY <2>1, <2>6 DEF Elsewhere
  <2> QED BY <2>2, <2>3, <2>4, <2>5, <2>6, StepKinds
<1> QED BY <1>7, <1>8

LinkedInv == TypeOK /\ SignedInv /\ RowsSigned /\ StackInv /\ LinkInv

\* Before anything is recorded
LEMMA InitLinks ==
  ASSUME Init
  PROVE  LinkedInv
<1>1. TypeOK /\ SignedInv
  BY InitForward
<1>2. /\ stack = [a \in Actors |-> <<>>] /\ chain = [k \in Kernels |-> <<>>]
  BY DEF Init
<1>3. \A a \in Actors : Len(stack[a]) = 0
  BY <1>2
<1>4. \A k \in Kernels : Rows(k) = {}
  BY <1>2 DEF Rows, Range
<1> QED BY <1>1, <1>3, <1>4 DEF LinkedInv, RowsSigned, StackInv, LinkInv

\* A handler that stands for a row is one of a packet in progress
LEMMA LinkedRows ==
  ASSUME LinkedInv
  PROVE  SignaturesLink
<1> SUFFICES ASSUME NEW k \in Kernels, NEW r \in Rows(k), r.prevSig # <<>>
             PROVE  \/ InProgress(Signer(r), r.n)
                    \/ \E q \in Rows(Signer(r)) : q.n = r.n /\ q.ack = r.ack /\ q.sig = r.prevSig
  BY DEF SignaturesLink, Signer, Last
<1>1. Linked(r, stack, chain)
  BY DEF LinkedInv, LinkInv
<1>2. CASE Written(r, chain)
  BY <1>2 DEF Written, Rows
<1>3. CASE \E a \in Actors : \E i \in 1 .. Len(stack[a]) : StandsFor(stack[a][i], r)
  <2>1. PICK a \in Actors : \E i \in 1 .. Len(stack[a]) : StandsFor(stack[a][i], r)
    BY <1>3
  <2>2. PICK i \in 1 .. Len(stack[a]) : StandsFor(stack[a][i], r)
    BY <2>1
  <2>3. stack[a] \in Seq(Frames)
    BY DEF LinkedInv, TypeOK
  <2>4. stack[a][i] \in Range(stack[a])
    BY <2>3 DEF Range
  <2> QED BY <2>2, <2>4 DEF StandsFor, InProgress
<1> QED BY <1>1, <1>2, <1>3 DEF Linked

\* THEOREM.  If no route leads from a kernel to itself, the tables of all kernels are well formed
\* and their business chains are one chain, whatever fails: the signature a row follows is that
\* of a row at the kernel which made it, or of a packet which that kernel is still forwarding
\* (ForwardData signs before it forwards, and writes its row when the calls it made have returned)
THEOREM ChainsStayLinked ==
  ASSUME NoHopToItself
  PROVE  Spec => []ChainsConsistent
<1>1. Init => LinkedInv
  BY InitLinks
<1>2. LinkedInv /\ [Next]_vars => LinkedInv'
  BY StepKinds, StepSigned, StepRows, StepStack, StepLinks DEF LinkedInv
<1>3. LinkedInv => ChainsConsistent
  BY LinkedRows DEF LinkedInv, ChainsConsistent
<1> QED BY <1>1, <1>2, <1>3, PTL DEF Spec

-----------------------------------------------------------------------------
(* Where a packet goes: what each step hands on, and to whom *)

\* What packets are addressed to, by their kind
Destinations ==
  [kind : {"data"}, to : Targets] \cup [kind : {"end"}, to : {NoKernel}]
    \cup [kind : {"ack"}, to : {SenderKernels[1]}]

\* What packet p is addressed to
Destination(p) == [kind |-> p.kind, to |-> p.to]

\* The kernels that kernel k calls with a packet for d
Onwards(k, d) == UNION {Towards(k, rk) : rk \in (UNION Legs(k, d)) \ {k}}

\* By the measure dist every kernel hands a packet on to a kernel that is nearer its destination
Nearer(dist) ==
  \A d \in Destinations, k \in Kernels : \A to \in Onwards(k, d) : dist[d][to] < dist[d][k]

\* Packets for all receivers are only sent where all receivers are at one kernel
OneTarget == NoKernel \in Targets => \A i, j \in ReceiverKernels : i = j

\* The handlers that wait for each other are ever nearer the destination
StackDescends(dist, s) ==
  \A i, j \in 1 .. Len(s) : i < j =>
    /\ Destination(s[i].p) = Destination(s[j].p)
    /\ dist[Destination(s[j].p)][s[j].at] < dist[Destination(s[j].p)][s[i].at]

\* A handler has an addressed packet, and only calls on behalf of its destination
Addressed(f) ==
  /\ Destination(f.p) \in Destinations
  /\ f.todo \subseteq (UNION Legs(f.at, Destination(f.p))) \ {f.at}

\* Every handler has an addressed packet, and those of a stack come nearer its destination
DescentInv(dist) ==
  \A a \in Actors :
    /\ \A i \in 1 .. Len(stack[a]) : Addressed(stack[a][i])
    /\ StackDescends(dist, stack[a])

\* A handler of a data packet has at most one call to make, and has made it if others are above
Settled(f) == f.pc = "forward" /\ f.todo = {}

\* Packet n is in the queue of a receiver
Queued(n) == \E k \in ReceiverKernels : n \in Range(got[k])

\* Handler f of actor a has a packet of that sender for its target, and one call to make at most
DataFrame(a, f) ==
  /\ f.p.to \in Targets /\ a[1] = "data"
  /\ f.p.n \in 1 .. Len(pushed) /\ pushed[f.p.n].from = a[2]
  /\ \A i, j \in f.todo : i = j

\* Handler f of actor a has no more to do if others are above it or its packet is queued
SingleFrame(a, f, above) ==
  f.p.kind = "data" =>
    /\ DataFrame(a, f)
    /\ above \/ Queued(f.p.n) => Settled(f)

\* Every handler of a data packet is such a handler, and only what was pushed is queued, once
SingleInv ==
  /\ \A a \in Actors : \A i \in 1 .. Len(stack[a]) :
       SingleFrame(a, stack[a][i], i < Len(stack[a]))
  /\ \A n : Queued(n) => n \in 1 .. Len(pushed)
  /\ DeliveredOnce

\* What PushData leaves of packet g.p: the handler g, which goes on to the kernels of a leg unless
\* the channel is not active or the packet is buffered, and the packet queued if it is for here
Settles(g) ==
  /\ g.pc = "forward"
  /\ IF status[g.at] = "active" /\ ~ShouldBuffer(g.at, g.p)
     THEN \E legs \in Legs(g.at, g.p) : g.todo = legs \ {g.at}
     ELSE g.todo = {}
  /\ \/ got' = got
     \/ ForMe(g.at, g.p) /\ got' = [got EXCEPT ![g.at] = Append(got[g.at], g.p.n)]

\* Kernel k has pushed packet p, and waits for nobody but those below
Pushes(a, below, k, from, p, hash) ==
  \E g \in Frames :
    /\ stack' = [stack EXCEPT ![a] = Append(below, g)]
    /\ g.at = k /\ g.from = from /\ g.p = p /\ g.hash = hash /\ Settles(g)

\* A row for the packet of handler g is added at its kernel
Recorded(g) ==
  \E row \in ChainRows :
    /\ chain' = [chain EXCEPT ![g.at] = Append(chain[g.at], row)]
    /\ row.n = g.p.n /\ row.ack = (g.p.kind = "ack") /\ row.sig = g.p.sig
    /\ g.p.kind = "data" => row.hash = g.hash

\* The entry that counts the packet of handler g, and all such entries
PushedRecord(g) == [kind |-> g.p.kind, from |-> g.at, hash |-> g.hash]
PushedRecords == [kind : Kinds, from : Kernels, hash : Hashes]

\* A connector's call begins with handler g: an acknowledgement, a data packet or the end of a
\* stream, the last two of which are counted
Opens(a, g) ==
  /\ stack[a] = <<>> /\ stack' = [stack EXCEPT ![a] = Append(<<>>, g)]
  /\ Settles(g) /\ Destination(g.p) \in Destinations
  /\ g.from = g.at /\ a[1] = (IF g.p.kind = "ack" THEN "ack" ELSE "data") /\ a[2] = g.at
  /\ g.p.kind # "end" => g.p.sig = Append(<<>>, g.at)
  /\ IF g.p.kind = "ack" THEN pushed' = pushed
     ELSE g.p.n = Len(pushed) + 1 /\ pushed' = Append(pushed, PushedRecord(g))
  /\ \/ g.p.kind # "data" /\ chain' = chain
     \/ g.p.kind = "ack" /\ Recorded(g)
     \/ g.p.kind = "data" /\ Recorded(g) /\ g.hash = Append(LastDataHash(g.at), g.p.n)
  /\ overlapped' = (overlapped \/ \E b \in Actors : stack[b] # <<>>)
  /\ UNCHANGED <<status, listening, faults>>

\* The handler that was called becomes one that forwards
Takes(a, g) ==
  /\ stack[a] # <<>> /\ Top(a).pc = "handle"
  /\ stack' = [stack EXCEPT ![a] = Append(Front(stack[a]), g)]
  /\ Settles(g) /\ g.at = Top(a).at /\ g.from = Top(a).from
  /\ g.p.n = Top(a).p.n /\ Destination(g.p) = Destination(Top(a).p)
  /\ g.p.sig = Append(Top(a).p.sig, g.at) /\ g.hash = Append(LastDataHash(g.at), g.p.n)
  /\ status[g.at] # "none"
  /\ UNCHANGED <<status, listening, chain, pushed, faults, overlapped>>

\* The handler calls a kernel on behalf of rk, or fails to
Hands(a, rk, g, c) ==
  /\ stack[a] # <<>> /\ Top(a).pc = "forward" /\ rk \in Top(a).todo
  /\ g.at = Top(a).at /\ g.from = Top(a).from /\ g.p = Top(a).p /\ g.hash = Top(a).hash
  /\ g.pc = "forward" /\ g.todo = Top(a).todo \ {rk}
  /\ c.at \in Towards(Top(a).at, rk) /\ c.from = Top(a).at /\ c.p = Top(a).p
  /\ c.pc = "handle" /\ c.todo = {}
  /\ \/ stack' = [stack EXCEPT ![a] = Append(Front(stack[a]), g)] /\ faults' = faults + 1
     \/ stack' = [stack EXCEPT ![a] = Append(Append(Front(stack[a]), g), c)] /\ faults' = faults
  /\ UNCHANGED <<status, listening, chain, got, pushed, overlapped>>

\* The handler returns: it was refused, or it is done and its row is there
Leaves(a) ==
  /\ stack[a] # <<>> /\ stack' = [stack EXCEPT ![a] = Front(stack[a])]
  /\ \/ Top(a).pc = "handle" /\ status[Top(a).at] = "none" /\ chain' = chain
     \/ /\ Top(a).pc = "forward" /\ Top(a).todo = {}
        /\ \/ Top(a).p.kind # "data" \/ Top(a).at = Top(a).from
           \/ Recorded(Top(a))
        /\ \/ chain' = chain
           \/ Top(a).p.kind # "end" /\ Top(a).at # Top(a).from /\ Recorded(Top(a))
  /\ UNCHANGED <<status, listening, got, pushed, faults, overlapped>>

\* Nothing is sent
Quiet ==
  /\ UNCHANGED <<listening, chain, got, stack, pushed, overlapped>>
  /\ faults' = faults + 1 \/ UNCHANGED <<status, faults>>

\* PushData, whatever becomes of the packet
LEMMA PushSettles ==
  ASSUME NEW a, NEW below, NEW k \in Kernels, NEW from \in Kernels, NEW p \in Packets,
         NEW hash \in Hashes, PushData(a, below, k, from, p, hash)
  PROVE  Pushes(a, below, k, from, p, hash)
<1> DEFINE Further(todo) == IF status[k] = "active" /\ ~ShouldBuffer(k, p)
                         THEN \E legs \in Legs(k, p) : todo = legs \ {k} ELSE todo = {}
<1>1. \E todo \in SUBSET Kernels :
        /\ stack' = [stack EXCEPT ![a] = Append(below, Frame(k, from, p, todo, hash))]
        /\ Further(todo)
        /\ got' = got \/ (ForMe(k, p) /\ got' = [got EXCEPT ![k] = Append(got[k], p.n)])
  <2>1. CASE status[k] = "active"
    <3>1. PICK legs \in Legs(k, p) :
            stack' = [stack EXCEPT ![a] =
              Append(below, Frame(k, from, p, IF ShouldBuffer(k, p) THEN {} ELSE legs \ {k}, hash))]
      BY <2>1 DEF PushData
    <3>2. PICK todo : todo = IF ShouldBuffer(k, p) THEN {} ELSE legs \ {k}
      OBVIOUS
    <3>3. todo \in SUBSET Kernels
      BY <3>2, LegsKernels
    <3>4. Deliver(k, p)
      BY <2>1 DEF PushData
    <3>5. got' = got \/ (ForMe(k, p) /\ got' = [got EXCEPT ![k] = Append(got[k], p.n)])
      BY <3>4 DEF Deliver
    <3>6. Further(todo)
      BY <2>1, <3>1, <3>2
    <3> HIDE DEF Further
    <3> QED BY <3>1, <3>2, <3>3, <3>5, <3>6
  <2>2. CASE status[k] # "active"
    <3>1. /\ stack' = [stack EXCEPT ![a] = Append(below, Frame(k, from, p, {}, hash))]
          /\ got' = got
      BY <2>2 DEF PushData
    <3>2. Further({})
      BY <2>2
    <3> HIDE DEF Further
    <3> QED BY <3>1, <3>2
  <2> QED BY <2>1, <2>2
<1>2. PICK todo \in SUBSET Kernels :
        /\ stack' = [stack EXCEPT ![a] = Append(below, Frame(k, from, p, todo, hash))]
        /\ Further(todo)
        /\ got' = got \/ (ForMe(k, p) /\ got' = [got EXCEPT ![k] = Append(got[k], p.n)])
  BY <1>1
<1>3. PICK g : g = Frame(k, from, p, todo, hash)
  OBVIOUS
<1>4. /\ g \in Frames /\ g.at = k /\ g.from = from /\ g.p = p /\ g.pc = "forward"
      /\ g.todo = todo /\ g.hash = hash
  BY <1>3 DEF Frame, Frames
<1>5. Settles(g)
  BY <1>2, <1>4 DEF Settles
<1> QED BY <1>2, <1>3, <1>4, <1>5 DEF Pushes

\* A row for packet q, as it is after handler g has signed it
LEMMA RowRecorded ==
  ASSUME NEW g \in Frames, NEW q \in Packets, NEW hash \in Hashes, NEW prev \in Hashes,
         q.n = g.p.n, q.kind = g.p.kind, g.p.sig = Append(q.sig, g.at),
         g.p.kind = "data" => hash = g.hash,
         chain' = [chain EXCEPT ![g.at] = Append(@, Row(q, hash, prev, Append(q.sig, g.at)))]
  PROVE  Recorded(g)
<1>1. PICK row : row = Row(q, hash, prev, Append(q.sig, g.at))
  OBVIOUS
<1>2. Append(q.sig, g.at) \in Signatures
  BY DEF Frames, Packets
<1>3. /\ row \in ChainRows /\ row.n = g.p.n /\ row.ack = (g.p.kind = "ack") /\ row.sig = g.p.sig
      /\ row.hash = hash
  BY <1>1, <1>2 DEF Row, ChainRows, Packets
<1>4. chain' = [chain EXCEPT ![g.at] = Append(chain[g.at], row)]
  BY <1>1
<1> QED BY <1>3, <1>4 DEF Recorded

\* RecordAck adds a row, or leaves the chain as it is
LEMMA AckRecorded ==
  ASSUME NEW g \in Frames, NEW q \in Packets, g.p.kind = "ack",
         q.n = g.p.n, q.kind = g.p.kind, g.p.sig = Append(q.sig, g.at),
         chain' = RecordAck(g.at, q)
  PROVE  chain' = chain \/ Recorded(g)
<1>1. CASE chain' = chain
  BY <1>1
<1>2. CASE chain' = [chain EXCEPT ![g.at] = Append(@, Row(q, <<>>, <<>>, Append(q.sig, g.at)))]
  <2>1. <<>> \in Hashes
    BY DEF Hashes
  <2>2. PICK e \in Hashes : e = <<>>
    BY <2>1
  <2>3. chain' = [chain EXCEPT ![g.at] = Append(@, Row(q, e, e, Append(q.sig, g.at)))]
    BY <1>2, <2>2
  <2> QED BY <2>3, RowRecorded
<1> QED BY <1>1, <1>2 DEF RecordAck, Sign

\* The steps of a connector
LEMMA StreamDataOpens ==
  ASSUME TypeOK, NEW k \in Senders, NEW to \in Targets, StreamData(k, to)
  PROVE  \E a \in Actors, g \in Frames : Opens(a, g)
<1>1. k \in Kernels /\ to \in Kernels \cup {NoKernel} /\ <<"data", k>> \in Actors
  BY ForwardConstants DEF Members, Actors
<1>2. PICK n \in Numbers : n = Len(pushed) + 1
  BY DEF StreamData, TypeOK, Numbers
<1>3. PICK hash \in Hashes : hash = Append(LastDataHash(k), n)
  BY <1>1, NextHashType
<1>4. PICK q : q = Packet(n, "data", k, to, <<>>, <<>>)
  OBVIOUS
<1>5. PICK p : p = [q EXCEPT !.hash = hash, !.sig = Sign(<<>>, k)]
  OBVIOUS
<1>6. PICK a, below : a = <<"data", k>> /\ below = <<>>
  OBVIOUS
<1>7. /\ PushData(a, below, k, k, p, hash) /\ Begin(a)
      /\ pushed' = Append(pushed, [kind |-> "data", from |-> k, hash |-> hash])
      /\ chain' = [chain EXCEPT ![k] = Append(@, Row(q, hash, LastDataHash(k), Sign(<<>>, k)))]
      /\ UNCHANGED <<status, listening, faults>>
  BY <1>2, <1>3, <1>4, <1>5, <1>6 DEF StreamData
<1>8. /\ q \in Packets /\ q.n = n /\ q.kind = "data" /\ q.sig = <<>>
      /\ p \in Packets /\ p.n = n /\ p.kind = "data" /\ p.to = to /\ p.sig = Append(<<>>, k)
  <2>1. Sign(<<>>, k) \in Signatures /\ <<>> \in Hashes /\ <<>> \in Signatures
    BY <1>1, EmptyTypes DEF Sign
  <2>2. q \in Packets /\ q.n = n /\ q.kind = "data" /\ q.to = to /\ q.sig = <<>>
    BY <1>1, <1>4, <2>1 DEF Packet, Packets, Kinds
  <2>3. p \in Packets /\ p.n = q.n /\ p.kind = q.kind /\ p.to = q.to /\ p.sig = Sign(<<>>, k)
    BY <1>5, <2>1, <2>2 DEF Packets
  <2> QED BY <2>2, <2>3 DEF Sign
<1>9. PICK g \in Frames :
        /\ stack' = [stack EXCEPT ![a] = Append(below, g)]
        /\ g.at = k /\ g.from = k /\ g.p = p /\ g.hash = hash /\ Settles(g)
  <2>1. Pushes(a, below, k, k, p, hash)
    BY <1>1, <1>7, <1>8, PushSettles
  <2> QED BY <2>1 DEF Pushes
<1>10. Recorded(g)
  <2>1. PICK prev \in Hashes : prev = LastDataHash(k)
    BY <1>1, LastHashType
  <2>2. chain' = [chain EXCEPT ![g.at] = Append(@, Row(q, hash, prev, Append(q.sig, g.at)))]
    BY <1>7, <1>8, <1>9, <2>1 DEF Sign
  <2>3. q.n = g.p.n /\ q.kind = g.p.kind /\ g.p.sig = Append(q.sig, g.at) /\ hash = g.hash
    BY <1>8, <1>9
  <2> QED BY <1>8, <2>2, <2>3, RowRecorded
<1>11. Destination(g.p) \in Destinations
  BY <1>8, <1>9 DEF Destination, Destinations
<1>12. /\ stack[a] = <<>> /\ a[1] = "data" /\ a[2] = k
       /\ overlapped' = (overlapped \/ \E b \in Actors : stack[b] # <<>>)
  BY <1>6, <1>7 DEF Begin
<1>13. pushed' = Append(pushed, PushedRecord(g))
  BY <1>7, <1>8, <1>9 DEF PushedRecord
<1>14. /\ stack' = [stack EXCEPT ![a] = Append(<<>>, g)]
       /\ g.p.kind = "data" /\ g.p.sig = Append(<<>>, g.at) /\ g.p.n = Len(pushed) + 1
       /\ g.hash = Append(LastDataHash(g.at), g.p.n)
  BY <1>2, <1>3, <1>6, <1>8, <1>9
<1>15. Opens(a, g)
  BY <1>7, <1>9, <1>10, <1>11, <1>12, <1>13, <1>14 DEF Opens
<1> QED BY <1>1, <1>6, <1>15

\* The end of a stream begins a call
LEMMA StreamEOFOpens ==
  ASSUME TypeOK, NEW k \in Senders, StreamEOF(k)
  PROVE  \E a \in Actors, g \in Frames : Opens(a, g)
<1>1. k \in Kernels /\ <<"data", k>> \in Actors
  BY ForwardConstants DEF Members, Actors
<1>2. PICK n \in Numbers : n = Len(pushed) + 1
  BY DEF StreamEOF, TypeOK, Numbers
<1>3. PICK p : p = Packet(n, "end", k, NoKernel, <<>>, <<>>)
  OBVIOUS
<1>4. PICK a, below, hash : a = <<"data", k>> /\ below = <<>> /\ hash = <<>>
  OBVIOUS
<1>5. /\ PushData(a, below, k, k, p, hash) /\ Begin(a)
      /\ pushed' = Append(pushed, [kind |-> "end", from |-> k, hash |-> hash])
      /\ UNCHANGED <<status, listening, chain, faults>>
  BY <1>2, <1>3, <1>4 DEF StreamEOF
<1>6. p \in Packets /\ p.kind = "end" /\ p.to = NoKernel /\ p.n = n /\ hash \in Hashes
  <2>1. <<>> \in Hashes /\ <<>> \in Signatures
    BY <1>1, EmptyTypes
  <2> QED BY <1>1, <1>3, <1>4, <2>1 DEF Packet, Packets, Kinds
<1>7. PICK g \in Frames :
        /\ stack' = [stack EXCEPT ![a] = Append(below, g)]
        /\ g.at = k /\ g.from = k /\ g.p = p /\ g.hash = hash /\ Settles(g)
  <2>1. Pushes(a, below, k, k, p, hash)
    BY <1>1, <1>5, <1>6, PushSettles
  <2> QED BY <2>1 DEF Pushes
<1>8. Destination(g.p) \in Destinations
  BY <1>6, <1>7 DEF Destination, Destinations
<1>9. /\ stack[a] = <<>> /\ a[1] = "data" /\ a[2] = k
      /\ overlapped' = (overlapped \/ \E b \in Actors : stack[b] # <<>>)
  BY <1>4, <1>5 DEF Begin
<1>10. pushed' = Append(pushed, PushedRecord(g))
  BY <1>5, <1>6, <1>7 DEF PushedRecord
<1>11. stack' = [stack EXCEPT ![a] = Append(<<>>, g)] /\ g.p.kind = "end" /\ g.p.n = Len(pushed) + 1
  BY <1>2, <1>4, <1>6, <1>7
<1>12. Opens(a, g)
  BY <1>5, <1>7, <1>8, <1>9, <1>10, <1>11 DEF Opens
<1> QED BY <1>1, <1>4, <1>12

\* An acknowledgement begins a call
LEMMA SendAckOpens ==
  ASSUME TypeOK, NEW k \in ReceiverKernels, NEW n \in Numbers, SendAck(k, n)
  PROVE  \E a \in Actors, g \in Frames : Opens(a, g)
<1>1. k \in Kernels /\ <<"ack", k>> \in Actors /\ SenderKernels[1] \in Kernels
  BY ForwardConstants DEF Members, Actors
<1>2. PICK q : q = Packet(n, "ack", k, SenderKernels[1], <<>>, <<>>)
  OBVIOUS
<1>3. PICK p : p = [q EXCEPT !.sig = Sign(<<>>, k)]
  OBVIOUS
<1>4. PICK a, below, hash : a = <<"ack", k>> /\ below = <<>> /\ hash = <<>>
  OBVIOUS
<1>5. /\ PushData(a, below, k, k, p, hash) /\ Begin(a) /\ chain' = RecordAck(k, q)
      /\ UNCHANGED <<status, listening, pushed, faults>>
  BY <1>2, <1>3, <1>4 DEF SendAck
<1>6. /\ q \in Packets /\ q.n = n /\ q.kind = "ack" /\ q.sig = <<>> /\ hash \in Hashes
      /\ p \in Packets /\ p.n = n /\ p.kind = "ack" /\ p.to = SenderKernels[1]
      /\ p.sig = Append(<<>>, k)
  <2>1. Sign(<<>>, k) \in Signatures /\ <<>> \in Hashes /\ <<>> \in Signatures
    BY <1>1, EmptyTypes DEF Sign
  <2>2. q \in Packets /\ q.n = n /\ q.kind = "ack" /\ q.to = SenderKernels[1] /\ q.sig = <<>>
    BY <1>1, <1>2, <2>1 DEF Packet, Packets, Kinds
  <2>3. p \in Packets /\ p.n = q.n /\ p.kind = q.kind /\ p.to = q.to /\ p.sig = Sign(<<>>, k)
    BY <1>3, <2>1, <2>2 DEF Packets
  <2> QED BY <1>4, <2>1, <2>2, <2>3 DEF Sign
<1>7. PICK g \in Frames :
        /\ stack' = [stack EXCEPT ![a] = Append(below, g)]
        /\ g.at = k /\ g.from = k /\ g.p = p /\ g.hash = hash /\ Settles(g)
  <2>1. Pushes(a, below, k, k, p, hash)
    BY <1>1, <1>5, <1>6, PushSettles
  <2> QED BY <2>1 DEF Pushes
<1>8. Destination(g.p) \in Destinations
  BY <1>6, <1>7 DEF Destination, Destinations
<1>9. /\ stack[a] = <<>> /\ a[1] = "ack" /\ a[2] = k
      /\ overlapped' = (overlapped \/ \E b \in Actors : stack[b] # <<>>)
  BY <1>4, <1>5 DEF Begin
<1>10. chain' = chain \/ Recorded(g)
  <2>1. /\ q.n = g.p.n /\ q.kind = g.p.kind /\ g.p.sig = Append(q.sig, g.at)
        /\ chain' = RecordAck(g.at, q) /\ g.p.kind = "ack"
    BY <1>5, <1>6, <1>7
  <2> QED BY <1>6, <2>1, AckRecorded
<1>11. /\ stack' = [stack EXCEPT ![a] = Append(<<>>, g)]
       /\ g.p.kind = "ack" /\ g.p.sig = Append(<<>>, g.at)
  BY <1>4, <1>6, <1>7
<1>12. Opens(a, g)
  BY <1>5, <1>7, <1>8, <1>9, <1>10, <1>11 DEF Opens
<1> QED BY <1>1, <1>4, <1>12

\* The steps of a handler
LEMMA ForwardDataTakes ==
  ASSUME TypeOK, NEW a \in Actors, ForwardData(a)
  PROVE  \E g \in Frames : Takes(a, g)
<1>1. /\ stack[a] # <<>> /\ Top(a).pc = "handle" /\ status[Top(a).at] # "none"
      /\ UNCHANGED <<status, listening, chain, pushed, faults, overlapped>>
  BY DEF ForwardData, At
<1>2. PICK f \in Frames : f = Top(a)
  BY <1>1, TopFrame
<1>3. f.at \in Kernels /\ f.from \in Kernels /\ f.p \in Packets
  BY DEF Frames
<1>4. PICK p : p = [f.p EXCEPT !.sig = Sign(f.p.sig, f.at)]
  OBVIOUS
<1>5. /\ p \in Packets /\ p.n = f.p.n /\ p.kind = f.p.kind /\ p.to = f.p.to
      /\ p.sig = Append(f.p.sig, f.at)
  <2>1. Sign(f.p.sig, f.at) \in Signatures
    BY <1>3, SignType DEF Packets
  <2> QED BY <1>3, <1>4, <2>1 DEF Packets, Sign
<1>6. PICK hash \in Hashes : hash = Append(LastDataHash(f.at), f.p.n)
  BY <1>3, NextHashType DEF Packets
<1>7. PICK below, k, from : below = Front(stack[a]) /\ k = f.at /\ from = f.from
  OBVIOUS
<1>8. PICK g \in Frames :
        /\ stack' = [stack EXCEPT ![a] = Append(below, g)]
        /\ g.at = k /\ g.from = from /\ g.p = p /\ g.hash = hash /\ Settles(g)
  <2>1. PushData(a, below, k, from, p, hash)
    BY <1>2, <1>4, <1>6, <1>7 DEF ForwardData
  <2>2. k \in Kernels /\ from \in Kernels /\ p \in Packets
    BY <1>3, <1>5, <1>7
  <2>3. Pushes(a, below, k, from, p, hash)
    BY <2>1, <2>2, PushSettles
  <2> QED BY <2>3 DEF Pushes
<1>9. Destination(g.p) = Destination(f.p)
  BY <1>5, <1>8 DEF Destination
<1>10. Takes(a, g)
  BY <1>1, <1>2, <1>5, <1>6, <1>7, <1>8, <1>9 DEF Takes
<1> QED BY <1>10

\* ForwardToKernel hands the packet on, or loses it
LEMMA ForwardHands ==
  ASSUME TypeOK, NEW a \in Actors, NEW rk \in Kernels, ForwardToKernel(a, rk)
  PROVE  \E g \in Frames, c \in Frames : Hands(a, rk, g, c)
<1>1. /\ stack[a] # <<>> /\ Top(a).pc = "forward" /\ rk \in Top(a).todo
      /\ UNCHANGED <<status, listening, chain, got, pushed, overlapped>>
  BY DEF ForwardToKernel, At
<1>2. PICK f \in Frames : f = Top(a)
  BY <1>1, TopFrame
<1>3. PICK to \in Towards(f.at, rk), lost \in BOOLEAN :
        /\ Fault(lost)
        /\ stack' = [stack EXCEPT ![a] =
             IF lost THEN Append(Front(stack[a]), [f EXCEPT !.todo = f.todo \ {rk}])
             ELSE Append(Append(Front(stack[a]), [f EXCEPT !.todo = f.todo \ {rk}]),
                         Called(to, f.at, f.p))]
  BY <1>2 DEF ForwardToKernel, TypeOK
<1>4. f.at \in Kernels /\ to \in Kernels /\ f.p \in Packets /\ <<>> \in Hashes
  BY <1>2, <1>3, TowardsKernels DEF Frames, Hashes
<1>5. PICK g : g = [f EXCEPT !.todo = f.todo \ {rk}]
  OBVIOUS
<1>6. /\ g \in Frames /\ g.at = f.at /\ g.from = f.from /\ g.p = f.p /\ g.hash = f.hash
      /\ g.pc = f.pc /\ g.todo = f.todo \ {rk}
  BY <1>5 DEF Frames
<1>7. PICK c : c = Called(to, f.at, f.p)
  OBVIOUS
<1>8. /\ c \in Frames /\ c.at = to /\ c.from = f.at /\ c.p = f.p
      /\ c.pc = "handle" /\ c.todo = {}
  BY <1>4, <1>7 DEF Called, Frames
<1>9. \/ stack' = [stack EXCEPT ![a] = Append(Front(stack[a]), g)] /\ faults' = faults + 1
      \/ stack' = [stack EXCEPT ![a] = Append(Append(Front(stack[a]), g), c)] /\ faults' = faults
  BY <1>3, <1>5, <1>7 DEF Fault
<1>10. Hands(a, rk, g, c)
  BY <1>1, <1>2, <1>3, <1>6, <1>8, <1>9 DEF Hands
<1> QED BY <1>6, <1>8, <1>10

\* A handler that refuses or records is left
LEMMA ReturnLeaves ==
  ASSUME TypeOK, SignedInv, NEW a \in Actors, ForwardRefused(a) \/ RecordRow(a)
  PROVE  Leaves(a)
<1>1. CASE ForwardRefused(a)
  BY <1>1 DEF ForwardRefused, At, Return, Leaves
<1>2. CASE RecordRow(a)
  <2>1. /\ stack[a] # <<>> /\ Top(a).pc = "forward" /\ Top(a).todo = {}
        /\ stack' = [stack EXCEPT ![a] = Front(stack[a])]
        /\ UNCHANGED <<status, listening, got, pushed, faults, overlapped>>
    BY <1>2 DEF RecordRow, At, Return
  <2>2. PICK f \in Frames : f = Top(a) /\ f = stack[a][Len(stack[a])] /\ Len(stack[a]) \in Nat \ {0}
    BY <2>1, TopFrame
  <2>3. f.at \in Kernels /\ f.p \in Packets /\ f.hash \in Hashes
    BY DEF Frames
  <2>4. CASE f.p.kind = "end" \/ f.at = f.from
    <3>1. chain' = chain
      BY <1>2, <2>2, <2>4 DEF RecordRow
    <3> QED BY <2>1, <2>2, <2>4, <3>1 DEF Leaves
  <2>5. CASE f.p.kind # "end" /\ f.at # f.from
    <3>1. PICK s \in Signatures : f.p.sig = Append(s, f.at)
      BY <2>1, <2>2, <2>5 DEF SignedInv
    <3>2. Front(f.p.sig) = s
      BY <2>3, <3>1, FrontOfAppend
    <3>3. PICK q \in Packets : /\ q = [f.p EXCEPT !.sig = s]
                               /\ q.n = f.p.n /\ q.kind = f.p.kind /\ q.sig = s
      BY <2>3, SignedType
    <3>4. [f.p EXCEPT !.sig = Front(f.p.sig)] = q /\ f.p.sig = Append(q.sig, f.at)
      BY <3>1, <3>2, <3>3
    <3>5. CASE f.p.kind = "ack"
      <4>1. chain' = RecordAck(f.at, q)
        BY <1>2, <2>2, <2>5, <3>4, <3>5 DEF RecordRow
      <4>2. chain' = chain \/ Recorded(f)
        BY <3>3, <3>4, <3>5, <4>1, AckRecorded
      <4> QED BY <2>1, <2>2, <2>5, <3>5, <4>2 DEF Leaves
    <3>6. CASE f.p.kind # "ack"
      <4>1. PICK prev \in Hashes : prev = LastDataHash(f.at)
        BY <2>3, LastHashType
      <4>2. chain' = [chain EXCEPT ![f.at] = Append(@, Row(q, f.hash, prev, Append(q.sig, f.at)))]
        BY <1>2, <2>2, <2>5, <3>4, <3>6, <4>1 DEF RecordRow
      <4>3. Recorded(f)
        <5>1. PICK hash \in Hashes : hash = f.hash
          BY <2>3
        <5>2. chain' = [chain EXCEPT ![f.at] = Append(@, Row(q, hash, prev, Append(q.sig, f.at)))]
          BY <4>2, <5>1
        <5> QED BY <3>3, <3>4, <5>1, <5>2, RowRecorded
      <4> QED BY <2>1, <2>2, <2>5, <3>6, <4>3 DEF Leaves
    <3> QED BY <3>5, <3>6
  <2> QED BY <2>4, <2>5
<1> QED BY <1>1, <1>2

\* Every step is of one of five kinds
LEMMA StepMoves ==
  ASSUME TypeOK, SignedInv, [Next]_vars
  PROVE  \/ \E a \in Actors, g \in Frames : Opens(a, g)
         \/ \E a \in Actors, g \in Frames : Takes(a, g)
         \/ \E a \in Actors, rk \in Kernels, g \in Frames, c \in Frames : Hands(a, rk, g, c)
         \/ \E a \in Actors : Leaves(a)
         \/ Quiet
<1>1. ASSUME NEW k \in Senders, StreamEOF(k) \/ \E to \in Targets : StreamData(k, to)
      PROVE  \E a \in Actors, g \in Frames : Opens(a, g)
  BY <1>1, StreamEOFOpens, StreamDataOpens
<1>2. ASSUME NEW k \in ReceiverKernels, NEW n \in 1 .. MaxPackets, SendAck(k, n)
      PROVE  \E a \in Actors, g \in Frames : Opens(a, g)
  BY <1>2, SendAckOpens DEF Numbers
<1>3. ASSUME NEW a \in Actors, ForwardRefused(a) \/ RecordRow(a)
      PROVE  Leaves(a)
  BY <1>3, ReturnLeaves
<1>4. ASSUME NEW a \in Actors, ForwardData(a)
      PROVE  \E g \in Frames : Takes(a, g)
  BY <1>4, ForwardDataTakes
<1>5. ASSUME NEW a \in Actors, NEW rk \in Kernels, ForwardToKernel(a, rk)
      PROVE  \E g \in Frames, c \in Frames : Hands(a, rk, g, c)
  BY <1>5, ForwardHands
<1>6. ASSUME NEW k \in Kernels, CloseChannel(k) \/ Restart(k)
      PROVE  Quiet
  BY <1>6 DEF CloseChannel, Restart, Fault, Quiet
<1>7. CASE UNCHANGED vars
  BY <1>7 DEF vars, Quiet
<1> QED BY <1>1, <1>2, <1>3, <1>4, <1>5, <1>6, <1>7 DEF Next, Step

\* The stack with which a call begins
LEMMA OpensStack ==
  ASSUME TypeOK, NEW a \in Actors, NEW g \in Frames, Opens(a, g)
  PROVE  /\ \A b \in Actors : b # a => stack'[b] = stack[b]
         /\ Len(stack'[a]) = 1 /\ stack'[a][1] = g
<1>1. Append(<<>>, g) \in Seq(Frames) /\ stack' = [stack EXCEPT ![a] = Append(<<>>, g)]
  BY DEF Opens
<1>2. stack'[a] = Append(<<>>, g) /\ \A b \in Actors : b # a => stack'[b] = stack[b]
  BY <1>1, StackType
<1>3. Len(Append(<<>>, g)) = 1 /\ Append(<<>>, g)[1] = g
  OBVIOUS
<1> QED BY <1>2, <1>3

\* The stack that a left handler leaves
LEMMA LeavesStack ==
  ASSUME TypeOK, NEW a \in Actors, Leaves(a)
  PROVE  /\ \A b \in Actors : b # a => stack'[b] = stack[b]
         /\ Len(stack[a]) \in Nat \ {0} /\ Len(stack'[a]) = Len(stack[a]) - 1
         /\ \A i \in 1 .. Len(stack[a]) - 1 : stack'[a][i] = stack[a][i]
<1>1. stack[a] # <<>> /\ stack' = [stack EXCEPT ![a] = Front(stack[a])]
  BY DEF Leaves
<1>2. /\ Len(stack[a]) \in Nat \ {0}
      /\ Front(stack[a]) \in Seq(Frames) /\ Len(Front(stack[a])) = Len(stack[a]) - 1
      /\ \A i \in 1 .. Len(stack[a]) - 1 : Front(stack[a])[i] = stack[a][i]
  BY <1>1, TopFrame
<1>3. stack'[a] = Front(stack[a]) /\ \A b \in Actors : b # a => stack'[b] = stack[b]
  BY <1>1, <1>2, StackType
<1> QED BY <1>2, <1>3

\* Only the stack of a is changed: g is in place of its top, with c above it or nothing
Stacked(a, g, c) ==
  /\ \A b \in Actors : b # a => stack'[b] = stack[b]
  /\ Len(stack[a]) \in Nat \ {0}
  /\ Len(stack'[a]) \in {Len(stack[a]), Len(stack[a]) + 1}
  /\ \A i \in 1 .. Len(stack[a]) - 1 : stack'[a][i] = stack[a][i]
  /\ stack'[a][Len(stack[a])] = g
  /\ Len(stack'[a]) = Len(stack[a]) + 1 => stack'[a][Len(stack[a]) + 1] = c

\* The stack of a packet that is handed on
LEMMA HandsStack ==
  ASSUME TypeOK, NEW a \in Actors, NEW rk \in Kernels, NEW g \in Frames, NEW c \in Frames,
         Hands(a, rk, g, c)
  PROVE  Stacked(a, g, c)
<1>1. stack[a] # <<>>
  BY DEF Hands
<1>2. CASE stack' = [stack EXCEPT ![a] = Append(Front(stack[a]), g)]
  <2>1. /\ \A d \in Actors : d # a => stack'[d] = stack[d]
        /\ Len(stack[a]) \in Nat \ {0} /\ Len(stack'[a]) = Len(stack[a])
        /\ \A j \in 1 .. Len(stack[a]) - 1 : stack'[a][j] = stack[a][j]
        /\ stack'[a][Len(stack[a])] = g
    BY <1>1, <1>2, TopReplaced
  <2> QED BY <2>1 DEF Stacked
<1>3. CASE stack' = [stack EXCEPT ![a] = Append(Append(Front(stack[a]), g), c)]
  <2>1. /\ Len(stack[a]) \in Nat \ {0}
        /\ Front(stack[a]) \in Seq(Frames) /\ Len(Front(stack[a])) = Len(stack[a]) - 1
        /\ \A j \in 1 .. Len(stack[a]) - 1 : Front(stack[a])[j] = stack[a][j]
    BY <1>1, TopFrame
  <2> DEFINE s == Append(Front(stack[a]), g)
  <2> DEFINE t == Append(s, c)
  <2>2. /\ s \in Seq(Frames) /\ Len(s) = Len(Front(stack[a])) + 1
        /\ \A j \in 1 .. Len(Front(stack[a])) : s[j] = Front(stack[a])[j]
        /\ s[Len(Front(stack[a])) + 1] = g
    BY <2>1, AppendProperties
  <2>3. Len(s) = Len(stack[a]) /\ s[Len(stack[a])] = g
    BY <2>1, <2>2
  <2>4. stack' = [stack EXCEPT ![a] = t]
    BY <1>3
  <2> HIDE DEF s
  <2>5. /\ t \in Seq(Frames) /\ Len(t) = Len(s) + 1
        /\ \A j \in 1 .. Len(s) : t[j] = s[j]
        /\ t[Len(s) + 1] = c
    BY <2>2, AppendProperties
  <2> HIDE DEF t
  <2>6. stack'[a] = t /\ \A d \in Actors : d # a => stack'[d] = stack[d]
    BY <2>4, <2>5, StackType
  <2>7. \A j \in 1 .. Len(stack[a]) - 1 : j \in 1 .. Len(s) /\ j \in 1 .. Len(Front(stack[a]))
    BY <2>1, <2>3
  <2>8. Len(stack[a]) \in 1 .. Len(s)
    BY <2>1, <2>3
  <2> QED BY <2>1, <2>2, <2>3, <2>5, <2>6, <2>7, <2>8 DEF Stacked
<1> QED BY <1>2, <1>3 DEF Hands

\* The handler that PushData leaves calls on behalf of the destination
LEMMA SettlesAddressed ==
  ASSUME NEW g \in Frames, Settles(g), Destination(g.p) \in Destinations
  PROVE  Addressed(g)
<1>1. Legs(g.at, g.p) = Legs(g.at, Destination(g.p))
  BY DEF Legs, Destination
<1> QED BY <1>1 DEF Settles, Addressed

\* Fewer handlers, of the same packets at the same kernels
LEMMA DescendsKept ==
  ASSUME NEW dist, NEW s, NEW t, StackDescends(dist, s),
         \A i \in 1 .. Len(t) : /\ i \in 1 .. Len(s) /\ t[i].at = s[i].at
                               /\ Destination(t[i].p) = Destination(s[i].p)
  PROVE  StackDescends(dist, t)
  BY DEF StackDescends

\* Packets come nearer their destination with every call
LEMMA StepDescends ==
  ASSUME NEW dist \in [Destinations -> [Kernels -> Nat]], Nearer(dist),
         TypeOK, SignedInv, DescentInv(dist), [Next]_vars
  PROVE  DescentInv(dist)'
<1> SUFFICES ASSUME NEW b \in Actors
             PROVE  /\ \A i \in 1 .. Len(stack'[b]) : Addressed(stack'[b][i])
                    /\ StackDescends(dist, stack'[b])
  BY DEF DescentInv
<1>1. \A a \in Actors : stack[a] \in Seq(Frames)
  BY DEF TypeOK
<1>2. \A a \in Actors : /\ \A i \in 1 .. Len(stack[a]) : Addressed(stack[a][i])
                        /\ StackDescends(dist, stack[a])
  BY DEF DescentInv
<1>3. CASE stack'[b] = stack[b]
  BY <1>2, <1>3
<1>4. CASE \E a \in Actors, g \in Frames : Opens(a, g)
  <2>1. PICK a \in Actors, g \in Frames : Opens(a, g)
    BY <1>4
  <2>2. /\ \A d \in Actors : d # a => stack'[d] = stack[d]
        /\ Len(stack'[a]) = 1 /\ stack'[a][1] = g
    BY <2>1, OpensStack
  <2>3. Addressed(g)
    BY <2>1, SettlesAddressed DEF Opens
  <2>4. CASE b = a
    <3>1. \A i \in 1 .. Len(stack'[a]) : i = 1
      BY <2>2
    <3>2. StackDescends(dist, stack'[a])
      BY <2>2 DEF StackDescends
    <3> QED BY <2>2, <2>3, <2>4, <3>1, <3>2
  <2> QED BY <1>3, <2>2, <2>4
<1>5. CASE \E a \in Actors, g \in Frames : Takes(a, g)
  <2>1. PICK a \in Actors, g \in Frames : Takes(a, g)
    BY <1>5
  <2>2. /\ stack[a] # <<>> /\ stack' = [stack EXCEPT ![a] = Append(Front(stack[a]), g)]
        /\ Settles(g) /\ g.at = Top(a).at /\ Destination(g.p) = Destination(Top(a).p)
    BY <2>1 DEF Takes
  <2>3. /\ \A d \in Actors : d # a => stack'[d] = stack[d]
        /\ Len(stack[a]) \in Nat \ {0} /\ Len(stack'[a]) = Len(stack[a])
        /\ \A i \in 1 .. Len(stack[a]) - 1 : stack'[a][i] = stack[a][i]
        /\ stack'[a][Len(stack[a])] = g
    BY <2>2, TopReplaced
  <2>4. Top(a) = stack[a][Len(stack[a])] /\ Addressed(Top(a))
    BY <1>2, <2>2, <2>3, TopFrame
  <2>5. Addressed(g)
    BY <2>2, <2>4, SettlesAddressed DEF Addressed
  <2>6. CASE b = a
    <3>1. \A i \in 1 .. Len(stack'[a]) :
            \/ i \in 1 .. Len(stack[a]) - 1 /\ stack'[a][i] = stack[a][i]
            \/ i = Len(stack[a]) /\ stack'[a][i] = g
      BY <2>3
    <3>2. \A i \in 1 .. Len(stack'[a]) :
            /\ Destination(stack'[a][i].p) = Destination(stack[a][i].p)
            /\ stack'[a][i].at = stack[a][i].at /\ i \in 1 .. Len(stack[a])
      BY <2>2, <2>3, <2>4, <3>1
    <3>3. StackDescends(dist, stack'[a])
      BY <1>2, <3>2, DescendsKept
    <3>4. \A i \in 1 .. Len(stack'[a]) : Addressed(stack'[a][i])
      BY <1>2, <2>3, <2>5, <3>1
    <3> QED BY <2>6, <3>3, <3>4
  <2> QED BY <1>3, <2>3, <2>6
<1>6. CASE \E a \in Actors, rk \in Kernels, g \in Frames, c \in Frames : Hands(a, rk, g, c)
  <2>1. PICK a \in Actors, rk \in Kernels, g \in Frames, c \in Frames : Hands(a, rk, g, c)
    BY <1>6
  <2>2. /\ stack[a] # <<>> /\ rk \in Top(a).todo
        /\ g.at = Top(a).at /\ g.p = Top(a).p /\ g.todo = Top(a).todo \ {rk}
        /\ c.at \in Towards(Top(a).at, rk) /\ c.p = Top(a).p /\ c.todo = {}
    BY <2>1 DEF Hands
  <2> DEFINE n == Len(stack[a])
  <2>3. /\ \A d \in Actors : d # a => stack'[d] = stack[d]
        /\ n \in Nat \ {0} /\ Len(stack'[a]) \in {n, n + 1}
        /\ \A i \in 1 .. n - 1 : stack'[a][i] = stack[a][i]
        /\ stack'[a][n] = g
        /\ Len(stack'[a]) = n + 1 => stack'[a][n + 1] = c
    <3>1. Stacked(a, g, c)
      BY <2>1, HandsStack
    <3> QED BY <3>1 DEF Stacked
  <2>4. Top(a) = stack[a][n] /\ Addressed(Top(a)) /\ Top(a) \in Frames
    BY <1>2, <2>2, <2>3, TopFrame
  <2>5. Addressed(g) /\ Addressed(c)
    BY <2>2, <2>4 DEF Addressed
  <2> DEFINE D == Destination(Top(a).p)
  <2>6. D \in Destinations /\ Top(a).at \in Kernels /\ c.at \in Kernels
    BY <2>4 DEF Addressed, Frames
  <2>7. dist[D][c.at] < dist[D][Top(a).at]
    <3>1. rk \in (UNION Legs(Top(a).at, D)) \ {Top(a).at}
      BY <2>2, <2>4 DEF Addressed
    <3>2. c.at \in Onwards(Top(a).at, D)
      BY <2>2, <3>1 DEF Onwards
    <3> QED BY <2>6, <3>2 DEF Nearer
  <2>8. CASE b = a
    <3>1. \A i \in 1 .. Len(stack'[a]) :
            \/ i \in 1 .. n - 1 /\ stack'[a][i] = stack[a][i]
            \/ i = n /\ stack'[a][i] = g
            \/ i = n + 1 /\ stack'[a][i] = c
      BY <2>3
    <3>2. \A i \in 1 .. Len(stack'[a]) : Addressed(stack'[a][i])
      BY <1>2, <2>3, <2>5, <3>1
    <3>3. \A i \in 1 .. n :
            /\ stack'[a][i].p = stack[a][i].p /\ stack'[a][i].at = stack[a][i].at
            /\ stack[a][i] \in Frames
      BY <1>1, <2>2, <2>3, <2>4
    <3>4. ASSUME NEW i \in 1 .. Len(stack'[a]), NEW j \in 1 .. Len(stack'[a]), i < j
          PROVE  /\ Destination(stack'[a][i].p) = Destination(stack'[a][j].p)
                 /\ dist[Destination(stack'[a][j].p)][stack'[a][j].at]
                      < dist[Destination(stack'[a][j].p)][stack'[a][i].at]
      <4>1. CASE j <= n
        <5>1. i \in 1 .. n /\ j \in 1 .. n
          BY <2>3, <3>4, <4>1
        <5> QED BY <1>2, <3>3, <3>4, <5>1 DEF StackDescends
      <4>2. CASE j = n + 1
        <5>1. stack'[a][j] = c /\ i \in 1 .. n
          BY <2>3, <3>4, <4>2
        <5>2. CASE i = n
          BY <2>2, <2>3, <2>7, <5>1, <5>2
        <5>3. CASE i < n
          <6>1. n \in 1 .. n
            BY <2>3
          <6>2. /\ Destination(stack[a][i].p) = D
                /\ dist[D][Top(a).at] < dist[D][stack[a][i].at]
            BY <1>2, <2>4, <5>1, <5>3, <6>1 DEF StackDescends
          <6>3. stack[a][i].at \in Kernels
            BY <3>3, <5>1 DEF Frames
          <6>4. dist[D][c.at] \in Nat /\ dist[D][Top(a).at] \in Nat /\ dist[D][stack[a][i].at] \in Nat
            BY <2>6, <6>3
          <6>5. dist[D][c.at] < dist[D][stack[a][i].at]
            BY <2>7, <6>2, <6>4
          <6>6. Destination(stack'[a][i].p) = D /\ stack'[a][i].at = stack[a][i].at
            BY <3>3, <5>1, <6>2
          <6>7. Destination(stack'[a][j].p) = D
            BY <2>2, <5>1
          <6> QED BY <5>1, <6>5, <6>6, <6>7
        <5>4. i = n \/ i < n
          BY <2>3, <5>1
        <5> QED BY <5>2, <5>3, <5>4
      <4>3. j <= n \/ j = n + 1
        BY <2>3
      <4> QED BY <4>1, <4>2, <4>3
    <3>5. StackDescends(dist, stack'[a])
      BY <3>4 DEF StackDescends
    <3> QED BY <2>8, <3>2, <3>5
  <2> QED BY <1>3, <2>3, <2>8
<1>7. CASE \E a \in Actors : Leaves(a)
  <2>1. PICK a \in Actors : Leaves(a)
    BY <1>7
  <2>2. /\ \A d \in Actors : d # a => stack'[d] = stack[d]
        /\ Len(stack[a]) \in Nat \ {0} /\ Len(stack'[a]) = Len(stack[a]) - 1
        /\ \A i \in 1 .. Len(stack[a]) - 1 : stack'[a][i] = stack[a][i]
    BY <2>1, LeavesStack
  <2>3. CASE b = a
    <3>1. \A i \in 1 .. Len(stack'[a]) : i \in 1 .. Len(stack[a]) /\ stack'[a][i] = stack[a][i]
      BY <2>2
    <3>2. StackDescends(dist, stack'[a])
      BY <1>2, <3>1, DescendsKept
    <3> QED BY <1>2, <2>3, <3>1, <3>2
  <2> QED BY <1>3, <2>2, <2>3
<1>8. CASE Quiet
  BY <1>3, <1>8 DEF Quiet
<1> QED BY <1>4, <1>5, <1>6, <1>7, <1>8, StepMoves

\* THEOREM.  Where the routes bring every packet, at every call, nearer the kernel it is for, no
\* packet comes back to a kernel that is still forwarding it, whatever fails: "skip the current
\* kernel (to avoid circular forwarding)" in PushData is enough on such routes (PushData, GetNextHop)
THEOREM ForwardingEnds ==
  ASSUME NEW dist \in [Destinations -> [Kernels -> Nat]], Nearer(dist)
  PROVE  Spec => []NoCircularForwarding
<1> DEFINE I == TypeOK /\ SignedInv /\ DescentInv(dist)
<1>1. Init => I
  <2> SUFFICES ASSUME Init PROVE I
    OBVIOUS
  <2>1. TypeOK /\ SignedInv
    BY InitForward
  <2>2. \A a \in Actors : Len(stack[a]) = 0
    BY DEF Init
  <2>3. DescentInv(dist)
    BY <2>2 DEF DescentInv, StackDescends
  <2> QED BY <2>1, <2>3
<1>2. I /\ [Next]_vars => I'
  BY StepKinds, StepSigned, StepDescends
<1>3. I => NoCircularForwarding
  <2> SUFFICES ASSUME I, NEW a \in Actors, NEW i \in DOMAIN stack[a], NEW j \in DOMAIN stack[a],
                      i # j, stack[a][i].at = stack[a][j].at
               PROVE  FALSE
    BY DEF NoCircularForwarding
  <2>1. stack[a] \in Seq(Frames) /\ DescentInv(dist)
    BY DEF TypeOK
  <2>2. /\ i \in 1 .. Len(stack[a]) /\ j \in 1 .. Len(stack[a]) /\ Len(stack[a]) \in Nat
        /\ stack[a][i] \in Frames /\ stack[a][j] \in Frames
    BY <2>1
  <2>3. \A m \in 1 .. Len(stack[a]) :
          Destination(stack[a][m].p) \in Destinations /\ stack[a][m].at \in Kernels
    <3>1. \A m \in 1 .. Len(stack[a]) : stack[a][m] \in Frames /\ Addressed(stack[a][m])
      BY <2>1 DEF DescentInv
    <3> QED BY <3>1 DEF Addressed, Frames
  <2>4. \A m \in 1 .. Len(stack[a]) : dist[Destination(stack[a][m].p)][stack[a][m].at] \in Nat
    BY <2>3
  <2>5. StackDescends(dist, stack[a])
    BY <2>1 DEF DescentInv
  <2>6. i < j \/ j < i
    BY <2>2
  <2> QED BY <2>2, <2>4, <2>5, <2>6 DEF StackDescends
<1> HIDE DEF I
<1> QED BY <1>1, <1>2, <1>3, PTL DEF Spec

-----------------------------------------------------------------------------
(* A packet is handed over once *)

\* An actor is known by what it does and where
LEMMA ActorsDiffer ==
  ASSUME NEW a \in Actors, NEW b \in Actors, a[1] = b[1], a[2] = b[2]
  PROVE  a = b
<1>1. \A c \in Actors : c = <<c[1], c[2]>>
  BY DEF Actors
<1>2. a = <<a[1], a[2]>> /\ b = <<b[1], b[2]>>
  BY <1>1
<1> QED BY <1>2

\* One more packet is queued
LEMMA GotAppended ==
  ASSUME TypeOK, NEW k \in ReceiverKernels, NEW n \in Numbers,
         got' = [got EXCEPT ![k] = Append(got[k], n)]
  PROVE  /\ \A j \in ReceiverKernels : j # k => got'[j] = got[j]
         /\ Range(got'[k]) = Range(got[k]) \cup {n}
         /\ IsInjective(got[k]) /\ n \notin Range(got[k]) => IsInjective(got'[k])
<1>1. got \in [ReceiverKernels -> Seq(Numbers)] /\ got[k] \in Seq(Numbers) /\ Len(got[k]) \in Nat
  BY DEF TypeOK
<1>2. PICK s : s = Append(got[k], n)
  OBVIOUS
<1>3. got'[k] = s /\ \A j \in ReceiverKernels : j # k => got'[j] = got[j]
  BY <1>1, <1>2
<1>4. /\ s \in Seq(Numbers) /\ Len(s) = Len(got[k]) + 1
      /\ \A i \in 1 .. Len(got[k]) : s[i] = got[k][i]
      /\ s[Len(got[k]) + 1] = n
  BY <1>1, <1>2, AppendProperties
<1>5. DOMAIN s = 1 .. Len(got[k]) + 1 /\ DOMAIN got[k] = 1 .. Len(got[k])
  BY <1>1, <1>4
<1>6. Range(s) = Range(got[k]) \cup {n}
  <2>1. \A x \in Range(s) : x \in Range(got[k]) \cup {n}
    BY <1>1, <1>4, <1>5 DEF Range
  <2>2. \A x \in Range(got[k]) \cup {n} : x \in Range(s)
    <3>1. Len(got[k]) + 1 \in DOMAIN s /\ \A i \in DOMAIN got[k] : i \in DOMAIN s
      BY <1>1, <1>5
    <3> QED BY <1>4, <1>5, <3>1 DEF Range
  <2> QED BY <2>1, <2>2
<1>7. ASSUME IsInjective(got[k]), n \notin Range(got[k])
      PROVE  IsInjective(s)
  <2>1. \A i \in DOMAIN got[k] : got[k][i] # n
    BY <1>7 DEF Range
  <2>2. \A i, j \in 1 .. Len(got[k]) : got[k][i] = got[k][j] => i = j
    BY <1>5, <1>7 DEF IsInjective
  <2> SUFFICES ASSUME NEW i \in 1 .. Len(got[k]) + 1, NEW j \in 1 .. Len(got[k]) + 1, s[i] = s[j]
               PROVE  i = j
    BY <1>5 DEF IsInjective
  <2>3. i \in 1 .. Len(got[k]) \/ i = Len(got[k]) + 1
    BY <1>1
  <2>4. j \in 1 .. Len(got[k]) \/ j = Len(got[k]) + 1
    BY <1>1
  <2> QED BY <1>4, <1>5, <2>1, <2>2, <2>3, <2>4
<1> QED BY <1>3, <1>6, <1>7

\* What PushData does to the queues, if the packet is in none of them yet
LEMMA QueueStep ==
  ASSUME OneTarget, TypeOK, DeliveredOnce, NEW g \in Frames, Settles(g),
         g.p.kind = "data" => g.p.to \in Targets /\ ~Queued(g.p.n)
  PROVE  /\ DeliveredOnce'
         /\ \A m : Queued(m)' => Queued(m) \/ (g.p.kind = "data" /\ m = g.p.n)
         /\ g.p.kind = "data" => /\ \A i, j \in g.todo : i = j
                                 /\ Queued(g.p.n)' => g.todo = {}
<1>1. g.at \in Kernels /\ g.p \in Packets /\ g.p.n \in Numbers
  BY DEF Frames, Packets
<1>2. CASE got' = got
  <2>1. DeliveredOnce' /\ \A m : Queued(m)' => Queued(m)
    BY <1>2 DEF DeliveredOnce, Queued
  <2>2. ASSUME g.p.kind = "data" PROVE \A i, j \in g.todo : i = j
    BY <2>2 DEF Settles, Legs, OneTarget
  <2> QED BY <2>1, <2>2
<1>3. CASE ForMe(g.at, g.p) /\ got' = [got EXCEPT ![g.at] = Append(got[g.at], g.p.n)]
  <2>1. g.p.kind = "data" /\ g.at \in ReceiverKernels /\ g.p.to \in {NoKernel, g.at}
    BY <1>3 DEF ForMe
  <2>2. g.p.n \notin Range(got[g.at])
    BY <2>1 DEF Queued
  <2>3. /\ \A j \in ReceiverKernels : j # g.at => got'[j] = got[j]
        /\ Range(got'[g.at]) = Range(got[g.at]) \cup {g.p.n}
        /\ IsInjective(got[g.at]) => IsInjective(got'[g.at])
    BY <1>1, <1>3, <2>1, <2>2, GotAppended
  <2>4. DeliveredOnce'
    BY <2>1, <2>3 DEF DeliveredOnce
  <2>5. \A m : Queued(m)' => Queued(m) \/ m = g.p.n
    BY <2>1, <2>3 DEF Queued
  <2>6. g.todo = {}
    BY <2>1 DEF Settles, Legs, OneTarget
  <2> QED BY <2>1, <2>4, <2>5, <2>6
<1> QED BY <1>2, <1>3 DEF Settles

\* The packets so far keep their numbers
LEMMA PushedKept ==
  ASSUME TypeOK, pushed' = pushed \/ \E r \in PushedRecords : pushed' = Append(pushed, r)
  PROVE  /\ 1 .. Len(pushed) \subseteq 1 .. Len(pushed')
         /\ \A n \in 1 .. Len(pushed) : pushed'[n] = pushed[n]
<1>1. pushed \in Seq(PushedRecords) /\ Len(pushed) \in Nat
  BY DEF TypeOK, PushedRecords
<1>2. CASE pushed' = pushed
  BY <1>2
<1>3. CASE \E r \in PushedRecords : pushed' = Append(pushed, r)
  <2>1. PICK r \in PushedRecords : pushed' = Append(pushed, r)
    BY <1>3
  <2>2. /\ Len(pushed') = Len(pushed) + 1
        /\ \A n \in 1 .. Len(pushed) : pushed'[n] = pushed[n]
    BY <1>1, <2>1, AppendProperties
  <2> QED BY <1>1, <2>2
<1> QED BY <1>2, <1>3

\* A data packet is in the hands of one actor, and in no queue while it is on its way
LEMMA StepSingle ==
  ASSUME OneTarget, TypeOK, SignedInv, TypeOK', SingleInv, [Next]_vars
  PROVE  SingleInv'
<1>1. \A a \in Actors : stack[a] \in Seq(Frames) /\ stack'[a] \in Seq(Frames)
  BY DEF TypeOK
<1>2. \A a \in Actors : \A i \in 1 .. Len(stack[a]) :
        stack[a][i] \in Frames /\ SingleFrame(a, stack[a][i], i < Len(stack[a]))
  BY <1>1 DEF SingleInv
<1>3. (\A n : Queued(n) => n \in 1 .. Len(pushed)) /\ DeliveredOnce
  BY DEF SingleInv
<1>4. ASSUME got' = got, pushed' = pushed,
             \A b \in Actors : \A i \in 1 .. Len(stack'[b]) :
               SingleFrame(b, stack[b][i], i < Len(stack[b]))'
      PROVE  SingleInv'
  BY <1>3, <1>4 DEF SingleInv, Queued, DeliveredOnce
<1>5. ASSUME got' = got, pushed' = pushed, NEW b \in Actors, stack'[b] = stack[b],
             NEW i \in 1 .. Len(stack'[b])
      PROVE  SingleFrame(b, stack[b][i], i < Len(stack[b]))'
  BY <1>2, <1>5 DEF SingleFrame, DataFrame, Settled, Queued
<1>6. CASE \E a \in Actors, g \in Frames : Opens(a, g)
  <2>1. PICK a \in Actors, g \in Frames : Opens(a, g)
    BY <1>6
  <2>2. /\ Settles(g) /\ Destination(g.p) \in Destinations
        /\ pushed' = pushed \/ \E r \in PushedRecords : pushed' = Append(pushed, r)
        /\ g.p.kind = "data" =>
             /\ a[1] = "data" /\ g.p.n = Len(pushed) + 1
             /\ \E r \in PushedRecords : pushed' = Append(pushed, r) /\ r.from = a[2]
    <3>1. PushedRecord(g) \in PushedRecords /\ PushedRecord(g).from = g.at
      BY DEF PushedRecord, PushedRecords, Frames, Packets
    <3> QED BY <2>1, <3>1 DEF Opens
  <2>3. /\ \A b \in Actors : b # a => stack'[b] = stack[b]
        /\ Len(stack'[a]) = 1 /\ stack'[a][1] = g
    BY <2>1, OpensStack
  <2>4. g.p.kind = "data" => g.p.to \in Targets
    BY <2>2 DEF Destination, Destinations
  <2>5. Len(pushed) \in Nat /\ pushed \in Seq(PushedRecords)
    BY DEF TypeOK, PushedRecords
  <2>6. g.p.kind = "data" => ~Queued(g.p.n)
    BY <1>3, <2>2, <2>5
  <2>7. /\ DeliveredOnce'
        /\ \A m : Queued(m)' => Queued(m) \/ (g.p.kind = "data" /\ m = g.p.n)
        /\ g.p.kind = "data" => /\ \A i, j \in g.todo : i = j
                                /\ Queued(g.p.n)' => g.todo = {}
    BY <1>3, <2>2, <2>4, <2>6, QueueStep
  <2>8. /\ 1 .. Len(pushed) \subseteq 1 .. Len(pushed')
        /\ \A n \in 1 .. Len(pushed) : pushed'[n] = pushed[n]
    BY <2>2, PushedKept
  <2>9. g.p.kind = "data" => g.p.n \in 1 .. Len(pushed') /\ pushed'[g.p.n].from = a[2]
    <3> SUFFICES ASSUME g.p.kind = "data"
                 PROVE  g.p.n \in 1 .. Len(pushed') /\ pushed'[g.p.n].from = a[2]
      OBVIOUS
    <3>1. PICK r \in PushedRecords : pushed' = Append(pushed, r) /\ r.from = a[2]
      BY <2>2
    <3>2. Len(pushed') = Len(pushed) + 1 /\ pushed'[Len(pushed) + 1] = r
      BY <2>5, <3>1, AppendProperties
    <3> QED BY <2>2, <2>5, <3>1, <3>2
  <2>10. \A n : Queued(n)' => n \in 1 .. Len(pushed')
    BY <1>3, <2>7, <2>8, <2>9
  <2>11. SingleFrame(a, g, FALSE)'
    BY <2>2, <2>4, <2>7, <2>9 DEF SingleFrame, DataFrame, Settled, Settles
  <2>12. ASSUME NEW b \in Actors, NEW i \in 1 .. Len(stack'[b])
         PROVE  SingleFrame(b, stack[b][i], i < Len(stack[b]))'
    <3>1. CASE b = a
      <4>1. i \in 1 .. Len(stack'[a])
        BY <2>12, <3>1
      <4>2. i = 1 /\ ~(i < Len(stack'[a]))
        BY <2>3, <4>1
      <4> QED BY <2>3, <2>11, <3>1, <4>2 DEF SingleFrame
    <3>2. CASE b # a
      <4>1. PICK f : f = stack[b][i]
        OBVIOUS
      <4>2. stack'[b] = stack[b] /\ f \in Frames /\ SingleFrame(b, f, i < Len(stack[b]))
        BY <1>2, <2>3, <2>12, <3>2, <4>1
      <4>3. f.p.kind = "data" => (Queued(f.p.n)' => Queued(f.p.n))
        <5>1. f.p.kind = "data" => f.p.n \in 1 .. Len(pushed)
          BY <4>2 DEF SingleFrame, DataFrame
        <5> QED BY <2>2, <2>5, <2>7, <5>1
      <4>4. SingleFrame(b, f, i < Len(stack[b]))'
        BY <2>8, <4>2, <4>3 DEF SingleFrame, DataFrame, Settled
      <4> QED BY <4>1, <4>2, <4>4
    <3> QED BY <3>1, <3>2
  <2> QED BY <2>7, <2>10, <2>12 DEF SingleInv
<1>7. CASE \E a \in Actors, g \in Frames : Takes(a, g)
  <2>1. PICK a \in Actors, g \in Frames : Takes(a, g)
    BY <1>7
  <2>2. /\ stack[a] # <<>> /\ Top(a).pc = "handle"
        /\ stack' = [stack EXCEPT ![a] = Append(Front(stack[a]), g)]
        /\ Settles(g) /\ g.p.n = Top(a).p.n /\ g.p.kind = Top(a).p.kind /\ g.p.to = Top(a).p.to
        /\ pushed' = pushed
    BY <2>1 DEF Takes, Destination
  <2> DEFINE l == Len(stack[a])
  <2>3. /\ \A b \in Actors : b # a => stack'[b] = stack[b]
        /\ l \in Nat \ {0} /\ Len(stack'[a]) = l
        /\ \A i \in 1 .. l - 1 : stack'[a][i] = stack[a][i]
        /\ stack'[a][l] = g
    BY <2>2, TopReplaced
  <2>4. Top(a) = stack[a][l] /\ SingleFrame(a, Top(a), l < l)
    BY <1>2, <2>2, <2>3, TopFrame
  <2>5. g.p.kind = "data" => DataFrame(a, Top(a)) /\ ~Queued(g.p.n)
    BY <2>2, <2>4 DEF SingleFrame, Settled
  <2>6. /\ DeliveredOnce'
        /\ \A m : Queued(m)' => Queued(m) \/ (g.p.kind = "data" /\ m = g.p.n)
        /\ g.p.kind = "data" => /\ \A i, j \in g.todo : i = j
                                /\ Queued(g.p.n)' => g.todo = {}
    BY <1>3, <2>2, <2>5, QueueStep DEF DataFrame
  <2>7. \A n : Queued(n)' => n \in 1 .. Len(pushed')
    BY <1>3, <2>2, <2>5, <2>6 DEF DataFrame
  <2>8. SingleFrame(a, g, FALSE)'
    BY <2>2, <2>5, <2>6 DEF SingleFrame, DataFrame, Settled, Settles
  <2>9. ASSUME NEW b \in Actors, NEW i \in 1 .. Len(stack'[b])
        PROVE  SingleFrame(b, stack[b][i], i < Len(stack[b]))'
    <3>1. CASE b = a
      <4>1. CASE i = l
        <5>1. stack'[a][i] = g /\ ~(i < Len(stack'[a]))
          BY <2>3, <4>1
        <5> QED BY <2>8, <3>1, <5>1 DEF SingleFrame
      <4>2. CASE i # l
        <5>1. i \in 1 .. l - 1
          BY <2>3, <2>9, <3>1, <4>2
        <5>2. stack'[a][i] = stack[a][i] /\ SingleFrame(a, stack[a][i], i < l) /\ i < l
          BY <1>2, <2>3, <5>1
        <5> QED BY <2>2, <2>3, <3>1, <5>2 DEF SingleFrame, DataFrame, Settled
      <4> QED BY <4>1, <4>2
    <3>2. CASE b # a
      <4>1. PICK f : f = stack[b][i]
        OBVIOUS
      <4>2. stack'[b] = stack[b] /\ f \in Frames /\ SingleFrame(b, f, i < Len(stack[b]))
        BY <1>2, <2>3, <2>9, <3>2, <4>1
      <4>3. f.p.kind = "data" => (Queued(f.p.n)' => Queued(f.p.n))
        <5>1. ASSUME f.p.kind = "data", g.p.kind = "data", f.p.n = g.p.n
              PROVE  FALSE
          <6>1. b[1] = "data" /\ b[2] = pushed[g.p.n].from
            BY <4>2, <5>1 DEF SingleFrame, DataFrame
          <6>2. a[1] = "data" /\ a[2] = pushed[g.p.n].from
            BY <2>2, <2>5, <5>1 DEF DataFrame
          <6> QED BY <3>2, <6>1, <6>2, ActorsDiffer
        <5> QED BY <2>6, <5>1
      <4>4. SingleFrame(b, f, i < Len(stack[b]))'
        BY <2>2, <4>2, <4>3 DEF SingleFrame, DataFrame, Settled
      <4> QED BY <4>1, <4>2, <4>4
    <3> QED BY <3>1, <3>2
  <2> QED BY <2>6, <2>7, <2>9 DEF SingleInv
<1>8. CASE \E a \in Actors, rk \in Kernels, g \in Frames, c \in Frames : Hands(a, rk, g, c)
  <2>1. PICK a \in Actors, rk \in Kernels, g \in Frames, c \in Frames : Hands(a, rk, g, c)
    BY <1>8
  <2>2. /\ stack[a] # <<>> /\ rk \in Top(a).todo
        /\ g.p = Top(a).p /\ g.pc = "forward" /\ g.todo = Top(a).todo \ {rk}
        /\ c.p = Top(a).p /\ c.todo = {}
        /\ got' = got /\ pushed' = pushed
    BY <2>1 DEF Hands
  <2> DEFINE l == Len(stack[a])
  <2>3. /\ \A d \in Actors : d # a => stack'[d] = stack[d]
        /\ l \in Nat \ {0} /\ Len(stack'[a]) \in {l, l + 1}
        /\ \A i \in 1 .. l - 1 : stack'[a][i] = stack[a][i]
        /\ stack'[a][l] = g
        /\ Len(stack'[a]) = l + 1 => stack'[a][l + 1] = c
    <3>1. Stacked(a, g, c)
      BY <2>1, HandsStack
    <3> QED BY <3>1 DEF Stacked
  <2>4. Top(a) = stack[a][l] /\ SingleFrame(a, Top(a), l < l)
    BY <1>2, <2>2, <2>3, TopFrame
  <2>5. Top(a).p.kind = "data" =>
          /\ DataFrame(a, Top(a)) /\ ~Queued(Top(a).p.n) /\ g.todo = {}
    <3> SUFFICES ASSUME Top(a).p.kind = "data"
                 PROVE  DataFrame(a, Top(a)) /\ ~Queued(Top(a).p.n) /\ g.todo = {}
      OBVIOUS
    <3>1. DataFrame(a, Top(a)) /\ (Queued(Top(a).p.n) => Top(a).todo = {})
      BY <2>4 DEF SingleFrame, Settled
    <3>2. \A i, j \in Top(a).todo : i = j
      BY <3>1 DEF DataFrame
    <3> QED BY <2>2, <3>1, <3>2
  <2>6. SingleFrame(a, g, TRUE)' /\ SingleFrame(a, g, FALSE)'
    BY <2>2, <2>5 DEF SingleFrame, DataFrame, Settled
  <2>7. SingleFrame(a, c, FALSE)'
    BY <2>2, <2>5 DEF SingleFrame, DataFrame, Queued
  <2>8. ASSUME NEW i \in 1 .. Len(stack'[a])
        PROVE  SingleFrame(a, stack[a][i], i < Len(stack[a]))'
    <3>1. CASE i = l
      BY <2>3, <2>6, <3>1 DEF SingleFrame
    <3>2. CASE i = l + 1
      <4>1. stack'[a][i] = c /\ ~(i < Len(stack'[a]))
        BY <2>3, <2>8, <3>2
      <4> QED BY <2>7, <4>1 DEF SingleFrame
    <3>3. CASE i \in 1 .. l - 1
      <4>1. stack'[a][i] = stack[a][i] /\ SingleFrame(a, stack[a][i], i < l) /\ i < l
        BY <1>2, <2>3, <3>3
      <4> QED BY <2>2, <2>3, <4>1 DEF SingleFrame, DataFrame, Settled
    <3> QED BY <2>3, <2>8, <3>1, <3>2, <3>3
  <2>9. \A b \in Actors : \A i \in 1 .. Len(stack'[b]) :
          SingleFrame(b, stack[b][i], i < Len(stack[b]))'
    BY <1>5, <2>2, <2>3, <2>8
  <2> QED BY <1>4, <2>2, <2>9
<1>9. CASE \E a \in Actors : Leaves(a)
  <2>1. PICK a \in Actors : Leaves(a)
    BY <1>9
  <2>2. got' = got /\ pushed' = pushed
    BY <2>1 DEF Leaves
  <2>3. /\ \A d \in Actors : d # a => stack'[d] = stack[d]
        /\ Len(stack[a]) \in Nat \ {0} /\ Len(stack'[a]) = Len(stack[a]) - 1
        /\ \A i \in 1 .. Len(stack[a]) - 1 : stack'[a][i] = stack[a][i]
    BY <2>1, LeavesStack
  <2>4. ASSUME NEW i \in 1 .. Len(stack'[a])
        PROVE  SingleFrame(a, stack[a][i], i < Len(stack[a]))'
    <3>1. i \in 1 .. Len(stack[a]) - 1
      BY <2>3, <2>4
    <3>2. /\ stack'[a][i] = stack[a][i] /\ i < Len(stack[a])
          /\ SingleFrame(a, stack[a][i], i < Len(stack[a]))
      BY <1>2, <2>3, <3>1
    <3> QED BY <2>2, <3>2 DEF SingleFrame, DataFrame, Settled
  <2>5. \A b \in Actors : \A i \in 1 .. Len(stack'[b]) :
          SingleFrame(b, stack[b][i], i < Len(stack[b]))'
    BY <1>5, <2>2, <2>3, <2>4
  <2> QED BY <1>4, <2>2, <2>5
<1>10. CASE Quiet
  BY <1>4, <1>5, <1>10 DEF Quiet
<1> QED BY <1>6, <1>7, <1>8, <1>9, <1>10, StepMoves

\* THEOREM.  Where a packet is for one kernel, its receiver is handed it at most once, whatever
\* the routes are and whatever fails: the kernel it is for calls nobody, no call is made again,
\* and every other kernel on the way makes one (PushData, ForwardData, ForwardToKernel)
THEOREM HandedOverOnce ==
  ASSUME OneTarget
  PROVE  Spec => []DeliveredOnce
<1> DEFINE I == TypeOK /\ SignedInv /\ SingleInv
<1>1. Init => I
  <2> SUFFICES ASSUME Init PROVE I
    OBVIOUS
  <2>1. TypeOK /\ SignedInv
    BY InitForward
  <2>2. (\A a \in Actors : Len(stack[a]) = 0) /\ \A k \in ReceiverKernels : got[k] = <<>>
    BY DEF Init
  <2>3. \A k \in ReceiverKernels : IsInjective(got[k]) /\ Range(got[k]) = {}
    BY <2>2 DEF IsInjective, Range
  <2>4. SingleInv
    BY <2>2, <2>3 DEF SingleInv, Queued, DeliveredOnce
  <2> QED BY <2>1, <2>4
<1>2. I /\ [Next]_vars => I'
  BY StepKinds, StepSigned, StepSingle
<1>3. I => DeliveredOnce
  BY DEF SingleInv
<1> HIDE DEF I
<1> QED BY <1>1, <1>2, <1>3, PTL DEF Spec

-----------------------------------------------------------------------------
(* The way back of an acknowledgement *)

\* The addresses of acknowledgements and of data packets
AckDestination == [kind |-> "ack", to |-> SenderKernels[1]]
DataDestination(to) == [kind |-> "data", to |-> to]

\* Wherever a data packet is handed on, an acknowledgement is handed back
WayBack ==
  \A to \in Targets, k, j \in Kernels :
    j \in Onwards(k, DataDestination(to)) => Onwards(j, AckDestination) \subseteq {k}

\* The kernels of s hand a packet for d on to each other, ever nearer d
Path(dist, d, s) ==
  /\ \A i \in 1 .. Len(s) - 1 : s[i + 1] \in Onwards(s[i], d)
  /\ \A i, j \in 1 .. Len(s) : i < j => dist[d][s[j]] < dist[d][s[i]]

\* The kernels that have had the packet of handler f, this one included
Trail(f) == IF f.pc = "handle" THEN Append(f.p.sig, f.at) ELSE f.p.sig

\* A data packet has come to the end of s from the kernel that sent it
FromSender(n, s) == n \in 1 .. Len(pushed) /\ s[1] = pushed[n].from

\* The packet of handler f has come along a path, a data packet from its sender
FramePath(dist, f) ==
  f.p.kind # "end" =>
    /\ Path(dist, Destination(f.p), Trail(f))
    /\ f.p.kind = "data" => FromSender(f.p.n, Trail(f))

\* The packet of row r has come along a path, a data packet from its sender
RowPath(dist, r) ==
  IF r.ack THEN Path(dist, AckDestination, r.sig)
  ELSE FromSender(r.n, r.sig) /\ \E to \in Targets : Path(dist, DataDestination(to), r.sig)

\* All that is handled and all that is recorded has come along a path
PathInv(dist) ==
  /\ \A a \in Actors : \A i \in 1 .. Len(stack[a]) : FramePath(dist, stack[a][i])
  /\ \A k \in Kernels : \A r \in Rows(k) : RowPath(dist, r)

\* The sender's own kernel
LEMMA PathStarts ==
  ASSUME NEW dist, NEW d, NEW k
  PROVE  Path(dist, d, Append(<<>>, k)) /\ Append(<<>>, k)[1] = k
<1>1. Len(Append(<<>>, k)) = 1 /\ Append(<<>>, k)[1] = k
  OBVIOUS
<1> QED BY <1>1 DEF Path

\* One kernel more
LEMMA PathGoesOn ==
  ASSUME NEW dist \in [Destinations -> [Kernels -> Nat]], NEW d \in Destinations,
         NEW s \in Seq(Kernels), NEW k \in Kernels, NEW j \in Kernels, Len(s) > 0, s[Len(s)] = k,
         Path(dist, d, s), j \in Onwards(k, d), Nearer(dist)
  PROVE  Path(dist, d, Append(s, j)) /\ Append(s, j)[1] = s[1]
<1>1. Len(s) \in Nat /\ Len(s) > 0 /\ s[Len(s)] = k
  OBVIOUS
<1>2. PICK u : u = Append(s, j)
  OBVIOUS
<1>3. /\ u \in Seq(Kernels) /\ Len(u) = Len(s) + 1 /\ u[Len(s) + 1] = j
      /\ \A i \in 1 .. Len(s) : u[i] = s[i]
  BY <1>1, <1>2, AppendProperties
<1>4. \A i \in 1 .. Len(s) : s[i] \in Kernels /\ dist[d][s[i]] \in Nat
  BY <1>1
<1>5. dist[d][j] \in Nat /\ dist[d][k] \in Nat /\ dist[d][j] < dist[d][k]
  BY DEF Nearer
<1>6. ASSUME NEW i \in 1 .. Len(u) - 1 PROVE u[i + 1] \in Onwards(u[i], d)
  <2>1. CASE i = Len(s)
    <3>1. Len(s) \in 1 .. Len(s)
      BY <1>1
    <3>2. u[Len(s)] = k
      BY <1>1, <1>3, <3>1
    <3>3. u[i + 1] = j /\ u[i] = k
      BY <1>3, <2>1, <3>2
    <3> QED BY <3>3
  <2>2. CASE i # Len(s)
    <3>1. i \in 1 .. Len(s) - 1 /\ i \in 1 .. Len(s) /\ i + 1 \in 1 .. Len(s)
      BY <1>1, <1>3, <2>2
    <3> QED BY <1>3, <3>1 DEF Path
  <2> QED BY <2>1, <2>2
<1>7. ASSUME NEW i \in 1 .. Len(u), NEW m \in 1 .. Len(u), i < m
      PROVE  dist[d][u[m]] < dist[d][u[i]]
  <2>1. i \in 1 .. Len(s)
    BY <1>1, <1>3, <1>7
  <2>2. CASE m = Len(s) + 1
    <3>1. u[m] = j /\ u[i] = s[i]
      BY <1>3, <2>1, <2>2
    <3>2. CASE i = Len(s)
      BY <1>1, <1>5, <3>1, <3>2
    <3>3. CASE i # Len(s)
      <4>1. i < Len(s) /\ Len(s) \in 1 .. Len(s)
        BY <1>1, <2>1, <3>3
      <4>2. dist[d][s[Len(s)]] < dist[d][s[i]]
        BY <2>1, <4>1 DEF Path
      <4>3. dist[d][k] < dist[d][s[i]] /\ dist[d][s[i]] \in Nat
        BY <1>1, <1>4, <2>1, <4>2
      <4>4. PICK x \in Nat, y \in Nat, z \in Nat :
              x = dist[d][j] /\ y = dist[d][k] /\ z = dist[d][s[i]]
        BY <1>5, <4>3
      <4>5. x < y /\ y < z
        BY <1>5, <4>3, <4>4
      <4>6. x < z
        BY <4>5
      <4> QED BY <3>1, <4>4, <4>6
    <3> QED BY <3>2, <3>3
  <2>3. CASE m # Len(s) + 1
    <3>1. m \in 1 .. Len(s)
      BY <1>1, <1>3, <2>3
    <3> QED BY <1>3, <1>7, <2>1, <3>1 DEF Path
  <2> QED BY <2>2, <2>3
<1>8. u[1] = s[1]
  BY <1>1, <1>3
<1> QED BY <1>2, <1>6, <1>7, <1>8 DEF Path

\* What is known of a packet's way stays known when packets are added
LEMMA PathsKept ==
  ASSUME NEW dist, 1 .. Len(pushed) \subseteq 1 .. Len(pushed'),
         \A n \in 1 .. Len(pushed) : pushed'[n] = pushed[n]
  PROVE  /\ \A f : FramePath(dist, f) => FramePath(dist, f)'
         /\ \A r : RowPath(dist, r) => RowPath(dist, r)'
<1>1. \A n, s : FromSender(n, s) => FromSender(n, s)'
  BY DEF FromSender
<1>2. ASSUME NEW f, FramePath(dist, f) PROVE FramePath(dist, f)'
  BY <1>1, <1>2 DEF FramePath
<1>3. ASSUME NEW r, RowPath(dist, r) PROVE RowPath(dist, r)'
  BY <1>1, <1>3 DEF RowPath
<1> QED BY <1>2, <1>3

\* The row of a packet, whose way is that of the handler
LEMMA RecordedPath ==
  ASSUME NEW dist, TypeOK, NEW g \in Frames, g.pc = "forward", g.p.kind # "end",
         Destination(g.p) \in Destinations, FramePath(dist, g)',
         \A k \in Kernels : \A r \in Rows(k) : RowPath(dist, r)',
         Recorded(g)
  PROVE  \A k \in Kernels : \A r \in Rows(k)' : RowPath(dist, r)'
<1>1. PICK row \in ChainRows :
        /\ chain' = [chain EXCEPT ![g.at] = Append(chain[g.at], row)]
        /\ row.n = g.p.n /\ row.ack = (g.p.kind = "ack") /\ row.sig = g.p.sig
  BY DEF Recorded
<1>2. g.at \in Kernels
  BY DEF Frames
<1>3. \A j \in Kernels : Rows(j)' = IF j = g.at THEN Rows(j) \cup {row} ELSE Rows(j)
  BY <1>1, <1>2, RowAdded
<1>4. /\ Path(dist, Destination(g.p), row.sig)
      /\ g.p.kind = "data" => FromSender(g.p.n, row.sig)'
  BY <1>1 DEF FramePath, Trail
<1>5. RowPath(dist, row)'
  <2>1. CASE g.p.kind = "ack"
    <3>1. Destination(g.p) = AckDestination
      BY <2>1 DEF Destination, Destinations, AckDestination
    <3> QED BY <1>1, <1>4, <2>1, <3>1 DEF RowPath
  <2>2. CASE g.p.kind = "data"
    <3>1. Destination(g.p) = DataDestination(g.p.to) /\ g.p.to \in Targets
      BY <2>2 DEF Destination, Destinations, DataDestination
    <3> QED BY <1>1, <1>4, <2>2, <3>1 DEF RowPath
  <2>3. g.p.kind \in {"ack", "data"}
    BY DEF Frames, Packets, Kinds
  <2> QED BY <2>1, <2>2, <2>3
<1> QED BY <1>3, <1>5

\* Packets and acknowledgements go from kernel to kernel along the routes
LEMMA StepPaths ==
  ASSUME NEW dist \in [Destinations -> [Kernels -> Nat]], Nearer(dist),
         TypeOK, SignedInv, DescentInv(dist), PathInv(dist), [Next]_vars
  PROVE  PathInv(dist)'
<1>1. \A a \in Actors : stack[a] \in Seq(Frames)
  BY DEF TypeOK
<1>2. \A a \in Actors : \A i \in 1 .. Len(stack[a]) :
        /\ stack[a][i] \in Frames /\ FramePath(dist, stack[a][i]) /\ Addressed(stack[a][i])
  BY <1>1 DEF PathInv, DescentInv
<1>3. \A k \in Kernels : \A r \in Rows(k) : RowPath(dist, r)
  BY DEF PathInv
<1>4. ASSUME pushed' = pushed
      PROVE  /\ \A f : FramePath(dist, f) => FramePath(dist, f)'
             /\ \A r : RowPath(dist, r) => RowPath(dist, r)'
  BY <1>4, PathsKept
<1>5. ASSUME chain' = chain, pushed' = pushed
      PROVE  \A k \in Kernels : \A r \in Rows(k)' : RowPath(dist, r)'
  BY <1>3, <1>4, <1>5 DEF Rows
<1>6. CASE \E a \in Actors, g \in Frames : Opens(a, g)
  <2>1. PICK a \in Actors, g \in Frames : Opens(a, g)
    BY <1>6
  <2>2. /\ g.pc = "forward" /\ Destination(g.p) \in Destinations
        /\ g.p.kind # "end" => g.p.sig = Append(<<>>, g.at)
        /\ IF g.p.kind = "ack" THEN pushed' = pushed
           ELSE g.p.n = Len(pushed) + 1 /\ pushed' = Append(pushed, PushedRecord(g))
        /\ (g.p.kind # "end" /\ Recorded(g)) \/ chain' = chain
    BY <2>1 DEF Opens, Settles
  <2>3. /\ \A b \in Actors : b # a => stack'[b] = stack[b]
        /\ Len(stack'[a]) = 1 /\ stack'[a][1] = g
    BY <2>1, OpensStack
  <2>4. PushedRecord(g) \in PushedRecords /\ PushedRecord(g).from = g.at
    BY DEF PushedRecord, PushedRecords, Frames, Packets
  <2>5. /\ 1 .. Len(pushed) \subseteq 1 .. Len(pushed')
        /\ \A n \in 1 .. Len(pushed) : pushed'[n] = pushed[n]
    BY <2>2, <2>4, PushedKept
  <2>6. /\ \A f : FramePath(dist, f) => FramePath(dist, f)'
        /\ \A r : RowPath(dist, r) => RowPath(dist, r)'
    BY <2>5, PathsKept
  <2>7. FramePath(dist, g)'
    <3>1. g.p.kind = "data" => g.p.n \in 1 .. Len(pushed') /\ pushed'[g.p.n].from = g.at
      <4> SUFFICES ASSUME g.p.kind = "data"
                   PROVE  g.p.n \in 1 .. Len(pushed') /\ pushed'[g.p.n].from = g.at
        OBVIOUS
      <4>1. pushed \in Seq(PushedRecords) /\ Len(pushed) \in Nat
        BY DEF TypeOK, PushedRecords
      <4>2. g.p.n = Len(pushed) + 1 /\ pushed' = Append(pushed, PushedRecord(g))
        BY <2>2
      <4>3. Len(pushed') = Len(pushed) + 1 /\ pushed'[Len(pushed) + 1] = PushedRecord(g)
        BY <2>4, <4>1, <4>2, AppendProperties
      <4> QED BY <2>4, <4>1, <4>2, <4>3
    <3>2. /\ Path(dist, Destination(g.p), Append(<<>>, g.at))
          /\ Append(<<>>, g.at)[1] = g.at
      BY PathStarts
    <3>3. g.p.kind # "end" => Trail(g) = Append(<<>>, g.at)
      BY <2>2 DEF Trail
    <3>4. g.p.kind = "data" => FromSender(g.p.n, Append(<<>>, g.at))'
      BY <3>1, <3>2 DEF FromSender
    <3> QED BY <3>2, <3>3, <3>4 DEF FramePath
  <2>8. ASSUME NEW b \in Actors, NEW i \in 1 .. Len(stack'[b])
        PROVE  FramePath(dist, stack[b][i])'
    <3>1. CASE b = a
      <4>1. i \in 1 .. Len(stack'[a])
        BY <2>8, <3>1
      <4>2. i = 1
        BY <2>3, <4>1
      <4> QED BY <2>3, <2>7, <3>1, <4>2
    <3>2. CASE b # a
      BY <1>2, <2>3, <2>6, <2>8, <3>2
    <3> QED BY <3>1, <3>2
  <2>9. \A k \in Kernels : \A r \in Rows(k)' : RowPath(dist, r)'
    <3>1. CASE g.p.kind # "end" /\ Recorded(g)
      BY <1>3, <2>2, <2>6, <2>7, <3>1, RecordedPath
    <3>2. CASE chain' = chain
      BY <1>3, <2>6, <3>2 DEF Rows
    <3> QED BY <2>2, <3>1, <3>2
  <2> QED BY <2>8, <2>9 DEF PathInv
<1>7. CASE \E a \in Actors, g \in Frames : Takes(a, g)
  <2>1. PICK a \in Actors, g \in Frames : Takes(a, g)
    BY <1>7
  <2>2. /\ stack[a] # <<>> /\ Top(a).pc = "handle" /\ g.pc = "forward"
        /\ stack' = [stack EXCEPT ![a] = Append(Front(stack[a]), g)]
        /\ g.at = Top(a).at /\ g.p.n = Top(a).p.n /\ Destination(g.p) = Destination(Top(a).p)
        /\ g.p.sig = Append(Top(a).p.sig, g.at)
        /\ chain' = chain /\ pushed' = pushed
    BY <2>1 DEF Takes, Settles
  <2> DEFINE l == Len(stack[a])
  <2>3. /\ \A b \in Actors : b # a => stack'[b] = stack[b]
        /\ l \in Nat \ {0} /\ Len(stack'[a]) = l
        /\ \A i \in 1 .. l - 1 : stack'[a][i] = stack[a][i]
        /\ stack'[a][l] = g
    BY <2>2, TopReplaced
  <2>4. Top(a) = stack[a][l] /\ FramePath(dist, Top(a))
    BY <1>2, <2>2, <2>3, TopFrame
  <2>5. FramePath(dist, g)
    <3>1. Trail(g) = Trail(Top(a)) /\ g.p.kind = Top(a).p.kind
      BY <2>2 DEF Trail, Destination
    <3> QED BY <2>2, <2>4, <3>1 DEF FramePath
  <2>6. ASSUME NEW b \in Actors, NEW i \in 1 .. Len(stack'[b])
        PROVE  FramePath(dist, stack'[b][i])
    <3>1. CASE b = a
      <4>1. i = l \/ i \in 1 .. l - 1
        BY <2>3, <2>6, <3>1
      <4> QED BY <1>2, <2>3, <2>5, <3>1, <4>1
    <3>2. CASE b # a
      BY <1>2, <2>3, <2>6, <3>2
    <3> QED BY <3>1, <3>2
  <2>7. \A b \in Actors : \A i \in 1 .. Len(stack'[b]) : FramePath(dist, stack[b][i])'
    BY <1>4, <2>2, <2>6
  <2> QED BY <1>5, <2>2, <2>7 DEF PathInv
<1>8. CASE \E a \in Actors, rk \in Kernels, g \in Frames, c \in Frames : Hands(a, rk, g, c)
  <2>1. PICK a \in Actors, rk \in Kernels, g \in Frames, c \in Frames : Hands(a, rk, g, c)
    BY <1>8
  <2>2. /\ stack[a] # <<>> /\ Top(a).pc = "forward" /\ rk \in Top(a).todo
        /\ g.p = Top(a).p /\ g.pc = "forward"
        /\ c.at \in Towards(Top(a).at, rk) /\ c.p = Top(a).p /\ c.pc = "handle"
        /\ chain' = chain /\ pushed' = pushed
    BY <2>1 DEF Hands
  <2> DEFINE l == Len(stack[a])
  <2>3. /\ \A d \in Actors : d # a => stack'[d] = stack[d]
        /\ l \in Nat \ {0} /\ Len(stack'[a]) \in {l, l + 1}
        /\ \A i \in 1 .. l - 1 : stack'[a][i] = stack[a][i]
        /\ stack'[a][l] = g
        /\ Len(stack'[a]) = l + 1 => stack'[a][l + 1] = c
    <3>1. Stacked(a, g, c)
      BY <2>1, HandsStack
    <3> QED BY <3>1 DEF Stacked
  <2>4. PICK f \in Frames : f = Top(a) /\ f = stack[a][l] /\ l \in 1 .. Len(stack[a])
    BY <2>2, <2>3, TopFrame
  <2>5. FramePath(dist, f) /\ Addressed(f)
    BY <1>2, <2>4
  <2>6. FramePath(dist, g)
    BY <2>2, <2>4, <2>5 DEF FramePath, Trail
  <2>7. FramePath(dist, c)
    <3> SUFFICES ASSUME f.p.kind # "end"
                 PROVE  /\ Path(dist, Destination(f.p), Append(f.p.sig, c.at))
                        /\ f.p.kind = "data" => FromSender(f.p.n, Append(f.p.sig, c.at))
      BY <2>2, <2>4 DEF FramePath, Trail
    <3>1. PICK d \in Destinations : d = Destination(f.p)
      BY <2>5 DEF Addressed
    <3>2. PICK s : s = f.p.sig
      OBVIOUS
    <3>3. Path(dist, d, s) /\ (f.p.kind = "data" => FromSender(f.p.n, s))
      BY <2>2, <2>4, <2>5, <3>1, <3>2 DEF FramePath, Trail
    <3>4. PICK t \in Seq(Kernels) : s = Append(t, f.at)
      BY <2>2, <2>4, <3>2 DEF SignedInv, Signatures
    <3>5. c.at \in Onwards(f.at, d)
      BY <2>2, <2>4, <2>5, <3>1 DEF Addressed, Onwards
    <3>6. PICK k \in Kernels, j \in Kernels : k = f.at /\ j = c.at
      BY DEF Frames
    <3>7. s = Append(t, k) /\ j \in Onwards(k, d)
      BY <3>4, <3>5, <3>6
    <3>8. Path(dist, d, Append(s, j)) /\ Append(s, j)[1] = s[1]
      <4>1. s \in Seq(Kernels) /\ Len(s) > 0 /\ s[Len(s)] = k
        <5>1. Len(t) \in Nat /\ s \in Seq(Kernels) /\ Len(s) = Len(t) + 1 /\ s[Len(t) + 1] = k
          BY <3>4, <3>6, <3>7, AppendProperties
        <5> QED BY <5>1
      <4>2. s \in Seq(Kernels)
        BY <4>1
      <4>3. Path(dist, d, s)
        BY <3>3
      <4>4. j \in Onwards(k, d)
        BY <3>7
      <4>5. Len(s) > 0 /\ s[Len(s)] = k
        BY <4>1
      <4> QED BY ONLY <4>2, <4>3, <4>4, <4>5, Nearer(dist), PathGoesOn, Zenon
    <3>9. Path(dist, Destination(f.p), Append(f.p.sig, c.at)) /\ Append(f.p.sig, c.at)[1] = s[1]
      BY <3>1, <3>2, <3>6, <3>8
    <3> QED BY <3>3, <3>9 DEF FromSender
  <2>8. ASSUME NEW b \in Actors, NEW i \in 1 .. Len(stack'[b])
        PROVE  FramePath(dist, stack'[b][i])
    <3>1. CASE b = a
      <4>1. i = l \/ i \in 1 .. l - 1 \/ (i = l + 1 /\ Len(stack'[a]) = l + 1)
        BY <2>3, <2>8, <3>1
      <4> QED BY <1>2, <2>3, <2>6, <2>7, <3>1, <4>1
    <3>2. CASE b # a
      BY <1>2, <2>3, <2>8, <3>2
    <3> QED BY <3>1, <3>2
  <2>9. \A b \in Actors : \A i \in 1 .. Len(stack'[b]) : FramePath(dist, stack[b][i])'
    BY <1>4, <2>2, <2>8
  <2> QED BY <1>5, <2>2, <2>9 DEF PathInv
<1>9. CASE \E a \in Actors : Leaves(a)
  <2>1. PICK a \in Actors : Leaves(a)
    BY <1>9
  <2>2. /\ stack[a] # <<>> /\ pushed' = pushed
        /\ \/ chain' = chain
           \/ Top(a).pc = "forward" /\ Top(a).p.kind # "end" /\ Recorded(Top(a))
    BY <2>1 DEF Leaves
  <2>3. /\ \A d \in Actors : d # a => stack'[d] = stack[d]
        /\ Len(stack[a]) \in Nat \ {0} /\ Len(stack'[a]) = Len(stack[a]) - 1
        /\ \A i \in 1 .. Len(stack[a]) - 1 : stack'[a][i] = stack[a][i]
    BY <2>1, LeavesStack
  <2>4. PICK f \in Frames : f = Top(a) /\ FramePath(dist, f) /\ Addressed(f)
    BY <1>2, <2>2, <2>3, TopFrame
  <2>5. \A b \in Actors : \A i \in 1 .. Len(stack'[b]) :
          i \in 1 .. Len(stack[b]) /\ stack'[b][i] = stack[b][i]
    BY <2>3
  <2>6. \A b \in Actors : \A i \in 1 .. Len(stack'[b]) : FramePath(dist, stack[b][i])'
    BY <1>2, <1>4, <2>2, <2>5
  <2>7. \A k \in Kernels : \A r \in Rows(k)' : RowPath(dist, r)'
    <3>1. CASE f.pc = "forward" /\ f.p.kind # "end" /\ Recorded(f)
      <4>1. FramePath(dist, f)' /\ \A k \in Kernels : \A r \in Rows(k) : RowPath(dist, r)'
        BY <1>3, <1>4, <2>2, <2>4
      <4>2. Destination(f.p) \in Destinations
        BY <2>4 DEF Addressed
      <4> QED BY <3>1, <4>1, <4>2, RecordedPath
    <3> QED BY <1>5, <2>2, <2>4, <3>1
  <2> QED BY <2>6, <2>7 DEF PathInv
<1>10. CASE Quiet
  <2>1. chain' = chain /\ pushed' = pushed /\ stack' = stack
    BY <1>10 DEF Quiet
  <2>2. \A b \in Actors : \A i \in 1 .. Len(stack'[b]) : FramePath(dist, stack[b][i])'
    BY <1>2, <1>4, <2>1
  <2> QED BY <1>5, <2>1, <2>2 DEF PathInv
<1> QED BY <1>6, <1>7, <1>8, <1>9, <1>10, StepMoves

\* A packet went from k to j, and its acknowledgement from j to k: each kernel on the way hands
\* an acknowledgement to the one it had the packet from
LEMMA Retraced ==
  ASSUME NEW dist \in [Destinations -> [Kernels -> Nat]], WayBack, NEW to \in Targets,
         NEW ds \in Seq(Kernels), NEW rs \in Seq(Kernels), Len(ds) > 0, Len(rs) > 0,
         Path(dist, DataDestination(to), ds), Path(dist, AckDestination, rs),
         rs[1] = ds[Len(ds)], rs[Len(rs)] = ds[1]
  PROVE  rs = Reverse(ds)
<1> DEFINE l == Len(ds)
           m == Len(rs)
<1>1. l \in Nat /\ m \in Nat /\ l > 0 /\ m > 0
  OBVIOUS
<1>2. /\ DataDestination(to) \in Destinations /\ AckDestination \in Destinations
      /\ dist[DataDestination(to)] \in [Kernels -> Nat] /\ dist[AckDestination] \in [Kernels -> Nat]
  BY DEF Destinations, DataDestination, AckDestination
<1>3. (\A i \in 1 .. l : ds[i] \in Kernels) /\ \A i \in 1 .. m : rs[i] \in Kernels
  OBVIOUS
<1>4. ASSUME NEW i \in Nat, i >= 1, i =< m - 1, i =< l - 1, rs[i] = ds[l - i + 1]
      PROVE  rs[i + 1] = ds[l - i]
  <2>1. i \in 1 .. m - 1 /\ l - i \in 1 .. l - 1 /\ l - i \in 1 .. l /\ l - i + 1 \in 1 .. l
    BY <1>1, <1>4
  <2>2. rs[i + 1] \in Onwards(rs[i], AckDestination)
    BY <2>1 DEF Path
  <2>3. ds[l - i + 1] \in Onwards(ds[l - i], DataDestination(to))
    BY <2>1 DEF Path
  <2>4. Onwards(ds[l - i + 1], AckDestination) \subseteq {ds[l - i]}
    BY <1>3, <2>1, <2>3 DEF WayBack
  <2> QED BY <1>4, <2>2, <2>4
<1>5. ASSUME NEW i \in Nat, i >= 1, i =< m, i =< l
      PROVE  rs[i] = ds[l - i + 1]
  <2> DEFINE S == {n \in Nat : n >= 1 /\ n =< m /\ n =< l /\ rs[n] # ds[l - n + 1]}
  <2> SUFFICES ASSUME S # {} PROVE FALSE
    BY <1>5
  <2>1. PICK x \in S : \A y \in S : x =< y
    BY LeastMember
  <2>2. x \in Nat /\ x >= 1 /\ x =< m /\ x =< l /\ rs[x] # ds[l - x + 1]
    BY <2>1
  <2>3. x # 1
    <3>1. rs[1] = ds[l]
      OBVIOUS
    <3>2. l - 1 + 1 = l
      BY <1>1
    <3> QED BY <2>2, <3>1, <3>2
  <2>4. PICK z \in Nat : x = z + 1 /\ z >= 1
    <3>1. x - 1 \in Nat /\ x = (x - 1) + 1 /\ x - 1 >= 1
      BY <2>2, <2>3
    <3> QED BY <3>1
  <2>5. z \notin S /\ z =< m - 1 /\ z =< l - 1 /\ l - x + 1 = l - z
    BY <1>1, <2>1, <2>2, <2>4
  <2>6. rs[z] = ds[l - z + 1]
    BY <1>1, <2>4, <2>5
  <2>7. rs[z + 1] = ds[l - z]
    BY <1>4, <2>4, <2>5, <2>6
  <2> QED BY <2>2, <2>4, <2>5, <2>7
<1>6. m = l
  <2>1. CASE m < l
    <3>1. l - m + 1 \in 1 .. l /\ 1 \in 1 .. l /\ 1 < l - m + 1
      BY <1>1, <2>1
    <3>2. ds[1] = ds[l - m + 1]
      <4>1. m >= 1 /\ m =< m /\ m =< l
        BY <1>1, <2>1
      <4>2. rs[m] = ds[l - m + 1]
        BY <1>1, <1>5, <4>1
      <4> QED BY <4>2
    <3>3. dist[DataDestination(to)][ds[l - m + 1]] < dist[DataDestination(to)][ds[1]]
      BY <3>1 DEF Path
    <3>4. dist[DataDestination(to)][ds[1]] \in Nat
      BY <1>2, <1>3, <3>1
    <3> QED BY <3>2, <3>3, <3>4
  <2>2. CASE l < m
    <3>1. l \in 1 .. m /\ m \in 1 .. m
      BY <1>1, <2>2
    <3>2. rs[l] = rs[m]
      <4>1. rs[l] = ds[l - l + 1] /\ l - l + 1 = 1
        BY <1>1, <1>5, <2>2
      <4> QED BY <4>1
    <3>3. dist[AckDestination][rs[m]] < dist[AckDestination][rs[l]]
      BY <2>2, <3>1 DEF Path
    <3>4. dist[AckDestination][rs[m]] \in Nat
      BY <1>2, <1>3, <3>1
    <3> QED BY <3>2, <3>3, <3>4
  <2> QED BY <1>1, <2>1, <2>2
<1>7. rs = [i \in 1 .. l |-> ds[(l - i) + 1]]
  <2>1. DOMAIN rs = 1 .. l /\ rs = [i \in DOMAIN rs |-> rs[i]]
    BY <1>6
  <2>2. \A i \in 1 .. l : rs[i] = ds[(l - i) + 1]
    BY <1>1, <1>5, <1>6
  <2> QED BY <2>1, <2>2
<1> QED BY <1>7 DEF Reverse

\* THEOREM.  If packets and acknowledgements come ever nearer their destinations, and a kernel
\* hands an acknowledgement to the kernel it has the packet from, an acknowledgement comes back
\* to the sender by the kernels the packet took, in the opposite order, for any number of kernels
\* and any faults: no kernel is left out and none is entered twice (GetPreviousHop, ForwardData)
THEOREM AcksRetraceData ==
  ASSUME NEW dist \in [Destinations -> [Kernels -> Nat]], Nearer(dist), WayBack
  PROVE  Spec => []AckRetracesData
<1> DEFINE I == TypeOK /\ SignedInv /\ RowsSigned /\ DescentInv(dist) /\ PathInv(dist)
<1>1. Init => I
  <2> SUFFICES ASSUME Init PROVE I
    OBVIOUS
  <2>1. TypeOK /\ SignedInv
    BY InitForward
  <2>2. (\A a \in Actors : Len(stack[a]) = 0) /\ \A k \in Kernels : Rows(k) = {}
    BY DEF Init, Rows, Range
  <2>3. DescentInv(dist) /\ RowsSigned /\ PathInv(dist)
    BY <2>2 DEF DescentInv, StackDescends, RowsSigned, PathInv
  <2> QED BY <2>1, <2>3
<1>2. I /\ [Next]_vars => I'
  BY StepKinds, StepSigned, StepDescends, StepRows, StepPaths
<1>3. I => AckRetracesData
  <2> SUFFICES ASSUME I, NEW k \in Senders, NEW j \in ReceiverKernels,
                      NEW r \in Rows(k), NEW d \in Rows(j),
                      r.ack, ~d.ack, d.n = r.n, pushed[r.n].from = k, r.sig[1] = j
               PROVE  r.sig = Reverse(d.sig)
    BY DEF AckRetracesData
  <2>1. k \in Kernels /\ j \in Kernels
    BY ForwardConstants DEF Members
  <2>2. \A i \in Kernels : Rows(i) \subseteq ChainRows
    <3>1. \A i \in Kernels : chain[i] \in Seq(ChainRows)
      BY DEF TypeOK
    <3> QED BY <3>1 DEF Rows, Range
  <2>3. r \in ChainRows /\ d \in ChainRows
    BY <2>1, <2>2
  <2>4. PICK rs \in Seq(Kernels), ds \in Seq(Kernels) : rs = r.sig /\ ds = d.sig
    BY <2>3 DEF ChainRows, Signatures
  <2>5. rs = Append(r.prevSig, k) /\ ds = Append(d.prevSig, j)
    BY <2>1, <2>4 DEF RowsSigned
  <2>6. r.prevSig \in Seq(Kernels) /\ d.prevSig \in Seq(Kernels)
    BY <2>3 DEF ChainRows, Signatures
  <2>7. Len(rs) > 0 /\ rs[Len(rs)] = k
    <3>1. Len(r.prevSig) \in Nat /\ Len(rs) = Len(r.prevSig) + 1 /\ rs[Len(r.prevSig) + 1] = k
      BY <2>1, <2>5, <2>6, AppendProperties
    <3> QED BY <3>1
  <2>8. Len(ds) > 0 /\ ds[Len(ds)] = j
    <3>1. Len(d.prevSig) \in Nat /\ Len(ds) = Len(d.prevSig) + 1 /\ ds[Len(d.prevSig) + 1] = j
      BY <2>1, <2>5, <2>6, AppendProperties
    <3> QED BY <3>1
  <2>9. RowPath(dist, r) /\ RowPath(dist, d)
    BY <2>1 DEF PathInv
  <2>10. Path(dist, AckDestination, rs)
    BY <2>4, <2>9 DEF RowPath
  <2>11. ds[1] = k
    BY <2>4, <2>9 DEF RowPath, FromSender
  <2>12. PICK to \in Targets : Path(dist, DataDestination(to), ds)
    BY <2>4, <2>9 DEF RowPath
  <2>13. rs[1] = ds[Len(ds)] /\ rs[Len(rs)] = ds[1]
    BY <2>4, <2>7, <2>8, <2>11
  <2>14. rs = Reverse(ds)
    BY <2>7, <2>8, <2>10, <2>12, <2>13, Retraced
  <2> QED BY <2>4, <2>14
<1> HIDE DEF I
<1> QED BY <1>1, <1>2, <1>3, PTL DEF Spec

-----------------------------------------------------------------------------
(* The kernels compute the same hashes *)

\* The last hash of each kernel
Heads == [k \in Kernels |-> LastDataHash(k)]

\* Kernel k hands a packet for d on
Carries(k, d) == status[k] = "active" /\ ~ShouldBuffer(k, d)

\* The kernels with the channel that each kernel hands a data packet on to
Followers ==
  [k \in Kernels |->
     {j \in Kernels :
        /\ status[j] # "none"
        /\ \E to \in Targets :
             Carries(k, DataDestination(to)) /\ j \in Onwards(k, DataDestination(to))}]

\* Every kernel hands a data packet on to one kernel at most
OneWay == \A to \in Targets, k \in Kernels : \A i, j \in Onwards(k, DataDestination(to)) : i = j

\* Nothing has failed, and there was one packet after the other, all from kernel s
Alone(s) ==
  /\ ~overlapped /\ faults = 0 /\ (\A t, u \in Targets : t = u)
  /\ \A i \in 1 .. Len(pushed) : pushed[i].from = s

\* Between packets: a kernel that has the sender's last hash hands packets on to such kernels
Level(V, F, s) == \A k \in Kernels : V[k] = V[s] => \A j \in F[k] : V[j] = V[s]

\* While a packet is handed on: none but the sender's kernel has its hash, and the kernels that
\* have the one before, o, hand packets on to such kernels
Down(V, F, s, o) ==
  /\ \A k \in Kernels : k # s => V[k] # V[s]
  /\ \A k \in Kernels : V[k] = o \/ k = s => \A j \in F[k] : V[j] = o \/ j = s

\* While its handlers return: what has been left by the packet is level, the last handler included
Up(V, F, s, st) ==
  \A k \in Kernels :
    /\ V[k] = V[s] \/ k = st[Len(st)].at
    /\ \A i \in 1 .. Len(st) - 1 : st[i].at # k
    => \A j \in F[k] : V[j] = V[s]

\* Handler f still has calls to make
Descending(f) == f.pc = "handle" \/ f.todo # {}

\* Handler f of packet n, whose hash is h and follows o
OnItsWay(f, n, h) ==
  /\ f.p.kind = "data" /\ f.p.n = n
  /\ f.pc = "forward" => f.hash = h
  /\ f.todo # {} => Carries(f.at, f.p)

\* A kernel that was called has not written its row, and follows o
Behind(V, f, o) ==
  f.at # f.from /\ (f.pc = "forward" \/ status[f.at] # "none" => V[f.at] = o)

\* Packet n of s, whose hash follows o, is on its way: st are the handlers that wait for each
\* other, and by the last of them the hashes behind it are still o or already that of s
WayInv(V, F, s, st, n, o) ==
  /\ V[s] = Append(o, n) /\ st[1].at = s /\ st[1].from = s /\ st[1].pc = "forward"
  /\ \A i \in 1 .. Len(st) : OnItsWay(st[i], n, V[s])
  /\ \A i \in 2 .. Len(st) : Behind(V, st[i], o)
  /\ \A i \in 1 .. Len(st) - 1 : F[st[i].at] \subseteq {st[i + 1].at}
  /\ IF Descending(st[Len(st)]) THEN Down(V, F, s, o) ELSE Up(V, F, s, st)

\* The stream of data packets of sender s
DataActor(s) == <<"data", s>>

\* Sender s has a data packet under way
UnderWay(s) == stack[DataActor(s)] # <<>> /\ stack[DataActor(s)][1].p.kind = "data"

\* While a packet of s is under way the last hashes fit its handlers; otherwise they are level
HeadInv(s) ==
  IF UnderWay(s)
  THEN /\ pushed # <<>> /\ pushed[Len(pushed)].hash = Heads[s]
       /\ \E o \in Hashes : WayInv(Heads, Followers, s, stack[DataActor(s)], Len(pushed), o)
  ELSE Level(Heads, Followers, s)

\* A data row has the hash of the packet when it was pushed
RowsTrue ==
  \A k \in Kernels : \A r \in Rows(k) :
    ~r.ack => r.n \in 1 .. Len(pushed) /\ r.hash = pushed[r.n].hash

\* The last hash ends with a packet that was pushed
HeadsPushed ==
  \A k \in Kernels : Heads[k] = <<>> \/ Heads[k][Len(Heads[k])] \in 1 .. Len(pushed)

\* While one sender is alone and nothing fails, rows and last hashes are those of its packets
HashInv ==
  /\ \A i \in 1 .. Len(pushed) : pushed[i].from \in Senders
  /\ \A s \in Senders : Alone(s) => RowsTrue /\ HeadsPushed /\ HeadInv(s)

\* The largest of some numbers
LEMMA LargestIsMax ==
  ASSUME NEW n \in Nat, NEW S \in SUBSET (1 .. n), NEW x \in S, \A y \in S : y =< x
  PROVE  Max(S) = x
<1>1. \E z \in S : \A y \in S : z >= y
  OBVIOUS
<1>2. Max(S) \in S /\ \A y \in S : Max(S) >= y
  BY <1>1 DEF Max
<1>3. Max(S) \in 1 .. n /\ x \in 1 .. n /\ Max(S) >= x /\ Max(S) =< x
  BY <1>2
<1> QED BY <1>3

\* The last hashes are hashes
LEMMA HeadsType ==
  ASSUME TypeOK
  PROVE  Heads \in [Kernels -> Hashes]
  BY LastHashType DEF Heads

\* The last hash is that of the data row added last
LEMMA HeadMoves ==
  ASSUME TypeOK, NEW k \in Kernels, NEW row \in ChainRows,
         chain' = [chain EXCEPT ![k] = Append(chain[k], row)]
  PROVE  \A j \in Kernels : Heads'[j] = IF j = k /\ ~row.ack THEN row.hash ELSE Heads[j]
<1>1. chain \in [Kernels -> Seq(ChainRows)] /\ chain[k] \in Seq(ChainRows) /\ Len(chain[k]) \in Nat
  BY DEF TypeOK
<1>2. PICK l \in Nat : l = Len(chain[k])
  BY <1>1
<1>3. chain'[k] = Append(chain[k], row) /\ \A j \in Kernels : j # k => chain'[j] = chain[j]
  BY <1>1
<1>4. /\ Len(chain'[k]) = l + 1 /\ chain'[k] \in Seq(ChainRows)
      /\ \A i \in 1 .. l : chain'[k][i] = chain[k][i]
      /\ chain'[k][l + 1] = row
  BY <1>1, <1>2, <1>3, AppendProperties
<1>5. DOMAIN chain[k] = 1 .. l /\ DOMAIN chain'[k] = 1 .. l + 1
  BY <1>1, <1>2, <1>4
<1> DEFINE data == {i \in DOMAIN chain[k] : ~chain[k][i].ack}
           data2 == {i \in DOMAIN chain'[k] : ~chain'[k][i].ack}
<1>6. \A j \in Kernels : j # k => Heads'[j] = Heads[j]
  BY <1>3 DEF Heads, LastDataHash
<1>7. /\ Heads[k] = IF data = {} THEN <<>> ELSE chain[k][Max(data)].hash
      /\ Heads'[k] = IF data2 = {} THEN <<>> ELSE chain'[k][Max(data2)].hash
  BY Zenon DEF Heads, LastDataHash
<1>8. CASE row.ack
  <2>1. data2 = data
    <3>1. \A i \in 1 .. l + 1 : i \in 1 .. l \/ i = l + 1
      BY <1>2
    <3>2. \A i \in 1 .. l : i \in 1 .. l + 1
      BY <1>2
    <3> QED BY <1>4, <1>5, <1>8, <3>1, <3>2
  <2>2. data # {} => Max(data) \in 1 .. l
    <3>1. data \in SUBSET (1 .. l)
      BY <1>5
    <3> HIDE DEF data
    <3> QED BY <1>2, <3>1, MaxIsMember
  <2> HIDE DEF data, data2
  <2>3. Heads'[k] = Heads[k]
    BY <1>4, <1>7, <2>1, <2>2
  <2> QED BY <1>6, <1>8, <2>3
<1>9. CASE ~row.ack
  <2>1. l + 1 \in data2 /\ data2 \in SUBSET (1 .. l + 1) /\ l + 1 \in Nat
    BY <1>2, <1>4, <1>5, <1>9
  <2> HIDE DEF data2
  <2>2. \A y \in data2 : y =< l + 1
    BY <1>2, <2>1
  <2>3. Max(data2) = l + 1
    BY <2>1, <2>2, LargestIsMax
  <2>4. Heads'[k] = row.hash
    BY <1>4, <1>7, <2>1, <2>3
  <2> QED BY <1>6, <1>9, <2>4
<1> QED BY <1>8, <1>9

\* What a recorded packet changes
LEMMA RecordedHeads ==
  ASSUME TypeOK, NEW g \in Frames, g.p.kind # "end", Recorded(g)
  PROVE  /\ \A j \in Kernels :
              Heads'[j] = IF j = g.at /\ g.p.kind = "data" THEN g.hash ELSE Heads[j]
         /\ \A j \in Kernels : \A r \in Rows(j)' :
              \/ r \in Rows(j) \/ r.ack
              \/ g.p.kind = "data" /\ r.n = g.p.n /\ r.hash = g.hash
<1>1. PICK row \in ChainRows :
        /\ chain' = [chain EXCEPT ![g.at] = Append(chain[g.at], row)]
        /\ row.n = g.p.n /\ row.ack = (g.p.kind = "ack")
        /\ g.p.kind = "data" => row.hash = g.hash
  BY DEF Recorded
<1>2. g.at \in Kernels /\ g.p.kind \in {"data", "ack"}
  BY DEF Frames, Packets, Kinds
<1>3. \A j \in Kernels : Rows(j)' = IF j = g.at THEN Rows(j) \cup {row} ELSE Rows(j)
  BY <1>1, <1>2, RowAdded
<1>4. \A j \in Kernels : Heads'[j] = IF j = g.at /\ ~row.ack THEN row.hash ELSE Heads[j]
  BY <1>1, <1>2, HeadMoves
<1> QED BY <1>1, <1>2, <1>3, <1>4

\* Nothing but the chains and the packets has a part in the last hashes
LEMMA HeadsKept ==
  ASSUME chain' = chain
  PROVE  Heads' = Heads /\ \A j \in Kernels : Rows(j)' = Rows(j)
  BY DEF Heads, LastDataHash, Rows

\* Who hands packets on to whom stays the same while no channel is closed
LEMMA FollowersKept ==
  ASSUME status' = status, listening' = listening
  PROVE  /\ Followers' = Followers
         /\ \A k, d : Carries(k, d)' <=> Carries(k, d)
         /\ \A V, F, s, st, n, o : WayInv(V, F, s, st, n, o) <=> WayInv(V, F, s, st, n, o)'
<1>1. \A k, d : Carries(k, d)' <=> Carries(k, d)
  BY DEF Carries, ShouldBuffer
<1>2. Followers' = Followers
  BY <1>1 DEF Followers
<1>3. \A f, n, h : OnItsWay(f, n, h) <=> OnItsWay(f, n, h)'
  BY <1>1 DEF OnItsWay
<1>4. \A V, f, o : Behind(V, f, o) <=> Behind(V, f, o)'
  BY DEF Behind
<1>5. ASSUME NEW V, NEW F, NEW s, NEW st, NEW n, NEW o
      PROVE  WayInv(V, F, s, st, n, o) <=> WayInv(V, F, s, st, n, o)'
  BY <1>3, <1>4 DEF WayInv
<1> QED BY <1>1, <1>2, <1>5

\* A handler that has no kernel to call is at one that hands data packets on to nobody
LEMMA NoFollowers ==
  ASSUME \A t, u \in Targets : t = u, NEW g \in Frames, Settles(g), g.p.kind = "data",
         g.p.to \in Targets, g.todo = {}
  PROVE  Followers[g.at] = {}
<1>1. g.at \in Kernels
  BY DEF Frames
<1> SUFFICES ASSUME NEW j \in Kernels, Carries(g.at, DataDestination(g.p.to)),
                    j \in Onwards(g.at, DataDestination(g.p.to))
             PROVE  FALSE
  BY <1>1 DEF Followers
<1>2. status[g.at] = "active" /\ ~ShouldBuffer(g.at, g.p)
  BY DEF Carries, ShouldBuffer, DataDestination
<1>3. Legs(g.at, g.p) = Legs(g.at, DataDestination(g.p.to))
  BY DEF Legs, DataDestination
<1>4. \E X : Legs(g.at, g.p) = {X}
  BY DEF Legs
<1>5. (UNION Legs(g.at, DataDestination(g.p.to))) \ {g.at} = {}
  BY <1>2, <1>3, <1>4 DEF Settles
<1> QED BY <1>5 DEF Onwards

\* A kernel hands data packets on to the kernel it calls
LEMMA IsFollower ==
  ASSUME NEW f \in Frames, f.p.kind = "data", Addressed(f), NEW rk \in f.todo,
         NEW j \in Kernels, j \in Towards(f.at, rk)
  PROVE  /\ j \in Onwards(f.at, DataDestination(f.p.to)) /\ f.p.to \in Targets
         /\ Destination(f.p) = DataDestination(f.p.to) /\ DataDestination(f.p.to) \in Destinations
         /\ Carries(f.at, f.p) /\ status[j] # "none" => j \in Followers[f.at]
<1>1. /\ Destination(f.p) = DataDestination(f.p.to) /\ f.p.to \in Targets
      /\ DataDestination(f.p.to) \in Destinations
  BY DEF Destination, DataDestination, Addressed, Destinations
<1>2. j \in Onwards(f.at, DataDestination(f.p.to))
  BY <1>1 DEF Addressed, Onwards
<1>3. f.at \in Kernels
  BY DEF Frames
<1>4. Carries(f.at, f.p) => Carries(f.at, DataDestination(f.p.to))
  BY DEF Carries, ShouldBuffer, DataDestination
<1>5. ASSUME Carries(f.at, f.p), status[j] # "none" PROVE j \in Followers[f.at]
  BY <1>1, <1>2, <1>3, <1>4, <1>5 DEF Followers
<1> QED BY <1>1, <1>2, <1>5

\* With one target there is one such kernel
LEMMA OneFollower ==
  ASSUME OneWay, \A t, u \in Targets : t = u, NEW to \in Targets, NEW k \in Kernels,
         NEW j \in Onwards(k, DataDestination(to))
  PROVE  Followers[k] \subseteq {j}
  BY DEF Followers, OneWay

\* What holds of a sender whose packets go one after the other
TrueInv(s) == RowsTrue /\ HeadsPushed /\ HeadInv(s)

\* All handlers of an actor have packets of one kind
LEMMA OneKind ==
  ASSUME NEW dist, DescentInv(dist), TypeOK, NEW a \in Actors, NEW i \in 1 .. Len(stack[a])
  PROVE  stack[a][i].p.kind = stack[a][1].p.kind
<1>1. stack[a] \in Seq(Frames) /\ Len(stack[a]) \in Nat /\ StackDescends(dist, stack[a])
  BY DEF TypeOK, DescentInv
<1>2. CASE i = 1
  BY <1>2
<1>3. CASE i # 1
  <2>1. 1 \in 1 .. Len(stack[a]) /\ 1 < i
    BY <1>1, <1>3
  <2>2. Destination(stack[a][1].p) = Destination(stack[a][i].p)
    BY <1>1, <2>1 DEF StackDescends
  <2> QED BY <2>2 DEF Destination
<1> QED BY <1>2, <1>3

\* The actor of a data packet
LEMMA WhoseData ==
  ASSUME NEW s \in Senders, Alone(s), NEW a \in Actors, NEW f, DataFrame(a, f)
  PROVE  a = DataActor(s)
<1>1. \A c \in Actors : c = <<c[1], c[2]>>
  BY DEF Actors
<1>2. a = <<a[1], a[2]>> /\ a[1] = "data" /\ a[2] = s
  BY <1>1 DEF DataFrame, Alone
<1> QED BY <1>2 DEF DataActor

\* A step that is not one of a data packet
LEMMA OtherStep ==
  ASSUME NEW s \in Senders, TypeOK, TrueInv(s), status' = status, listening' = listening,
         \A k \in Kernels : Heads'[k] = Heads[k],
         \A k \in Kernels : \A r \in Rows(k)' : r \in Rows(k) \/ r.ack,
         pushed' = pushed \/ \E r \in PushedRecords : pushed' = Append(pushed, r),
         \/ UnderWay(s) /\ stack'[DataActor(s)] = stack[DataActor(s)] /\ pushed' = pushed
         \/ ~UnderWay(s) /\ ~UnderWay(s)'
  PROVE  TrueInv(s)'
<1>1. /\ 1 .. Len(pushed) \subseteq 1 .. Len(pushed')
      /\ \A n \in 1 .. Len(pushed) : pushed'[n] = pushed[n]
  BY PushedKept
<1>2. Heads' = Heads
  BY DEF Heads
<1>3. RowsTrue'
  <2> SUFFICES ASSUME NEW k \in Kernels, NEW r \in Rows(k)', ~r.ack
               PROVE  r.n \in 1 .. Len(pushed') /\ r.hash = pushed'[r.n].hash
    BY DEF RowsTrue
  <2>1. r \in Rows(k)
    OBVIOUS
  <2>2. r.n \in 1 .. Len(pushed) /\ r.hash = pushed[r.n].hash
    BY <2>1 DEF TrueInv, RowsTrue
  <2> QED BY <1>1, <2>2
<1>4. HeadsPushed'
  BY <1>1, <1>2 DEF TrueInv, HeadsPushed
<1>5. /\ Followers' = Followers
      /\ \A V, F, t, st, n, o : WayInv(V, F, t, st, n, o) <=> WayInv(V, F, t, st, n, o)'
  BY FollowersKept
<1>6. CASE ~UnderWay(s) /\ ~UnderWay(s)'
  <2>1. Level(Heads, Followers, s)
    BY <1>6 DEF TrueInv, HeadInv
  <2>2. Level(Heads, Followers, s)'
    BY <1>2, <1>5, <2>1 DEF Level
  <2> QED BY <1>3, <1>4, <1>6, <2>2 DEF TrueInv, HeadInv
<1>7. CASE UnderWay(s) /\ stack'[DataActor(s)] = stack[DataActor(s)] /\ pushed' = pushed
  <2>1. PICK o \in Hashes :
          WayInv(Heads, Followers, s, stack[DataActor(s)], Len(pushed), o)
    BY <1>7 DEF TrueInv, HeadInv
  <2>2. WayInv(Heads, Followers, s, stack[DataActor(s)], Len(pushed), o)'
    <3>1. PICK V, F, st, n : V = Heads /\ F = Followers /\ st = stack[DataActor(s)] /\ n = Len(pushed)
      OBVIOUS
    <3>2. /\ V = Heads' /\ F = Followers' /\ st = stack'[DataActor(s)] /\ n = Len(pushed')
      BY <1>2, <1>5, <1>7, <3>1
    <3>3. WayInv(V, F, s, st, n, o)'
      BY <1>5, <2>1, <3>1
    <3> QED BY <3>2, <3>3
  <2>3. pushed' # <<>> /\ pushed'[Len(pushed')].hash = Heads'[s]
    BY <1>2, <1>7 DEF TrueInv, HeadInv
  <2>4. UnderWay(s)'
    BY <1>7 DEF UnderWay
  <2> QED BY <1>3, <1>4, <2>2, <2>3, <2>4 DEF TrueInv, HeadInv
<1> QED BY <1>3, <1>4, <1>6, <1>7 DEF TrueInv

\* The first kernel of a packet that goes nowhere else, or hands it on
LEMMA FirstPushed ==
  ASSUME NEW V \in [Kernels -> Hashes], NEW W \in [Kernels -> Hashes], NEW F, NEW s \in Kernels,
         NEW n \in Nat, \A k \in Kernels : F[k] \subseteq Kernels,
         \A k \in Kernels : V[k] = <<>> \/ V[k][Len(V[k])] \in 1 .. n,
         Level(V, F, s), \A k \in Kernels : W[k] = IF k = s THEN Append(V[s], n + 1) ELSE V[k],
         NEW st, Len(st) = 1, st[1].at = s
  PROVE  Down(W, F, s, V[s]) /\ (F[s] = {} => Up(W, F, s, st))
<1>1. V[s] \in Seq(Numbers) /\ Len(V[s]) \in Nat
  BY DEF Hashes, Numbers
<1>2. /\ W[s] # <<>> /\ W[s][Len(W[s])] = n + 1
  <2>1. W[s] = Append(V[s], n + 1) /\ W[s] \in Seq(Numbers)
    BY DEF Hashes, Numbers
  <2>2. Len(W[s]) = Len(V[s]) + 1 /\ W[s][Len(V[s]) + 1] = n + 1
    BY <1>1, <2>1
  <2> QED BY <1>1, <2>1, <2>2
<1>3. ASSUME NEW k \in Kernels, k # s PROVE W[k] # W[s]
  <2>1. W[k] = V[k]
    BY <1>3
  <2>2. V[k] = <<>> \/ V[k][Len(V[k])] # n + 1
    OBVIOUS
  <2> QED BY <1>2, <2>1, <2>2
<1>4. ASSUME NEW k \in Kernels, W[k] = V[s] \/ k = s, NEW j \in F[k]
      PROVE  W[j] = V[s] \/ j = s
  <2>1. V[k] = V[s]
    BY <1>4
  <2>2. V[j] = V[s] /\ j \in Kernels
    BY <1>4, <2>1 DEF Level
  <2> QED BY <2>2
<1>5. Down(W, F, s, V[s])
  BY <1>3, <1>4 DEF Down
<1>6. ASSUME F[s] = {} PROVE Up(W, F, s, st)
  BY <1>3, <1>6 DEF Up
<1> QED BY <1>5, <1>6

\* A connector's call begins
LEMMA OpensTrue ==
  ASSUME NEW s \in Senders, TypeOK, TrueInv(s), Alone(s)',
         NEW a \in Actors, NEW g \in Frames, Opens(a, g)
  PROVE  TrueInv(s)'
<1>1. /\ stack[a] = <<>> /\ Settles(g) /\ Destination(g.p) \in Destinations /\ g.from = g.at
      /\ a[1] = (IF g.p.kind = "ack" THEN "ack" ELSE "data") /\ a[2] = g.at
      /\ IF g.p.kind = "ack" THEN pushed' = pushed
         ELSE g.p.n = Len(pushed) + 1 /\ pushed' = Append(pushed, PushedRecord(g))
      /\ \/ g.p.kind # "data" /\ chain' = chain
         \/ g.p.kind = "ack" /\ Recorded(g)
         \/ g.p.kind = "data" /\ Recorded(g) /\ g.hash = Append(LastDataHash(g.at), g.p.n)
      /\ status' = status /\ listening' = listening
  BY DEF Opens
<1>2. \A b \in Actors : stack[b] = <<>>
  BY DEF Opens, Alone
<1>3. DataActor(s) \in Actors /\ s \in Kernels
  BY ForwardConstants DEF DataActor, Actors, Members
<1>4. ~UnderWay(s) /\ Level(Heads, Followers, s)
  BY <1>2, <1>3 DEF UnderWay, TrueInv, HeadInv
<1>5. /\ \A b \in Actors : b # a => stack'[b] = stack[b]
      /\ Len(stack'[a]) = 1 /\ stack'[a][1] = g
  BY OpensStack
<1>6. PushedRecord(g) \in PushedRecords /\ PushedRecord(g).from = g.at /\ PushedRecord(g).hash = g.hash
  BY DEF PushedRecord, PushedRecords, Frames, Packets
<1>7. pushed' = pushed \/ \E r \in PushedRecords : pushed' = Append(pushed, r)
  BY <1>1, <1>6
<1>8. CASE g.p.kind # "data"
  <2>1. /\ \A k \in Kernels : Heads'[k] = Heads[k]
        /\ \A k \in Kernels : \A r \in Rows(k)' : r \in Rows(k) \/ r.ack
    <3>1. CASE chain' = chain
      BY <3>1, HeadsKept
    <3>2. CASE g.p.kind = "ack" /\ Recorded(g)
      BY <3>2, RecordedHeads
    <3> QED BY <1>1, <1>8, <3>1, <3>2
  <2>2. ~UnderWay(s)'
    <3>1. CASE a = DataActor(s)
      BY <1>5, <1>8, <3>1 DEF UnderWay
    <3>2. CASE a # DataActor(s)
      BY <1>2, <1>3, <1>5, <3>2 DEF UnderWay
    <3> QED BY <3>1, <3>2
  <2> QED BY <1>1, <1>4, <1>7, <2>1, <2>2, OtherStep
<1>9. CASE g.p.kind = "data"
  <2>1. Len(pushed) \in Nat /\ pushed \in Seq(PushedRecords)
    BY DEF TypeOK, PushedRecords
  <2>2. PICK n \in Nat : n = Len(pushed)
    BY <2>1
  <2>3. /\ pushed' = Append(pushed, PushedRecord(g)) /\ g.p.n = n + 1
        /\ Recorded(g) /\ g.hash = Append(LastDataHash(g.at), g.p.n)
    BY <1>1, <1>9, <2>2
  <2>4. /\ Len(pushed') = n + 1 /\ pushed'[n + 1] = PushedRecord(g)
        /\ \A i \in 1 .. n : pushed'[i] = pushed[i]
    BY <1>6, <2>1, <2>2, <2>3, AppendProperties
  <2>5. g.at = s
    <3>1. n + 1 \in 1 .. Len(pushed')
      BY <2>4
    <3> QED BY <1>6, <2>4, <3>1 DEF Alone
  <2>6. a = DataActor(s)
    <3>1. \A c \in Actors : c = <<c[1], c[2]>>
      BY DEF Actors
    <3>2. a = <<a[1], a[2]>> /\ a[1] = "data" /\ a[2] = s
      BY <1>1, <1>9, <2>5, <3>1
    <3> QED BY <3>2 DEF DataActor
  <2>7. PICK V, W : V = Heads /\ W = Heads'
    OBVIOUS
  <2>8. V \in [Kernels -> Hashes] /\ W \in [Kernels -> Hashes]
    <3>1. \A k \in Kernels : Heads'[k] \in Hashes
      <4>1. \A k \in Kernels : Heads[k] \in Hashes
        BY HeadsType
      <4>2. g.hash \in Hashes
        BY DEF Frames
      <4> QED BY <1>9, <2>3, <4>1, <4>2, RecordedHeads
    <3> QED BY <2>7, <3>1, HeadsType DEF Heads
  <2>9. /\ \A k \in Kernels : W[k] = IF k = s THEN g.hash ELSE V[k]
        /\ \A j \in Kernels : \A r \in Rows(j)' :
             r \in Rows(j) \/ r.ack \/ (r.n = g.p.n /\ r.hash = g.hash)
    BY <1>9, <2>3, <2>5, <2>7, RecordedHeads
  <2>10. g.hash = Append(V[s], n + 1)
    BY <1>3, <2>3, <2>5, <2>7 DEF Heads
  <2>11. PICK F, st : F = Followers /\ st = stack'[a]
    OBVIOUS
  <2>12. /\ F = Followers' /\ \A k \in Kernels : F[k] \subseteq Kernels
         /\ \A U, E, t, x, m, o : WayInv(U, E, t, x, m, o) <=> WayInv(U, E, t, x, m, o)'
    BY <1>1, <2>11, FollowersKept DEF Followers
  <2>13. \A k \in Kernels : V[k] = <<>> \/ V[k][Len(V[k])] \in 1 .. n
    BY <2>2, <2>7 DEF TrueInv, HeadsPushed
  <2>14. Level(V, F, s)
    BY <1>4, <2>7, <2>11
  <2>15. Len(st) = 1 /\ st[1] = g
    BY <1>5, <2>11
  <2>16. Down(W, F, s, V[s]) /\ (F[s] = {} => Up(W, F, s, st))
    <3>1. \A k \in Kernels : W[k] = IF k = s THEN Append(V[s], n + 1) ELSE V[k]
      BY <2>9, <2>10
    <3>2. st[1].at = s
      BY <2>5, <2>15
    <3> QED BY <1>3, <2>8, <2>12, <2>13, <2>14, <2>15, <3>1, <3>2, FirstPushed
  <2>17. g.todo = {} => F[s] = {}
    <3>1. g.p.to \in Targets
      BY <1>1, <1>9 DEF Destination, Destinations
    <3> QED BY <1>1, <1>9, <2>5, <2>11, <3>1, NoFollowers DEF Alone
  <2>18. OnItsWay(g, n + 1, W[s])
    <3>1. g.todo # {} => Carries(g.at, g.p)
      BY <1>1 DEF Settles, Carries
    <3>2. g.hash = W[s]
      BY <1>3, <2>9
    <3> QED BY <1>9, <2>3, <3>1, <3>2 DEF OnItsWay
  <2>19. WayInv(W, F, s, st, n + 1, V[s])
    <3>1. g.pc = "forward" /\ g.from = s /\ g.at = s
      BY <1>1, <2>5 DEF Settles
    <3>2. W[s] = Append(V[s], n + 1)
      BY <1>3, <2>9, <2>10
    <3>3. IF Descending(g) THEN Down(W, F, s, V[s]) ELSE Up(W, F, s, st)
      BY <2>16, <2>17 DEF Descending
    <3> QED BY <2>15, <2>18, <3>1, <3>2, <3>3 DEF WayInv
  <2>20. UnderWay(s)' /\ pushed' # <<>> /\ pushed'[Len(pushed')].hash = W[s]
    <3>1. UnderWay(s)'
      BY <1>5, <1>9, <2>6 DEF UnderWay
    <3>2. pushed'[Len(pushed')].hash = W[s]
      BY <1>3, <1>6, <2>4, <2>9
    <3> QED BY <2>3, <2>4, <3>1, <3>2
  <2>21. HeadInv(s)'
    <3>1. WayInv(W, F, s, st, n + 1, V[s])'
      BY <2>12, <2>19
    <3>2. V[s] \in Hashes
      BY <1>3, <2>8
    <3>3. WayInv(Heads, Followers, s, stack[DataActor(s)], Len(pushed), V[s])'
      BY <2>4, <2>6, <2>7, <2>11, <2>12, <3>1
    <3> QED BY <2>7, <2>20, <3>2, <3>3 DEF HeadInv
  <2>22. RowsTrue'
    <3> SUFFICES ASSUME NEW k \in Kernels, NEW r \in Rows(k)', ~r.ack
                 PROVE  r.n \in 1 .. Len(pushed') /\ r.hash = pushed'[r.n].hash
      BY DEF RowsTrue
    <3>1. CASE r \in Rows(k)
      <4>1. r.n \in 1 .. n /\ r.hash = pushed[r.n].hash
        BY <2>2, <3>1 DEF TrueInv, RowsTrue
      <4> QED BY <2>4, <4>1
    <3>2. CASE r.n = g.p.n /\ r.hash = g.hash
      BY <1>6, <2>3, <2>4, <3>2
    <3> QED BY <2>9, <3>1, <3>2
  <2>23. HeadsPushed'
    <3> SUFFICES ASSUME NEW k \in Kernels
                 PROVE  W[k] = <<>> \/ W[k][Len(W[k])] \in 1 .. n + 1
      BY <2>4, <2>7 DEF HeadsPushed
    <3>1. CASE k = s
      <4>1. V[s] \in Seq(Numbers) /\ n + 1 \in Numbers
        <5>1. g.p.n \in Numbers
          BY DEF Frames, Packets
        <5> QED BY <1>3, <2>3, <2>8, <5>1 DEF Hashes, Numbers
      <4>2. W[s] = Append(V[s], n + 1)
        BY <1>3, <2>9, <2>10
      <4>3. Len(V[s]) \in Nat /\ Len(W[s]) = Len(V[s]) + 1 /\ W[s][Len(V[s]) + 1] = n + 1
        BY <4>1, <4>2, AppendProperties
      <4> QED BY <3>1, <4>3
    <3>2. CASE k # s
      <4>1. W[k] = V[k]
        BY <2>9, <3>2
      <4> QED BY <2>13, <4>1
    <3> QED BY <3>1, <3>2
  <2> QED BY <2>21, <2>22, <2>23 DEF TrueInv
<1>10. g.p.kind \in {"data", "end", "ack"}
  BY DEF Frames, Packets, Kinds
<1> QED BY <1>8, <1>9

\* A step of a handler that has no data packet
LEMMA OtherTop ==
  ASSUME NEW s \in Senders, NEW dist, TypeOK, DescentInv(dist), NEW a \in Actors,
         stack[a] # <<>>, Top(a).p.kind # "data",
         \A b \in Actors : b # a => stack'[b] = stack[b],
         stack'[a] = <<>> \/ stack'[a][1].p.kind = stack[a][1].p.kind
  PROVE  \/ UnderWay(s) /\ stack'[DataActor(s)] = stack[DataActor(s)]
         \/ ~UnderWay(s) /\ ~UnderWay(s)'
<1>1. DataActor(s) \in Actors
  BY DEF DataActor, Actors
<1>2. CASE a = DataActor(s)
  <2>1. stack[a][1].p.kind # "data"
    <3>1. Top(a) = stack[a][Len(stack[a])] /\ Len(stack[a]) \in 1 .. Len(stack[a])
      BY TopFrame
    <3> QED BY <3>1, OneKind
  <2> QED BY <1>2, <2>1 DEF UnderWay
<1>3. CASE a # DataActor(s)
  BY <1>1, <1>3 DEF UnderWay
<1> QED BY <1>2, <1>3

\* A step of a handler that has one: the handlers of its actor are on their way
LEMMA ThisTop ==
  ASSUME NEW s \in Senders, NEW dist, TypeOK, DescentInv(dist), SingleInv, TrueInv(s), Alone(s),
         NEW a \in Actors, stack[a] # <<>>, Top(a).p.kind = "data"
  PROVE  /\ a = DataActor(s) /\ UnderWay(s)
         /\ \A i \in 1 .. Len(stack[a]) - 1 : Settled(stack[a][i])
         /\ Top(a).p.to \in Targets /\ \A i, j \in Top(a).todo : i = j
         /\ pushed # <<>> /\ pushed[Len(pushed)].hash = Heads[s]
         /\ \E o \in Hashes : WayInv(Heads, Followers, s, stack[a], Len(pushed), o)
<1>1. /\ Top(a) = stack[a][Len(stack[a])] /\ Len(stack[a]) \in Nat \ {0}
      /\ Len(stack[a]) \in 1 .. Len(stack[a]) /\ 1 \in 1 .. Len(stack[a])
  BY TopFrame
<1>2. \A i \in 1 .. Len(stack[a]) : stack[a][i].p.kind = "data"
  BY <1>1, OneKind
<1>3. \A i \in 1 .. Len(stack[a]) : SingleFrame(a, stack[a][i], i < Len(stack[a]))
  BY DEF SingleInv
<1>4. DataFrame(a, Top(a))
  BY <1>1, <1>3 DEF SingleFrame
<1>5. a = DataActor(s)
  BY <1>4, WhoseData
<1>6. UnderWay(s)
  BY <1>1, <1>2, <1>5 DEF UnderWay
<1>7. ASSUME NEW i \in 1 .. Len(stack[a]) - 1 PROVE Settled(stack[a][i])
  <2>1. i \in 1 .. Len(stack[a]) /\ i < Len(stack[a])
    BY <1>1
  <2> QED BY <1>2, <1>3, <2>1 DEF SingleFrame
<1> QED BY <1>4, <1>5, <1>6, <1>7 DEF DataFrame, TrueInv, HeadInv

\* The packet is taken by the kernel that was called
LEMMA TakesTrue ==
  ASSUME NEW s \in Senders, NEW dist, TypeOK, DescentInv(dist), SingleInv, TrueInv(s), Alone(s),
         NEW a \in Actors, NEW g \in Frames, Takes(a, g)
  PROVE  TrueInv(s)'
<1>1. /\ stack[a] # <<>> /\ Top(a).pc = "handle"
      /\ stack' = [stack EXCEPT ![a] = Append(Front(stack[a]), g)]
      /\ Settles(g) /\ g.at = Top(a).at /\ g.from = Top(a).from
      /\ g.p.n = Top(a).p.n /\ g.p.kind = Top(a).p.kind /\ g.p.to = Top(a).p.to
      /\ g.hash = Append(LastDataHash(g.at), g.p.n) /\ status[g.at] # "none"
      /\ status' = status /\ listening' = listening /\ chain' = chain /\ pushed' = pushed
  BY DEF Takes, Destination
<1>2. PICK l \in Nat \ {0} : l = Len(stack[a])
  BY <1>1, TopReplaced
<1>3. /\ \A b \in Actors : b # a => stack'[b] = stack[b]
      /\ Len(stack'[a]) = l
      /\ \A i \in 1 .. l - 1 : stack'[a][i] = stack[a][i]
      /\ stack'[a][l] = g
  <2>1. /\ \A b \in Actors : b # a => stack'[b] = stack[b]
        /\ Len(stack'[a]) = Len(stack[a])
        /\ \A i \in 1 .. Len(stack[a]) - 1 : stack'[a][i] = stack[a][i]
        /\ stack'[a][Len(stack[a])] = g
    BY <1>1, TopReplaced
  <2> QED BY <1>2, <2>1
<1>4. Top(a) = stack[a][l] /\ l \in 1 .. l
  BY <1>1, <1>2, TopFrame
<1>5. Heads' = Heads /\ \A j \in Kernels : Rows(j)' = Rows(j)
  BY <1>1, HeadsKept
<1>6. CASE Top(a).p.kind # "data"
  <2>1. stack'[a][1].p.kind = stack[a][1].p.kind
    <3>1. CASE l = 1
      BY <1>1, <1>3, <1>4, <3>1
    <3>2. CASE l # 1
      <4>1. 1 \in 1 .. l - 1
        BY <3>2
      <4> QED BY <1>3, <4>1
    <3> QED BY <3>1, <3>2
  <2>2. \/ UnderWay(s) /\ stack'[DataActor(s)] = stack[DataActor(s)]
        \/ ~UnderWay(s) /\ ~UnderWay(s)'
    BY <1>1, <1>3, <1>6, <2>1, OtherTop
  <2> QED BY <1>1, <1>5, <2>2, OtherStep
<1>7. CASE Top(a).p.kind = "data"
  <2>1. /\ a = DataActor(s) /\ UnderWay(s) /\ Top(a).p.to \in Targets
        /\ pushed # <<>> /\ pushed[Len(pushed)].hash = Heads[s]
        /\ \E o \in Hashes : WayInv(Heads, Followers, s, stack[a], Len(pushed), o)
    BY <1>1, <1>7, ThisTop
  <2>2. PICK o \in Hashes : WayInv(Heads, Followers, s, stack[a], Len(pushed), o)
    BY <2>1
  <2>3. PICK V, F, st, su, n :
          V = Heads /\ F = Followers /\ st = stack[a] /\ su = stack'[a] /\ n = Len(pushed)
    OBVIOUS
  <2>4. WayInv(V, F, s, st, n, o) /\ Len(st) = l /\ Len(su) = l /\ su[l] = g /\ st[l] = Top(a)
    BY <1>2, <1>3, <1>4, <2>2, <2>3
  <2>5. \A i \in 1 .. l - 1 : su[i] = st[i]
    BY <1>3, <2>3
  <2>6. /\ V[s] = Append(o, n) /\ st[1].at = s /\ st[1].from = s /\ st[1].pc = "forward"
        /\ \A i \in 1 .. l : OnItsWay(st[i], n, V[s])
        /\ \A i \in 2 .. l : Behind(V, st[i], o)
        /\ \A i \in 1 .. l - 1 : F[st[i].at] \subseteq {st[i + 1].at}
        /\ Descending(st[l]) => Down(V, F, s, o)
    BY <2>4 DEF WayInv
  <2>7. l # 1 /\ l \in 2 .. l /\ 1 \in 1 .. l - 1
    <3>1. l # 1
      BY <1>1, <2>4, <2>6
    <3> QED BY <3>1
  <2>8. V[g.at] = o /\ g.at # g.from
    BY <1>1, <2>4, <2>6, <2>7 DEF Behind
  <2>9. OnItsWay(g, n, V[s]) /\ Behind(V, g, o)
    <3>1. g.at \in Kernels
      BY DEF Frames
    <3>2. g.p.n = n
      BY <1>1, <1>4, <2>4, <2>6 DEF OnItsWay
    <3>3. g.hash = V[s]
      BY <1>1, <2>3, <2>6, <2>8, <3>1, <3>2 DEF Heads
    <3>4. g.todo # {} => Carries(g.at, g.p)
      BY <1>1 DEF Settles, Carries
    <3> QED BY <1>1, <1>7, <2>8, <3>2, <3>3, <3>4 DEF OnItsWay, Behind
  <2>10. Down(V, F, s, o)
    BY <1>1, <2>4, <2>6 DEF Descending
  <2>11. g.todo = {} => F[g.at] = {}
    BY <1>1, <1>7, <2>1, <2>3, NoFollowers DEF Alone
  <2>12. ASSUME g.todo = {} PROVE Up(V, F, s, su)
    <3> SUFFICES ASSUME NEW k \in Kernels, V[k] = V[s] \/ k = g.at,
                        \A i \in 1 .. l - 1 : su[i].at # k
                 PROVE  k = g.at
      BY <2>4, <2>11, <2>12 DEF Up
    <3>1. k # s
      BY <2>5, <2>6, <2>7
    <3> QED BY <2>10, <3>1 DEF Down
  <2>13. WayInv(V, F, s, su, n, o)
    <3>1. su[1] = st[1]
      BY <2>5, <2>7
    <3>2. \A i \in 1 .. l : su[i] = IF i = l THEN g ELSE st[i]
      BY <2>4, <2>5
    <3>3. \A i \in 1 .. l : OnItsWay(su[i], n, V[s])
      BY <2>6, <2>9, <3>2
    <3>4. \A i \in 2 .. l : Behind(V, su[i], o)
      BY <2>6, <2>9, <3>2
    <3>5. \A i \in 1 .. l : su[i].at = st[i].at
      BY <1>1, <2>4, <3>2
    <3>6. ASSUME NEW i \in 1 .. l - 1 PROVE F[su[i].at] \subseteq {su[i + 1].at}
      <4>1. i \in 1 .. l /\ i + 1 \in 1 .. l
        OBVIOUS
      <4> QED BY <2>6, <3>5, <4>1
    <3>7. IF Descending(g) THEN Down(V, F, s, o) ELSE Up(V, F, s, su)
      BY <2>10, <2>12 DEF Descending
    <3> QED BY <2>4, <2>6, <3>1, <3>3, <3>4, <3>6, <3>7 DEF WayInv
  <2>14. WayInv(Heads, Followers, s, stack[DataActor(s)], Len(pushed), o)'
    <3>1. /\ V = Heads' /\ F = Followers' /\ su = stack'[DataActor(s)] /\ n = Len(pushed')
      BY <1>1, <1>5, <2>1, <2>3, FollowersKept
    <3>2. WayInv(V, F, s, su, n, o)'
      BY <1>1, <2>13, FollowersKept
    <3> QED BY <3>1, <3>2
  <2>15. UnderWay(s)'
    <3>1. stack'[a] # <<>> /\ stack'[a][1] = stack[a][1]
      BY <1>3, <2>7
    <3> QED BY <2>1, <3>1 DEF UnderWay
  <2>16. RowsTrue' /\ HeadsPushed'
    BY <1>1, <1>5 DEF TrueInv, RowsTrue, HeadsPushed
  <2> QED BY <1>1, <1>5, <2>1, <2>14, <2>15, <2>16 DEF TrueInv, HeadInv
<1> QED BY <1>6, <1>7

\* The packet is handed on
LEMMA HandsTrue ==
  ASSUME NEW s \in Senders, NEW dist \in [Destinations -> [Kernels -> Nat]], Nearer(dist), OneWay,
         TypeOK, DescentInv(dist), SingleInv, TrueInv(s), Alone(s), Alone(s)', NEW a \in Actors,
         NEW rk \in Kernels, NEW g \in Frames, NEW c \in Frames, Hands(a, rk, g, c)
  PROVE  TrueInv(s)'
<1>1. /\ stack[a] # <<>> /\ Top(a).pc = "forward" /\ rk \in Top(a).todo
      /\ g.at = Top(a).at /\ g.from = Top(a).from /\ g.p = Top(a).p /\ g.hash = Top(a).hash
      /\ g.pc = "forward" /\ g.todo = Top(a).todo \ {rk}
      /\ c.at \in Towards(Top(a).at, rk) /\ c.from = Top(a).at /\ c.p = Top(a).p
      /\ c.pc = "handle" /\ c.todo = {}
      /\ status' = status /\ listening' = listening /\ chain' = chain /\ pushed' = pushed
  BY DEF Hands
<1>2. stack' = [stack EXCEPT ![a] = Append(Append(Front(stack[a]), g), c)]
  <2>1. faults = 0 /\ faults' = 0
    BY DEF Alone
  <2> QED BY <2>1 DEF Hands
<1>3. PICK l \in Nat \ {0} : l = Len(stack[a])
  BY <1>1, TopFrame
<1>4. Top(a) = stack[a][l] /\ Top(a) \in Frames /\ l \in 1 .. Len(stack[a])
  BY <1>1, <1>3, TopFrame
<1>5. /\ \A b \in Actors : b # a => stack'[b] = stack[b]
      /\ Len(stack'[a]) = l + 1
      /\ \A i \in 1 .. l - 1 : stack'[a][i] = stack[a][i]
      /\ stack'[a][l] = g /\ stack'[a][l + 1] = c
  <2>1. Stacked(a, g, c)
    BY HandsStack
  <2>2. Len(stack'[a]) = l + 1
    <3>1. Front(stack[a]) \in Seq(Frames) /\ Len(Front(stack[a])) = l - 1
      BY <1>1, <1>3, TopFrame
    <3>2. PICK u : u = Append(Front(stack[a]), g)
      OBVIOUS
    <3>3. u \in Seq(Frames) /\ Len(u) = l
      BY <3>1, <3>2, AppendProperties
    <3>4. stack'[a] = Append(u, c)
      BY <1>2, <3>2 DEF TypeOK
    <3> QED BY <3>3, <3>4, AppendProperties
  <2> QED BY <1>3, <2>1, <2>2 DEF Stacked
<1>6. Heads' = Heads /\ \A j \in Kernels : Rows(j)' = Rows(j)
  BY <1>1, HeadsKept
<1>7. stack'[a][1].p.kind = stack[a][1].p.kind
  <2>1. CASE l = 1
    BY <1>1, <1>4, <1>5, <2>1
  <2>2. CASE l # 1
    <3>1. 1 \in 1 .. l - 1
      BY <2>2
    <3> QED BY <1>5, <3>1
  <2> QED BY <2>1, <2>2
<1>8. CASE Top(a).p.kind # "data"
  <2>1. \/ UnderWay(s) /\ stack'[DataActor(s)] = stack[DataActor(s)]
        \/ ~UnderWay(s) /\ ~UnderWay(s)'
    BY <1>1, <1>5, <1>7, <1>8, OtherTop
  <2> QED BY <1>1, <1>6, <2>1, OtherStep
<1>9. CASE Top(a).p.kind = "data"
  <2>1. /\ a = DataActor(s) /\ UnderWay(s)
        /\ Top(a).p.to \in Targets /\ \A i, j \in Top(a).todo : i = j
        /\ pushed # <<>> /\ pushed[Len(pushed)].hash = Heads[s]
        /\ \E o \in Hashes : WayInv(Heads, Followers, s, stack[a], Len(pushed), o)
    BY <1>1, <1>9, ThisTop
  <2>2. PICK o \in Hashes : WayInv(Heads, Followers, s, stack[a], Len(pushed), o)
    BY <2>1
  <2>3. PICK V, F, st, su, n :
          V = Heads /\ F = Followers /\ st = stack[a] /\ su = stack'[a] /\ n = Len(pushed)
    OBVIOUS
  <2>4. PICK f \in Frames : f = Top(a) /\ f = st[l]
    BY <1>4, <2>3
  <2>5. /\ WayInv(V, F, s, st, n, o) /\ Len(st) = l /\ Len(su) = l + 1
        /\ su[l] = g /\ su[l + 1] = c /\ \A i \in 1 .. l - 1 : su[i] = st[i]
    BY <1>3, <1>5, <2>2, <2>3
  <2>6. /\ V[s] = Append(o, n) /\ st[1].at = s /\ st[1].from = s /\ st[1].pc = "forward"
        /\ \A i \in 1 .. l : OnItsWay(st[i], n, V[s])
        /\ \A i \in 2 .. l : Behind(V, st[i], o)
        /\ \A i \in 1 .. l - 1 : F[st[i].at] \subseteq {st[i + 1].at}
        /\ Descending(st[l]) => Down(V, F, s, o)
    BY <2>5 DEF WayInv
  <2>7. Down(V, F, s, o) /\ Carries(f.at, f.p) /\ g.todo = {} /\ OnItsWay(f, n, V[s])
    <3>1. f.todo # {} /\ l \in 1 .. l
      BY <1>1, <2>4
    <3>2. g.todo = {}
      BY <1>1, <2>1, <2>4
    <3>3. OnItsWay(f, n, V[s])
      BY <2>4, <2>6, <3>1
    <3> QED BY <2>4, <2>6, <3>1, <3>2, <3>3 DEF Descending, OnItsWay
  <2>8. PICK j \in Kernels, k \in Kernels, d \in Destinations :
          j = c.at /\ k = f.at /\ d = DataDestination(f.p.to) /\ d = Destination(f.p)
          /\ j \in Onwards(k, d) /\ (status[j] # "none" => j \in F[k])
    <3>1. c.at \in Kernels /\ f.at \in Kernels
      BY DEF Frames
    <3>2. Addressed(f)
      BY <1>4, <2>4 DEF DescentInv
    <3>3. f.p.kind = "data" /\ rk \in f.todo /\ c.at \in Towards(f.at, rk)
      BY <1>1, <1>9, <2>4
    <3>4. /\ c.at \in Onwards(f.at, DataDestination(f.p.to))
          /\ Destination(f.p) = DataDestination(f.p.to) /\ DataDestination(f.p.to) \in Destinations
          /\ status[c.at] # "none" => c.at \in Followers[f.at]
      BY <2>7, <3>1, <3>2, <3>3, IsFollower
    <3> QED BY <2>3, <3>1, <3>4
  <2>9. dist[d][j] \in Nat /\ dist[d][k] \in Nat /\ dist[d][s] \in Nat /\ dist[d][j] < dist[d][k]
    <3>1. s \in Kernels
      BY ForwardConstants DEF Members
    <3> QED BY <2>8, <3>1 DEF Nearer
  <2>10. j # k
    BY <2>9
  <2>11. j # s
    <3>1. CASE l = 1
      BY <2>4, <2>6, <2>8, <2>10, <3>1
    <3>2. CASE l # 1
      <4>1. 1 \in 1 .. Len(stack[a]) /\ l \in 1 .. Len(stack[a]) /\ 1 < l
        <5>1. 1 \in 1 .. l /\ l \in 1 .. l /\ 1 < l
          BY <3>2
        <5> QED BY <1>3, <5>1
      <4>2. StackDescends(dist, stack[a])
        BY DEF DescentInv
      <4>3. dist[d][k] < dist[d][s]
        BY <2>3, <2>4, <2>6, <2>8, <4>1, <4>2 DEF StackDescends
      <4>4. ~(dist[d][s] < dist[d][k])
        BY <2>9, <4>3
      <4> QED BY <2>9, <4>4
    <3> QED BY <3>1, <3>2
  <2>12. Behind(V, c, o)
    <3>1. ASSUME status[j] # "none" PROVE V[j] = o
      <4>1. V[k] = o \/ k = s
        <5>1. CASE l = 1
          BY <2>4, <2>6, <2>8, <5>1
        <5>2. CASE l # 1
          <6>1. l \in 2 .. l
            BY <5>2
          <6> QED BY <1>1, <2>4, <2>6, <2>8, <6>1 DEF Behind
        <5> QED BY <5>1, <5>2
      <4>2. V[j] = o \/ j = s
        BY <2>7, <2>8, <3>1, <4>1 DEF Down
      <4> QED BY <2>11, <4>2
    <3> QED BY <1>1, <2>4, <2>8, <2>10, <3>1 DEF Behind
  <2>13. F[k] \subseteq {j}
    <3>1. f.p.to \in Targets
      BY <2>1, <2>4
    <3> QED BY <2>3, <2>8, <3>1, OneFollower DEF Alone
  <2>14. WayInv(V, F, s, su, n, o)
    <3>1. \A i \in 1 .. l + 1 : su[i] = IF i = l + 1 THEN c ELSE IF i = l THEN g ELSE st[i]
      BY <2>5
    <3>2. OnItsWay(g, n, V[s]) /\ OnItsWay(c, n, V[s])
      BY <1>1, <2>4, <2>7 DEF OnItsWay
    <3>3. \A i \in 1 .. l + 1 : OnItsWay(su[i], n, V[s])
      BY <2>6, <3>1, <3>2
    <3>4. l # 1 => Behind(V, g, o)
      <4> SUFFICES ASSUME l # 1 PROVE Behind(V, g, o)
        OBVIOUS
      <4>1. l \in 2 .. l
        OBVIOUS
      <4>2. Behind(V, f, o)
        BY <2>4, <2>6, <4>1
      <4> QED BY <1>1, <2>4, <4>2 DEF Behind
    <3>5. \A i \in 2 .. l + 1 : Behind(V, su[i], o)
      <4>1. ASSUME NEW i \in 2 .. l + 1 PROVE Behind(V, su[i], o)
        <5>1. CASE i = l + 1
          BY <2>5, <2>12, <5>1
        <5>2. CASE i = l
          BY <2>5, <3>4, <5>2
        <5>3. CASE i # l /\ i # l + 1
          <6>1. i \in 2 .. l /\ i \in 1 .. l - 1
            BY <5>3
          <6> QED BY <2>5, <2>6, <6>1
        <5> QED BY <5>1, <5>2, <5>3
      <4> QED BY <4>1
    <3>6. (\A i \in 1 .. l : su[i].at = st[i].at) /\ su[l + 1].at = j
      BY <1>1, <2>4, <2>5, <2>8, <3>1
    <3>7. ASSUME NEW i \in 1 .. l PROVE F[su[i].at] \subseteq {su[i + 1].at}
      <4>1. CASE i = l
        BY <2>4, <2>8, <2>13, <3>6, <4>1
      <4>2. CASE i # l
        <5>1. i \in 1 .. l - 1 /\ i + 1 \in 1 .. l
          BY <4>2
        <5> QED BY <2>6, <3>6, <5>1
      <4> QED BY <4>1, <4>2
    <3>8. su[1].at = s /\ su[1].from = s /\ su[1].pc = "forward"
      <4>1. CASE l = 1
        BY <1>1, <2>4, <2>5, <2>6, <4>1
      <4>2. CASE l # 1
        <5>1. 1 \in 1 .. l - 1
          BY <4>2
        <5> QED BY <2>5, <2>6, <5>1
      <4> QED BY <4>1, <4>2
    <3>9. Descending(su[l + 1])
      BY <1>1, <2>5 DEF Descending
    <3>10. l + 1 - 1 = l
      OBVIOUS
    <3> QED BY <2>5, <2>6, <2>7, <3>3, <3>5, <3>7, <3>8, <3>9, <3>10 DEF WayInv
  <2>15. WayInv(Heads, Followers, s, stack[DataActor(s)], Len(pushed), o)'
    <3>1. /\ V = Heads' /\ F = Followers' /\ su = stack'[DataActor(s)] /\ n = Len(pushed')
      BY <1>1, <1>6, <2>1, <2>3, FollowersKept
    <3>2. WayInv(V, F, s, su, n, o)'
      BY <1>1, <2>14, FollowersKept
    <3> QED BY <3>1, <3>2
  <2>16. UnderWay(s)'
    <3>1. stack'[a] # <<>>
      BY <1>5
    <3> QED BY <1>7, <2>1, <3>1 DEF UnderWay
  <2>17. RowsTrue' /\ HeadsPushed'
    BY <1>1, <1>6 DEF TrueInv, RowsTrue, HeadsPushed
  <2> QED BY <1>1, <1>6, <2>1, <2>15, <2>16, <2>17 DEF TrueInv, HeadInv
<1> QED BY <1>8, <1>9

\* The last of the handlers st has written its row, and those of su remain
Rewound(V, W, F, s, st, su, l) ==
  /\ V \in [Kernels -> Hashes] /\ W \in [Kernels -> Hashes]
  /\ s \in Kernels /\ \A k \in Kernels : F[k] \subseteq Kernels
  /\ l \in Nat \ {0, 1} /\ st \in Seq(Frames) /\ su \in Seq(Frames)
  /\ Len(st) = l /\ Len(su) = l - 1 /\ \A i \in 1 .. l - 1 : su[i] = st[i]
  /\ \A i, j \in 1 .. l : i # j => st[i].at # st[j].at
  /\ st[l].at # s /\ \A k \in Kernels : W[k] = IF k = st[l].at THEN V[s] ELSE V[k]
  /\ F[st[l - 1].at] \subseteq {st[l].at}
  /\ Up(V, F, s, st)

\* The last handler of a packet returns
LEMMA UpAgain ==
  ASSUME NEW V, NEW W, NEW F, NEW s, NEW st, NEW su, NEW l, Rewound(V, W, F, s, st, su, l)
  PROVE  Up(W, F, s, su)
<1>0. /\ V \in [Kernels -> Hashes] /\ W \in [Kernels -> Hashes]
      /\ s \in Kernels /\ \A k \in Kernels : F[k] \subseteq Kernels
      /\ l \in Nat \ {0, 1} /\ st \in Seq(Frames) /\ su \in Seq(Frames)
      /\ Len(st) = l /\ Len(su) = l - 1 /\ \A i \in 1 .. l - 1 : su[i] = st[i]
      /\ \A i, j \in 1 .. l : i # j => st[i].at # st[j].at
      /\ st[l].at # s /\ \A k \in Kernels : W[k] = IF k = st[l].at THEN V[s] ELSE V[k]
      /\ F[st[l - 1].at] \subseteq {st[l].at}
      /\ Up(V, F, s, st)
  BY DEF Rewound
<1> USE <1>0
<1> SUFFICES ASSUME NEW k \in Kernels, W[k] = W[s] \/ k = st[l - 1].at,
                    \A i \in 1 .. l - 1 - 1 : su[i].at # k, NEW j \in F[k]
             PROVE  W[j] = W[s]
  <2>1. l - 1 \in 1 .. l - 1 /\ su[l - 1] = st[l - 1]
    OBVIOUS
  <2> QED BY <2>1 DEF Up
<1>1. st[l].at \in Kernels /\ W[st[l].at] = V[s] /\ W[s] = V[s] /\ l \in 1 .. l
  <2>1. l \in 1 .. l
    OBVIOUS
  <2>2. st[l] \in Frames
    BY <2>1
  <2> QED BY <2>1, <2>2 DEF Frames
<1>2. CASE k = st[l - 1].at
  BY <1>1, <1>2
<1>3. CASE k # st[l - 1].at
  <2>1. V[k] = V[s] \/ k = st[l].at
    BY <1>1, <1>3
  <2>2. ASSUME NEW i \in 1 .. l - 1 PROVE st[i].at # k
    <3>1. CASE i = l - 1
      BY <1>3, <3>1
    <3>2. CASE i # l - 1
      <4>1. i \in 1 .. l - 1 - 1
        BY <3>2
      <4> QED BY <4>1
    <3> QED BY <3>1, <3>2
  <2>3. V[j] = V[s] /\ j \in Kernels
    BY <2>1, <2>2 DEF Up
  <2> QED BY <1>1, <2>3
<1> QED BY <1>2, <1>3

\* A handler of a data packet returns
LEMMA DataLeaves ==
  ASSUME NEW s \in Senders, NEW dist \in [Destinations -> [Kernels -> Nat]], TypeOK,
         NoCircularForwarding, DescentInv(dist), SingleInv, TrueInv(s), Alone(s),
         NEW a \in Actors, Leaves(a), Top(a).p.kind = "data"
  PROVE  TrueInv(s)'
<1>1. /\ stack[a] # <<>> /\ status' = status /\ listening' = listening /\ pushed' = pushed
      /\ \/ Top(a).pc = "handle" /\ status[Top(a).at] = "none" /\ chain' = chain
         \/ /\ Top(a).pc = "forward" /\ Top(a).todo = {}
            /\ Top(a).at = Top(a).from \/ Recorded(Top(a))
            /\ chain' = chain \/ (Top(a).at # Top(a).from /\ Recorded(Top(a)))
  BY DEF Leaves
<1>2. /\ a = DataActor(s) /\ UnderWay(s)
      /\ \A i \in 1 .. Len(stack[a]) - 1 : Settled(stack[a][i])
      /\ pushed # <<>> /\ pushed[Len(pushed)].hash = Heads[s]
      /\ \E o \in Hashes : WayInv(Heads, Followers, s, stack[a], Len(pushed), o)
  BY <1>1, ThisTop
<1>3. PICK o \in Hashes : WayInv(Heads, Followers, s, stack[a], Len(pushed), o)
  BY <1>2
<1>4. PICK V, W, F, st, su, n, f :
        /\ V = Heads /\ W = Heads' /\ F = Followers /\ st = stack[a] /\ su = stack'[a]
        /\ n = Len(pushed) /\ f = Top(a)
  OBVIOUS
<1>5. PICK l \in Nat \ {0} : l = Len(st)
  BY <1>1, <1>4, TopFrame
<1>6. /\ Len(su) = l - 1 /\ \A i \in 1 .. l - 1 : su[i] = st[i]
      /\ f = st[l] /\ f \in Frames /\ st \in Seq(Frames) /\ n \in Nat \ {0}
  <2>1. /\ Len(stack'[a]) = Len(stack[a]) - 1
        /\ \A i \in 1 .. Len(stack[a]) - 1 : stack'[a][i] = stack[a][i]
    BY LeavesStack
  <2>2. Top(a) = stack[a][Len(stack[a])] /\ Top(a) \in Frames /\ stack[a] \in Seq(Frames)
    BY <1>1, TopFrame DEF TypeOK
  <2>3. Len(pushed) \in Nat \ {0}
    BY <1>2 DEF TypeOK
  <2> QED BY <1>4, <1>5, <2>1, <2>2, <2>3
<1>7. /\ V[s] = Append(o, n) /\ st[1].at = s /\ st[1].from = s /\ st[1].pc = "forward"
      /\ \A i \in 1 .. l : OnItsWay(st[i], n, V[s])
      /\ \A i \in 2 .. l : Behind(V, st[i], o)
      /\ \A i \in 1 .. l - 1 : F[st[i].at] \subseteq {st[i + 1].at}
      /\ IF Descending(f) THEN Down(V, F, s, o) ELSE Up(V, F, s, st)
  BY <1>3, <1>4, <1>5, <1>6 DEF WayInv
<1>8. /\ F = Followers' /\ s \in Kernels /\ \A k \in Kernels : F[k] \subseteq Kernels
      /\ \A k \in Kernels : \A j \in F[k] : status[j] # "none"
      /\ \A U, E, t, x, m, p : WayInv(U, E, t, x, m, p) <=> WayInv(U, E, t, x, m, p)'
  BY <1>1, <1>4, FollowersKept, ForwardConstants DEF Followers, Members
<1>9. /\ \A i \in 1 .. l : st[i] \in Frames /\ st[i].at \in Kernels
      /\ \A i, j \in 1 .. l : i # j => st[i].at # st[j].at
  <2>1. \A i \in 1 .. l : st[i] \in Frames
    BY <1>5, <1>6
  <2>2. DOMAIN stack[a] = 1 .. l
    BY <1>4, <1>5, <1>6
  <2>3. \A i, j \in 1 .. l : i # j => st[i].at # st[j].at
    BY <1>4, <2>2 DEF NoCircularForwarding
  <2> QED BY <2>1, <2>3 DEF Frames
<1>10. ASSUME l # 1, W = V \/ W = [V EXCEPT ![f.at] = V[s]], f.at # s, Up(W, F, s, su),
              W[s] = V[s], RowsTrue', HeadsPushed'
       PROVE  TrueInv(s)'
  <2>1. su[1] = st[1] /\ 1 \in 1 .. l - 1 /\ l - 1 \in 1 .. l - 1
    BY <1>6, <1>10
  <2>2. ~Descending(su[l - 1])
    BY <1>2, <1>4, <1>5, <1>6, <2>1 DEF Settled, Descending
  <2>3. ASSUME NEW i \in 2 .. l - 1 PROVE Behind(W, su[i], o)
    <3>1. i \in 2 .. l /\ i \in 1 .. l /\ i # l /\ l \in 1 .. l /\ su[i] = st[i]
      BY <1>6
    <3>2. st[i].at # f.at /\ st[i].at \in Kernels
      BY <1>6, <1>9, <3>1
    <3>3. Heads \in [Kernels -> Hashes]
      BY HeadsType
    <3>4. W[st[i].at] = V[st[i].at]
      BY <1>4, <1>10, <3>2, <3>3
    <3> QED BY <1>7, <3>1, <3>4 DEF Behind
  <2>4. \A i \in 1 .. l - 1 : OnItsWay(su[i], n, W[s])
    BY <1>6, <1>7, <1>10
  <2>5. ASSUME NEW i \in 1 .. l - 1 - 1 PROVE F[su[i].at] \subseteq {su[i + 1].at}
    <3>1. i \in 1 .. l - 1 /\ i + 1 \in 1 .. l - 1
      OBVIOUS
    <3> QED BY <1>6, <1>7, <3>1
  <2>6. WayInv(W, F, s, su, n, o)
    BY <1>6, <1>7, <1>10, <2>1, <2>2, <2>3, <2>4, <2>5 DEF WayInv
  <2>7. WayInv(Heads, Followers, s, stack[DataActor(s)], Len(pushed), o)'
    <3>1. /\ W = Heads' /\ F = Followers' /\ su = stack'[DataActor(s)] /\ n = Len(pushed')
      BY <1>1, <1>2, <1>4, <1>8
    <3>2. WayInv(W, F, s, su, n, o)'
      BY <1>8, <2>6
    <3> QED BY <3>1, <3>2
  <2>8. UnderWay(s)'
    <3>1. stack'[a] # <<>> /\ stack'[a][1] = stack[a][1]
      BY <1>4, <1>6, <2>1
    <3> QED BY <1>2, <3>1 DEF UnderWay
  <2>9. pushed' # <<>> /\ pushed'[Len(pushed')].hash = Heads'[s]
    BY <1>1, <1>2, <1>4, <1>10
  <2> QED BY <1>10, <2>7, <2>8, <2>9 DEF TrueInv, HeadInv
<1>11. chain' = chain => W = V /\ RowsTrue' /\ HeadsPushed'
  BY <1>1, <1>4, HeadsKept DEF TrueInv, RowsTrue, HeadsPushed
<1>12. CASE f.pc = "handle"
  <2>1. status[f.at] = "none" /\ chain' = chain /\ l # 1 /\ Down(V, F, s, o)
    BY <1>1, <1>4, <1>6, <1>7, <1>12 DEF Descending
  <2>2. f.at # s
    <3>1. 1 \in 1 .. l /\ l \in 1 .. l
      OBVIOUS
    <3> QED BY <1>6, <1>7, <1>9, <2>1, <3>1
  <2>3. l - 1 \in 1 .. l - 1 /\ 1 \in 1 .. l - 1 /\ l - 1 + 1 = l /\ l - 1 \in 1 .. l
    BY <2>1
  <2>4. F[st[l - 1].at] = {}
    <3>1. F[st[l - 1].at] \subseteq {f.at}
      BY <1>6, <1>7, <2>3
    <3>2. st[l - 1].at \in Kernels
      BY <1>9, <2>3
    <3> QED BY <1>8, <2>1, <3>1, <3>2
  <2>5. Up(V, F, s, su)
    <3> SUFFICES ASSUME NEW k \in Kernels, V[k] = V[s] \/ k = st[l - 1].at,
                        \A i \in 1 .. l - 1 - 1 : su[i].at # k
                 PROVE  k = st[l - 1].at
      <4>1. su[l - 1] = st[l - 1]
        BY <1>6, <2>3
      <4> QED BY <1>6, <2>4, <4>1 DEF Up
    <3>1. CASE k = s
      <4>1. ~(1 \in 1 .. l - 1 - 1)
        BY <1>6, <1>7, <2>3, <3>1
      <4>2. l - 1 = 1
        BY <2>1, <4>1
      <4> QED BY <1>7, <3>1, <4>2
    <3>2. CASE k # s
      BY <2>1, <3>2 DEF Down
    <3> QED BY <3>1, <3>2
  <2> QED BY <1>10, <1>11, <2>1, <2>2, <2>5
<1>13. CASE f.pc = "forward"
  <2>1. /\ f.todo = {} /\ (f.at = f.from \/ Recorded(f))
        /\ chain' = chain \/ (f.at # f.from /\ Recorded(f))
    BY <1>1, <1>4, <1>13
  <2>2. Up(V, F, s, st)
    BY <1>7, <1>13, <2>1 DEF Descending
  <2>3. CASE l = 1
    <3>1. f.at = s /\ f.from = s
      BY <1>6, <1>7, <2>3
    <3>2. chain' = chain
      BY <2>1, <3>1
    <3>3. ~UnderWay(s)'
      <4>1. su = <<>>
        <5>1. su \in Seq(Frames)
          <6>1. Front(stack[a]) \in Seq(Frames) /\ stack' = [stack EXCEPT ![a] = Front(stack[a])]
            BY <1>1, TopFrame DEF Leaves
          <6> QED BY <1>4, <6>1 DEF TypeOK
        <5> QED BY <1>6, <2>3, <5>1
      <4> QED BY <1>2, <1>4, <4>1 DEF UnderWay
    <3>4. Level(V, F, s)
      BY <1>5, <2>2, <2>3 DEF Up, Level
    <3>5. Level(Heads, Followers, s)'
      <4>1. V = Heads' /\ F = Followers'
        BY <1>4, <1>8, <1>11, <3>2
      <4>2. Level(V, F, s)'
        BY <3>4 DEF Level
      <4> QED BY <4>1, <4>2
    <3> QED BY <1>11, <3>2, <3>3, <3>5 DEF TrueInv, HeadInv
  <2>4. CASE l # 1
    <3>1. l \in 2 .. l /\ l \in 1 .. l /\ l - 1 \in 1 .. l - 1 /\ l - 1 + 1 = l /\ l \in Nat \ {0, 1}
      BY <2>4
    <3>2. Behind(V, f, o) /\ OnItsWay(f, n, V[s])
      BY <1>6, <1>7, <3>1
    <3>3. /\ f.at # f.from /\ V[f.at] = o /\ Recorded(f) /\ f.hash = V[s]
          /\ f.p.kind = "data" /\ f.p.n = n
      BY <1>13, <2>1, <3>2 DEF Behind, OnItsWay
    <3>4. f.at \in Kernels /\ V \in [Kernels -> Hashes]
      BY <1>4, <1>6, HeadsType DEF Frames
    <3>5. f.at # s
      <4>1. o \in Seq(Numbers) /\ n \in Numbers
        BY <1>6, <3>3 DEF Hashes, Numbers, Frames, Packets
      <4>2. Len(o) \in Nat /\ Len(V[s]) = Len(o) + 1
        BY <1>7, <4>1, AppendProperties
      <4> QED BY <3>3, <4>2
    <3>6. /\ \A j \in Kernels : W[j] = IF j = f.at THEN V[s] ELSE V[j]
          /\ \A j \in Kernels : \A r \in Rows(j)' :
               r \in Rows(j) \/ r.ack \/ (r.n = n /\ r.hash = V[s])
      BY <1>4, <1>6, <3>3, RecordedHeads
    <3>7. W \in [Kernels -> Hashes] /\ W = [V EXCEPT ![f.at] = V[s]] /\ W[s] = V[s]
      <4>1. W = [j \in Kernels |-> W[j]]
        BY <1>4 DEF Heads
      <4>2. \A j \in Kernels : W[j] \in Hashes
        BY <1>8, <3>4, <3>6
      <4> QED BY <1>8, <3>4, <3>5, <3>6, <4>1, <4>2
    <3>8. Up(W, F, s, su)
      <4>1. su \in Seq(Frames)
        <5>1. Front(stack[a]) \in Seq(Frames) /\ stack' = [stack EXCEPT ![a] = Front(stack[a])]
          BY <1>1, TopFrame DEF Leaves
        <5> QED BY <1>4, <5>1 DEF TypeOK
      <4>2. \A i, j \in 1 .. l : i # j => st[i].at # st[j].at
        BY <1>9
      <4>3. F[st[l - 1].at] \subseteq {st[l].at}
        BY <1>7, <3>1
      <4>4. st[l].at # s /\ \A k \in Kernels : W[k] = IF k = st[l].at THEN V[s] ELSE V[k]
        BY <1>6, <3>5, <3>6
      <4>5. Len(st) = l /\ Len(su) = l - 1 /\ st \in Seq(Frames) /\ \A i \in 1 .. l - 1 : su[i] = st[i]
        BY <1>5, <1>6
      <4>6. /\ V \in [Kernels -> Hashes] /\ W \in [Kernels -> Hashes] /\ l \in Nat \ {0, 1}
            /\ s \in Kernels /\ \A k \in Kernels : F[k] \subseteq Kernels
        BY <1>8, <3>1, <3>4, <3>7
      <4>7. Rewound(V, W, F, s, st, su, l)
        BY <2>2, <4>1, <4>2, <4>3, <4>4, <4>5, <4>6 DEF Rewound
      <4> QED BY <4>7, UpAgain
    <3>9. RowsTrue'
      <4> SUFFICES ASSUME NEW k \in Kernels, NEW r \in Rows(k)', ~r.ack
                   PROVE  r.n \in 1 .. Len(pushed') /\ r.hash = pushed'[r.n].hash
        BY DEF RowsTrue
      <4>1. CASE r \in Rows(k)
        BY <1>1, <4>1 DEF TrueInv, RowsTrue
      <4>2. CASE r.n = n /\ r.hash = V[s]
        <5>1. n \in 1 .. n
          BY <1>6
        <5> QED BY <1>1, <1>2, <1>4, <4>2, <5>1
      <4> QED BY <3>6, <4>1, <4>2
    <3>10. HeadsPushed'
      <4>1. \A k \in Kernels : V[k] = <<>> \/ V[k][Len(V[k])] \in 1 .. n
        BY <1>4 DEF TrueInv, HeadsPushed
      <4>2. \A k \in Kernels : W[k] = <<>> \/ W[k][Len(W[k])] \in 1 .. n
        BY <1>8, <3>6, <4>1
      <4> QED BY <1>1, <1>4, <4>2 DEF HeadsPushed
    <3> QED BY <1>10, <2>4, <3>5, <3>7, <3>8, <3>9, <3>10
  <2> QED BY <2>3, <2>4
<1>14. f.pc \in {"handle", "forward"}
  BY <1>6 DEF Frames
<1> QED BY <1>12, <1>13, <1>14

\* A handler of another packet returns
LEMMA LeavesTrue ==
  ASSUME NEW s \in Senders, NEW dist \in [Destinations -> [Kernels -> Nat]], TypeOK,
         NoCircularForwarding, DescentInv(dist), SingleInv, TrueInv(s), Alone(s),
         NEW a \in Actors, Leaves(a)
  PROVE  TrueInv(s)'
<1>1. CASE Top(a).p.kind = "data"
  BY <1>1, DataLeaves
<1>2. CASE Top(a).p.kind # "data"
  <2>1. /\ stack[a] # <<>> /\ status' = status /\ listening' = listening /\ pushed' = pushed
        /\ chain' = chain \/ (Top(a).p.kind # "end" /\ Recorded(Top(a)))
    BY DEF Leaves
  <2>2. /\ \A b \in Actors : b # a => stack'[b] = stack[b]
        /\ Len(stack[a]) \in Nat \ {0} /\ Len(stack'[a]) = Len(stack[a]) - 1
        /\ \A i \in 1 .. Len(stack[a]) - 1 : stack'[a][i] = stack[a][i]
    BY LeavesStack
  <2>3. Top(a) \in Frames /\ Front(stack[a]) \in Seq(Frames)
    BY <2>1, TopFrame
  <2>4. /\ \A k \in Kernels : Heads'[k] = Heads[k]
        /\ \A k \in Kernels : \A r \in Rows(k)' : r \in Rows(k) \/ r.ack
    <3>1. CASE chain' = chain
      BY <3>1, HeadsKept
    <3>2. CASE Top(a).p.kind # "end" /\ Recorded(Top(a))
      <4>1. PICK f \in Frames : f = Top(a)
        BY <2>3
      <4> QED BY <1>2, <3>2, <4>1, RecordedHeads
    <3> QED BY <2>1, <3>1, <3>2
  <2>5. stack'[a] = <<>> \/ stack'[a][1].p.kind = stack[a][1].p.kind
    <3>1. CASE Len(stack[a]) = 1
      <4>1. stack'[a] = Front(stack[a])
        BY DEF Leaves, TypeOK
      <4>2. stack'[a] \in Seq(Frames) /\ Len(stack'[a]) = 0
        BY <2>2, <2>3, <3>1, <4>1
      <4> QED BY <4>2
    <3>2. CASE Len(stack[a]) # 1
      <4>1. PICK l \in Nat \ {0, 1} : l = Len(stack[a])
        BY <2>2, <3>2
      <4>2. 1 \in 1 .. l - 1
        OBVIOUS
      <4> QED BY <2>2, <4>1, <4>2
    <3> QED BY <3>1, <3>2
  <2>6. \/ UnderWay(s) /\ stack'[DataActor(s)] = stack[DataActor(s)]
        \/ ~UnderWay(s) /\ ~UnderWay(s)'
    BY <1>2, <2>1, <2>2, <2>5, OtherTop
  <2> QED BY <2>1, <2>4, <2>6, OtherStep
<1> QED BY <1>1, <1>2

\* The hashes of all kernels stay in step
LEMMA StepHashes ==
  ASSUME NEW dist \in [Destinations -> [Kernels -> Nat]], Nearer(dist), OneWay,
         TypeOK, SignedInv, NoCircularForwarding, DescentInv(dist), SingleInv, HashInv, [Next]_vars
  PROVE  HashInv'
<1>1. pushed' = pushed \/ \E r \in PushedRecords : pushed' = Append(pushed, r)
  <2>1. \A g \in Frames : PushedRecord(g) \in PushedRecords
    BY DEF PushedRecord, PushedRecords, Frames, Packets
  <2> QED BY <2>1, StepMoves DEF Opens, Takes, Hands, Leaves, Quiet
<1>2. /\ 1 .. Len(pushed) \subseteq 1 .. Len(pushed')
      /\ \A n \in 1 .. Len(pushed) : pushed'[n] = pushed[n]
  BY <1>1, PushedKept
<1>3. ASSUME NEW i \in 1 .. Len(pushed') PROVE pushed'[i].from \in Senders
  <2>1. CASE pushed' = pushed
    BY <1>3, <2>1 DEF HashInv
  <2>2. CASE \E a \in Actors, g \in Frames :
               Opens(a, g) /\ g.p.kind # "ack" /\ pushed' = Append(pushed, PushedRecord(g))
    <3>1. PICK a \in Actors, g \in Frames :
            Opens(a, g) /\ g.p.kind # "ack" /\ pushed' = Append(pushed, PushedRecord(g))
      BY <2>2
    <3>2. PushedRecord(g) \in PushedRecords /\ PushedRecord(g).from = g.at
      BY DEF PushedRecord, PushedRecords, Frames, Packets
    <3>3. g.at \in Senders
      <4>1. a[1] = "data" /\ a[2] = g.at
        BY <3>1 DEF Opens
      <4>2. a \in {"data"} \X Senders
        BY <4>1 DEF Actors
      <4> QED BY <4>1, <4>2
    <3>4. pushed \in Seq(PushedRecords) /\ Len(pushed) \in Nat
      BY DEF TypeOK, PushedRecords
    <3>5. /\ Len(pushed') = Len(pushed) + 1 /\ pushed'[Len(pushed) + 1] = PushedRecord(g)
          /\ \A n \in 1 .. Len(pushed) : pushed'[n] = pushed[n]
      BY <3>1, <3>2, <3>4, AppendProperties
    <3>6. i \in 1 .. Len(pushed) \/ i = Len(pushed) + 1
      BY <3>4, <3>5
    <3> QED BY <3>2, <3>3, <3>5, <3>6 DEF HashInv
  <2> QED BY <2>1, <2>2, StepMoves DEF Opens, Takes, Hands, Leaves, Quiet
<1>4. ASSUME NEW s \in Senders, Alone(s)' PROVE TrueInv(s)'
  <2>1. Alone(s)
    <3>1. faults \in Nat /\ (faults' = faults \/ faults' = faults + 1) /\ (overlapped => overlapped')
      <4>1. faults \in Nat /\ overlapped \in BOOLEAN
        BY DEF TypeOK
      <4> QED BY <4>1, StepMoves DEF Opens, Takes, Hands, Leaves, Quiet
    <3>2. faults = 0 /\ ~overlapped
      BY <1>4, <3>1 DEF Alone
    <3> QED BY <1>2, <1>4, <3>2 DEF Alone
  <2>2. TrueInv(s)
    BY <2>1 DEF HashInv, TrueInv
  <2>3. CASE \E a \in Actors, g \in Frames : Opens(a, g)
    BY <1>4, <2>2, <2>3, OpensTrue
  <2>4. CASE \E a \in Actors, g \in Frames : Takes(a, g)
    BY <2>1, <2>2, <2>4, TakesTrue
  <2>5. CASE \E a \in Actors, rk \in Kernels, g \in Frames, c \in Frames : Hands(a, rk, g, c)
    BY <1>4, <2>1, <2>2, <2>5, HandsTrue
  <2>6. CASE \E a \in Actors : Leaves(a)
    BY <2>1, <2>2, <2>6, LeavesTrue
  <2>7. CASE Quiet
    <3>1. /\ chain' = chain /\ stack' = stack /\ pushed' = pushed
          /\ status' = status /\ listening' = listening
      <4>1. faults = 0 /\ faults' = 0
        BY <1>4, <2>1 DEF Alone
      <4> QED BY <2>7, <4>1 DEF Quiet
    <3>2. Heads' = Heads /\ \A k \in Kernels : Rows(k)' = Rows(k)
      BY <3>1, HeadsKept
    <3>3. \/ UnderWay(s) /\ stack'[DataActor(s)] = stack[DataActor(s)] /\ pushed' = pushed
          \/ ~UnderWay(s) /\ ~UnderWay(s)'
      BY <3>1 DEF UnderWay
    <3> QED BY <2>2, <3>1, <3>2, <3>3, OtherStep
  <2> QED BY <2>3, <2>4, <2>5, <2>6, <2>7, StepMoves
<1> QED BY <1>3, <1>4 DEF HashInv, TrueInv

\* Before the first packet
LEMMA InitHashes ==
  ASSUME Init
  PROVE  HashInv
<1>1. /\ pushed = <<>> /\ (\A a \in Actors : stack[a] = <<>>) /\ \A k \in Kernels : chain[k] = <<>>
  BY DEF Init
<1>2. \A k \in Kernels : Rows(k) = {} /\ LastDataHash(k) = <<>>
  BY <1>1 DEF Rows, Range, LastDataHash
<1>3. \A k \in Kernels : Heads[k] = <<>>
  BY <1>2 DEF Heads
<1>4. RowsTrue /\ HeadsPushed
  BY <1>2, <1>3 DEF RowsTrue, HeadsPushed
<1>5. ASSUME NEW s \in Senders PROVE HeadInv(s)
  <2>1. s \in Kernels /\ DataActor(s) \in Actors
    BY ForwardConstants DEF DataActor, Actors, Members
  <2>2. ~UnderWay(s)
    BY <1>1, <2>1 DEF UnderWay
  <2>3. \A k \in Kernels : Followers[k] \subseteq Kernels
    BY DEF Followers
  <2>4. Level(Heads, Followers, s)
    BY <1>3, <2>1, <2>3 DEF Level
  <2> QED BY <2>2, <2>4 DEF HeadInv
<1> QED BY <1>1, <1>4, <1>5 DEF HashInv

\* THEOREM.  What the kernels have recorded of a packet agrees, for any number of kernels and
\* packets, if data and acknowledgements come ever nearer their destinations, a data packet has
\* one kernel to go to and one way there, and acknowledgements are handed back the same way: the
\* acknowledgement has been signed by the kernels the packet took, in the opposite order, whatever
\* fails, and as long as nothing fails and no two packets overlap every kernel has computed the
\* hash of the sender's (LastDataHash and KernelSign in ForwardData, GetPreviousHop)
THEOREM RecordsAgree ==
  ASSUME NEW dist \in [Destinations -> [Kernels -> Nat]], Nearer(dist), OneTarget, OneWay, WayBack
  PROVE  Spec => []RowsAgree
<1> DEFINE I == TypeOK /\ SignedInv /\ DescentInv(dist) /\ SingleInv /\ HashInv
<1>1. Spec => []NoCircularForwarding
  BY ForwardingEnds
<1>2. Spec => []AckRetracesData
  BY AcksRetraceData
<1>3. Init => I
  <2> SUFFICES ASSUME Init PROVE I
    OBVIOUS
  <2>1. TypeOK /\ SignedInv
    BY InitForward
  <2>2. (\A a \in Actors : Len(stack[a]) = 0) /\ \A k \in ReceiverKernels : got[k] = <<>>
    BY DEF Init
  <2>3. \A k \in ReceiverKernels : IsInjective(got[k]) /\ Range(got[k]) = {}
    BY <2>2 DEF IsInjective, Range
  <2>4. SingleInv
    BY <2>2, <2>3 DEF SingleInv, Queued, DeliveredOnce
  <2>5. DescentInv(dist)
    BY <2>2 DEF DescentInv, StackDescends
  <2> QED BY <2>1, <2>4, <2>5, InitHashes
<1>4. I /\ NoCircularForwarding /\ [Next]_vars => I'
  <2> SUFFICES ASSUME I, NoCircularForwarding, [Next]_vars PROVE I'
    OBVIOUS
  <2>1. TypeOK' /\ SignedInv'
    BY StepKinds, StepSigned
  <2>2. DescentInv(dist)' /\ SingleInv'
    BY <2>1, StepDescends, StepSingle
  <2>3. HashInv'
    BY StepHashes
  <2> QED BY <2>1, <2>2, <2>3
<1>5. I => HashesAgree
  <2> SUFFICES ASSUME I, ~overlapped, faults = 0, \A t, u \in Targets : t = u,
                      \A i, j \in DOMAIN pushed : pushed[i].from = pushed[j].from,
                      NEW k \in Kernels, NEW r \in Rows(k), ~r.ack
               PROVE  r.hash = pushed[r.n].hash
    BY DEF HashesAgree
  <2>1. DOMAIN pushed = 1 .. Len(pushed) /\ Len(pushed) \in Nat
    BY DEF TypeOK
  <2>2. \E s \in Senders : \A i \in 1 .. Len(pushed) : pushed[i].from = s
    <3>1. CASE Len(pushed) = 0
      <4>1. Senders # {}
        <5>1. SenderKernels # <<>> /\ SenderKernels \in Seq(Kernels)
          BY ForwardConstants
        <5>2. 1 \in DOMAIN SenderKernels
          BY <5>1
        <5> QED BY <5>2 DEF Senders, Range
      <4> QED BY <3>1, <4>1
    <3>2. CASE Len(pushed) # 0
      <4>1. 1 \in 1 .. Len(pushed)
        BY <2>1, <3>2
      <4>2. pushed[1].from \in Senders
        BY <4>1 DEF HashInv
      <4> QED BY <2>1, <4>1, <4>2
    <3> QED BY <3>1, <3>2
  <2>3. PICK s \in Senders : \A i \in 1 .. Len(pushed) : pushed[i].from = s
    BY <2>2
  <2>4. Alone(s)
    BY <2>3 DEF Alone
  <2> QED BY <2>4 DEF HashInv, RowsTrue
<1> HIDE DEF I
<1>6. AckRetracesData /\ HashesAgree => RowsAgree
  BY DEF RowsAgree
<1> QED BY <1>1, <1>2, <1>3, <1>4, <1>5, <1>6, PTL DEF Spec

-----------------------------------------------------------------------------
(* One route that leads past all kernels *)

\* The only enabled route of every kernel leads past all of them, from the kernel of the first
\* sender to that of the receivers
StraightRoute(path) ==
  /\ path \in Seq(Kernels) /\ Len(path) > 1 /\ IsInjective(path) /\ Range(path) = Kernels
  /\ SenderKernels[1] = path[1] /\ ReceiverKernels = {path[Len(path)]}
  /\ \A k \in Kernels :
       /\ \E c \in Routes[k] : c.enabled
       /\ \A c \in Routes[k] : c.enabled => c.hops = Along(path)

\* The place of kernel k on the path
Place(path, k) == CHOOSE i \in 1 .. Len(path) : path[i] = k

\* How far the kernels on the route are from the receivers, or from the sender
Distance(path) ==
  [d \in Destinations |->
     [k \in Kernels |-> IF d.kind = "ack" THEN Place(path, k) - 1 ELSE Len(path) - Place(path, k)]]

\* The smallest of one number
LEMMA MinOfOne ==
  ASSUME NEW i \in Nat
  PROVE  Min({i}) = i
<1>1. Min({i}) \in {i}
  BY MinIsMember
<1> QED BY <1>1

\* A route of kernels: each has one place on it
LEMMA RoutePlaces ==
  ASSUME NEW path, StraightRoute(path)
  PROVE  /\ Len(path) \in Nat /\ Len(path) > 1
         /\ \A i \in 1 .. Len(path) : path[i] \in Kernels /\ path[i] # NoKernel
         /\ \A i, j \in 1 .. Len(path) : path[i] = path[j] => i = j
         /\ \A k \in Kernels : \E i \in 1 .. Len(path) : k = path[i]
         /\ \A i \in 1 .. Len(path) : Place(path, path[i]) = i
         /\ DOMAIN Along(path) = 1 .. Len(path) - 1 /\ Len(Along(path)) = Len(path) - 1
         /\ \A i \in 1 .. Len(path) - 1 :
              Along(path)[i].from = path[i] /\ Along(path)[i].to = path[i + 1]
<1>1. path \in Seq(Kernels) /\ Len(path) \in Nat /\ Len(path) > 1 /\ DOMAIN path = 1 .. Len(path)
  BY DEF StraightRoute
<1>2. \A i \in 1 .. Len(path) : path[i] \in Kernels /\ path[i] # NoKernel
  BY <1>1, ForwardConstants
<1>3. \A i, j \in 1 .. Len(path) : path[i] = path[j] => i = j
  BY <1>1 DEF StraightRoute, IsInjective
<1>4. \A k \in Kernels : \E i \in 1 .. Len(path) : k = path[i]
  BY <1>1 DEF StraightRoute, Range
<1>5. ASSUME NEW i \in 1 .. Len(path) PROVE Place(path, path[i]) = i
  <2>1. \E j \in 1 .. Len(path) : path[j] = path[i]
    OBVIOUS
  <2>2. Place(path, path[i]) \in 1 .. Len(path) /\ path[Place(path, path[i])] = path[i]
    BY <2>1 DEF Place
  <2> QED BY <1>3, <2>2
<1>6. /\ DOMAIN Along(path) = 1 .. Len(path) - 1
      /\ \A i \in 1 .. Len(path) - 1 :
           Along(path)[i].from = path[i] /\ Along(path)[i].to = path[i + 1]
  BY DEF Along
<1>7. Len(Along(path)) = Len(path) - 1
  BY <1>1, <1>6 DEF Along
<1> QED BY <1>1, <1>2, <1>3, <1>4, <1>5, <1>6, <1>7

\* The next hop towards the end of the route, or back
LEMMA NextOnRoute ==
  ASSUME NEW path, StraightRoute(path), NEW i \in 1 .. Len(path)
  PROVE  /\ i < Len(path) => Towards(path[i], path[Len(path)]) = {path[i + 1]}
         /\ i > 1 => Towards(path[i], path[i - 1]) = {path[i - 1]}
<1>1. PICK m \in Nat : m = Len(path) /\ m > 1
  BY RoutePlaces
<1>2. PICK hops : hops = Along(path)
  OBVIOUS
<1>3. /\ \A j \in 1 .. m : path[j] \in Kernels /\ path[j] # NoKernel
      /\ \A j, x \in 1 .. m : path[j] = path[x] => j = x
      /\ DOMAIN hops = 1 .. m - 1 /\ Len(hops) = m - 1
      /\ \A j \in 1 .. m - 1 : hops[j].from = path[j] /\ hops[j].to = path[j + 1]
  BY <1>1, <1>2, RoutePlaces
<1>4. PICK k \in Kernels : k = path[i]
  BY <1>1, <1>3
<1>5. /\ \E c \in Routes[k] : c.enabled
      /\ \A c \in Routes[k] : c.enabled => c.hops = hops
  BY <1>2, <1>4 DEF StraightRoute
<1>6. ASSUME i < m PROVE Towards(k, path[m]) = {path[i + 1]}
  <2>1. i \in 1 .. m - 1 /\ i + 1 \in 1 .. m /\ m - 1 \in i .. m - 1 /\ m \in 1 .. m /\ m - 1 + 1 = m
    BY <1>1, <1>6
  <2>2. ASSUME NEW c \in Routes[k], c.enabled PROVE Onward(c, k, path[m]) = {i}
    <3>1. c.hops = hops
      BY <1>5, <2>2
    <3>2. ASSUME NEW x \in 1 .. m - 1, hops[x].from = k PROVE x = i
      <4>1. x \in 1 .. m
        BY <1>1
      <4> QED BY <1>1, <1>3, <1>4, <3>2, <4>1
    <3>3. hops[i].from = k /\ hops[m - 1].to = path[m] /\ i \in DOMAIN hops
      <4>1. m - 1 \in 1 .. m - 1
        BY <1>1
      <4> QED BY <1>3, <1>4, <2>1, <4>1
    <3>4. \E j \in i .. Len(hops) : hops[j].to = path[m]
      BY <1>3, <2>1, <3>3
    <3> QED BY <1>3, <3>1, <3>2, <3>3, <3>4 DEF Onward
  <2>3. k # path[m]
    BY <1>1, <1>3, <1>4, <1>6, <2>1
  <2>4. ASSUME NEW c \in Routes[k], c.enabled
        PROVE  c.hops[Min(Onward(c, k, path[m]))].to = path[i + 1]
    <3>1. Min(Onward(c, k, path[m])) = i
      BY <1>1, <2>2, <2>4, MinOfOne
    <3> QED BY <1>3, <1>5, <2>1, <2>4, <3>1
  <2>5. NextHops(Routes[k], k, path[m]) = {path[i + 1]}
    BY <1>5, <2>2, <2>3, <2>4 DEF NextHops
  <2>6. PICK j : j = path[i + 1]
    OBVIOUS
  <2>7. j # NoKernel
    BY <1>3, <2>1, <2>6
  <2>8. {IF x = NoKernel THEN path[m] ELSE x : x \in {j}} = {j}
    BY <2>7
  <2>9. NextHops(Routes[k], k, path[m]) = {j} /\ {j} # {}
    BY <2>5, <2>6
  <2>10. Towards(k, path[m]) = {j}
    BY <2>8, <2>9, Zenon DEF Towards
  <2> QED BY <2>6, <2>10
<1>7. ASSUME i > 1 PROVE Towards(k, path[i - 1]) = {path[i - 1]}
  <2>1. ASSUME NEW c \in Routes[k], c.enabled PROVE Onward(c, k, path[i - 1]) = {}
    <3>1. c.hops = hops
      BY <1>5, <2>1
    <3> SUFFICES ASSUME NEW x \in 1 .. m - 1, hops[x].from = k, NEW j \in x .. m - 1,
                        hops[j].to = path[i - 1]
                 PROVE  FALSE
      BY <1>3, <3>1 DEF Onward
    <3>2. x \in 1 .. m /\ j \in 1 .. m - 1 /\ j + 1 \in 1 .. m /\ i - 1 \in 1 .. m
      BY <1>1, <1>7
    <3>3. x = i
      BY <1>1, <1>3, <1>4, <3>2
    <3>4. path[j + 1] = path[i - 1]
      BY <1>3, <3>2
    <3>5. j + 1 = i - 1
      BY <1>3, <3>2, <3>4
    <3> QED BY <3>2, <3>3, <3>5
  <2>2. NextHops(Routes[k], k, path[i - 1]) = {}
    BY <2>1 DEF NextHops
  <2> QED BY <2>2 DEF Towards
<1> QED BY <1>1, <1>4, <1>6, <1>7

\* The hop before on the route; none at its first two kernels
LEMMA BackOnRoute ==
  ASSUME NEW path, StraightRoute(path), NEW i \in 1 .. Len(path)
  PROVE  Back(path[i]) = IF i > 2 THEN {path[i - 1]} ELSE {}
<1>1. PICK m \in Nat : m = Len(path) /\ m > 1
  BY RoutePlaces
<1>2. PICK hops : hops = Along(path)
  OBVIOUS
<1>3. /\ \A j \in 1 .. m : path[j] \in Kernels /\ path[j] # NoKernel
      /\ \A j, x \in 1 .. m : path[j] = path[x] => j = x
      /\ DOMAIN hops = 1 .. m - 1
      /\ \A j \in 1 .. m - 1 : hops[j].from = path[j] /\ hops[j].to = path[j + 1]
  BY <1>1, <1>2, RoutePlaces
<1>4. PICK k \in Kernels : k = path[i]
  BY <1>1, <1>3
<1>5. /\ \E c \in Routes[k] : c.enabled
      /\ \A c \in Routes[k] : c.enabled => c.hops = hops
  BY <1>2, <1>4 DEF StraightRoute
<1>6. ASSUME NEW c \in Routes[k], c.enabled, NEW x \in 1 .. m - 1, hops[x].to = k PROVE x + 1 = i
  <2>1. x + 1 \in 1 .. m
    BY <1>1
  <2> QED BY <1>1, <1>3, <1>4, <1>6, <2>1
<1>7. CASE i = 1
  <2>1. ASSUME NEW c \in Routes[k], c.enabled PROVE Arriving(c, k) = {}
    <3>1. \A x \in 1 .. m - 1 : hops[x].to # k
      BY <1>6, <1>7, <2>1
    <3> QED BY <1>3, <1>5, <2>1, <3>1 DEF Arriving
  <2>2. PreviousHops(Routes[k], k) = {}
    BY <2>1 DEF PreviousHops
  <2> QED BY <1>4, <1>7, <2>2 DEF Back
<1>8. CASE i > 1
  <2>1. i - 1 \in 1 .. m - 1 /\ i - 1 + 1 = i /\ i - 1 \in Nat
    BY <1>1, <1>8
  <2>2. ASSUME NEW c \in Routes[k], c.enabled PROVE Arriving(c, k) = {i - 1} /\ c.hops = hops
    <3>1. c.hops = hops
      BY <1>5, <2>2
    <3>2. \A x \in 1 .. m - 1 : hops[x].to = k => x = i - 1
      BY <1>6, <2>2
    <3>3. hops[i - 1].to = k
      BY <1>3, <1>4, <2>1
    <3> QED BY <1>3, <2>1, <3>1, <3>2, <3>3 DEF Arriving
  <2>3. Min({i - 1}) = i - 1
    BY <2>1, MinOfOne
  <2>4. PICK h : h = IF i - 1 > 1 THEN hops[i - 1 - 1].to ELSE NoKernel
    OBVIOUS
  <2>5. PreviousHops(Routes[k], k) = {h}
    <3>1. ASSUME NEW c \in Routes[k], c.enabled
          PROVE  /\ Arriving(c, k) # {}
                 /\ (IF Min(Arriving(c, k)) > 1 THEN c.hops[Min(Arriving(c, k)) - 1].to
                     ELSE NoKernel) = h
      BY <2>2, <2>3, <2>4, <3>1
    <3> QED BY <1>5, <3>1, Zenon DEF PreviousHops
  <2>6. CASE i > 2
    <3>1. i - 1 - 1 \in 1 .. m - 1 /\ i - 1 - 1 + 1 = i - 1 /\ i - 1 \in 1 .. m /\ i - 1 > 1 /\ i # i - 1
      BY <1>1, <2>6
    <3>2. h = path[i - 1]
      BY <1>3, <2>4, <3>1
    <3>3. h # NoKernel /\ h # k
      BY <1>1, <1>3, <1>4, <3>1, <3>2
    <3> QED BY <1>4, <2>5, <2>6, <3>2, <3>3 DEF Back
  <2>7. CASE ~(i > 2)
    <3>1. h = NoKernel
      BY <1>8, <2>4, <2>7
    <3> QED BY <1>4, <2>5, <2>7, <3>1 DEF Back
  <2> QED BY <2>6, <2>7
<1> QED BY <1>1, <1>7, <1>8

\* Where packets go on such a route
LEMMA OnRoute ==
  ASSUME NEW path, StraightRoute(path), NEW i \in 1 .. Len(path), NEW d \in Destinations
  PROVE  Onwards(path[i], d) =
           IF d.kind = "ack" THEN IF i > 1 THEN {path[i - 1]} ELSE {}
           ELSE IF i < Len(path) THEN {path[i + 1]} ELSE {}
<1>1. PICK m \in Nat : m = Len(path) /\ m > 1
  BY RoutePlaces
<1>2. /\ \A j \in 1 .. m : path[j] \in Kernels /\ path[j] # NoKernel
      /\ \A j, x \in 1 .. m : path[j] = path[x] => j = x
  BY <1>1, RoutePlaces
<1>3. SenderKernels[1] = path[1] /\ ReceiverKernels = {path[m]} /\ 1 \in 1 .. m /\ m \in 1 .. m
  BY <1>1 DEF StraightRoute
<1>4. CASE d.kind = "ack"
  <2>1. d.to = path[1]
    BY <1>3, <1>4 DEF Destinations
  <2>2. CASE i = 1
    <3>1. Legs(path[i], d) = {{path[1]}}
      BY <1>2, <1>3, <1>4, <2>1, <2>2 DEF Legs
    <3> QED BY <1>4, <2>2, <3>1 DEF Onwards
  <2>3. CASE i > 1
    <3>1. i - 1 \in 1 .. m /\ i # i - 1 /\ i # 1
      BY <1>1, <2>3
    <3>2. path[i] # path[1] /\ path[i] # path[i - 1] /\ path[1] # NoKernel
      BY <1>1, <1>2, <1>3, <3>1
    <3>3. Back(path[i]) = IF i > 2 THEN {path[i - 1]} ELSE {}
      BY BackOnRoute
    <3>4. Legs(path[i], d) = {{path[i - 1]}}
      <4>1. CASE i > 2
        BY <1>4, <2>1, <3>2, <3>3, <4>1 DEF Legs
      <4>2. CASE ~(i > 2)
        <5>1. i - 1 = 1
          BY <2>3, <4>2
        <5> QED BY <1>4, <2>1, <3>2, <3>3, <4>2, <5>1 DEF Legs
      <4> QED BY <4>1, <4>2
    <3>5. Onwards(path[i], d) = Towards(path[i], path[i - 1])
      BY <3>2, <3>4 DEF Onwards
    <3> QED BY <1>4, <2>3, <3>5, NextOnRoute
  <2> QED BY <1>1, <2>2, <2>3
<1>5. CASE d.kind # "ack"
  <2>1. d.to \in {path[m], NoKernel}
    BY <1>3, <1>5, ForwardConstants DEF Destinations
  <2>2. Legs(path[i], d) = {{path[m]}}
    BY <1>2, <1>3, <1>5, <2>1 DEF Legs
  <2>3. CASE i = m
    BY <1>1, <1>5, <2>2, <2>3 DEF Onwards
  <2>4. CASE i # m
    <3>1. i < m
      BY <1>1, <2>4
    <3>2. path[i] # path[m]
      BY <1>1, <1>2, <1>3, <2>4
    <3>3. Onwards(path[i], d) = Towards(path[i], path[m])
      BY <2>2, <3>2 DEF Onwards
    <3> QED BY <1>1, <1>5, <3>1, <3>3, NextOnRoute
  <2> QED BY <2>3, <2>4
<1> QED BY <1>4, <1>5

\* Such a route meets the conditions of the theorems on forwarding
LEMMA RouteLeads ==
  ASSUME NEW path, StraightRoute(path)
  PROVE  /\ Distance(path) \in [Destinations -> [Kernels -> Nat]]
         /\ Nearer(Distance(path)) /\ OneTarget /\ OneWay /\ WayBack
<1>1. PICK m \in Nat : m = Len(path) /\ m > 1
  BY RoutePlaces
<1>2. /\ \A k \in Kernels : \E i \in 1 .. m : k = path[i]
      /\ \A i \in 1 .. m : path[i] \in Kernels /\ Place(path, path[i]) = i
  BY <1>1, RoutePlaces
<1>3. \A k \in Kernels : Place(path, k) \in 1 .. m
  BY <1>2
<1>4. ASSUME NEW d \in Destinations, NEW k \in Kernels
      PROVE  /\ Distance(path)[d][k] =
                  IF d.kind = "ack" THEN Place(path, k) - 1 ELSE m - Place(path, k)
             /\ Distance(path)[d][k] \in Nat
  BY <1>1, <1>3 DEF Distance
<1>5. Distance(path) \in [Destinations -> [Kernels -> Nat]]
  <2>1. ASSUME NEW d \in Destinations, NEW k \in Kernels
        PROVE  (IF d.kind = "ack" THEN Place(path, k) - 1 ELSE Len(path) - Place(path, k)) \in Nat
    BY <1>1, <1>3
  <2> QED BY <2>1 DEF Distance
<1>6. ASSUME NEW d \in Destinations, NEW i \in 1 .. m
      PROVE  Onwards(path[i], d) =
               IF d.kind = "ack" THEN IF i > 1 THEN {path[i - 1]} ELSE {}
               ELSE IF i < m THEN {path[i + 1]} ELSE {}
  BY <1>1, OnRoute
<1>7. Nearer(Distance(path))
  <2> SUFFICES ASSUME NEW d \in Destinations, NEW k \in Kernels, NEW j \in Onwards(k, d)
               PROVE  Distance(path)[d][j] < Distance(path)[d][k]
    BY DEF Nearer
  <2>1. PICK i \in 1 .. m : k = path[i]
    BY <1>2
  <2>2. CASE d.kind = "ack"
    <3>1. i > 1 /\ j = path[i - 1]
      BY <1>6, <2>1, <2>2
    <3>2. i - 1 \in 1 .. m
      BY <1>1, <3>1
    <3>3. Place(path, j) = i - 1 /\ Place(path, k) = i /\ j \in Kernels
      BY <1>2, <2>1, <3>1, <3>2
    <3>4. Distance(path)[d][j] = i - 1 - 1 /\ Distance(path)[d][k] = i - 1
      BY <1>4, <2>2, <3>3
    <3> QED BY <3>4
  <2>3. CASE d.kind # "ack"
    <3>1. i < m /\ j = path[i + 1]
      BY <1>6, <2>1, <2>3
    <3>2. i + 1 \in 1 .. m
      BY <1>1, <3>1
    <3>3. Place(path, j) = i + 1 /\ Place(path, k) = i /\ j \in Kernels
      BY <1>2, <2>1, <3>1, <3>2
    <3>4. Distance(path)[d][j] = m - (i + 1) /\ Distance(path)[d][k] = m - i
      BY <1>4, <2>3, <3>3
    <3> QED BY <1>1, <3>4
  <2> QED BY <2>2, <2>3
<1>8. \A to \in Targets : DataDestination(to) \in Destinations /\ DataDestination(to).kind # "ack"
  BY DEF DataDestination, Destinations
<1>9. AckDestination \in Destinations /\ AckDestination.kind = "ack"
  BY DEF AckDestination, Destinations
<1>10. OneTarget
  BY DEF OneTarget, StraightRoute
<1>11. OneWay
  <2> SUFFICES ASSUME NEW to \in Targets, NEW k \in Kernels
               PROVE  \A i, j \in Onwards(k, DataDestination(to)) : i = j
    BY DEF OneWay
  <2>1. PICK i \in 1 .. m : k = path[i]
    BY <1>2
  <2>2. Onwards(k, DataDestination(to)) = IF i < m THEN {path[i + 1]} ELSE {}
    BY <1>6, <1>8, <2>1
  <2> QED BY <2>2
<1>12. WayBack
  <2> SUFFICES ASSUME NEW to \in Targets, NEW k \in Kernels, NEW j \in Kernels,
                      j \in Onwards(k, DataDestination(to))
               PROVE  Onwards(j, AckDestination) \subseteq {k}
    BY DEF WayBack
  <2>1. PICK i \in 1 .. m : k = path[i]
    BY <1>2
  <2>2. i < m /\ j = path[i + 1]
    <3>1. Onwards(k, DataDestination(to)) = IF i < m THEN {path[i + 1]} ELSE {}
      BY <1>6, <1>8, <2>1
    <3> QED BY <3>1
  <2>3. i + 1 \in 1 .. m /\ i + 1 > 1 /\ i + 1 - 1 = i
    BY <1>1, <2>2
  <2>4. PICK x \in 1 .. m : x = i + 1 /\ x > 1 /\ x - 1 = i
    BY <2>3
  <2>5. Onwards(path[x], AckDestination) = {path[x - 1]}
    BY <1>6, <1>9, <2>4
  <2> QED BY <2>1, <2>2, <2>4, <2>5
<1> QED BY <1>5, <1>7, <1>10, <1>11, <1>12

\* THEOREM.  Along one route past any number of kernels, from the sender's to the receivers',
\* nothing circulates, a packet is handed over at most once, and what the kernels have recorded
\* of it agrees, whatever fails where those properties allow it: the conditions of the theorems
\* before are met by the routes that set-up leaves behind (GetNextHop, GetPreviousHop)
THEOREM StraightRoutesAreSound ==
  ASSUME NEW path, StraightRoute(path)
  PROVE  Spec => [](NoCircularForwarding /\ DeliveredOnce /\ RowsAgree)
<1>1. /\ Distance(path) \in [Destinations -> [Kernels -> Nat]]
      /\ Nearer(Distance(path)) /\ OneTarget /\ OneWay /\ WayBack
  BY RouteLeads
<1>2. PICK dist \in [Destinations -> [Kernels -> Nat]] : Nearer(dist)
  BY <1>1
<1>3. Spec => []NoCircularForwarding
  BY <1>2, ForwardingEnds
<1>4. Spec => []DeliveredOnce
  BY <1>1, HandedOverOnce
<1>5. Spec => []RowsAgree
  BY <1>1, <1>2, RecordsAgree
<1> QED BY <1>3, <1>4, <1>5, PTL

-----------------------------------------------------------------------------
(* The routes of a kernel, and how one is set up: the invariant *)

\* The configurations that can be in memory: those that were ever read or given, enabled or not
KnownConfigs == (Range(InitialFiles) \ {NoFile}) \cup Inputs
HopLists == {c.hops : c \in KnownConfigs}
AnyConfig == [route : Names, hops : HopLists, enabled : BOOLEAN \cup {c.enabled : c \in KnownConfigs}]

\* Files and objects are such configurations, and memory and directory agree
StoreInv ==
  /\ objects \in Seq(AnyConfig)
  /\ files \in [Names -> AnyConfig \cup {NoFile}]
  /\ StoreTypeOK
  /\ StoredAsShown

\* The kernels at the ends of hops, and what a connect-route may have to dial
HopEnds == UNION {UNION {{h[i].from, h[i].to} : i \in DOMAIN h} : h \in HopLists}
AnyTarget == [num : Nat \ {0}, peer : HopEnds]

AnyMembers == {Session(c).members : c \in AnyConfig}
AnySession ==
  [route : Names, hops : SUBSET PendingHopInfo, closed : Nat, waits : BOOLEAN,
   members : AnyMembers]

\* The connect-route under way has asked for a link, and not yet recorded the hop
Recording == shell.at \in {"register", "add"}

NetShape ==
  /\ linked \subseteq Peers /\ knows \subseteq Peers /\ agreed \subseteq Peers
  /\ requests \subseteq [id : Ids, peer : Peers]
  /\ approving \subseteq [id : Ids, peer : Peers, at : {"notify", "dial"}]

HopShape ==
  /\ pendingHops \subseteq PendingHopInfo
  /\ retries \subseteq [id : Ids, hop : PendingHopInfo, at : {"dial", "settle"}]
  /\ \A r \in retries : r.id = r.hop.id

\* A name leads to a session of that name which is not complete
SessionShape ==
  /\ sessions \in Seq(AnySession)
  /\ table \in [Names -> 0 .. Len(sessions)]
  /\ \A n \in Names : table[n] # 0 => sessions[table[n]].route = n /\ sessions[table[n]].closed = 0
  /\ ClosedOnce

ShellShape ==
  /\ shell \in [at : {"idle", "connect", "register", "add"}, todo : Seq(AnyTarget),
                pending : BOOLEAN, hop : PendingHopInfo \cup {Idle.hop}]
  /\ Recording => shell.hop \in PendingHopInfo /\ shell.todo # <<>>
  /\ shell.at # "idle" => Len(sessions) > 0

\* Who was asked under which id, wherever that is kept
Asked ==
  {<<r.id, r.peer>> : r \in requests \cup approving \cup pendingHops}
    \cup {<<r.id, r.hop.peer>> : r \in retries}
    \cup {<<h.id, h.peer>> : h \in {h \in {shell.hop} : Recording}}

\* An id stands for one peer
OnePeerPerId == \A x \in Asked, y \in Asked : x[1] = y[1] => x[2] = y[2]

\* Everybody who is linked, knows this kernel, is approving its request or about to be dialled
\* again has agreed
AllAgreed ==
  /\ linked \subseteq agreed /\ knows \subseteq agreed
  /\ \A a \in approving : a.peer \in agreed
  /\ \A r \in retries : r.hop.peer \in agreed

SetupInv ==
  /\ StoreInv
  /\ NetShape /\ HopShape /\ SessionShape /\ ShellShape
  /\ failures \in 0 .. MaxFailures
  /\ IsFiniteSet(Used) /\ OnePeerPerId
  /\ AllAgreed

-----------------------------------------------------------------------------
(* The directory and the cache *)

\* SetToSeq lists a finite set without leaving anything out
LEMMA SetToSeqListsAll ==
  ASSUME NEW S, IsFiniteSet(S)
  PROVE  /\ SetToSeq(S) \in Seq(S)
         /\ \A x \in S : \E i \in DOMAIN SetToSeq(S) : SetToSeq(S)[i] = x
<1>1. PICK n \in Nat : n = Cardinality(S)
  BY FS_CardinalityType
<1>2. ExistsBijection(1 .. n, S)
  BY <1>1, FS_CardinalityType
<1>3. PICK f \in [1 .. n -> S] : IsInjective(f)
  BY <1>2 DEF ExistsBijection, Bijection, Injection
<1>4. PICK g : g = SetToSeq(S)
  OBVIOUS
<1>5. g \in [1 .. n -> S] /\ IsInjective(g)
  BY <1>1, <1>3, <1>4 DEF SetToSeq
<1>6. PICK T : T = {g[i] : i \in 1 .. n}
  OBVIOUS
<1>7. T \in SUBSET S
  BY <1>5, <1>6
<1>8. g \in Bijection(1 .. n, T)
  <2>1. g \in [1 .. n -> T]
    BY <1>5, <1>6
  <2>2. \A t \in T : \E i \in 1 .. n : g[i] = t
    BY <1>6
  <2> QED BY <1>5, <2>1, <2>2 DEF Bijection, Injection, Surjection
<1>9. Cardinality(T) = n
  <2>1. IsFiniteSet(1 .. n) /\ Cardinality(1 .. n) = n
    BY FS_Interval
  <2>2. ExistsBijection(1 .. n, T)
    BY <1>8 DEF ExistsBijection
  <2> QED BY <2>1, <2>2, FS_Bijection
<1>10. S = T
  BY <1>1, <1>7, <1>9, FS_Subset
<1>11. g \in Seq(S)
  BY <1>5
<1>12. \A x \in S : \E i \in DOMAIN g : g[i] = x
  BY <1>5, <1>6, <1>10
<1> QED BY <1>4, <1>11, <1>12

\* A hop list is a sequence
LEMMA HopListsAreSequences ==
  ASSUME NEW c \in AnyConfig
  PROVE  c.hops \in Seq(Range(c.hops))
<1>1. c.hops \in HopLists
  BY DEF AnyConfig
<1>2. PICK d \in KnownConfigs : c.hops = d.hops
  BY <1>1 DEF HopLists
<1>3. Parsed(d)
  BY StoreConstants DEF KnownConfigs
<1> QED BY <1>2, <1>3 DEF Parsed

\* What was read or given is a configuration
LEMMA KnownIsConfig == KnownConfigs \subseteq AnyConfig
<1> SUFFICES ASSUME NEW c \in KnownConfigs PROVE c \in AnyConfig
  OBVIOUS
<1>1. c = Config(c.route, c.hops, c.enabled) /\ c.route \in Names
  BY StoreConstants DEF KnownConfigs, Parsed
<1>2. c.hops \in HopLists /\ c.enabled \in {d.enabled : d \in KnownConfigs}
  BY DEF HopLists
<1>3. PICK r \in Names, h \in HopLists, e \in BOOLEAN \cup {d.enabled : d \in KnownConfigs} :
        c = Config(r, h, e)
  BY <1>1, <1>2
<1> QED BY <1>3 DEF AnyConfig, Config

\* A kernel that starts has the files in memory, each under its name
LEMMA LoadedFiles ==
  ASSUME NEW fs \in [Names -> AnyConfig \cup {NoFile}]
  PROVE  /\ Loaded(fs) \in Seq(AnyConfig)
         /\ Cached(fs) \in [Names -> 0 .. Len(Loaded(fs))]
         /\ \A n \in Names : Cached(fs)[n] # 0 => Loaded(fs)[Cached(fs)[n]] = fs[n]
<1>1. PICK S : S = {n \in Names : fs[n] # NoFile}
  OBVIOUS
<1>2. IsFiniteSet(S)
  BY <1>1, StoreConstants, FS_Subset
<1>3. PICK l : l = Listing(fs)
  OBVIOUS
<1>4. l = SetToSeq(S)
  BY <1>1, <1>3 DEF Listing
<1>5. l \in Seq(S) /\ \A x \in S : \E i \in DOMAIN l : l[i] = x
  BY <1>2, <1>4, SetToSeqListsAll
<1>6. PICK m \in Nat : m = Len(l) /\ DOMAIN l = 1 .. m
  BY <1>5
<1>7. \A i \in 1 .. m : l[i] \in Names /\ fs[l[i]] # NoFile
  BY <1>1, <1>5, <1>6
<1>8. Loaded(fs) = [i \in 1 .. m |-> fs[l[i]]]
  BY <1>3, <1>6 DEF Loaded
<1>9. Loaded(fs) \in Seq(AnyConfig) /\ Len(Loaded(fs)) = m
  <2>1. \A i \in 1 .. m : fs[l[i]] \in AnyConfig
    BY <1>7
  <2>2. [i \in 1 .. m |-> fs[l[i]]] \in [1 .. m -> AnyConfig]
    BY <2>1
  <2> QED BY <1>8, <2>2
<1>10. \A n \in Names : Cached(fs)[n] = IF fs[n] = NoFile THEN 0
                                        ELSE CHOOSE i \in 1 .. m : l[i] = n
  BY <1>3, <1>6 DEF Cached
<1>11. ASSUME NEW n \in Names, fs[n] # NoFile
       PROVE  Cached(fs)[n] \in 1 .. m /\ l[Cached(fs)[n]] = n
  <2>1. \E i \in 1 .. m : l[i] = n
    BY <1>1, <1>5, <1>6, <1>11
  <2> QED BY <2>1, <1>10, <1>11
<1>12. ASSUME NEW n \in Names PROVE Cached(fs)[n] \in 0 .. m
  BY <1>10, <1>11
<1>13. Cached(fs) \in [Names -> 0 .. m]
  BY <1>12 DEF Cached
<1>14. \A n \in Names : Cached(fs)[n] # 0 => Loaded(fs)[Cached(fs)[n]] = fs[n]
  BY <1>8, <1>10, <1>11
<1> QED BY <1>9, <1>13, <1>14

\* The store is in order when the kernel is first started, and when it is started again
LEMMA StartStoreInv == StoreInit => StoreInv
<1> SUFFICES ASSUME StoreInit PROVE StoreInv
  OBVIOUS
<1>1. files \in [Names -> AnyConfig \cup {NoFile}]
  <2>1. InitialFiles \in [Names -> Range(InitialFiles)]
    BY StoreConstants
  <2>2. Range(InitialFiles) \subseteq AnyConfig \cup {NoFile}
    BY KnownIsConfig DEF KnownConfigs
  <2> QED BY <2>1, <2>2 DEF StoreInit
<1>2. objects = Loaded(files) /\ cache = Cached(files)
  BY DEF StoreInit
<1>3. objects \in Seq(AnyConfig)
  BY <1>1, <1>2, LoadedFiles
<1>4. cache \in [Names -> 0 .. Len(objects)]
  BY <1>1, <1>2, LoadedFiles
<1>5. \A n \in Names : cache[n] # 0 => objects[cache[n]] = files[n]
  BY <1>1, <1>2, LoadedFiles
<1>6. \A n \in Names : files[n] = NoFile \/ files[n].route \in Names
  BY <1>1 DEF AnyConfig
<1>7. StoreTypeOK
  <2>1. MaxCommands \in Nat
    BY StoreConstants
  <2>2. commands \in 0 .. MaxCommands
    BY <2>1 DEF StoreInit
  <2>3. writeFailed \in BOOLEAN
    BY DEF StoreInit
  <2> QED BY <1>4, <1>6, <2>2, <2>3 DEF StoreTypeOK
<1> QED BY <1>1, <1>3, <1>5, <1>7 DEF StoreInv, StoredAsShown, LoadConfig

LEMMA ReloadStoreInv ==
  ASSUME StoreInv, Reload
  PROVE  StoreInv'
<1>1. files' \in [Names -> AnyConfig \cup {NoFile}] /\ files' = files
  BY DEF Reload, StoreInv
<1>2. objects' = Loaded(files) /\ cache' = Cached(files)
  BY DEF Reload
<1>3. objects' \in Seq(AnyConfig)
  BY <1>1, <1>2, LoadedFiles
<1>4. cache' \in [Names -> 0 .. Len(objects')]
  BY <1>1, <1>2, LoadedFiles
<1>5. \A n \in Names : cache'[n] # 0 => objects'[cache'[n]] = files'[n]
  BY <1>1, <1>2, LoadedFiles
<1>6. \A n \in Names : files'[n] = NoFile \/ files'[n].route \in Names
  BY <1>1 DEF AnyConfig
<1>7. StoreTypeOK'
  BY <1>4, <1>6 DEF StoreTypeOK, StoreInv, Reload
<1> QED BY <1>1, <1>3, <1>5, <1>7 DEF StoreInv, StoredAsShown, LoadConfig

\* Saving an object keeps file and object the same; i is the only object whose content changed
LEMMA SaveKeepsStore ==
  ASSUME StoreInv,
         NEW i \in Nat \ {0}, NEW c \in AnyConfig,
         objects' \in Seq(AnyConfig), i \in 1 .. Len(objects'), Len(objects') >= Len(objects),
         objects'[i] = c,
         \A j \in 1 .. Len(objects) : j # i => objects'[j] = objects[j],
         \A n \in Names : cache[n] = i => objects[i].route = c.route,
         Command, SaveConfig(i, c)
  PROVE  StoreInv'
<1> USE DEF StoreInv
<1>1. c.route \in Names
  BY DEF AnyConfig
<1>2. /\ cache \in [Names -> 0 .. Len(objects)] /\ commands \in 0 .. MaxCommands
      /\ writeFailed \in BOOLEAN
  BY DEF StoreTypeOK
<1>3. commands' \in 0 .. MaxCommands
  <2>1. MaxCommands \in Nat
    BY StoreConstants
  <2> QED BY <1>2, <2>1 DEF Command
<1>4. Len(objects) \in Nat /\ Len(objects') \in Nat
  OBVIOUS
<1>5. ASSUME NEW n \in Names, cache[n] # 0, cache[n] # i
      PROVE  objects'[cache[n]] = objects[cache[n]]
  BY <1>2, <1>4, <1>5
<1>6. CASE Complete(c) /\ files' = [files EXCEPT ![c.route] = c]
            /\ cache' = [cache EXCEPT ![c.route] = i] /\ UNCHANGED writeFailed
  <2>1. files' \in [Names -> AnyConfig \cup {NoFile}]
    BY <1>6, <1>1
  <2>2. cache' \in [Names -> 0 .. Len(objects')]
    BY <1>6, <1>1, <1>2, <1>4
  <2>3. \A n \in Names : files'[n] = NoFile \/ files'[n].route \in Names
    BY <2>1 DEF AnyConfig
  <2>4. ASSUME ~writeFailed, NEW n \in Names, cache'[n] # 0, objects'[cache'[n]].route = n,
               Complete(objects'[cache'[n]])
        PROVE  files'[n] = objects'[cache'[n]]
    <3>1. CASE n = c.route
      BY <3>1, <1>1, <1>2, <1>6
    <3>2. CASE n # c.route
      <4>1. cache'[n] = cache[n] /\ files'[n] = files[n]
        BY <3>2, <1>1, <1>2, <1>6
      <4>2. cache[n] # i
        BY <4>1, <2>4, <3>2
      <4>3. objects'[cache[n]] = objects[cache[n]]
        BY <4>1, <4>2, <1>5, <2>4
      <4> QED BY <4>1, <4>3, <2>4 DEF StoredAsShown, LoadConfig
    <3> QED BY <3>1, <3>2
  <2>5. StoredAsShown'
    BY <2>4, <1>6 DEF StoredAsShown, LoadConfig
  <2> QED BY <2>1, <2>2, <2>3, <2>5, <1>2, <1>3, <1>6 DEF StoreTypeOK
<1>7. CASE Complete(c) /\ files' \in {files, [files EXCEPT ![c.route] = NoFile]}
            /\ writeFailed' = TRUE /\ UNCHANGED cache
  <2>1. files' \in [Names -> AnyConfig \cup {NoFile}]
    BY <1>7, <1>1
  <2>2. cache' \in [Names -> 0 .. Len(objects')]
    BY <1>7, <1>1, <1>2, <1>4
  <2>3. \A n \in Names : files'[n] = NoFile \/ files'[n].route \in Names
    BY <2>1 DEF AnyConfig
  <2>4. StoredAsShown'
    BY <1>7 DEF StoredAsShown
  <2> QED BY <2>1, <2>2, <2>3, <2>4, <1>3, <1>7 DEF StoreTypeOK
<1>8. CASE ~Complete(c) /\ UNCHANGED <<files, cache, writeFailed>>
  <2>1. cache' \in [Names -> 0 .. Len(objects')]
    BY <1>8, <1>2, <1>4
  <2>2. ASSUME ~writeFailed, NEW n \in Names, cache[n] # 0, objects'[cache[n]].route = n,
               Complete(objects'[cache[n]])
        PROVE  files[n] = objects'[cache[n]]
    <3>1. cache[n] # i
      BY <2>2, <1>8
    <3>2. objects'[cache[n]] = objects[cache[n]]
      BY <3>1, <2>2, <1>5
    <3> QED BY <3>2, <2>2 DEF StoredAsShown, LoadConfig
  <2>3. StoredAsShown'
    BY <2>2, <1>8 DEF StoredAsShown, LoadConfig
  <2> QED BY <2>1, <2>3, <1>2, <1>3, <1>8 DEF StoreTypeOK
<1> QED BY <1>6, <1>7, <1>8 DEF SaveConfig

\* The commands about routes keep the store in order
LEMMA CommandsKeepStore ==
  ASSUME StoreInv, StoreNext
  PROVE  StoreInv'
<1>1. objects \in Seq(AnyConfig) /\ cache \in [Names -> 0 .. Len(objects)]
  BY DEF StoreInv, StoreTypeOK
<1>2. ASSUME NEW c \in Inputs, LoadRoute(c) PROVE StoreInv'
  <2>1. c \in AnyConfig
    BY KnownIsConfig DEF KnownConfigs
  <2>2. PICK i : i = Len(objects')
    OBVIOUS
  <2>3. objects' = Append(objects, c) /\ Command /\ SaveConfig(i, c)
    BY <1>2, <2>2 DEF LoadRoute
  <2>4. /\ objects' \in Seq(AnyConfig) /\ Len(objects') = Len(objects) + 1
        /\ objects'[i] = c /\ i = Len(objects) + 1 /\ Len(objects) \in Nat
        /\ \A j \in 1 .. Len(objects) : objects'[j] = objects[j]
    BY <1>1, <2>1, <2>2, <2>3
  <2>5. \A n \in Names : cache[n] # i
    BY <1>1, <2>4
  <2>6. i \in Nat \ {0} /\ i \in 1 .. Len(objects') /\ Len(objects') >= Len(objects)
    BY <2>4
  <2> QED BY <2>1, <2>3, <2>4, <2>5, <2>6, SaveKeepsStore
<1>3. ASSUME NEW n \in Names, NEW b \in BOOLEAN, SetEnabled(n, b) PROVE StoreInv'
  <2>1. PICK i \in 1 .. Len(objects) : i = cache[n]
    BY <1>1, <1>3 DEF SetEnabled
  <2>2. PICK c : c = [objects[i] EXCEPT !.enabled = b]
    OBVIOUS
  <2>3. objects[i] \in AnyConfig
    BY <1>1, <2>1
  <2>4. c \in AnyConfig /\ c.route = objects[i].route
    BY <2>2, <2>3 DEF AnyConfig
  <2>5. objects' = [objects EXCEPT ![i] = c] /\ Command
    BY <1>3, <2>1, <2>2 DEF SetEnabled
  <2>6. /\ objects' \in Seq(AnyConfig) /\ Len(objects') = Len(objects) /\ Len(objects) \in Nat
        /\ objects'[i] = c
        /\ \A j \in 1 .. Len(objects) : j # i => objects'[j] = objects[j]
    BY <1>1, <2>1, <2>4, <2>5
  <2>7. SaveConfig(i, c)
    BY <1>3, <2>1, <2>6 DEF SetEnabled
  <2>8. i \in Nat \ {0} /\ i \in 1 .. Len(objects') /\ Len(objects') >= Len(objects)
    BY <2>1, <2>6
  <2> QED BY <2>4, <2>5, <2>6, <2>7, <2>8, SaveKeepsStore
<1> QED BY <1>2, <1>3 DEF StoreNext

-----------------------------------------------------------------------------
(* Ids and peers *)

\* A request gets an id that nobody has
LEMMA NewIdIsNew ==
  ASSUME IsFiniteSet(Used)
  PROVE  NewId \in Ids /\ NewId \notin Used
<1>1. PICK n \in Nat : n = Cardinality(Used)
  BY FS_CardinalityType
<1>2. PICK S : S = (1 .. n + 1) \ Used
  OBVIOUS
<1>3. S # {}
  <2> SUFFICES ASSUME S = {} PROVE FALSE
    OBVIOUS
  <2>1. (1 .. n + 1) \in SUBSET Used
    BY <1>2
  <2>2. Cardinality(1 .. n + 1) =< n
    BY <1>1, <2>1, FS_Subset
  <2>3. Cardinality(1 .. n + 1) = n + 1
    BY FS_Interval
  <2> QED BY <2>2, <2>3
<1>4. Min(S) \in S
  BY <1>2, <1>3, MinIsMember
<1>5. NewId = Min(S)
  BY <1>1, <1>2 DEF NewId
<1> QED BY <1>2, <1>4, <1>5 DEF Ids

\* The ids in use stay finitely many when one is added
LEMMA UsedStaysFinite ==
  ASSUME IsFiniteSet(Used), NEW x, Used' \subseteq Used \cup {x}
  PROVE  IsFiniteSet(Used)'
<1>1. IsFiniteSet(Used \cup {x})
  BY FS_AddElement
<1>2. Used' \in SUBSET (Used \cup {x})
  OBVIOUS
<1>3. IsFiniteSet(Used')
  BY <1>1, <1>2, FS_Subset
<1> QED BY <1>3

\* No id gets a second peer unless it is a new one
LEMMA AskedOnlyLess ==
  ASSUME OnePeerPerId, Asked' \subseteq Asked
  PROVE  OnePeerPerId'
BY DEF OnePeerPerId

LEMMA AskedOneMore ==
  ASSUME OnePeerPerId, NEW id, NEW p, Asked' \subseteq Asked \cup {<<id, p>>},
         \A x \in Asked : x[1] # id
  PROVE  OnePeerPerId'
<1> SUFFICES ASSUME NEW x \in Asked', NEW y \in Asked', x[1] = y[1] PROVE x[2] = y[2]
  BY DEF OnePeerPerId
<1>1. (x \in Asked \/ x = <<id, p>>) /\ (y \in Asked \/ y = <<id, p>>)
  OBVIOUS
<1> QED BY <1>1 DEF OnePeerPerId

\* Who is asked, of the requests, approvals, hops and retries one by one
LEMMA AskedMembers ==
  /\ \A r \in requests \cup approving \cup pendingHops : <<r.id, r.peer>> \in Asked /\ r.id \in Used
  /\ \A r \in retries : <<r.id, r.hop.peer>> \in Asked /\ r.id \in Used
  /\ Recording => <<shell.hop.id, shell.hop.peer>> \in Asked
BY DEF Asked, Used

LEMMA AskedIdIsUsed ==
  ASSUME NEW x \in Asked, ~Recording
  PROVE  x[1] \in Used
BY DEF Asked, Used

\* The store is not touched but for the number of commands
LEMMA StoreFrame ==
  ASSUME StoreInv, UNCHANGED <<files, objects, cache, writeFailed>>, commands' \in 0 .. MaxCommands
  PROVE  StoreInv'
BY DEF StoreInv, StoreTypeOK, StoredAsShown, LoadConfig

LEMMA StoreUnchanged ==
  ASSUME StoreInv, UNCHANGED storeVars
  PROVE  StoreInv'
<1>1. UNCHANGED <<files, objects, cache, writeFailed>> /\ commands' \in 0 .. MaxCommands
  BY DEF storeVars, StoreInv, StoreTypeOK
<1> QED BY <1>1, StoreFrame

\* A fault is counted, or there is none
LEMMA FailureCounts ==
  ASSUME failures \in 0 .. MaxFailures, Failure \/ UNCHANGED failures
  PROVE  failures' \in 0 .. MaxFailures
<1>1. MaxFailures \in Nat
  BY RouteConstants
<1> QED BY <1>1 DEF Failure

-----------------------------------------------------------------------------
(* The steps of a connect-route *)

\* The kernels to be dialled, of a configuration with hops
LEMMA TargetsAreTargets ==
  ASSUME NEW c \in AnyConfig, c.hops # <<>>
  PROVE  TargetsOf(c) \in Seq(AnyTarget)
<1>1. c.hops \in Seq(Range(c.hops)) /\ c.hops \in HopLists
  BY HopListsAreSequences DEF AnyConfig
<1>2. PICK h : h = c.hops
  OBVIOUS
<1>3. PICK n \in Nat \ {0} : n = Len(h) /\ DOMAIN h = 1 .. n
  BY <1>1, <1>2
<1>4. \A i \in 1 .. n : h[i].from \in HopEnds /\ h[i].to \in HopEnds
  BY <1>1, <1>2, <1>3 DEF HopEnds
<1>5. TargetsOf(c) = [i \in 1 .. n + 1 |->
         IF i = 2 THEN [num |-> 1, peer |-> h[1].from]
         ELSE [num |-> IF i = 1 THEN 1 ELSE i - 1, peer |-> h[IF i = 1 THEN 1 ELSE i - 1].to]]
  BY <1>2, <1>3 DEF TargetsOf
<1>6. ASSUME NEW i \in 1 .. n + 1 PROVE TargetsOf(c)[i] \in AnyTarget
  <2>1. CASE i = 2
    <3>1. TargetsOf(c)[i] = [num |-> 1, peer |-> h[1].from]
      BY <1>5, <2>1
    <3>2. h[1].from \in HopEnds
      BY <1>3, <1>4
    <3> QED BY <3>1, <3>2 DEF AnyTarget
  <2>2. CASE i # 2
    <3>1. PICK j \in 1 .. n : j = IF i = 1 THEN 1 ELSE i - 1
      BY <2>2, <1>3
    <3>2. TargetsOf(c)[i] = [num |-> j, peer |-> h[j].to]
      BY <1>5, <2>2, <3>1
    <3> QED BY <3>1, <3>2, <1>4 DEF AnyTarget
  <2> QED BY <2>1, <2>2
<1>7. TargetsOf(c) \in [1 .. n + 1 -> AnyTarget]
  BY <1>5, <1>6
<1> QED BY <1>7

\* Between two commands there is nothing to dial
LEMMA IdleShell ==
  ASSUME shell' = Idle
  PROVE  ShellShape'
<1>1. <<>> \in Seq(AnyTarget)
  OBVIOUS
<1>2. Idle \in [at : {"idle", "connect", "register", "add"}, todo : Seq(AnyTarget),
                pending : BOOLEAN, hop : PendingHopInfo \cup {Idle.hop}]
  BY <1>1 DEF Idle
<1>3. shell'.at = "idle"
  BY DEF Idle
<1> QED BY <1>2, <1>3 DEF ShellShape, Recording

LEMMA BeginSessionStep ==
  ASSUME SetupInv, NEW c \in AnyConfig, c.hops # <<>>, BeginSession(c)
  PROVE  SetupInv'
<1> USE DEF SetupInv
<1>1. StoreInv'
  <2>1. UNCHANGED <<files, objects, cache, writeFailed>>
    BY DEF BeginSession
  <2>2. MaxCommands \in Nat
    BY StoreConstants
  <2>3. commands' \in 0 .. MaxCommands
    BY <2>2 DEF BeginSession, Command, StoreInv, StoreTypeOK
  <2> QED BY <2>1, <2>3, StoreFrame
<1>2. NetShape' /\ HopShape' /\ AllAgreed' /\ failures' \in 0 .. MaxFailures
  BY DEF BeginSession, NetShape, HopShape, AllAgreed, netVars
<1>3. PICK s : s = Session(c)
  OBVIOUS
<1>4. s \in AnySession /\ s.route = c.route /\ s.closed = 0
  <2>1. c.route \in Names /\ Session(c).members \in AnyMembers
    BY DEF AnyConfig, AnyMembers
  <2>2. PICK m : m = UNION {{c.hops[i].from, c.hops[i].to} : i \in DOMAIN c.hops} \ {Self}
    OBVIOUS
  <2>3. s = [route |-> c.route, hops |-> {}, closed |-> 0, waits |-> FALSE, members |-> m]
    BY <1>3, <2>2 DEF Session
  <2>4. m \in AnyMembers
    BY <1>3, <2>1, <2>3
  <2>5. {} \in SUBSET PendingHopInfo /\ FALSE \in BOOLEAN /\ 0 \in Nat
    OBVIOUS
  <2> QED BY <2>1, <2>3, <2>4, <2>5 DEF AnySession
<1>5. PICK n \in Nat : n = Len(sessions)
  BY DEF SessionShape
<1>6. /\ sessions' = Append(sessions, s) /\ sessions' \in Seq(AnySession) /\ Len(sessions') = n + 1
      /\ sessions'[n + 1] = s /\ \A j \in 1 .. n : sessions'[j] = sessions[j]
  BY <1>3, <1>4, <1>5 DEF BeginSession, SessionShape
<1>7. SessionShape'
  <2>1. table' = [table EXCEPT ![c.route] = n + 1] /\ c.route \in Names
    BY <1>6 DEF BeginSession, AnyConfig
  <2>2. table \in [Names -> 0 .. n] /\ DOMAIN sessions = 1 .. n /\ DOMAIN sessions' = 1 .. n + 1
    BY <1>5, <1>6 DEF SessionShape
  <2>3. table' \in [Names -> 0 .. n + 1]
    BY <2>1, <2>2
  <2>4. ASSUME NEW m \in Names, table'[m] # 0
        PROVE  sessions'[table'[m]].route = m /\ sessions'[table'[m]].closed = 0
    <3>1. CASE m = c.route
      BY <3>1, <2>1, <2>2, <1>4, <1>6
    <3>2. CASE m # c.route
      <4>1. table'[m] = table[m] /\ table[m] \in 1 .. n
        BY <3>2, <2>1, <2>2, <2>4
      <4> QED BY <4>1, <1>6, <2>4 DEF SessionShape
    <3> QED BY <3>1, <3>2
  <2>5. ClosedOnce'
    <3> SUFFICES ASSUME NEW j \in 1 .. n + 1 PROVE sessions'[j].closed =< 1
      BY <2>2 DEF ClosedOnce
    <3>1. CASE j \in 1 .. n
      BY <3>1, <1>6, <2>2 DEF SessionShape, ClosedOnce
    <3>2. CASE j = n + 1
      BY <3>2, <1>4, <1>6
    <3> QED BY <3>1, <3>2
  <2> QED BY <1>6, <2>3, <2>4, <2>5 DEF SessionShape
<1>8. shell.at = "idle" /\ shell'.at = "connect"
  BY DEF BeginSession, Idle
<1>9. ShellShape'
  <2>1. shell' = [at |-> "connect", todo |-> TargetsOf(c), pending |-> FALSE, hop |-> Idle.hop]
    BY DEF BeginSession, Idle
  <2>2. TargetsOf(c) \in Seq(AnyTarget)
    BY TargetsAreTargets
  <2>3. Len(sessions') > 0
    BY <1>6
  <2> QED BY <2>1, <2>2, <2>3 DEF ShellShape, Recording
<1>10. Used' = Used /\ Asked' \subseteq Asked
  BY <1>8 DEF BeginSession, Used, Asked, Recording, netVars
<1>11. IsFiniteSet(Used)' /\ OnePeerPerId'
  BY <1>10, AskedOnlyLess
<1> QED BY <1>1, <1>2, <1>7, <1>9, <1>11

LEMMA SkipTargetStep ==
  ASSUME SetupInv, NEW p, SkipTarget(p)
  PROVE  SetupInv'
<1> USE DEF SetupInv
<1>1. StoreInv'
  BY StoreUnchanged DEF SkipTarget
<1>2. /\ NetShape' /\ HopShape' /\ SessionShape' /\ AllAgreed' /\ failures' \in 0 .. MaxFailures
      /\ sessions' = sessions
  BY DEF SkipTarget, NetShape, HopShape, SessionShape, ClosedOnce, AllAgreed, netVars
<1>3. shell.at = "connect" /\ shell'.at = "connect"
  BY DEF SkipTarget, Dials, NextTarget, ShellShape
<1>4. ShellShape'
  <2>1. shell.todo \in Seq(AnyTarget) /\ shell.todo # <<>>
    BY DEF SkipTarget, Dials, ShellShape
  <2>2. Tail(shell.todo) \in Seq(AnyTarget)
    BY <2>1
  <2> QED BY <2>2, <1>2, <1>3 DEF SkipTarget, NextTarget, ShellShape, Recording
<1>5. Used' = Used /\ Asked' \subseteq Asked
  BY <1>3 DEF SkipTarget, Used, Asked, Recording, netVars
<1>6. IsFiniteSet(Used)' /\ OnePeerPerId'
  BY <1>5, AskedOnlyLess
<1> QED BY <1>1, <1>2, <1>4, <1>6

LEMMA ConnectTargetStep ==
  ASSUME SetupInv, NEW p, ConnectTarget(p)
  PROVE  SetupInv'
<1> USE DEF SetupInv
<1>1. StoreInv'
  BY StoreUnchanged DEF ConnectTarget
<1>2. HopShape' /\ SessionShape' /\ sessions' = sessions
  BY DEF ConnectTarget, HopShape, SessionShape, ClosedOnce
<1>3. failures' \in 0 .. MaxFailures
  BY FailureCounts DEF ConnectTarget
<1>4. /\ shell.at = "connect" /\ ~Recording /\ shell.todo # <<>>
      /\ shell.todo \in Seq(AnyTarget) /\ p \in Peers
  BY DEF ConnectTarget, Dials, ShellShape, Recording
<1>5. Tail(shell.todo) \in Seq(AnyTarget) /\ Head(shell.todo) \in AnyTarget
  BY <1>4
<1>6. CASE /\ p \in knows /\ linked' = linked \cup {p} /\ NextTarget
           /\ UNCHANGED <<requests, failures>>
  <2>1. NetShape' /\ AllAgreed'
    BY <1>4, <1>6 DEF ConnectTarget, NetShape, AllAgreed
  <2>2. shell'.at = "connect"
    BY <1>6 DEF NextTarget, ShellShape
  <2>3. ShellShape'
    BY <2>2, <1>2, <1>4, <1>5, <1>6 DEF NextTarget, ShellShape, Recording
  <2>4. Used' = Used /\ Asked' \subseteq Asked
    BY <2>2, <1>6 DEF ConnectTarget, Used, Asked, Recording
  <2>5. IsFiniteSet(Used)' /\ OnePeerPerId'
    BY <2>4, AskedOnlyLess
  <2> QED BY <1>1, <1>2, <1>3, <2>1, <2>3, <2>5
<1>7. CASE /\ p \notin knows /\ requests' = requests \cup {[id |-> NewId, peer |-> p]}
           /\ shell' = [shell EXCEPT !.at = "register",
                !.hop = Hop(NewId, sessions[Now].route, Head(shell.todo).num, p)]
           /\ UNCHANGED <<linked, failures>>
  <2>1. NewId \in Ids /\ NewId \notin Used
    BY NewIdIsNew
  <2>2. NetShape' /\ AllAgreed'
    BY <1>4, <1>7, <2>1 DEF ConnectTarget, NetShape, AllAgreed
  <2>3. PICK n \in Nat \ {0} : n = Len(sessions)
    BY <1>4 DEF ShellShape, SessionShape
  <2>4. sessions[Now].route \in Names
    <3>1. sessions[n] \in AnySession
      BY <2>3 DEF SessionShape
    <3> QED BY <2>3, <3>1 DEF Now, AnySession
  <2>5. PICK h : h = Hop(NewId, sessions[Now].route, Head(shell.todo).num, p)
    OBVIOUS
  <2>6. h \in PendingHopInfo /\ h.id = NewId /\ h.peer = p
    BY <2>1, <2>4, <2>5, <1>4, <1>5 DEF Hop, PendingHopInfo, AnyTarget
  <2>7. shell'.at = "register" /\ shell'.hop = h
    BY <1>7, <2>5 DEF ShellShape
  <2>8. ShellShape'
    <3>1. shell' = [shell EXCEPT !.at = "register", !.hop = h]
      BY <1>7, <2>5
    <3>2. Len(sessions') > 0
      BY <1>2, <2>3
    <3> QED BY <1>4, <2>6, <2>7, <3>1, <3>2 DEF ShellShape, Recording
  <2>9. Used' \subseteq Used \cup {NewId}
    BY <1>7 DEF ConnectTarget, Used
  <2>10. Asked' \subseteq Asked \cup {<<NewId, p>>}
    BY <1>7, <2>6, <2>7 DEF ConnectTarget, Asked
  <2>11. \A x \in Asked : x[1] # NewId
    BY <1>4, <2>1, AskedIdIsUsed
  <2>12. IsFiniteSet(Used)'
    BY <2>9, UsedStaysFinite
  <2>13. OnePeerPerId'
    BY <2>10, <2>11, AskedOneMore
  <2> QED BY <1>1, <1>2, <1>3, <2>2, <2>8, <2>12, <2>13
<1>8. CASE Failure /\ shell' = Idle /\ UNCHANGED <<linked, requests>>
  <2>1. NetShape' /\ AllAgreed'
    BY <1>8 DEF ConnectTarget, NetShape, AllAgreed
  <2>2. shell'.at = "idle"
    BY <1>8 DEF Idle
  <2>3. ShellShape'
    BY <1>8, IdleShell
  <2>4. Used' = Used /\ Asked' \subseteq Asked
    BY <2>2, <1>8 DEF ConnectTarget, Used, Asked, Recording
  <2>5. IsFiniteSet(Used)' /\ OnePeerPerId'
    BY <2>4, AskedOnlyLess
  <2> QED BY <1>1, <1>2, <1>3, <2>1, <2>3, <2>5
<1> QED BY <1>6, <1>7, <1>8 DEF ConnectTarget

LEMMA RegisterPendingHopStep ==
  ASSUME SetupInv, RegisterPendingHop
  PROVE  SetupInv'
<1> USE DEF SetupInv
<1>1. StoreInv'
  BY StoreUnchanged DEF RegisterPendingHop
<1>2. /\ NetShape' /\ SessionShape' /\ AllAgreed' /\ failures' \in 0 .. MaxFailures
      /\ sessions' = sessions
  BY DEF RegisterPendingHop, NetShape, SessionShape, ClosedOnce, AllAgreed, netVars
<1>3. Recording /\ shell.at = "register" /\ shell'.at = "add" /\ shell'.hop = shell.hop
  BY DEF RegisterPendingHop, Recording, ShellShape
<1>4. HopShape'
  BY <1>3 DEF RegisterPendingHop, HopShape, ShellShape
<1>5. ShellShape'
  BY <1>2, <1>3 DEF RegisterPendingHop, ShellShape, Recording
<1>6. Used' \subseteq Used \cup {shell.hop.id}
  BY DEF RegisterPendingHop, Used, netVars
<1>7. Asked' \subseteq Asked
  BY <1>3 DEF RegisterPendingHop, Asked, netVars
<1>8. IsFiniteSet(Used)' /\ OnePeerPerId'
  BY <1>6, <1>7, UsedStaysFinite, AskedOnlyLess
<1> QED BY <1>1, <1>2, <1>4, <1>5, <1>8

\* A session keeps its name, and is completed no sooner by having its hops or its wait changed
LEMMA SessionChanges ==
  ASSUME SessionShape, NEW s \in DOMAIN sessions, NEW t \in AnySession,
         t.route = sessions[s].route, t.closed = sessions[s].closed,
         sessions' = [sessions EXCEPT ![s] = t],
         \/ UNCHANGED table
         \/ \E n \in Names : table' = [table EXCEPT ![n] = 0]
  PROVE  SessionShape' /\ Len(sessions') = Len(sessions)
<1>1. PICK n \in Nat : n = Len(sessions) /\ DOMAIN sessions = 1 .. n
  BY DEF SessionShape
<1>2. /\ sessions' \in Seq(AnySession) /\ Len(sessions') = n /\ DOMAIN sessions' = 1 .. n
      /\ \A j \in 1 .. n : sessions'[j] = IF j = s THEN t ELSE sessions[j]
  BY <1>1 DEF SessionShape
<1>3. table \in [Names -> 0 .. n] /\ table' \in [Names -> 0 .. n]
      /\ \A m \in Names : table'[m] \in {0, table[m]}
  BY <1>1 DEF SessionShape
<1>4. \A j \in 1 .. n : sessions'[j].route = sessions[j].route
                        /\ sessions'[j].closed = sessions[j].closed
  BY <1>1, <1>2
<1>5. ASSUME NEW m \in Names, table'[m] # 0
      PROVE  sessions'[table'[m]].route = m /\ sessions'[table'[m]].closed = 0
  <2>1. table'[m] = table[m] /\ table[m] \in 1 .. n
    BY <1>3, <1>5
  <2> QED BY <2>1, <1>4, <1>5 DEF SessionShape
<1>6. ClosedOnce'
  BY <1>1, <1>2, <1>4 DEF SessionShape, ClosedOnce
<1> QED BY <1>1, <1>2, <1>3, <1>5, <1>6 DEF SessionShape

LEMMA AddHopStep ==
  ASSUME SetupInv, AddHop
  PROVE  SetupInv'
<1> USE DEF SetupInv
<1>1. StoreInv'
  BY StoreUnchanged DEF AddHop
<1>2. NetShape' /\ HopShape' /\ AllAgreed' /\ failures' \in 0 .. MaxFailures
  BY DEF AddHop, NetShape, HopShape, AllAgreed, netVars
<1>3. /\ Recording /\ shell.at = "add" /\ shell'.at = "connect" /\ shell.hop \in PendingHopInfo
      /\ Len(sessions) > 0 /\ shell.todo \in Seq(AnyTarget)
  BY DEF AddHop, Recording, ShellShape
<1>4. PICK n \in Nat \ {0} : n = Len(sessions) /\ DOMAIN sessions = 1 .. n
  BY <1>3 DEF SessionShape
<1>5. sessions[n] \in AnySession
  BY <1>4 DEF SessionShape
<1>6. PICK H : H = {h \in sessions[n].hops : h.num # shell.hop.num} \cup {shell.hop}
  OBVIOUS
<1>7. H \in SUBSET PendingHopInfo
  BY <1>3, <1>5, <1>6 DEF AnySession
<1>8. PICK t : t = [sessions[n] EXCEPT !.hops = H]
  OBVIOUS
<1>9. t \in AnySession /\ t.route = sessions[n].route /\ t.closed = sessions[n].closed
  BY <1>5, <1>7, <1>8 DEF AnySession
<1>10. sessions' = [sessions EXCEPT ![n] = t] /\ UNCHANGED table
  <2>1. Now = n
    BY <1>4 DEF Now
  <2>2. sessions' = [sessions EXCEPT ![n].hops =
                       {h \in sessions[n].hops : h.num # shell.hop.num} \cup {shell.hop}]
    BY <2>1 DEF AddHop
  <2> QED BY <1>6, <1>8, <2>2 DEF AddHop
<1>11. SessionShape' /\ Len(sessions') = Len(sessions)
  <2>1. n \in DOMAIN sessions
    BY <1>4
  <2> QED BY <2>1, <1>9, <1>10, SessionChanges
<1>12. ShellShape'
  <2>1. shell' = [shell EXCEPT !.at = "connect", !.todo = Tail(shell.todo), !.pending = TRUE]
    BY DEF AddHop
  <2>2. Tail(shell.todo) \in Seq(AnyTarget) \/ shell.todo = <<>>
    BY <1>3
  <2>3. shell.todo # <<>>
    BY <1>3 DEF ShellShape
  <2> QED BY <2>1, <2>2, <2>3, <1>3, <1>11 DEF ShellShape, Recording
<1>13. Used' = Used /\ Asked' \subseteq Asked
  BY <1>3 DEF AddHop, Used, Asked, Recording, netVars
<1>14. IsFiniteSet(Used)' /\ OnePeerPerId'
  BY <1>13, AskedOnlyLess
<1> QED BY <1>1, <1>2, <1>11, <1>12, <1>14

LEMMA ConnectReturnsStep ==
  ASSUME SetupInv, ConnectReturns
  PROVE  SetupInv'
<1> USE DEF SetupInv
<1>1. StoreInv'
  BY StoreUnchanged DEF ConnectReturns
<1>2. NetShape' /\ HopShape' /\ AllAgreed' /\ failures' \in 0 .. MaxFailures
  BY DEF ConnectReturns, NetShape, HopShape, AllAgreed, netVars
<1>3. /\ shell.at = "connect" /\ Len(sessions) > 0 /\ shell.pending \in BOOLEAN
      /\ shell' = Idle
  BY DEF ConnectReturns, ShellShape
<1>4. PICK n \in Nat \ {0} : n = Len(sessions) /\ DOMAIN sessions = 1 .. n
  BY <1>3 DEF SessionShape
<1>5. sessions[n] \in AnySession
  BY <1>4 DEF SessionShape
<1>6. PICK t : t = [sessions[n] EXCEPT !.waits = shell.pending]
  OBVIOUS
<1>7. t \in AnySession /\ t.route = sessions[n].route /\ t.closed = sessions[n].closed
  BY <1>3, <1>5, <1>6 DEF AnySession
<1>8. sessions' = [sessions EXCEPT ![n] = t] /\ UNCHANGED table
  <2>1. Now = n
    BY <1>4 DEF Now
  <2> QED BY <1>6, <2>1 DEF ConnectReturns
<1>9. SessionShape'
  <2>1. n \in DOMAIN sessions
    BY <1>4
  <2> QED BY <2>1, <1>7, <1>8, SessionChanges
<1>10. ShellShape'
  BY <1>3, IdleShell
<1>11. Used' = Used /\ Asked' \subseteq Asked
  <2>1. shell'.at = "idle"
    BY <1>3 DEF Idle
  <2> QED BY <2>1 DEF ConnectReturns, Used, Asked, Recording, netVars
<1>12. IsFiniteSet(Used)' /\ OnePeerPerId'
  BY <1>11, AskedOnlyLess
<1> QED BY <1>1, <1>2, <1>9, <1>10, <1>12

LEMMA WaitStep ==
  ASSUME SetupInv, NEW s \in DOMAIN sessions, WaitEnds(s) \/ WaitTimeout(s)
  PROVE  SetupInv'
<1> USE DEF SetupInv
<1>1. UNCHANGED storeVars
  BY DEF WaitEnds, WaitTimeout
<1>2. StoreInv'
  BY <1>1, StoreUnchanged
<1>3. UNCHANGED <<netVars, pendingHops, shell, retries, failures>>
  BY DEF WaitEnds, WaitTimeout
<1>4. NetShape' /\ HopShape' /\ AllAgreed' /\ failures' \in 0 .. MaxFailures
  BY <1>3 DEF NetShape, HopShape, AllAgreed, netVars
<1>5. sessions[s] \in AnySession
  BY DEF SessionShape
<1>6. PICK t : t = [sessions[s] EXCEPT !.waits = FALSE]
  OBVIOUS
<1>7. t \in AnySession /\ t.route = sessions[s].route /\ t.closed = sessions[s].closed
  BY <1>5, <1>6 DEF AnySession
<1>8. sessions' = [sessions EXCEPT ![s] = t]
  BY <1>6 DEF WaitEnds, WaitTimeout
<1>9. UNCHANGED table \/ \E n \in Names : table' = [table EXCEPT ![n] = 0]
  <2>1. sessions[s].route \in Names
    BY <1>5 DEF AnySession
  <2> QED BY <2>1 DEF WaitEnds, WaitTimeout
<1>10. SessionShape' /\ Len(sessions') = Len(sessions)
  BY <1>7, <1>8, <1>9, SessionChanges
<1>11. ShellShape'
  BY <1>3, <1>10 DEF ShellShape, Recording
<1>12. Used' = Used /\ Asked' \subseteq Asked
  BY <1>3 DEF Used, Asked, Recording, netVars
<1>13. IsFiniteSet(Used)' /\ OnePeerPerId'
  BY <1>12, AskedOnlyLess
<1> QED BY <1>2, <1>4, <1>10, <1>11, <1>13

-----------------------------------------------------------------------------
(* Approvals and retries *)

LEMMA ApprovePendingRequestStep ==
  ASSUME SetupInv, NEW r \in requests, ApprovePendingRequest(r)
  PROVE  SetupInv'
<1> USE DEF SetupInv
<1>1. StoreInv'
  BY StoreUnchanged DEF ApprovePendingRequest
<1>2. HopShape' /\ SessionShape' /\ ShellShape'
  BY DEF ApprovePendingRequest, HopShape, SessionShape, ClosedOnce, ShellShape, Recording, routeVars
<1>3. failures' \in 0 .. MaxFailures
  BY FailureCounts DEF ApprovePendingRequest
<1>4. r.id \in Ids /\ r.peer \in Peers
  BY DEF NetShape
<1>5. PICK a : a = [id |-> r.id, peer |-> r.peer, at |-> "notify"]
  OBVIOUS
<1>6. a \in [id : Ids, peer : Peers, at : {"notify", "dial"}] /\ a.id = r.id /\ a.peer = r.peer
  BY <1>4, <1>5
<1>7. /\ requests' \subseteq requests /\ agreed' = agreed \cup {r.peer} /\ knows' = knows
      /\ linked' \subseteq linked \cup {r.peer} /\ approving' \subseteq approving \cup {a}
  BY <1>5 DEF ApprovePendingRequest
<1>8. NetShape'
  BY <1>4, <1>6, <1>7 DEF NetShape
<1>9. AllAgreed'
  BY <1>6, <1>7 DEF AllAgreed, ApprovePendingRequest, routeVars
<1>10. UNCHANGED <<pendingHops, retries, shell>>
  BY DEF ApprovePendingRequest, routeVars
<1>11. Used' \subseteq Used
  BY <1>6, <1>7, <1>10 DEF Used
<1>12. Asked' \subseteq Asked
  BY <1>6, <1>7, <1>10 DEF Asked, Recording
<1>13. IsFiniteSet(Used)' /\ OnePeerPerId'
  BY <1>11, <1>12, UsedStaysFinite, AskedOnlyLess
<1> QED BY <1>1, <1>2, <1>3, <1>8, <1>9, <1>13

LEMMA NotifyStep ==
  ASSUME SetupInv, NEW a \in approving, NotifyMultiHopApproved(a)
  PROVE  SetupInv'
<1> USE DEF SetupInv
<1>1. StoreInv'
  BY StoreUnchanged DEF NotifyMultiHopApproved
<1>2. SessionShape' /\ ShellShape' /\ failures' \in 0 .. MaxFailures
  BY DEF NotifyMultiHopApproved, SessionShape, ClosedOnce, ShellShape, Recording
<1>3. PICK b : b = [a EXCEPT !.at = "dial"]
  OBVIOUS
<1>4. /\ b \in [id : Ids, peer : Peers, at : {"notify", "dial"}] /\ b.id = a.id /\ b.peer = a.peer
      /\ approving' \subseteq approving \cup {b}
  BY <1>3 DEF NetShape, NotifyMultiHopApproved, Goes
<1>5. NetShape'
  BY <1>4 DEF NetShape, NotifyMultiHopApproved
<1>6. ASSUME NEW r \in retries', r \notin retries
      PROVE  /\ r \in [id : Ids, hop : PendingHopInfo, at : {"dial", "settle"}] /\ r.id = r.hop.id
             /\ r.id = a.id /\ r.hop.peer = a.peer
  <2>1. PICK h \in pendingHops : h.id = a.id /\ r = Retry(h)
    BY <1>6 DEF NotifyMultiHopApproved, Found
  <2>2. r = [id |-> h.id, hop |-> h, at |-> "dial"] /\ h \in PendingHopInfo
    BY <2>1 DEF Retry, HopShape
  <2>3. h.peer = a.peer
    <3>1. <<h.id, h.peer>> \in Asked /\ <<a.id, a.peer>> \in Asked
      BY <2>1, AskedMembers
    <3> QED BY <3>1, <2>1 DEF OnePeerPerId
  <2>4. h.id \in Ids
    BY <2>2 DEF PendingHopInfo
  <2> QED BY <2>1, <2>2, <2>3, <2>4
<1>7. UNCHANGED <<pendingHops, shell, requests, linked, knows, agreed>>
  BY DEF NotifyMultiHopApproved
<1>8. HopShape'
  BY <1>6, <1>7 DEF HopShape
<1>9. AllAgreed'
  BY <1>4, <1>6, <1>7 DEF AllAgreed
<1>10. a.id \in Used /\ <<a.id, a.peer>> \in Asked
  BY AskedMembers
<1>11. Used' \subseteq Used
  <2> SUFFICES ASSUME NEW r \in (requests \cup approving \cup pendingHops \cup retries)'
               PROVE  r.id \in Used
    BY DEF Used
  <2>1. CASE r \in requests \cup approving \cup pendingHops \cup retries
    BY <2>1 DEF Used
  <2>2. CASE r = b
    BY <2>2, <1>4, <1>10
  <2>3. CASE r \in retries' /\ r \notin retries
    BY <2>3, <1>6, <1>10
  <2> QED BY <1>4, <1>7, <2>1, <2>2, <2>3
<1>12. Asked' \subseteq Asked
  <2>1. ASSUME NEW r \in (requests \cup approving \cup pendingHops)'
        PROVE  <<r.id, r.peer>> \in Asked
    <3>1. CASE r \in requests \cup approving \cup pendingHops
      BY <3>1, AskedMembers
    <3>2. CASE r = b
      BY <3>2, <1>4, <1>10
    <3> QED BY <1>4, <1>7, <3>1, <3>2
  <2>2. ASSUME NEW r \in retries' PROVE <<r.id, r.hop.peer>> \in Asked
    <3>1. CASE r \in retries
      BY <3>1, AskedMembers
    <3>2. CASE r \notin retries
      BY <3>2, <1>6, <1>10
    <3> QED BY <3>1, <3>2
  <2>3. Recording' => Recording /\ <<shell.hop.id, shell.hop.peer>> \in Asked
    BY <1>7, AskedMembers DEF Recording
  <2> QED BY <1>7, <2>1, <2>2, <2>3 DEF Asked
<1>13. IsFiniteSet(Used)' /\ OnePeerPerId'
  BY <1>11, <1>12, UsedStaysFinite, AskedOnlyLess
<1> QED BY <1>1, <1>2, <1>5, <1>8, <1>9, <1>13

LEMMA DialBackStep ==
  ASSUME SetupInv, NEW a \in approving, DialBack(a)
  PROVE  SetupInv'
<1> USE DEF SetupInv
<1>1. StoreInv'
  BY StoreUnchanged DEF DialBack
<1>2. HopShape' /\ SessionShape' /\ ShellShape' /\ failures' \in 0 .. MaxFailures
  BY DEF DialBack, HopShape, SessionShape, ClosedOnce, ShellShape, Recording, routeVars
<1>3. NetShape' /\ AllAgreed'
  BY DEF DialBack, NetShape, AllAgreed, routeVars
<1>4. Used' \subseteq Used /\ Asked' \subseteq Asked
  BY DEF DialBack, Used, Asked, Recording, routeVars
<1>5. IsFiniteSet(Used)' /\ OnePeerPerId'
  BY <1>4, UsedStaysFinite, AskedOnlyLess
<1> QED BY <1>1, <1>2, <1>3, <1>5

LEMMA ApproveFailsStep ==
  ASSUME SetupInv, NEW a \in approving, ApproveFails(a)
  PROVE  SetupInv'
<1> USE DEF SetupInv
<1>1. StoreInv'
  BY StoreUnchanged DEF ApproveFails
<1>2. HopShape' /\ SessionShape' /\ ShellShape'
  BY DEF ApproveFails, HopShape, SessionShape, ClosedOnce, ShellShape, Recording, routeVars
<1>3. failures' \in 0 .. MaxFailures
  BY FailureCounts DEF ApproveFails
<1>4. PICK b : b = [a EXCEPT !.at = "dial"]
  OBVIOUS
<1>5. /\ b \in [id : Ids, peer : Peers, at : {"notify", "dial"}] /\ b.id = a.id /\ b.peer = a.peer
      /\ approving' \subseteq approving \cup {b}
  BY <1>4 DEF NetShape, ApproveFails, Goes
<1>6. UNCHANGED <<pendingHops, retries, shell, requests, linked, knows, agreed>>
  BY DEF ApproveFails, routeVars
<1>7. NetShape' /\ AllAgreed'
  BY <1>5, <1>6 DEF NetShape, AllAgreed
<1>8. Used' \subseteq Used /\ Asked' \subseteq Asked
  BY <1>5, <1>6 DEF Used, Asked, Recording
<1>9. IsFiniteSet(Used)' /\ OnePeerPerId'
  BY <1>8, UsedStaysFinite, AskedOnlyLess
<1> QED BY <1>1, <1>2, <1>3, <1>7, <1>9

LEMMA RetryDialsStep ==
  ASSUME SetupInv, NEW r \in retries, RetryDials(r)
  PROVE  SetupInv'
<1> USE DEF SetupInv
<1>1. StoreInv'
  BY StoreUnchanged DEF RetryDials
<1>2. SessionShape' /\ ShellShape' /\ failures' \in 0 .. MaxFailures
  BY DEF RetryDials, SessionShape, ClosedOnce, ShellShape, Recording
<1>3. PICK b : b = [r EXCEPT !.at = "settle"]
  OBVIOUS
<1>4. /\ b \in [id : Ids, hop : PendingHopInfo, at : {"dial", "settle"}]
      /\ b.id = r.id /\ b.hop = r.hop /\ r.hop \in PendingHopInfo /\ r.id = r.hop.id
      /\ retries' \subseteq retries \cup {b}
  BY <1>3 DEF HopShape, RetryDials
<1>5. /\ UNCHANGED <<pendingHops, shell, requests, approving, agreed>>
      /\ linked' = linked \cup {r.hop.peer} /\ knows' \subseteq knows \cup {r.hop.peer}
  BY DEF RetryDials
<1>6. HopShape'
  BY <1>4, <1>5 DEF HopShape
<1>7. r.hop.peer \in Peers
  BY <1>4 DEF PendingHopInfo
<1>8. NetShape'
  BY <1>5, <1>7 DEF NetShape
<1>9. AllAgreed'
  BY <1>4, <1>5 DEF AllAgreed
<1>10. Used' \subseteq Used /\ Asked' \subseteq Asked
  BY <1>4, <1>5 DEF Used, Asked, Recording
<1>11. IsFiniteSet(Used)' /\ OnePeerPerId'
  BY <1>10, UsedStaysFinite, AskedOnlyLess
<1> QED BY <1>1, <1>2, <1>6, <1>8, <1>9, <1>11

LEMMA RetryFailsStep ==
  ASSUME SetupInv, NEW r \in retries, RetryFails(r)
  PROVE  SetupInv'
<1> USE DEF SetupInv
<1>1. StoreInv'
  BY StoreUnchanged DEF RetryFails
<1>2. SessionShape' /\ ShellShape' /\ NetShape' /\ failures' \in 0 .. MaxFailures
  BY DEF RetryFails, SessionShape, ClosedOnce, ShellShape, Recording, NetShape, netVars
<1>3. HopShape' /\ AllAgreed'
  BY DEF RetryFails, HopShape, AllAgreed, netVars
<1>4. Used' \subseteq Used /\ Asked' \subseteq Asked
  BY DEF RetryFails, Used, Asked, Recording, netVars
<1>5. IsFiniteSet(Used)' /\ OnePeerPerId'
  BY <1>4, UsedStaysFinite, AskedOnlyLess
<1> QED BY <1>1, <1>2, <1>3, <1>5

\* checkMultiHopSessionComplete takes a session it completes out of the table, where it was the
\* session of one name only
LEMMA CheckKeepsSessions ==
  ASSUME SessionShape, NEW route \in Names, Check(route)
  PROVE  SessionShape' /\ Len(sessions') = Len(sessions)
<1>1. CASE UNCHANGED <<table, sessions>>
  BY <1>1 DEF SessionShape, ClosedOnce
<1>2. CASE /\ table[route] # 0
           /\ sessions' = [sessions EXCEPT ![table[route]].closed = @ + 1]
           /\ table' = [table EXCEPT ![route] = 0]
  <2>1. PICK n \in Nat : n = Len(sessions) /\ DOMAIN sessions = 1 .. n
    BY DEF SessionShape
  <2>2. PICK s \in 1 .. n : s = table[route]
    BY <1>2, <2>1 DEF SessionShape
  <2>3. sessions[s] \in AnySession /\ sessions[s].route = route /\ sessions[s].closed = 0
    BY <2>1, <2>2, <1>2 DEF SessionShape
  <2>4. PICK t : t = [sessions[s] EXCEPT !.closed = 1]
    OBVIOUS
  <2>5. t \in AnySession /\ t.closed = 1
    BY <2>3, <2>4 DEF AnySession
  <2>6. sessions' = [sessions EXCEPT ![s] = t]
    BY <1>2, <2>2, <2>3, <2>4
  <2>7. /\ sessions' \in Seq(AnySession) /\ Len(sessions') = n /\ DOMAIN sessions' = 1 .. n
        /\ \A j \in 1 .. n : sessions'[j] = IF j = s THEN t ELSE sessions[j]
    BY <2>1, <2>5, <2>6 DEF SessionShape
  <2>8. table \in [Names -> 0 .. n] /\ table' \in [Names -> 0 .. n]
    BY <1>2, <2>1 DEF SessionShape
  <2>9. ASSUME NEW m \in Names, table'[m] # 0
        PROVE  sessions'[table'[m]].route = m /\ sessions'[table'[m]].closed = 0
    <3>1. m # route /\ table'[m] = table[m] /\ table[m] \in 1 .. n
      BY <1>2, <2>8, <2>9
    <3>2. sessions[table[m]].route = m /\ sessions[table[m]].closed = 0
      BY <3>1 DEF SessionShape
    <3>3. table[m] # s
      BY <3>1, <3>2, <2>3
    <3> QED BY <3>1, <3>2, <3>3, <2>7
  <2>10. ClosedOnce'
    <3> SUFFICES ASSUME NEW j \in 1 .. n PROVE sessions'[j].closed =< 1
      BY <2>7 DEF ClosedOnce
    <3>1. CASE j = s
      BY <3>1, <2>5, <2>7
    <3>2. CASE j # s
      BY <3>2, <2>1, <2>7 DEF SessionShape, ClosedOnce
    <3> QED BY <3>1, <3>2
  <2> QED BY <2>1, <2>7, <2>8, <2>9, <2>10 DEF SessionShape
<1> QED BY <1>1, <1>2 DEF Check

LEMMA RetrySettlesStep ==
  ASSUME SetupInv, NEW r \in retries, RetrySettles(r)
  PROVE  SetupInv'
<1> USE DEF SetupInv
<1>1. StoreInv'
  BY StoreUnchanged DEF RetrySettles
<1>2. NetShape' /\ failures' \in 0 .. MaxFailures
  BY DEF RetrySettles, NetShape, netVars
<1>3. HopShape' /\ AllAgreed'
  BY DEF RetrySettles, HopShape, AllAgreed, netVars
<1>4. r.hop.route \in Names
  BY DEF HopShape, PendingHopInfo
<1>5. SessionShape' /\ Len(sessions') = Len(sessions)
  BY <1>4, CheckKeepsSessions DEF RetrySettles
<1>6. ShellShape'
  BY <1>5 DEF RetrySettles, ShellShape, Recording
<1>7. Used' \subseteq Used /\ Asked' \subseteq Asked
  BY DEF RetrySettles, Used, Asked, Recording, netVars
<1>8. IsFiniteSet(Used)' /\ OnePeerPerId'
  BY <1>7, UsedStaysFinite, AskedOnlyLess
<1> QED BY <1>1, <1>2, <1>3, <1>5, <1>6, <1>8

-----------------------------------------------------------------------------
(* What else happens *)

LEMMA IntroducedStep ==
  ASSUME SetupInv, NEW p \in Peers, Introduced(p)
  PROVE  SetupInv'
<1> USE DEF SetupInv
<1>1. StoreInv'
  BY StoreUnchanged DEF Introduced
<1>2. HopShape' /\ SessionShape' /\ ShellShape' /\ failures' \in 0 .. MaxFailures
  BY DEF Introduced, HopShape, SessionShape, ClosedOnce, ShellShape, Recording, routeVars
<1>3. NetShape' /\ AllAgreed'
  BY DEF Introduced, NetShape, AllAgreed, routeVars
<1>4. Used' \subseteq Used /\ Asked' \subseteq Asked
  BY DEF Introduced, Used, Asked, Recording, routeVars
<1>5. IsFiniteSet(Used)' /\ OnePeerPerId'
  BY <1>4, UsedStaysFinite, AskedOnlyLess
<1> QED BY <1>1, <1>2, <1>3, <1>5

LEMMA DisconnectStep ==
  ASSUME SetupInv, NEW p \in Peers, Disconnect(p) \/ PeerRestarts(p)
  PROVE  SetupInv'
<1> USE DEF SetupInv
<1>1. UNCHANGED storeVars /\ UNCHANGED routeVars /\ agreed' = agreed
  BY DEF Disconnect, PeerRestarts
<1>2. StoreInv'
  BY <1>1, StoreUnchanged
<1>3. HopShape' /\ SessionShape' /\ ShellShape'
  BY <1>1 DEF HopShape, SessionShape, ClosedOnce, ShellShape, Recording, routeVars
<1>4. failures' \in 0 .. MaxFailures
  BY FailureCounts DEF Disconnect, PeerRestarts
<1>5. /\ linked' \subseteq linked /\ knows' \subseteq knows
      /\ requests' \subseteq requests /\ approving' \subseteq approving
  BY DEF Disconnect, PeerRestarts
<1>6. NetShape' /\ AllAgreed'
  BY <1>1, <1>5 DEF NetShape, AllAgreed, routeVars
<1>7. Used' \subseteq Used /\ Asked' \subseteq Asked
  BY <1>1, <1>5 DEF Used, Asked, Recording, routeVars
<1>8. IsFiniteSet(Used)' /\ OnePeerPerId'
  BY <1>7, UsedStaysFinite, AskedOnlyLess
<1> QED BY <1>2, <1>3, <1>4, <1>6, <1>8

LEMMA RestartSelfStep ==
  ASSUME SetupInv, RestartSelf
  PROVE  SetupInv'
<1> USE DEF SetupInv
<1>1. StoreInv'
  BY ReloadStoreInv DEF RestartSelf
<1>2. failures' \in 0 .. MaxFailures
  BY FailureCounts DEF RestartSelf
<1>3. NetShape' /\ HopShape' /\ AllAgreed'
  BY DEF RestartSelf, NetShape, HopShape, AllAgreed
<1>4. ShellShape'
  BY IdleShell DEF RestartSelf
<1>5. SessionShape'
  <2>1. PICK n \in Nat : n = Len(sessions) /\ DOMAIN sessions = 1 .. n
    BY DEF SessionShape
  <2>2. sessions' = [s \in 1 .. n |-> [sessions[s] EXCEPT !.waits = FALSE]]
    BY <2>1 DEF RestartSelf
  <2>3. ASSUME NEW s \in 1 .. n
        PROVE  sessions'[s] \in AnySession /\ sessions'[s].closed = sessions[s].closed
    <3>1. sessions[s] \in AnySession
      BY <2>1 DEF SessionShape
    <3>2. sessions'[s] = [sessions[s] EXCEPT !.waits = FALSE]
      BY <2>2
    <3> QED BY <3>1, <3>2 DEF AnySession
  <2>4. sessions' \in [1 .. n -> AnySession]
    BY <2>2, <2>3
  <2>5. sessions' \in Seq(AnySession) /\ Len(sessions') = n /\ DOMAIN sessions' = 1 .. n
    BY <2>4
  <2>6. table' \in [Names -> 0 .. n] /\ \A m \in Names : table'[m] = 0
    BY <2>1 DEF RestartSelf
  <2>7. ClosedOnce'
    BY <2>1, <2>3, <2>5 DEF SessionShape, ClosedOnce
  <2> QED BY <2>5, <2>6, <2>7 DEF SessionShape
<1>6. shell'.at = "idle"
  BY DEF RestartSelf, Idle
<1>7. Used' \subseteq Used /\ Asked' \subseteq Asked
  BY <1>6 DEF RestartSelf, Used, Asked, Recording
<1>8. IsFiniteSet(Used)' /\ OnePeerPerId'
  BY <1>7, UsedStaysFinite, AskedOnlyLess
<1> QED BY <1>1, <1>2, <1>3, <1>4, <1>5, <1>8

LEMMA StoreCommandStep ==
  ASSUME SetupInv, StoreNext, UNCHANGED <<netVars, routeVars, failures>>
  PROVE  SetupInv'
<1> USE DEF SetupInv
<1>1. StoreInv'
  BY CommandsKeepStore
<1>2. /\ NetShape' /\ HopShape' /\ SessionShape' /\ ShellShape' /\ AllAgreed'
      /\ failures' \in 0 .. MaxFailures
  BY DEF NetShape, HopShape, SessionShape, ClosedOnce, ShellShape, Recording, AllAgreed, netVars, routeVars
<1>3. Used' = Used /\ Asked' \subseteq Asked
  BY DEF Used, Asked, Recording, netVars, routeVars
<1>4. IsFiniteSet(Used)' /\ OnePeerPerId'
  BY <1>3, AskedOnlyLess
<1> QED BY <1>1, <1>2, <1>4

\* A route is set up with the configuration a name leads to
LEMMA ConnectCommandStep ==
  ASSUME SetupInv, NEW n \in Names, ConnectRoute(n) \/ ConnectToKernelViaRoute(n)
  PROVE  SetupInv'
<1>1. PICK c : c = LoadConfig(n)
  OBVIOUS
<1>2. c.hops # <<>> /\ BeginSession(c) /\ cache[n] # 0
  BY <1>1 DEF ConnectRoute, ConnectToKernelViaRoute, Contiguous
<1>3. c \in AnyConfig
  BY <1>1, <1>2 DEF SetupInv, StoreInv, StoreTypeOK, LoadConfig
<1> QED BY <1>2, <1>3, BeginSessionStep

-----------------------------------------------------------------------------
(* The theorems *)

LEMMA SetupInvHolds == SetupSpec => []SetupInv
<1>1. SetupInit => SetupInv
  <2> SUFFICES ASSUME SetupInit PROVE SetupInv
    OBVIOUS
  <2>1. StoreInv
    BY StartStoreInv DEF SetupInit
  <2>2. NetShape /\ HopShape /\ AllAgreed
    BY DEF SetupInit, NetShape, HopShape, AllAgreed
  <2>3. failures \in 0 .. MaxFailures
    BY RouteConstants DEF SetupInit
  <2>4. SessionShape
    BY DEF SetupInit, SessionShape, ClosedOnce
  <2>5. ShellShape
    <3>1. <<>> \in Seq(AnyTarget)
      OBVIOUS
    <3>2. Idle \in [at : {"idle", "connect", "register", "add"}, todo : Seq(AnyTarget),
                    pending : BOOLEAN, hop : PendingHopInfo \cup {Idle.hop}]
      BY <3>1 DEF Idle
    <3>3. shell = Idle /\ shell.at = "idle"
      BY DEF SetupInit, Idle
    <3> QED BY <3>2, <3>3 DEF ShellShape, Recording
  <2>6. shell.at = "idle"
    BY DEF SetupInit, Idle
  <2>7. Used = {} /\ Asked = {}
    BY <2>6 DEF SetupInit, Used, Asked, Recording
  <2>8. IsFiniteSet(Used) /\ OnePeerPerId
    BY <2>7, FS_EmptySet DEF OnePeerPerId
  <2> QED BY <2>1, <2>2, <2>3, <2>4, <2>5, <2>8 DEF SetupInv
<1>2. SetupInv /\ [SetupNext]_setupVars => SetupInv'
  <2> SUFFICES ASSUME SetupInv, [SetupNext]_setupVars PROVE SetupInv'
    OBVIOUS
  <2>1. CASE Progress
    <3>1. ASSUME NEW p \in Peers \cup {Self}, SkipTarget(p) \/ ConnectTarget(p) PROVE SetupInv'
      BY <3>1, SkipTargetStep, ConnectTargetStep
    <3>2. ASSUME RegisterPendingHop \/ AddHop \/ ConnectReturns PROVE SetupInv'
      BY <3>2, RegisterPendingHopStep, AddHopStep, ConnectReturnsStep
    <3>3. ASSUME NEW s \in DOMAIN sessions, WaitEnds(s) PROVE SetupInv'
      BY <3>3, WaitStep
    <3>4. ASSUME NEW a \in approving, NotifyMultiHopApproved(a) \/ DialBack(a) PROVE SetupInv'
      BY <3>4, NotifyStep, DialBackStep
    <3>5. ASSUME NEW r \in retries, RetryDials(r) \/ RetrySettles(r) PROVE SetupInv'
      BY <3>5, RetryDialsStep, RetrySettlesStep
    <3> QED BY <2>1, <3>1, <3>2, <3>3, <3>4, <3>5 DEF Progress
  <2>2. CASE shell.at = "idle" /\ StoreNext /\ UNCHANGED <<netVars, routeVars, failures>>
    BY <2>2, StoreCommandStep
  <2>3. ASSUME NEW n \in Names, ConnectRoute(n) \/ ConnectToKernelViaRoute(n) PROVE SetupInv'
    BY <2>3, ConnectCommandStep
  <2>4. ASSUME NEW s \in DOMAIN sessions, WaitTimeout(s) PROVE SetupInv'
    BY <2>4, WaitStep
  <2>5. ASSUME NEW r \in requests, ApprovePendingRequest(r) PROVE SetupInv'
    BY <2>5, ApprovePendingRequestStep
  <2>6. ASSUME NEW a \in approving, ApproveFails(a) PROVE SetupInv'
    BY <2>6, ApproveFailsStep
  <2>7. ASSUME NEW r \in retries, RetryFails(r) PROVE SetupInv'
    BY <2>7, RetryFailsStep
  <2>8. ASSUME NEW p \in Peers, Introduced(p) \/ Disconnect(p) \/ PeerRestarts(p) PROVE SetupInv'
    BY <2>8, IntroducedStep, DisconnectStep
  <2>9. CASE RestartSelf
    BY <2>9, RestartSelfStep
  <2>10. CASE UNCHANGED setupVars
    <3>1. UNCHANGED storeVars /\ UNCHANGED <<netVars, routeVars, failures>>
      BY <2>10 DEF setupVars
    <3>2. StoreInv'
      BY <3>1, StoreUnchanged DEF SetupInv
    <3>3. /\ NetShape' /\ HopShape' /\ SessionShape' /\ ShellShape' /\ AllAgreed'
          /\ failures' \in 0 .. MaxFailures
      BY <3>1 DEF SetupInv, NetShape, HopShape, SessionShape, ClosedOnce, ShellShape, Recording,
                  AllAgreed, netVars, routeVars
    <3>4. Used' = Used /\ Asked' \subseteq Asked
      BY <3>1 DEF Used, Asked, Recording, netVars, routeVars
    <3>5. IsFiniteSet(Used)' /\ OnePeerPerId'
      BY <3>4, AskedOnlyLess DEF SetupInv
    <3> QED BY <3>2, <3>3, <3>5 DEF SetupInv
  <2> QED BY <2>1, <2>2, <2>3, <2>4, <2>5, <2>6, <2>7, <2>8, <2>9, <2>10 DEF SetupNext
<1> QED BY <1>1, <1>2, PTL DEF SetupSpec

\* SAFETY.  The route a name shows is the one a restart will find, for all routes, files and
\* commands (SaveConfig, handleLoadRoute, handleEnableRoute, handleDisableRoute)
THEOREM RoutesAreStoredAsShown == SetupSpec => []StoredAsShown
<1>1. SetupInv => StoredAsShown
  BY DEF SetupInv, StoreInv
<1> QED BY <1>1, SetupInvHolds, PTL

\* SAFETY.  However approvals, retries, timeouts, restarts and further commands cross, a session is
\* completed at most once and nobody is linked who did not agree, for any routes and peers
\* (ConnectMultiHopRoute, OnMultiHopApproved, checkMultiHopSessionComplete)
THEOREM RoutesAreConsistent == SetupSpec => []RouteConsistent
<1>1. SetupInv => RouteConsistent
  <2> SUFFICES ASSUME SetupInv PROVE RouteConsistent
    OBVIOUS
  <2>1. ASSUME NEW s \in DOMAIN sessions
        PROVE  sessions[s].hops \subseteq PendingHopInfo /\ sessions[s].waits \in BOOLEAN
    <3>1. sessions[s] \in AnySession
      BY DEF SetupInv, SessionShape
    <3> QED BY <3>1 DEF AnySession
  <2>2. SetupTypeOK
    BY <2>1 DEF SetupInv, StoreInv, NetShape, HopShape, SessionShape, ShellShape, SetupTypeOK
  <2>3. ClosedOnce /\ LinkedWasAgreed
    BY DEF SetupInv, SessionShape, AllAgreed, LinkedWasAgreed
  <2> QED BY <2>2, <2>3 DEF RouteConsistent
<1> QED BY <1>1, SetupInvHolds, PTL
=============================================================================
