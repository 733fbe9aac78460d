-------------------------- MODULE DataEvidenceProofs --------------------------
(***************************************************************************)
(* Proofs about DataEvidence, for any number of calls, packets, failures   *)
(* and restarts.                                                           *)
(*                                                                         *)
(* That the business chain is rooted is inductive once one adds that the   *)
(* hash a stream is working from is that of a row of the present channel.  *)
(* That no evidence record loses its predecessor needs the same of         *)
(* lastRecordHash and of the records that are made but not stored yet.     *)
(*                                                                         *)
(* That what others can see is on record needs how far the packet of every *)
(* stream has come (OnRecord), and that a record in the making is about    *)
(* its call (Subjects).  That the flow signatures are where they belong    *)
(* needs, besides, that an event id names records of one flow              *)
(* (EventsDiffer) and that a flow the channel or an acknowledgement names  *)
(* has left a record (FlowsOnRecord): otherwise an acknowledgement could   *)
(* be stored for a flow that ended without a record to sign.               *)
(*                                                                         *)
(* What holds as long as calls do not overlap rests on OneAtATime: only    *)
(* one call is between two of its steps, so what it has read is still true *)
(* when it writes.  The evidence table is then a chain (LinkedCalls: the   *)
(* record in the making follows the last one of the table), the hash of a  *)
(* data row covers all rows before it (HoldsNext: a stream holds the last  *)
(* hash until it has inserted its row), an acknowledgement is inserted     *)
(* while it is still not there, and carries the current flow (FlowsAgree). *)
(***************************************************************************)
EXTENDS DataEvidence, FiniteSetTheorems, WellFoundedInduction, SequenceTheorems, TLAPS

Flows == Streams \union {NoFlow}

Records == [ev : Nat, type : EventTypes, flow : Flows, hash : Hashes, prev : Nat,
            sig : {"record", "flow", "none"}]

Rows == [ch : Nat, hash : Hashes, prev : Hashes, ack : {AckSig[a] : a \in Acks} \union {"none"}]

Pcs == {"new", "recv", "submit", "advance", "store", "chain", "push", "scan", "insert",
        "signed", "done"}

CallStates == [pc : Pcs, n : 0 .. MaxPackets, type : EventTypes, flow : Flows, prev : Hashes,
               hash : Hashes, rec : Records]

Packets == [ch : Nat, flow : Streams, hash : Hashes]

\* The types of what the proofs below look at
Shape ==
  /\ lastRecordHash \in Nat /\ clock \in Nat /\ channel \in Nat
  /\ faults \in Nat /\ restarts \in Nat
  /\ currentFlowID \in Flows
  /\ evidence \in Seq(Records)
  /\ chain \in Seq(Rows)
  /\ call \in [Calls -> CallStates]

\* A set of numbers up to n that is not empty has a largest member
LEMMA LargestExists ==
  ASSUME NEW n \in Nat, NEW S \in SUBSET (1 .. n), S # {}
  PROVE  \E i \in S : \A j \in S : j <= i
<1> DEFINE T == {n - i : i \in S}
<1>1. T \subseteq Nat /\ T # {}
  <2>1. ASSUME NEW i \in S PROVE n - i \in Nat
    OBVIOUS
  <2>2. PICK i \in S : TRUE
    OBVIOUS
  <2>3. n - i \in T
    OBVIOUS
  <2> QED BY <2>1, <2>3
<1> DEFINE R == OpToRel(<, Nat)
<1>2. IsWellFoundedOn(R, Nat)
  BY NatLessThanWellFounded
<1> HIDE DEF R
<1>3. PICK x \in T : \A y \in T : ~ (<<y, x>> \in R)
  BY <1>1, <1>2, WFMin
<1>4. PICK i \in S : x = n - i
  BY <1>3
<1>5. ASSUME NEW j \in S PROVE j <= i
  <2>1. n - j \in T /\ n - j \in Nat /\ x \in Nat
    BY <1>1
  <2>2. ~ (<<n - j, x>> \in R)
    BY <1>3, <2>1
  <2>3. ~ (n - j < x)
    BY <2>1, <2>2 DEF R, OpToRel
  <2> QED BY <1>4, <2>3
<1> QED BY <1>5

\* The hash GetLastDataHash returns is empty or that of a data row of the channel
LEMMA LastHashIsRow ==
  ASSUME chain \in Seq(Rows), NEW ch
  PROVE  /\ LastDataHash(ch) \in Hashes
         /\ LastDataHash(ch) # NoHash =>
              \E j \in DOMAIN chain : chain[j].ch = ch /\ chain[j].hash = LastDataHash(ch)
<1>1. CASE DataIds(ch) = {}
  BY <1>1 DEF LastDataHash, NoHash, Hashes
<1>2. CASE DataIds(ch) # {}
  <2>1. DataIds(ch) \in SUBSET (1 .. Len(chain)) /\ Len(chain) \in Nat
    BY DEF DataIds
  <2>2. \E i \in DataIds(ch) : \A j \in DataIds(ch) : j <= i
    BY <1>2, <2>1, LargestExists
  <2> DEFINE m == CHOOSE i \in DataIds(ch) : \A j \in DataIds(ch) : j <= i
  <2>3. m \in DataIds(ch)
    BY <2>2
  <2>4. LastDataHash(ch) = chain[m].hash
    BY <1>2 DEF LastDataHash
  <2> HIDE DEF m
  <2>5. m \in DOMAIN chain /\ chain[m].ch = ch
    BY <2>3 DEF DataIds
  <2>6. chain[m] \in Rows
    BY <2>5
  <2> QED BY <2>4, <2>5, <2>6 DEF Rows
<1> QED BY <1>1, <1>2

-----------------------------------------------------------------------------
(* Types *)

\* A call that has not begun or has returned
LEMMA NewCallType ==
  /\ NoHash \in Hashes /\ NoRecord \in Records /\ NewCall \in CallStates
  /\ \A pc \in Pcs : Returned(pc) \in CallStates
  /\ \A pc \in Pcs : Returned(pc).pc = pc /\ Returned(pc).prev = NoHash
<1>1. NoHash \in Hashes
  BY DEF NoHash, Hashes
<1>2. NoRecord \in Records
  BY <1>1 DEF NoRecord, Record, Records, Flows, EventTypes
<1>3. NewCall \in CallStates
  BY <1>1, <1>2, EvidenceConstants DEF NewCall, CallStates, Pcs, Flows, EventTypes
<1> QED BY <1>1, <1>2, <1>3 DEF Returned, CallStates, NewCall

\* The kernel starts with the types
LEMMA InitShape == Init => Shape
  BY NewCallType DEF Init, Shape, Flows

\* A call that goes on
LEMMA MoveType ==
  ASSUME Shape, NEW x \in Calls, NEW c \in CallStates, Move(x, c)
  PROVE  /\ call' \in [Calls -> CallStates] /\ call'[x] = c
         /\ \A y \in Calls : y # x => call'[y] = call[y]
  BY DEF Shape, Move

\* What a failure does to the count of failures
LEMMA OutcomeType ==
  ASSUME NEW ok \in BOOLEAN, faults \in Nat, Outcome(ok)
  PROVE  faults' \in Nat /\ (faults' = 0 => faults = 0 /\ ok)
  BY DEF Outcome

\* The record that SubmitRead makes
LEMMA RecordType ==
  ASSUME Shape, NEW x \in Calls, NEW signed \in BOOLEAN
  PROVE  Record(clock + 1, call[x].type, call[x].flow, call[x].hash, lastRecordHash,
                IF signed THEN "record" ELSE "none") \in Records
<1>1. call[x] \in CallStates
  BY DEF Shape
<1> QED BY <1>1 DEF Shape, CallStates, Record, Records

\* Where a call goes after its record is submitted
LEMMA AfterSubmitType ==
  ASSUME NEW c \in CallStates
  PROVE  /\ AfterSubmit(c) \in CallStates
         /\ AfterSubmit(c).pc \notin {"new", "advance", "store", "signed"}
         /\ AfterSubmit(c).prev \in {c.prev, NoHash}
<1>1. CASE c.type = "DATA_SEND"
  BY <1>1 DEF AfterSubmit, CallStates, Pcs, EventTypes
<1>2. CASE c.type = "DATA_RECEIVE"
  BY <1>2 DEF AfterSubmit, CallStates, Pcs, EventTypes
<1>3. CASE c.type = "ACK_RECEIVED"
  BY <1>3 DEF AfterSubmit, CallStates, Pcs, EventTypes
<1>4. CASE c.type = "REPORT"
  <2>1. AfterSubmit(c) = Returned("done")
    BY <1>4 DEF AfterSubmit
  <2> QED BY <2>1, NewCallType DEF Pcs
<1> QED BY <1>1, <1>2, <1>3, <1>4 DEF CallStates, EventTypes

\* A function on 1 .. n is a sequence
LEMMA FunctionIsSeq ==
  ASSUME NEW S, NEW n \in Nat, NEW f \in [1 .. n -> S]
  PROVE  f \in Seq(S)
<1>1. f \in UNION {[1 .. m -> S] : m \in Nat}
  OBVIOUS
<1>2. Seq(S) = UNION {[1 .. m -> S] : m \in Nat}
  BY SeqDef, Zenon
<1> QED BY <1>1, <1>2, Zenon

\* SignFlow changes nothing but signatures
LEMMA SignFlowKeeps ==
  ASSUME evidence \in Seq(Records), NEW f
  PROVE  /\ SignFlow(f) \in Seq(Records)
         /\ DOMAIN SignFlow(f) = DOMAIN evidence
         /\ \A i \in DOMAIN evidence :
              /\ SignFlow(f)[i].ev = evidence[i].ev /\ SignFlow(f)[i].prev = evidence[i].prev
              /\ SignFlow(f)[i].type = evidence[i].type /\ SignFlow(f)[i].flow = evidence[i].flow
              /\ SignFlow(f)[i].hash = evidence[i].hash
<1>1. CASE FlowEvents(f) = {}
  BY <1>1 DEF SignFlow
<1>2. CASE FlowEvents(f) # {}
  <2> DEFINE U == Update(LastOfQuery(f), "flow")
  <2>1. SignFlow(f) = U
    BY <1>2 DEF SignFlow
  <2>2. DOMAIN U = DOMAIN evidence
    BY DEF Update
  <2>3. ASSUME NEW i \in DOMAIN evidence
        PROVE  /\ U[i] \in Records /\ U[i].ev = evidence[i].ev /\ U[i].prev = evidence[i].prev
               /\ U[i].type = evidence[i].type /\ U[i].flow = evidence[i].flow
               /\ U[i].hash = evidence[i].hash
    <3>1. evidence[i] \in Records
      OBVIOUS
    <3>2. U[i] = evidence[i] \/ U[i] = [evidence[i] EXCEPT !.sig = "flow"]
      BY DEF Update
    <3> QED BY <3>1, <3>2 DEF Records
  <2>4. U \in Seq(Records)
    <3>1. U = [i \in 1 .. Len(evidence) |-> U[i]] /\ Len(evidence) \in Nat
      BY DEF Update
    <3>2. \A i \in 1 .. Len(evidence) : U[i] \in Records
      BY <2>3
    <3> HIDE DEF U
    <3>3. U \in [1 .. Len(evidence) -> Records]
      BY <3>1, <3>2
    <3> QED BY <3>1, <3>3, FunctionIsSeq
  <2> QED BY <2>1, <2>2, <2>3, <2>4
<1> QED BY <1>1, <1>2

\* Storing copies of a record
LEMMA StoreType ==
  ASSUME evidence \in Seq(Records), NEW rec \in Records, NEW copies \in Nat
  PROVE  /\ Store(rec, copies) \in Seq(Records)
         /\ Len(Store(rec, copies)) = Len(evidence) + copies
         /\ \A i \in DOMAIN evidence : Store(rec, copies)[i] = evidence[i]
         /\ \A i \in DOMAIN Store(rec, copies) \ DOMAIN evidence : Store(rec, copies)[i] = rec
<1> DEFINE new == [i \in 1 .. copies |-> rec]
<1>1. new \in Seq(Records) /\ Len(new) = copies /\ \A i \in 1 .. copies : new[i] = rec
  <2>1. new \in Seq(Records)
    BY IsASeq
  <2> QED BY <2>1
<1>2. Store(rec, copies) = evidence \o new
  BY DEF Store
<1> DEFINE all == evidence \o new
<1> HIDE DEF new
<1>3. all \in Seq(Records) /\ Len(all) = Len(evidence) + copies
  BY <1>1, ConcatProperties
<1>4. \A i \in 1 .. Len(all) : all[i] = IF i <= Len(evidence) THEN evidence[i]
                                                             ELSE new[i - Len(evidence)]
  BY <1>1, <1>3, ConcatProperties
<1>5. DOMAIN all = 1 .. Len(all) /\ DOMAIN evidence = 1 .. Len(evidence) /\ Len(evidence) \in Nat
  BY <1>3, LenProperties
<1> HIDE DEF all
<1>6. \A i \in DOMAIN all \ DOMAIN evidence : i - Len(evidence) \in 1 .. copies
  BY <1>3, <1>5
<1> QED BY <1>1, <1>2, <1>3, <1>4, <1>5, <1>6 DEF all

\* Every step keeps the types
LEMMA StepShape == Shape /\ [Next]_vars => Shape'
<1> SUFFICES ASSUME Shape, [Next]_vars PROVE Shape'
  OBVIOUS
<1>0. /\ \A x \in Calls : call[x] \in CallStates
      /\ Streams \subseteq Calls /\ Acks \subseteq Calls /\ Reports \subseteq Calls
  BY DEF Shape, Calls
<1>1. ASSUME NEW x \in Calls, NEW signed \in BOOLEAN, SubmitRead(x, signed) PROVE Shape'
  <2>0. [call[x] EXCEPT !.pc = "advance",
          !.rec = Record(clock + 1, call[x].type, call[x].flow, call[x].hash,
                         lastRecordHash, IF signed THEN "record" ELSE "none")] \in CallStates
    BY <1>0, <1>1, RecordType DEF SubmitRead, CallStates, Pcs, EventTypes, Flows
  <2>1. call' \in [Calls -> CallStates]
    BY <1>0, <1>1, <2>0, MoveType DEF SubmitRead
  <2> QED BY <1>1, <2>1, OutcomeType DEF SubmitRead, Shape, tables, chanState, history
<1>2. ASSUME NEW x \in Calls, SubmitAdvance(x) PROVE Shape'
  <2>0. [call[x] EXCEPT !.pc = "store"] \in CallStates
    BY <1>0, <1>2 DEF SubmitAdvance, CallStates, Pcs, EventTypes, Flows
  <2>1. call' \in [Calls -> CallStates]
    BY <1>0, <1>2, <2>0, MoveType DEF SubmitAdvance
  <2>2. lastRecordHash' \in Nat
    BY <1>0, <1>2 DEF SubmitAdvance, CallStates, Records
  <2> QED BY <1>2, <2>1, <2>2 DEF SubmitAdvance, Shape, tables, chanState, history
<1>3. ASSUME NEW x \in Calls, NEW copies \in 0 .. StoreAttempts, SubmitStore(x, copies) PROVE Shape'
  <2>1. [call[x] EXCEPT !.rec = NoRecord] \in CallStates
    BY <1>0, NewCallType DEF CallStates
  <2>2. call' \in [Calls -> CallStates]
    BY <1>3, <2>1, AfterSubmitType, MoveType DEF SubmitStore
  <2>3. call[x].rec \in Records /\ copies \in Nat
    BY <1>0, EvidenceConstants DEF CallStates
  <2>4. evidence' \in Seq(Records)
    BY <1>3, <2>3, StoreType DEF SubmitStore, Shape
  <2>5. faults' \in Nat
    BY <1>3, OutcomeType DEF SubmitStore, Shape
  <2> QED BY <1>3, <2>2, <2>4, <2>5 DEF SubmitStore, Shape, chanState, history
<1>4. ASSUME NEW s \in Streams, StreamOpen(s) PROVE Shape'
  <2>0. [call[s] EXCEPT !.pc = "recv", !.flow = s] \in CallStates
    BY <1>0, <1>4 DEF StreamOpen, CallStates, Pcs, EventTypes, Flows
  <2>1. call' \in [Calls -> CallStates]
    BY <1>0, <1>4, <2>0, MoveType DEF StreamOpen
  <2> QED BY <1>4, <2>1 DEF StreamOpen, Shape, tables, chanState, history
<1>5. ASSUME NEW s \in Streams, NEW read \in BOOLEAN, NEW signed \in BOOLEAN,
             StreamPacket(s, read, signed)
      PROVE  Shape'
  <2> DEFINE prev == IF read THEN LastDataHash(channel) ELSE NoHash
  <2>1. prev \in Hashes
    BY LastHashIsRow, NewCallType DEF Shape
  <2> HIDE DEF prev
  <2>2. call[s].n + 1 \in 1 .. MaxPackets
    BY <1>0, <1>5, EvidenceConstants DEF StreamPacket, CallStates
  <2> DEFINE h == Append(prev, <<s, call[s].n + 1>>)
  <2>3. h \in Hashes
    BY <2>1, <2>2 DEF Hashes, Payloads
  <2> DEFINE c == [call[s] EXCEPT !.pc = IF signed THEN "submit" ELSE "push",
                                  !.type = "DATA_SEND",
                                  !.n = call[s].n + 1,
                                  !.prev = prev,
                                  !.hash = h]
  <2>4. Move(s, c)
    BY <1>5 DEF StreamPacket, prev
  <2>41. c \in CallStates
    <3> HIDE DEF h
    <3>1. call[s] \in CallStates /\ call[s].n + 1 \in 0 .. MaxPackets
      BY <1>0, <2>2
    <3> QED BY <2>1, <2>3, <3>1 DEF CallStates, Pcs, EventTypes
  <2> HIDE DEF c
  <2>5. call' \in [Calls -> CallStates]
    BY <1>0, <2>4, <2>41, MoveType
  <2>6. faults' \in Nat
    BY <1>5, OutcomeType DEF StreamPacket, Shape
  <2> QED BY <1>5, <2>5, <2>6 DEF StreamPacket, Shape, tables, chanState
<1>6. ASSUME NEW s \in Streams, NEW ok \in BOOLEAN, RecordDataHash(s, ok) PROVE Shape'
  <2>0. [call[s] EXCEPT !.pc = "push"] \in CallStates
    BY <1>0, <1>6 DEF RecordDataHash, CallStates, Pcs, EventTypes, Flows
  <2>1. call' \in [Calls -> CallStates]
    BY <1>0, <1>6, <2>0, MoveType DEF RecordDataHash
  <2>2. DataRow(channel, call[s].hash, call[s].prev) \in Rows
    BY <1>0 DEF DataRow, Rows, Shape, CallStates
  <2>3. chain' \in Seq(Rows)
    BY <1>6, <2>2 DEF RecordDataHash, InsertRecord, Shape
  <2> QED BY <1>6, <2>1, <2>3, OutcomeType DEF RecordDataHash, Shape, chanState, history
<1>7. ASSUME NEW s \in Streams, StreamPush(s) PROVE Shape'
  <2>0. [call[s] EXCEPT !.pc = "recv", !.prev = NoHash, !.hash = NoHash] \in CallStates
    <3>1. NoHash \in Hashes /\ call[s] \in CallStates
      BY <1>0, NewCallType
    <3> QED BY <3>1 DEF CallStates, Pcs
  <2>1. call' \in [Calls -> CallStates]
    BY <1>0, <1>7, <2>0, MoveType DEF StreamPush
  <2> QED BY <1>7, <2>1 DEF StreamPush, Shape, tables, history, Flows
<1>8. ASSUME NEW s \in Streams, NEW ok \in BOOLEAN, StreamEOF(s, ok) PROVE Shape'
  <2>0. Returned(IF ok THEN "signed" ELSE "done") \in CallStates
    BY <1>0, <1>8, NewCallType DEF StreamEOF, CallStates, Pcs, EventTypes, Flows
  <2>1. call' \in [Calls -> CallStates]
    BY <1>0, <1>8, <2>0, MoveType DEF StreamEOF
  <2>2. evidence' \in Seq(Records)
    BY <1>8, SignFlowKeeps DEF StreamEOF, Shape
  <2> QED BY <1>8, <2>1, <2>2, OutcomeType DEF StreamEOF, Shape, chanState, history
<1>9. ASSUME NEW s \in Streams, StreamEnds(s) PROVE Shape'
  <2>0. Returned("done") \in CallStates
    BY <1>0, <1>9, NewCallType DEF StreamEnds, CallStates, Pcs, EventTypes, Flows
  <2>1. call' \in [Calls -> CallStates]
    BY <1>0, <1>9, <2>0, MoveType DEF StreamEnds
  <2> QED BY <1>9, <2>1 DEF StreamEnds, Shape, tables, chanState, history
<1>10. ASSUME NEW a \in Acks, SendAck(a) PROVE Shape'
  <2>0. [call[a] EXCEPT !.pc = "submit", !.type = "ACK_RECEIVED",
                        !.flow = currentFlowID] \in CallStates
    BY <1>0, <1>10 DEF SendAck, Shape, CallStates, Pcs, EventTypes, Flows
  <2>1. call' \in [Calls -> CallStates]
    BY <1>0, <1>10, <2>0, MoveType DEF SendAck, Shape
  <2> QED BY <1>10, <2>1 DEF SendAck, Shape, tables, chanState
<1>11. ASSUME NEW a \in Acks, NEW signed \in BOOLEAN, SendAckRefused(a, signed) PROVE Shape'
  <2>0. Returned("done") \in CallStates
    BY <1>0, <1>11, NewCallType DEF SendAckRefused, CallStates, Pcs, EventTypes, Flows
  <2>1. call' \in [Calls -> CallStates]
    BY <1>0, <1>11, <2>0, MoveType DEF SendAckRefused
  <2> QED BY <1>11, <2>1, OutcomeType DEF SendAckRefused, Shape, tables, chanState, history
<1>12. ASSUME NEW a \in Acks, NEW ok \in BOOLEAN, RecordAckScan(a, ok) PROVE Shape'
  <2>0. [call[a] EXCEPT !.pc = IF ok /\ AckSeen(AckSig[a]) THEN "push"
                                          ELSE "insert"] \in CallStates
    BY <1>0, <1>12 DEF RecordAckScan, CallStates, Pcs, EventTypes, Flows
  <2>1. call' \in [Calls -> CallStates]
    BY <1>0, <1>12, <2>0, MoveType DEF RecordAckScan
  <2> QED BY <1>12, <2>1, OutcomeType DEF RecordAckScan, Shape, tables, chanState, history
<1>13. ASSUME NEW a \in Acks, NEW ok \in BOOLEAN, RecordAckInsert(a, ok) PROVE Shape'
  <2>0. [call[a] EXCEPT !.pc = "push"] \in CallStates
    BY <1>0, <1>13 DEF RecordAckInsert, CallStates, Pcs, EventTypes, Flows
  <2>1. call' \in [Calls -> CallStates]
    BY <1>0, <1>13, <2>0, MoveType DEF RecordAckInsert
  <2>2. AckRow(channel, AckSig[a]) \in Rows
    BY NewCallType DEF AckRow, Rows, Shape
  <2>3. chain' \in Seq(Rows)
    BY <1>13, <2>2 DEF RecordAckInsert, InsertRecord, Shape
  <2> QED BY <1>13, <2>1, <2>3, OutcomeType DEF RecordAckInsert, Shape, chanState, history
<1>14. ASSUME NEW a \in Acks, AckPush(a) PROVE Shape'
  <2>0. Returned("done") \in CallStates
    BY <1>0, <1>14, NewCallType DEF AckPush, CallStates, Pcs, EventTypes, Flows
  <2>1. call' \in [Calls -> CallStates]
    BY <1>0, <1>14, <2>0, MoveType DEF AckPush
  <2>2. currentFlowID' \in Flows
    BY <1>0, <1>14 DEF AckPush, Shape, CallStates
  <2> QED BY <1>14, <2>1, <2>2 DEF AckPush, Shape, tables, history
<1>15. ASSUME NEW r \in Reports, SubmitEvidence(r) PROVE Shape'
  <2>0. [call[r] EXCEPT !.pc = "submit", !.type = "REPORT"] \in CallStates
    BY <1>0, <1>15 DEF SubmitEvidence, CallStates, Pcs, EventTypes, Flows
  <2>1. call' \in [Calls -> CallStates]
    BY <1>0, <1>15, <2>0, MoveType DEF SubmitEvidence
  <2> QED BY <1>15, <2>1 DEF SubmitEvidence, Shape, tables, chanState
<1>16. CASE CloseChannel
  BY <1>16 DEF CloseChannel, Shape, tables, history
<1>17. CASE Restart
  <2>1. call' \in [Calls -> CallStates]
    BY <1>0, <1>17, NewCallType DEF Restart, Shape, Pcs
  <2> QED BY <1>17, <2>1 DEF Restart, Shape, tables, Flows
<1>18. CASE UNCHANGED vars
  BY <1>18 DEF vars, Shape
<1> QED BY <1>1, <1>2, <1>3, <1>4, <1>5, <1>6, <1>7, <1>8, <1>9, <1>10, <1>11, <1>12, <1>13,
           <1>14, <1>15, <1>16, <1>17, <1>18
        DEF Next, StreamStep, AckStep, SubmitStep

-----------------------------------------------------------------------------
(* Steps by which a call neither takes up a hash nor submits a record *)

Plain(x, c) ==
  /\ x \in Calls /\ c \in CallStates
  /\ Move(x, c)
  /\ c.prev \in {call[x].prev, NoHash}
  /\ c.pc \in {"new", "signed"} => c.prev = NoHash
  /\ call[x].pc # "store" /\ c.pc \notin {"advance", "store"}

\* Such steps of a stream
LEMMA PlainStream ==
  ASSUME Shape, NEW s \in Streams, NEW ok \in BOOLEAN,
         \/ StreamOpen(s) \/ RecordDataHash(s, ok) \/ StreamPush(s) \/ StreamEOF(s, ok)
         \/ StreamEnds(s)
  PROVE  \E c : Plain(s, c)
<1>0. s \in Calls /\ call[s] \in CallStates /\ NoHash \in Hashes
  BY NewCallType DEF Shape, Calls
<1>1. CASE StreamOpen(s)
  <2> DEFINE c == [call[s] EXCEPT !.pc = "recv", !.flow = s]
  <2>1. c \in CallStates /\ c.prev = call[s].prev /\ c.pc = "recv"
    BY <1>0 DEF CallStates, Pcs, Flows
  <2>2. Move(s, c) /\ call[s].pc = "new"
    BY <1>1 DEF StreamOpen
  <2> QED BY <1>0, <2>1, <2>2 DEF Plain
<1>2. CASE RecordDataHash(s, ok)
  <2> DEFINE c == [call[s] EXCEPT !.pc = "push"]
  <2>1. c \in CallStates /\ c.prev = call[s].prev /\ c.pc = "push"
    BY <1>0 DEF CallStates, Pcs
  <2>2. Move(s, c) /\ call[s].pc = "chain"
    BY <1>2 DEF RecordDataHash
  <2> QED BY <1>0, <2>1, <2>2 DEF Plain
<1>3. CASE StreamPush(s)
  <2> DEFINE c == [call[s] EXCEPT !.pc = "recv", !.prev = NoHash, !.hash = NoHash]
  <2>1. c \in CallStates /\ c.prev = NoHash /\ c.pc = "recv"
    BY <1>0 DEF CallStates, Pcs
  <2>2. Move(s, c) /\ call[s].pc = "push"
    BY <1>3 DEF StreamPush
  <2> QED BY <1>0, <2>1, <2>2 DEF Plain
<1>4. CASE StreamEOF(s, ok)
  <2> DEFINE c == Returned(IF ok THEN "signed" ELSE "done")
  <2>1. c \in CallStates /\ c.prev = NoHash /\ c.pc \in {"signed", "done"}
    BY NewCallType DEF Pcs
  <2>2. Move(s, c) /\ call[s].pc = "recv"
    BY <1>4 DEF StreamEOF
  <2> HIDE DEF c
  <2> QED BY <1>0, <2>1, <2>2 DEF Plain
<1>5. CASE StreamEnds(s)
  <2> DEFINE c == Returned("done")
  <2>1. c \in CallStates /\ c.prev = NoHash /\ c.pc = "done"
    BY NewCallType DEF Pcs
  <2>2. Move(s, c) /\ call[s].pc \in {"recv", "push"}
    BY <1>5 DEF StreamEnds
  <2> HIDE DEF c
  <2> QED BY <1>0, <2>1, <2>2 DEF Plain
<1> QED BY <1>1, <1>2, <1>3, <1>4, <1>5

\* Such steps of an acknowledgement and of the evidence service
LEMMA PlainOther ==
  ASSUME Shape, NEW x \in Acks \union Reports, NEW ok \in BOOLEAN,
         \/ SendAck(x) \/ SendAckRefused(x, ok) \/ RecordAckScan(x, ok) \/ RecordAckInsert(x, ok)
         \/ AckPush(x) \/ SubmitEvidence(x)
  PROVE  \E c : Plain(x, c)
<1>0. x \in Calls /\ call[x] \in CallStates /\ NoHash \in Hashes
  BY NewCallType DEF Shape, Calls
<1>1. CASE SendAck(x)
  <2> DEFINE c == [call[x] EXCEPT !.pc = "submit", !.type = "ACK_RECEIVED", !.flow = currentFlowID]
  <2>1. c \in CallStates /\ c.prev = call[x].prev /\ c.pc = "submit"
    BY <1>0 DEF CallStates, Pcs, EventTypes, Shape
  <2>2. Move(x, c) /\ call[x].pc = "new"
    BY <1>1 DEF SendAck
  <2> QED BY <1>0, <2>1, <2>2 DEF Plain
<1>2. CASE RecordAckScan(x, ok)
  <2> DEFINE c == [call[x] EXCEPT !.pc = IF ok /\ AckSeen(AckSig[x]) THEN "push" ELSE "insert"]
  <2>1. c \in CallStates /\ c.prev = call[x].prev /\ c.pc \in {"push", "insert"}
    BY <1>0 DEF CallStates, Pcs
  <2>2. Move(x, c) /\ call[x].pc = "scan"
    BY <1>2 DEF RecordAckScan
  <2> HIDE DEF c
  <2> QED BY <1>0, <2>1, <2>2 DEF Plain
<1>3. CASE RecordAckInsert(x, ok)
  <2> DEFINE c == [call[x] EXCEPT !.pc = "push"]
  <2>1. c \in CallStates /\ c.prev = call[x].prev /\ c.pc = "push"
    BY <1>0 DEF CallStates, Pcs
  <2>2. Move(x, c) /\ call[x].pc = "insert"
    BY <1>3 DEF RecordAckInsert
  <2> QED BY <1>0, <2>1, <2>2 DEF Plain
<1>4. CASE SendAckRefused(x, ok) \/ AckPush(x)
  <2> DEFINE c == Returned("done")
  <2>1. c \in CallStates /\ c.prev = NoHash /\ c.pc = "done"
    BY NewCallType DEF Pcs
  <2>2. Move(x, c) /\ call[x].pc \in {"new", "push"}
    BY <1>4 DEF SendAckRefused, AckPush
  <2> HIDE DEF c
  <2> QED BY <1>0, <2>1, <2>2 DEF Plain
<1>5. CASE SubmitEvidence(x)
  <2> DEFINE c == [call[x] EXCEPT !.pc = "submit", !.type = "REPORT"]
  <2>1. c \in CallStates /\ c.prev = call[x].prev /\ c.pc = "submit"
    BY <1>0 DEF CallStates, Pcs, EventTypes
  <2>2. Move(x, c) /\ call[x].pc = "new"
    BY <1>5 DEF SubmitEvidence
  <2> QED BY <1>0, <2>1, <2>2 DEF Plain
<1> QED BY <1>1, <1>2, <1>3, <1>4, <1>5

-----------------------------------------------------------------------------
(* The business chain *)

RowIn(table, ch, hash) == \E j \in DOMAIN table : table[j].ch = ch /\ table[j].hash = hash

\* A stream works from the hash of a row of the present channel, or from none
WorksFromRow ==
  /\ \A s \in Streams : call[s].prev # NoHash => RowIn(chain, channel, call[s].prev)
  /\ \A s \in Streams : call[s].pc \in {"new", "signed"} => call[s].prev = NoHash

RootInv == ChainIsRooted /\ WorksFromRow

\* A row is inserted that has no predecessor or one in the chain
LEMMA InsertRooted ==
  ASSUME Shape, ChainIsRooted, NEW row \in Rows, NEW ok \in BOOLEAN, InsertRecord(row, ok),
         row.prev # NoHash => RowIn(chain, row.ch, row.prev)
  PROVE  /\ ChainIsRooted'
         /\ \A ch, hash : RowIn(chain, ch, hash) => RowIn(chain', ch, hash)
<1>1. CASE ~ok
  BY <1>1 DEF InsertRecord, ChainIsRooted, RowIn
<1>2. CASE ok
  <2>1. chain' = Append(chain, row) /\ chain \in Seq(Rows)
    BY <1>2 DEF InsertRecord, Shape
  <2>2. /\ chain' \in Seq(Rows) /\ Len(chain') = Len(chain) + 1 /\ Len(chain) \in Nat
        /\ \A i \in 1 .. Len(chain) : chain'[i] = chain[i]
        /\ chain'[Len(chain) + 1] = row
    BY <2>1, AppendProperties, LenProperties
  <2>3. DOMAIN chain = 1 .. Len(chain) /\ DOMAIN chain' = 1 .. Len(chain) + 1
    BY <2>1, <2>2, LenProperties
  <2>4. \A ch, hash : RowIn(chain, ch, hash) => RowIn(chain', ch, hash)
    BY <2>2, <2>3 DEF RowIn
  <2>5. ChainIsRooted'
    <3> SUFFICES ASSUME NEW i \in DOMAIN chain', chain'[i].prev # NoHash
                 PROVE  \E j \in 1 .. i - 1 : chain'[j].ch = chain'[i].ch /\ chain'[j].hash = chain'[i].prev
      BY DEF ChainIsRooted
    <3>1. CASE i \in DOMAIN chain
      <4>1. chain'[i] = chain[i]
        BY <2>2, <2>3, <3>1
      <4>2. PICK j \in 1 .. i - 1 : chain[j].ch = chain[i].ch /\ chain[j].hash = chain[i].prev
        BY <3>1, <4>1 DEF ChainIsRooted
      <4>3. chain'[j] = chain[j]
        BY <2>2, <2>3, <3>1
      <4> QED BY <4>1, <4>2, <4>3
    <3>2. CASE i \notin DOMAIN chain
      <4>1. i = Len(chain) + 1 /\ chain'[i] = row
        BY <2>2, <2>3, <3>2
      <4>2. PICK j \in DOMAIN chain : chain[j].ch = row.ch /\ chain[j].hash = row.prev
        BY <4>1 DEF RowIn
      <4>3. chain'[j] = chain[j] /\ j \in 1 .. i - 1
        BY <2>2, <2>3, <4>1
      <4> QED BY <4>1, <4>2, <4>3
    <3> QED BY <3>1, <3>2
  <2> QED BY <2>4, <2>5
<1> QED BY <1>1, <1>2

\* A plain step keeps what the streams work from, if no row is taken away
LEMMA PlainWorks ==
  ASSUME Shape, WorksFromRow, NEW x, NEW c, Plain(x, c), channel' = channel,
         \A ch, hash : RowIn(chain, ch, hash) => RowIn(chain', ch, hash)
  PROVE  WorksFromRow'
<1>1. /\ x \in Calls /\ call'[x] = c
      /\ \A y \in Calls : y # x => call'[y] = call[y]
  BY MoveType DEF Plain
<1>2. Streams \subseteq Calls
  BY DEF Calls
<1> SUFFICES ASSUME NEW s \in Streams
             PROVE  /\ call'[s].prev # NoHash => RowIn(chain', channel', call'[s].prev)
                    /\ call'[s].pc \in {"new", "signed"} => call'[s].prev = NoHash
  BY DEF WorksFromRow
<1>3. CASE s = x
  <2>1. call'[s].prev \in {call[s].prev, NoHash}
    BY <1>1, <1>3 DEF Plain
  <2>2. call'[s].pc \in {"new", "signed"} => call'[s].prev = NoHash
    BY <1>1, <1>3 DEF Plain
  <2>3. call[s].prev # NoHash => RowIn(chain, channel, call[s].prev)
    BY DEF WorksFromRow
  <2> QED BY <2>1, <2>2, <2>3
<1>4. CASE s # x
  <2>1. call'[s] = call[s]
    BY <1>1, <1>2, <1>4
  <2> QED BY <2>1 DEF WorksFromRow
<1> QED BY <1>3, <1>4

\* The same when the chain is left alone
LEMMA PlainRooted ==
  ASSUME Shape, RootInv, NEW x, NEW c, Plain(x, c), channel' = channel, chain' = chain
  PROVE  RootInv'
<1>1. ChainIsRooted'
  BY DEF RootInv, ChainIsRooted
<1>2. WorksFromRow'
  BY PlainWorks DEF RootInv
<1> QED BY <1>1, <1>2 DEF RootInv

\* Every step keeps the business chain rooted
LEMMA StepRooted == Shape /\ RootInv /\ [Next]_vars => RootInv'
<1> SUFFICES ASSUME Shape, RootInv, [Next]_vars PROVE RootInv'
  OBVIOUS
<1>0. /\ \A x \in Calls : call[x] \in CallStates
      /\ Streams \subseteq Calls /\ Acks \subseteq Calls /\ Reports \subseteq Calls
  BY DEF Shape, Calls
<1>1. ASSUME NEW x \in Calls, NEW signed \in BOOLEAN, SubmitRead(x, signed) PROVE RootInv'
  <2> DEFINE rec == Record(clock + 1, call[x].type, call[x].flow, call[x].hash, lastRecordHash,
                           IF signed THEN "record" ELSE "none")
  <2> DEFINE c == [call[x] EXCEPT !.pc = "advance", !.rec = rec]
  <2>1. Move(x, c) /\ channel' = channel /\ chain' = chain
    BY <1>1 DEF SubmitRead, tables, chanState
  <2>2. rec \in Records
    BY RecordType
  <2> HIDE DEF rec
  <2>3. c \in CallStates /\ c.prev = call[x].prev /\ c.pc = "advance"
    BY <1>0, <2>2 DEF CallStates, Pcs
  <2>4. /\ call'[x] = c
        /\ \A y \in Calls : y # x => call'[y] = call[y]
    BY <2>1, <2>3, MoveType
  <2> HIDE DEF c
  <2>5. \A s \in Streams :
          /\ call'[s].prev = call[s].prev
          /\ call'[s].pc \in {"new", "signed"} => call[s].pc \in {"new", "signed"}
    BY <1>0, <2>3, <2>4
  <2> QED BY <2>1, <2>5 DEF RootInv, ChainIsRooted, WorksFromRow
<1>2. ASSUME NEW x \in Calls, SubmitAdvance(x) PROVE RootInv'
  <2> DEFINE c == [call[x] EXCEPT !.pc = "store"]
  <2>1. Move(x, c) /\ channel' = channel /\ chain' = chain
    BY <1>2 DEF SubmitAdvance, tables, chanState
  <2>2. c \in CallStates /\ c.prev = call[x].prev /\ c.pc = "store"
    BY <1>0 DEF CallStates, Pcs
  <2>3. /\ call'[x] = c
        /\ \A y \in Calls : y # x => call'[y] = call[y]
    BY <2>1, <2>2, MoveType
  <2> HIDE DEF c
  <2>4. \A s \in Streams :
          /\ call'[s].prev = call[s].prev
          /\ call'[s].pc \in {"new", "signed"} => call[s].pc \in {"new", "signed"}
    BY <1>0, <2>2, <2>3
  <2> QED BY <2>1, <2>4 DEF RootInv, ChainIsRooted, WorksFromRow
<1>3. ASSUME NEW x \in Calls, NEW copies \in 0 .. StoreAttempts, SubmitStore(x, copies)
      PROVE  RootInv'
  <2> DEFINE b == [call[x] EXCEPT !.rec = NoRecord]
  <2> DEFINE c == AfterSubmit(b)
  <2>1. Move(x, c) /\ channel' = channel /\ chain' = chain
    BY <1>3 DEF SubmitStore, chanState
  <2>2. b \in CallStates /\ b.prev = call[x].prev
    <3>1. call[x] \in CallStates /\ NoRecord \in Records
      BY <1>0, NewCallType
    <3> QED BY <3>1 DEF CallStates
  <2> HIDE DEF b
  <2>3. c \in CallStates /\ c.prev \in {call[x].prev, NoHash} /\ c.pc \notin {"new", "signed"}
    BY <2>2, AfterSubmitType
  <2>4. /\ call'[x] = c
        /\ \A y \in Calls : y # x => call'[y] = call[y]
    BY <2>1, <2>3, MoveType
  <2> HIDE DEF c
  <2>5. \A s \in Streams :
          /\ call'[s].prev \in {call[s].prev, NoHash}
          /\ call'[s].pc \in {"new", "signed"} => call'[s] = call[s]
    BY <1>0, <2>3, <2>4
  <2> QED BY <2>1, <2>5 DEF RootInv, ChainIsRooted, WorksFromRow
<1>4. ASSUME NEW s \in Streams, NEW read \in BOOLEAN, NEW signed \in BOOLEAN,
             StreamPacket(s, read, signed)
      PROVE  RootInv'
  <2> DEFINE prev == IF read THEN LastDataHash(channel) ELSE NoHash
  <2>1. prev # NoHash => RowIn(chain, channel, prev)
    BY LastHashIsRow DEF Shape, RowIn
  <2>2. call' = [call EXCEPT ![s] = [call[s] EXCEPT
                   !.pc = IF signed THEN "submit" ELSE "push",
                   !.type = "DATA_SEND",
                   !.n = call[s].n + 1,
                   !.prev = prev,
                   !.hash = Append(prev, <<s, call[s].n + 1>>)]]
    BY <1>4 DEF StreamPacket, Move
  <2> HIDE DEF prev
  <2>3. /\ call'[s].prev = prev /\ call'[s].pc \in {"submit", "push"}
        /\ \A r \in Streams : r # s => call'[r] = call[r]
    BY <1>0, <2>2 DEF Shape, CallStates
  <2>4. channel' = channel /\ chain' = chain
    BY <1>4 DEF StreamPacket, tables, chanState
  <2> QED BY <2>1, <2>3, <2>4 DEF RootInv, ChainIsRooted, WorksFromRow
<1>5. ASSUME NEW s \in Streams, NEW ok \in BOOLEAN, RecordDataHash(s, ok) PROVE RootInv'
  <2> DEFINE row == DataRow(channel, call[s].hash, call[s].prev)
  <2>1. row \in Rows /\ row.ch = channel /\ row.prev = call[s].prev
    BY <1>0 DEF DataRow, Rows, Shape, CallStates
  <2>2. InsertRecord(row, ok) /\ channel' = channel
    BY <1>5 DEF RecordDataHash, chanState
  <2> HIDE DEF row
  <2>3. row.prev # NoHash => RowIn(chain, row.ch, row.prev)
    BY <2>1 DEF RootInv, WorksFromRow
  <2>4. /\ ChainIsRooted'
        /\ \A ch, hash : RowIn(chain, ch, hash) => RowIn(chain', ch, hash)
    BY <2>1, <2>2, <2>3, InsertRooted DEF RootInv
  <2>5. PICK c : Plain(s, c)
    BY <1>5, PlainStream
  <2> QED BY <2>2, <2>4, <2>5, PlainWorks DEF RootInv
<1>6. ASSUME NEW a \in Acks, NEW ok \in BOOLEAN, RecordAckInsert(a, ok) PROVE RootInv'
  <2> DEFINE row == AckRow(channel, AckSig[a])
  <2>1. row \in Rows /\ row.prev = NoHash
    BY NewCallType DEF AckRow, Rows, Shape
  <2>2. InsertRecord(row, ok) /\ channel' = channel
    BY <1>6 DEF RecordAckInsert, chanState
  <2> HIDE DEF row
  <2>3. /\ ChainIsRooted'
        /\ \A ch, hash : RowIn(chain, ch, hash) => RowIn(chain', ch, hash)
    BY <2>1, <2>2, InsertRooted DEF RootInv
  <2>4. PICK c : Plain(a, c)
    BY <1>6, PlainOther
  <2> QED BY <2>2, <2>3, <2>4, PlainWorks DEF RootInv
<1>7. ASSUME NEW s \in Streams, NEW ok \in BOOLEAN,
             StreamOpen(s) \/ StreamPush(s) \/ StreamEOF(s, ok) \/ StreamEnds(s)
      PROVE  RootInv'
  <2>1. PICK c : Plain(s, c)
    BY <1>7, PlainStream
  <2>2. channel' = channel /\ chain' = chain
    BY <1>7 DEF StreamOpen, StreamPush, StreamEOF, StreamEnds, tables, chanState
  <2> QED BY <2>1, <2>2, PlainRooted
<1>8. ASSUME NEW x \in Acks \union Reports, NEW ok \in BOOLEAN,
             \/ SendAck(x) \/ SendAckRefused(x, ok) \/ RecordAckScan(x, ok) \/ AckPush(x)
             \/ SubmitEvidence(x)
      PROVE  RootInv'
  <2>1. PICK c : Plain(x, c)
    BY <1>8, PlainOther
  <2>2. channel' = channel /\ chain' = chain
    BY <1>8 DEF SendAck, SendAckRefused, RecordAckScan, AckPush, SubmitEvidence, tables, chanState
  <2> QED BY <2>1, <2>2, PlainRooted
<1>9. CASE CloseChannel
  BY <1>9 DEF CloseChannel, RootInv, ChainIsRooted, WorksFromRow, tables
<1>10. CASE Restart
  <2>1. chain' = chain
    BY <1>10 DEF Restart, tables
  <2>2. \A s \in Streams : call'[s].prev = NoHash
    BY <1>0, <1>10, NewCallType DEF Restart, RootInv, WorksFromRow, Pcs
  <2> QED BY <2>1, <2>2 DEF RootInv, ChainIsRooted, WorksFromRow
<1>11. CASE UNCHANGED vars
  BY <1>11 DEF vars, RootInv, ChainIsRooted, WorksFromRow
<1> QED BY <1>1, <1>2, <1>3, <1>4, <1>5, <1>6, <1>7, <1>8, <1>9, <1>10, <1>11
        DEF Next, StreamStep, AckStep, SubmitStep

\* The business chain of a channel is rooted, with any number of overlapping streams and
\* acknowledgements, failures of the database and restarts
THEOREM BusinessChainRooted == Spec => []ChainIsRooted
<1>1. Init => Shape /\ RootInv
  <2>1. Init => RootInv
    BY NewCallType DEF Init, RootInv, ChainIsRooted, WorksFromRow, NewCall, Calls
  <2> QED BY <2>1, InitShape
<1>2. Shape /\ RootInv /\ [Next]_vars => (Shape /\ RootInv)'
  BY StepShape, StepRooted
<1>3. Shape /\ RootInv => ChainIsRooted
  BY DEF RootInv
<1> QED BY <1>1, <1>2, <1>3, PTL DEF Spec

-----------------------------------------------------------------------------
(* The predecessors of evidence records *)

\* A record that is in the table or about to be stored; 0 names none
Known(table, calls, e) ==
  \/ e = 0
  \/ \E i \in DOMAIN table : table[i].ev = e
  \/ \E y \in Calls : calls[y].pc = "store" /\ calls[y].rec.ev = e

\* While nothing has failed, whatever names a predecessor names a known one
LostInv ==
  faults = 0 /\ restarts = 0 =>
    /\ Known(evidence, call, lastRecordHash)
    /\ \A y \in Calls : call[y].pc \in {"advance", "store"}
                          => Known(evidence, call, call[y].rec.prev)
    /\ \A i \in DOMAIN evidence : Known(evidence, call, evidence[i].prev)

\* A plain step takes no record out of a table whose events and links stay
LEMMA PlainLost ==
  ASSUME Shape, LostInv, NEW x, NEW c, Plain(x, c),
         lastRecordHash' = lastRecordHash, restarts' = restarts, faults' = 0 => faults = 0,
         DOMAIN evidence' = DOMAIN evidence,
         \A i \in DOMAIN evidence :
           evidence'[i].ev = evidence[i].ev /\ evidence'[i].prev = evidence[i].prev
  PROVE  LostInv'
<1>1. /\ x \in Calls /\ call'[x] = c
      /\ \A y \in Calls : y # x => call'[y] = call[y]
  BY MoveType DEF Plain
<1>2. call[x].pc # "store" /\ c.pc \notin {"advance", "store"}
  BY DEF Plain
<1> SUFFICES ASSUME faults' = 0, restarts' = 0
             PROVE  /\ Known(evidence', call', lastRecordHash')
                    /\ \A y \in Calls : call'[y].pc \in {"advance", "store"}
                                          => Known(evidence', call', call'[y].rec.prev)
                    /\ \A i \in DOMAIN evidence' : Known(evidence', call', evidence'[i].prev)
  BY DEF LostInv
<1>3. \A e : Known(evidence, call, e) => Known(evidence', call', e)
  BY <1>1, <1>2 DEF Known
<1>4. \A y \in Calls : call'[y].pc \in {"advance", "store"} => y # x
  BY <1>1, <1>2
<1>5. /\ Known(evidence, call, lastRecordHash)
      /\ \A y \in Calls : call[y].pc \in {"advance", "store"}
                            => Known(evidence, call, call[y].rec.prev)
      /\ \A i \in DOMAIN evidence : Known(evidence, call, evidence[i].prev)
  BY DEF LostInv
<1> HIDE DEF Known
<1> QED BY <1>1, <1>3, <1>4, <1>5

\* Every step keeps the predecessors known
LEMMA StepLost == Shape /\ LostInv /\ [Next]_vars => LostInv'
<1> SUFFICES ASSUME Shape, LostInv, [Next]_vars PROVE LostInv'
  OBVIOUS
<1>0. /\ \A x \in Calls : call[x] \in CallStates
      /\ Streams \subseteq Calls /\ Acks \subseteq Calls /\ Reports \subseteq Calls
  BY DEF Shape, Calls
<1>00. faults = 0 /\ restarts = 0 =>
         /\ Known(evidence, call, lastRecordHash)
         /\ \A y \in Calls : call[y].pc \in {"advance", "store"}
                               => Known(evidence, call, call[y].rec.prev)
         /\ \A i \in DOMAIN evidence : Known(evidence, call, evidence[i].prev)
  BY DEF LostInv
<1>1. ASSUME NEW x \in Calls, NEW signed \in BOOLEAN, SubmitRead(x, signed) PROVE LostInv'
  <2> DEFINE rec == Record(clock + 1, call[x].type, call[x].flow, call[x].hash, lastRecordHash,
                           IF signed THEN "record" ELSE "none")
  <2> DEFINE c == [call[x] EXCEPT !.pc = "advance", !.rec = rec]
  <2>1. /\ Move(x, c) /\ call[x].pc = "submit"
        /\ lastRecordHash' = lastRecordHash /\ evidence' = evidence /\ restarts' = restarts
    BY <1>1 DEF SubmitRead, tables, history
  <2>2. rec \in Records /\ rec.prev = lastRecordHash
    BY RecordType DEF Record
  <2> HIDE DEF rec
  <2>3. c \in CallStates /\ c.pc = "advance" /\ c.rec.prev = lastRecordHash
    BY <1>0, <2>2 DEF CallStates, Pcs
  <2>4. /\ call'[x] = c
        /\ \A y \in Calls : y # x => call'[y] = call[y]
    BY <2>1, <2>3, MoveType
  <2> HIDE DEF c
  <2>5. faults' = 0 => faults = 0
    BY <1>1, OutcomeType DEF SubmitRead, Shape
  <2>6. \A e : Known(evidence, call, e) => Known(evidence', call', e)
    BY <2>1, <2>3, <2>4 DEF Known
  <2> QED BY <1>00, <2>1, <2>3, <2>4, <2>5, <2>6 DEF LostInv
<1>2. ASSUME NEW x \in Calls, SubmitAdvance(x) PROVE LostInv'
  <2> DEFINE c == [call[x] EXCEPT !.pc = "store"]
  <2>1. /\ Move(x, c) /\ call[x].pc = "advance"
        /\ lastRecordHash' = call[x].rec.ev /\ evidence' = evidence
        /\ restarts' = restarts /\ faults' = faults
    BY <1>2 DEF SubmitAdvance, tables, history
  <2>2. c \in CallStates /\ c.pc = "store" /\ c.rec = call[x].rec
    BY <1>0 DEF CallStates, Pcs
  <2>3. /\ call'[x] = c
        /\ \A y \in Calls : y # x => call'[y] = call[y]
    BY <2>1, <2>2, MoveType
  <2> HIDE DEF c
  <2>4. \A e : Known(evidence, call, e) => Known(evidence', call', e)
    BY <2>1, <2>2, <2>3 DEF Known
  <2>5. Known(evidence', call', lastRecordHash')
    BY <2>1, <2>2, <2>3 DEF Known
  <2> QED BY <1>00, <2>1, <2>2, <2>3, <2>4, <2>5 DEF LostInv
<1>3. ASSUME NEW x \in Calls, NEW copies \in 0 .. StoreAttempts, SubmitStore(x, copies)
      PROVE  LostInv'
  <2> DEFINE b == [call[x] EXCEPT !.rec = NoRecord]
  <2> DEFINE c == AfterSubmit(b)
  <2>1. /\ Move(x, c) /\ call[x].pc = "store" /\ evidence' = Store(call[x].rec, copies)
        /\ lastRecordHash' = lastRecordHash /\ restarts' = restarts
    BY <1>3 DEF SubmitStore, history
  <2>2. b \in CallStates
    <3>1. call[x] \in CallStates /\ NoRecord \in Records
      BY <1>0, NewCallType
    <3> QED BY <3>1 DEF CallStates
  <2> HIDE DEF b
  <2>3. c \in CallStates /\ c.pc \notin {"advance", "store"}
    BY <2>2, AfterSubmitType
  <2>4. /\ call'[x] = c
        /\ \A y \in Calls : y # x => call'[y] = call[y]
    BY <2>1, <2>3, MoveType
  <2> HIDE DEF c
  <2>5. faults' = 0 => faults = 0 /\ copies = 1
    BY <1>3, OutcomeType DEF SubmitStore, Shape
  <2>6. /\ call[x].rec \in Records /\ copies \in Nat /\ evidence \in Seq(Records)
        /\ evidence' \in Seq(Records) /\ Len(evidence') = Len(evidence) + copies
        /\ \A i \in DOMAIN evidence : evidence'[i] = evidence[i]
        /\ \A i \in DOMAIN evidence' \ DOMAIN evidence : evidence'[i] = call[x].rec
    <3>1. call[x].rec \in Records /\ copies \in Nat /\ evidence \in Seq(Records)
      BY <1>0, EvidenceConstants DEF CallStates, Shape
    <3> QED BY <2>1, <3>1, StoreType
  <2>7. /\ DOMAIN evidence = 1 .. Len(evidence) /\ Len(evidence) \in Nat
        /\ DOMAIN evidence' = 1 .. Len(evidence) + copies
    BY <2>6, LenProperties
  <2> SUFFICES ASSUME faults' = 0, restarts' = 0
               PROVE  /\ Known(evidence', call', lastRecordHash')
                      /\ \A y \in Calls : call'[y].pc \in {"advance", "store"}
                                            => Known(evidence', call', call'[y].rec.prev)
                      /\ \A i \in DOMAIN evidence' : Known(evidence', call', evidence'[i].prev)
    BY DEF LostInv
  <2>8. /\ \A i \in DOMAIN evidence : i \in DOMAIN evidence'
        /\ \E i \in DOMAIN evidence' : evidence'[i].ev = call[x].rec.ev
    <3>1. Len(evidence) + 1 \in DOMAIN evidence' \ DOMAIN evidence
      BY <2>5, <2>7
    <3> QED BY <2>6, <2>7, <3>1
  <2>9. ASSUME NEW e, Known(evidence, call, e) PROVE Known(evidence', call', e)
    <3>1. CASE e = 0
      BY <3>1 DEF Known
    <3>2. CASE \E i \in DOMAIN evidence : evidence[i].ev = e
      BY <2>6, <2>8, <3>2 DEF Known
    <3>3. CASE \E y \in Calls : call[y].pc = "store" /\ call[y].rec.ev = e
      BY <2>4, <2>8, <3>3 DEF Known
    <3> QED BY <2>9, <3>1, <3>2, <3>3 DEF Known
  <2>10. \A i \in DOMAIN evidence' :
           \/ evidence'[i].prev = call[x].rec.prev
           \/ i \in DOMAIN evidence /\ evidence'[i].prev = evidence[i].prev
    BY <2>6
  <2>11. \A y \in Calls : call'[y].pc \in {"advance", "store"} => call'[y] = call[y]
    BY <2>3, <2>4
  <2> QED BY <1>00, <2>1, <2>5, <2>9, <2>10, <2>11
<1>4. ASSUME NEW s \in Streams, NEW read \in BOOLEAN, NEW signed \in BOOLEAN,
             StreamPacket(s, read, signed)
      PROVE  LostInv'
  <2>1. /\ call[s].pc = "recv" /\ call'[s].pc \in {"submit", "push"}
        /\ \A y \in Calls : y # s => call'[y] = call[y]
    <3> DEFINE prev == IF read THEN LastDataHash(channel) ELSE NoHash
    <3>1. call' = [call EXCEPT ![s] = [call[s] EXCEPT
                     !.pc = IF signed THEN "submit" ELSE "push",
                     !.type = "DATA_SEND",
                     !.n = call[s].n + 1,
                     !.prev = prev,
                     !.hash = Append(prev, <<s, call[s].n + 1>>)]]
      BY <1>4 DEF StreamPacket, Move
    <3> HIDE DEF prev
    <3>2. call[s].pc = "recv"
      BY <1>4 DEF StreamPacket
    <3> QED BY <1>0, <3>1, <3>2 DEF Shape, CallStates
  <2>2. lastRecordHash' = lastRecordHash /\ evidence' = evidence /\ restarts' = restarts
    BY <1>4 DEF StreamPacket, tables
  <2>3. faults' = 0 => faults = 0
    BY <1>4, OutcomeType DEF StreamPacket, Shape
  <2>4. \A e : Known(evidence, call, e) => Known(evidence', call', e)
    BY <2>1, <2>2 DEF Known
  <2>5. \A y \in Calls : call'[y].pc \in {"advance", "store"} => call'[y] = call[y]
    BY <2>1
  <2> QED BY <1>00, <2>2, <2>3, <2>4, <2>5 DEF LostInv
<1>5. ASSUME NEW s \in Streams, NEW ok \in BOOLEAN,
             \/ StreamOpen(s) \/ RecordDataHash(s, ok) \/ StreamPush(s) \/ StreamEnds(s)
      PROVE  LostInv'
  <2>1. PICK c : Plain(s, c)
    BY <1>5, PlainStream
  <2>2. lastRecordHash' = lastRecordHash /\ restarts' = restarts /\ evidence' = evidence
    BY <1>5 DEF StreamOpen, RecordDataHash, StreamPush, StreamEnds, tables, history
  <2>3. faults' = 0 => faults = 0
    BY <1>5, OutcomeType DEF StreamOpen, RecordDataHash, StreamPush, StreamEnds, Shape
  <2> QED BY <2>1, <2>2, <2>3, PlainLost
<1>6. ASSUME NEW s \in Streams, NEW ok \in BOOLEAN, StreamEOF(s, ok) PROVE LostInv'
  <2>1. PICK c : Plain(s, c)
    BY <1>6, PlainStream
  <2>2. /\ lastRecordHash' = lastRecordHash /\ restarts' = restarts
        /\ evidence' = evidence \/ evidence' = SignFlow(s)
    BY <1>6 DEF StreamEOF, history
  <2>3. faults' = 0 => faults = 0
    BY <1>6, OutcomeType DEF StreamEOF, Shape
  <2>4. /\ DOMAIN evidence' = DOMAIN evidence
        /\ \A i \in DOMAIN evidence :
             evidence'[i].ev = evidence[i].ev /\ evidence'[i].prev = evidence[i].prev
    BY <2>2, SignFlowKeeps DEF Shape
  <2> QED BY <2>1, <2>2, <2>3, <2>4, PlainLost
<1>7. ASSUME NEW x \in Acks \union Reports, NEW ok \in BOOLEAN,
             \/ SendAck(x) \/ SendAckRefused(x, ok) \/ RecordAckScan(x, ok)
             \/ RecordAckInsert(x, ok) \/ AckPush(x) \/ SubmitEvidence(x)
      PROVE  LostInv'
  <2>1. PICK c : Plain(x, c)
    BY <1>7, PlainOther
  <2>2. lastRecordHash' = lastRecordHash /\ restarts' = restarts /\ evidence' = evidence
    BY <1>7 DEF SendAck, SendAckRefused, RecordAckScan, RecordAckInsert, AckPush, SubmitEvidence,
                tables, history
  <2>3. faults' = 0 => faults = 0
    BY <1>7, OutcomeType DEF SendAck, SendAckRefused, RecordAckScan, RecordAckInsert, AckPush,
                             SubmitEvidence, Shape
  <2> QED BY <2>1, <2>2, <2>3, PlainLost
<1>8. CASE CloseChannel
  BY <1>8 DEF CloseChannel, LostInv, Known, tables, history
<1>9. CASE Restart
  BY <1>9 DEF Restart, LostInv, Shape
<1>10. CASE UNCHANGED vars
  BY <1>10 DEF vars, LostInv, Known
<1> QED BY <1>1, <1>2, <1>3, <1>4, <1>5, <1>6, <1>7, <1>8, <1>9, <1>10
        DEF Next, StreamStep, AckStep, SubmitStep

\* As long as nothing fails and the kernel runs, overlapping calls never cut the evidence chain:
\* the predecessor a stored record names is stored or about to be
THEOREM PredecessorKept == Spec => []NoLostPredecessor
<1>1. Init => Shape /\ LostInv
  <2>1. Init => LostInv
    BY DEF Init, LostInv, Known, NewCall
  <2> QED BY <2>1, InitShape
<1>2. Shape /\ LostInv /\ [Next]_vars => (Shape /\ LostInv)'
  BY StepShape, StepLost
<1>3. Shape /\ LostInv => NoLostPredecessor
  BY DEF LostInv, Known, NoLostPredecessor, Stored
<1> QED BY <1>1, <1>2, <1>3, PTL DEF Spec

-----------------------------------------------------------------------------
(* What every action does, as far as the proofs below look at it *)

Others(x) == \A y \in Calls : y # x => call'[y] = call[y]

\* The call keeps what it is about
SameSubject(x) == call'[x].type = call[x].type /\ call'[x].flow = call[x].flow
                    /\ call'[x].hash = call[x].hash

\* Failures are counted and never forgotten
Counted(ok) == (faults' = 0 => faults = 0 /\ ok) /\ (faults <= MaxFaults => faults' <= MaxFaults)

\* Outcome counts a failure within its bound
LEMMA OutcomeCounts ==
  ASSUME Shape, NEW ok \in BOOLEAN, Outcome(ok)
  PROVE  Counted(ok)
  BY EvidenceConstants DEF Outcome, Counted, Shape

\* AuditLog.SubmitBasicEvidenceWithMetadata makes a record of the call
LEMMA ReadEffect ==
  ASSUME Shape, NEW x \in Calls, NEW signed \in BOOLEAN, SubmitRead(x, signed)
  PROVE  /\ call[x].pc = "submit" /\ call'[x].pc = "advance" /\ SameSubject(x) /\ Others(x)
         /\ call'[x].rec.ev = clock + 1 /\ call'[x].rec.prev = lastRecordHash
         /\ call'[x].rec.type = call[x].type /\ call'[x].rec.flow = call[x].flow
         /\ call'[x].rec.hash = call[x].hash /\ call'[x].rec.sig # "flow"
         /\ clock' = clock + 1 /\ Counted(TRUE)
         /\ UNCHANGED <<lastRecordHash, evidence, chain, channel, active, currentFlowID, pushed,
                        committed, restarts, overlapped>>
<1> DEFINE rec == Record(clock + 1, call[x].type, call[x].flow, call[x].hash, lastRecordHash,
                         IF signed THEN "record" ELSE "none")
<1> DEFINE c == [call[x] EXCEPT !.pc = "advance", !.rec = rec]
<1>1. Move(x, c) /\ call[x].pc = "submit" /\ Outcome(signed) /\ clock' = clock + 1
  BY DEF SubmitRead
<1>2. /\ rec \in Records /\ rec.ev = clock + 1 /\ rec.prev = lastRecordHash
      /\ rec.type = call[x].type /\ rec.flow = call[x].flow /\ rec.hash = call[x].hash
      /\ rec.sig # "flow"
  BY RecordType DEF Record
<1> HIDE DEF rec
<1>3. call[x] \in CallStates
  BY DEF Shape
<1>4. /\ c \in CallStates /\ c.pc = "advance" /\ c.rec = rec
      /\ c.type = call[x].type /\ c.flow = call[x].flow /\ c.hash = call[x].hash
  BY <1>2, <1>3 DEF CallStates, Pcs
<1> HIDE DEF c
<1>5. call'[x] = c /\ Others(x)
  BY <1>1, <1>4, MoveType DEF Others
<1>6. Counted(TRUE)
  BY <1>1, OutcomeCounts DEF Counted
<1>7. UNCHANGED <<lastRecordHash, evidence, chain, channel, active, currentFlowID, pushed,
                  committed, restarts, overlapped>>
  BY DEF SubmitRead, tables, chanState, history
<1> QED BY <1>1, <1>2, <1>4, <1>5, <1>6, <1>7 DEF SameSubject

\* The second critical section makes the record the last one
LEMMA AdvanceEffect ==
  ASSUME Shape, NEW x \in Calls, SubmitAdvance(x)
  PROVE  /\ call[x].pc = "advance" /\ call'[x].pc = "store" /\ SameSubject(x) /\ Others(x)
         /\ call'[x].rec = call[x].rec /\ lastRecordHash' = call[x].rec.ev
         /\ UNCHANGED <<evidence, chain, clock, channel, active, currentFlowID, pushed,
                        committed, faults, restarts, overlapped>>
<1> DEFINE c == [call[x] EXCEPT !.pc = "store"]
<1>1. call[x] \in CallStates
  BY DEF Shape
<1>2. /\ c \in CallStates /\ c.pc = "store" /\ c.rec = call[x].rec
      /\ c.type = call[x].type /\ c.flow = call[x].flow /\ c.hash = call[x].hash
  BY <1>1 DEF CallStates, Pcs
<1>3. Move(x, c) /\ call[x].pc = "advance"
  BY DEF SubmitAdvance
<1> HIDE DEF c
<1>4. call'[x] = c /\ Others(x)
  BY <1>2, <1>3, MoveType DEF Others
<1>5. /\ lastRecordHash' = call[x].rec.ev
      /\ UNCHANGED <<evidence, chain, clock, channel, active, currentFlowID, pushed,
                     committed, faults, restarts, overlapped>>
  BY DEF SubmitAdvance, tables, chanState, history
<1> QED BY <1>2, <1>3, <1>4, <1>5 DEF SameSubject

\* Where a call goes after its record is submitted, by what the record is about
LEMMA AfterSubmitGoes ==
  ASSUME NEW c \in CallStates
  PROVE  /\ c.type = "DATA_SEND" =>
              /\ AfterSubmit(c).pc = "submit" /\ AfterSubmit(c).type = "DATA_RECEIVE"
              /\ AfterSubmit(c).flow = c.flow /\ AfterSubmit(c).hash = c.hash
         /\ c.type = "DATA_RECEIVE" =>
              /\ AfterSubmit(c).pc = "chain" /\ AfterSubmit(c).type = c.type
              /\ AfterSubmit(c).flow = c.flow /\ AfterSubmit(c).hash = c.hash
         /\ c.type = "ACK_RECEIVED" => AfterSubmit(c).pc = "scan" /\ AfterSubmit(c).flow = c.flow
         /\ c.type = "REPORT" => AfterSubmit(c).pc = "done" /\ AfterSubmit(c).flow = NoFlow
<1>1. CASE c.type = "REPORT"
  BY <1>1 DEF AfterSubmit, Returned, NewCall
<1>2. CASE c.type # "REPORT"
  BY <1>2 DEF AfterSubmit, CallStates
<1> QED BY <1>1, <1>2

\* The record is stored any number of times, once if nothing fails
LEMMA StoreEffect ==
  ASSUME Shape, NEW x \in Calls, NEW copies \in 0 .. StoreAttempts, SubmitStore(x, copies)
  PROVE  /\ call[x].pc = "store" /\ call[x].rec \in Records /\ Others(x)
         /\ call[x].type = "DATA_SEND" =>
              /\ call'[x].pc = "submit" /\ call'[x].type = "DATA_RECEIVE"
              /\ call'[x].flow = call[x].flow /\ call'[x].hash = call[x].hash
         /\ call[x].type = "DATA_RECEIVE" => call'[x].pc = "chain" /\ SameSubject(x)
         /\ call[x].type = "ACK_RECEIVED" => call'[x].pc = "scan" /\ call'[x].flow = call[x].flow
         /\ call[x].type = "REPORT" => call'[x].pc = "done" /\ call'[x].flow = NoFlow
         /\ call'[x].pc \notin {"advance", "store", "signed"}
         /\ call'[x].flow \in {call[x].flow, NoFlow}
         /\ \A i \in DOMAIN evidence : i \in DOMAIN evidence' /\ evidence'[i] = evidence[i]
         /\ \A i \in DOMAIN evidence' \ DOMAIN evidence : evidence'[i] = call[x].rec
         /\ faults' = 0 => \E i \in DOMAIN evidence' : evidence'[i] = call[x].rec
         /\ Counted(TRUE)
         /\ committed' = IF x \in Reports THEN committed \union {call[x].rec.ev} ELSE committed
         /\ UNCHANGED <<lastRecordHash, chain, clock, channel, active, currentFlowID, pushed,
                        restarts, overlapped>>
<1> DEFINE b == [call[x] EXCEPT !.rec = NoRecord]
<1> DEFINE c == AfterSubmit(b)
<1>1. call[x] \in CallStates /\ NoRecord \in Records /\ copies \in Nat /\ evidence \in Seq(Records)
  BY NewCallType, EvidenceConstants DEF Shape
<1>2. /\ b \in CallStates /\ b.type = call[x].type /\ b.flow = call[x].flow /\ b.hash = call[x].hash
      /\ call[x].rec \in Records /\ call[x].type \in EventTypes
  BY <1>1 DEF CallStates
<1>3. Move(x, c) /\ call[x].pc = "store" /\ evidence' = Store(call[x].rec, copies)
        /\ Outcome(copies = 1)
  BY DEF SubmitStore
<1> HIDE DEF b
<1>4. c \in CallStates /\ c.pc \notin {"advance", "store", "signed"}
  BY <1>2, AfterSubmitType
<1>5. call'[x] = c /\ Others(x)
  BY <1>3, <1>4, MoveType DEF Others
<1>6. /\ call[x].type = "DATA_SEND" => c.pc = "submit" /\ c.type = "DATA_RECEIVE"
                                         /\ c.flow = call[x].flow /\ c.hash = call[x].hash
      /\ call[x].type = "DATA_RECEIVE" => c.pc = "chain" /\ c.type = call[x].type
                                         /\ c.flow = call[x].flow /\ c.hash = call[x].hash
      /\ call[x].type = "ACK_RECEIVED" => c.pc = "scan" /\ c.flow = call[x].flow
      /\ call[x].type = "REPORT" => c.pc = "done" /\ c.flow = NoFlow
  BY <1>2, AfterSubmitGoes
<1> HIDE DEF c
<1>7. /\ evidence' \in Seq(Records) /\ Len(evidence') = Len(evidence) + copies
      /\ \A i \in DOMAIN evidence : evidence'[i] = evidence[i]
      /\ \A i \in DOMAIN evidence' \ DOMAIN evidence : evidence'[i] = call[x].rec
  <2>1. evidence' = Store(call[x].rec, copies)
    BY <1>3
  <2>2. call[x].rec \in Records /\ copies \in Nat /\ evidence \in Seq(Records)
    BY <1>1, <1>2
  <2> DEFINE table == Store(call[x].rec, copies)
  <2>3. /\ table \in Seq(Records) /\ Len(table) = Len(evidence) + copies
        /\ \A i \in DOMAIN evidence : table[i] = evidence[i]
        /\ \A i \in DOMAIN table \ DOMAIN evidence : table[i] = call[x].rec
    BY <2>2, StoreType
  <2>4. evidence' = table
    BY <2>1
  <2> HIDE DEF table
  <2> QED BY <2>3, <2>4
<1>8. /\ DOMAIN evidence = 1 .. Len(evidence) /\ Len(evidence) \in Nat
      /\ DOMAIN evidence' = 1 .. Len(evidence) + copies
  BY <1>1, <1>7, LenProperties
<1>9. Counted(copies = 1)
  BY <1>3, OutcomeCounts
<1>10. faults' = 0 => \E i \in DOMAIN evidence' : evidence'[i] = call[x].rec
  <2> SUFFICES ASSUME copies = 1 PROVE \E i \in DOMAIN evidence' : evidence'[i] = call[x].rec
    BY <1>9 DEF Counted
  <2>1. Len(evidence) + 1 \in DOMAIN evidence' \ DOMAIN evidence
    BY <1>8
  <2> QED BY <1>7, <2>1
<1>11. \A i \in DOMAIN evidence : i \in DOMAIN evidence'
  BY <1>1, <1>8
<1>12. /\ committed' = IF x \in Reports THEN committed \union {call[x].rec.ev} ELSE committed
       /\ UNCHANGED <<lastRecordHash, chain, clock, channel, active, currentFlowID, pushed,
                      restarts, overlapped>>
  BY DEF SubmitStore, chanState, history
<1>13. Counted(TRUE)
  BY <1>9 DEF Counted
<1>14. c.flow \in {call[x].flow, NoFlow}
  BY <1>2, <1>6 DEF EventTypes
<1> QED BY <1>2, <1>3, <1>4, <1>5, <1>6, <1>7, <1>10, <1>11, <1>12, <1>13, <1>14 DEF SameSubject

\* A packet arrives at an open stream
LEMMA PacketEffect ==
  ASSUME Shape, NEW s \in Streams, NEW read \in BOOLEAN, NEW signed \in BOOLEAN,
         StreamPacket(s, read, signed)
  PROVE  /\ call[s].pc = "recv" /\ call'[s].type = "DATA_SEND" /\ call'[s].flow = call[s].flow
         /\ call'[s].pc = IF signed THEN "submit" ELSE "push"
         /\ Others(s) /\ Counted(signed) /\ overlapped' \in BOOLEAN
         /\ UNCHANGED <<lastRecordHash, evidence, chain, clock, channel, active, currentFlowID,
                        pushed, committed, restarts>>
<1> DEFINE prev == IF read THEN LastDataHash(channel) ELSE NoHash
<1>1. call' = [call EXCEPT ![s] = [call[s] EXCEPT
                 !.pc = IF signed THEN "submit" ELSE "push",
                 !.type = "DATA_SEND",
                 !.n = call[s].n + 1,
                 !.prev = prev,
                 !.hash = Append(prev, <<s, call[s].n + 1>>)]]
  BY DEF StreamPacket, Move
<1> HIDE DEF prev
<1>2. call[s].pc = "recv" /\ Outcome(read /\ signed) /\ Begin
  BY DEF StreamPacket
<1>3. s \in Calls /\ call \in [Calls -> CallStates]
  BY DEF Shape, Calls
<1>4. /\ call'[s].type = "DATA_SEND" /\ call'[s].flow = call[s].flow
      /\ call'[s].pc = IF signed THEN "submit" ELSE "push"
      /\ Others(s)
  BY <1>1, <1>3 DEF CallStates, Others
<1>5. Counted(signed)
  BY <1>2, EvidenceConstants DEF Outcome, Counted, Shape
<1>6. overlapped' \in BOOLEAN
  BY <1>2 DEF Begin
<1>7. UNCHANGED <<lastRecordHash, evidence, chain, clock, channel, active, currentFlowID,
                  pushed, committed, restarts>>
  BY DEF StreamPacket, tables, chanState
<1> QED BY <1>2, <1>4, <1>5, <1>6, <1>7

\* A row is inserted if nothing fails, and none is taken away
LEMMA InsertEffect ==
  ASSUME Shape, NEW row \in Rows, NEW ok \in BOOLEAN, InsertRecord(row, ok)
  PROVE  /\ \A i \in DOMAIN chain : i \in DOMAIN chain' /\ chain'[i] = chain[i]
         /\ \A i \in DOMAIN chain' \ DOMAIN chain : chain'[i] = row
         /\ ok => \E i \in DOMAIN chain' : chain'[i] = row
<1>1. CASE ~ok
  BY <1>1 DEF InsertRecord
<1>2. CASE ok
  <2>1. chain' = Append(chain, row) /\ chain \in Seq(Rows)
    BY <1>2 DEF InsertRecord, Shape
  <2>2. /\ chain' \in Seq(Rows) /\ Len(chain') = Len(chain) + 1 /\ Len(chain) \in Nat
        /\ \A i \in 1 .. Len(chain) : chain'[i] = chain[i]
        /\ chain'[Len(chain) + 1] = row
    BY <2>1, AppendProperties, LenProperties
  <2>3. DOMAIN chain = 1 .. Len(chain) /\ DOMAIN chain' = 1 .. Len(chain) + 1
    BY <2>1, <2>2, LenProperties
  <2> QED BY <2>2, <2>3
<1> QED BY <1>1, <1>2

\* RecordDataHash adds a row for the packet, unless the database fails
LEMMA ChainEffect ==
  ASSUME Shape, NEW s \in Streams, NEW ok \in BOOLEAN, RecordDataHash(s, ok)
  PROVE  /\ call[s].pc = "chain" /\ call'[s].pc = "push" /\ SameSubject(s) /\ Others(s)
         /\ \A i \in DOMAIN chain : i \in DOMAIN chain' /\ chain'[i] = chain[i]
         /\ \A i \in DOMAIN chain' \ DOMAIN chain : chain'[i].ch = channel
         /\ faults' = 0 => \E i \in DOMAIN chain' : chain'[i].ch = channel /\ chain'[i].hash = call[s].hash
         /\ Counted(TRUE)
         /\ UNCHANGED <<lastRecordHash, evidence, clock, channel, active, currentFlowID, pushed,
                        committed, restarts, overlapped>>
<1> DEFINE c == [call[s] EXCEPT !.pc = "push"]
<1> DEFINE row == DataRow(channel, call[s].hash, call[s].prev)
<1>1. call[s] \in CallStates /\ s \in Calls
  BY DEF Shape, Calls
<1>2. c \in CallStates /\ c.pc = "push"
        /\ c.type = call[s].type /\ c.flow = call[s].flow /\ c.hash = call[s].hash
  BY <1>1 DEF CallStates, Pcs
<1>3. row \in Rows /\ row.ch = channel /\ row.hash = call[s].hash
  BY <1>1 DEF DataRow, Rows, Shape, CallStates
<1>4. Move(s, c) /\ call[s].pc = "chain" /\ InsertRecord(row, ok) /\ Outcome(ok)
  BY DEF RecordDataHash
<1> HIDE DEF c, row
<1>5. call'[s] = c /\ Others(s)
  BY <1>1, <1>2, <1>4, MoveType DEF Others
<1>6. /\ \A i \in DOMAIN chain : i \in DOMAIN chain' /\ chain'[i] = chain[i]
      /\ \A i \in DOMAIN chain' \ DOMAIN chain : chain'[i] = row
      /\ ok => \E i \in DOMAIN chain' : chain'[i] = row
  BY <1>3, <1>4, InsertEffect
<1>7. Counted(ok)
  BY <1>4, OutcomeCounts
<1>8. UNCHANGED <<lastRecordHash, evidence, clock, channel, active, currentFlowID, pushed,
                  committed, restarts, overlapped>>
  BY DEF RecordDataHash, chanState, history
<1> QED BY <1>2, <1>3, <1>4, <1>5, <1>6, <1>7, <1>8 DEF SameSubject, Counted

\* PushData hands the packet of the stream to the receivers
LEMMA PushEffect ==
  ASSUME Shape, NEW s \in Streams, StreamPush(s)
  PROVE  /\ call[s].pc = "push" /\ call'[s].pc = "recv" /\ call'[s].flow = call[s].flow /\ Others(s)
         /\ pushed' = Append(pushed, [ch |-> channel, flow |-> s, hash |-> call[s].hash])
         /\ currentFlowID' = s
         /\ UNCHANGED <<lastRecordHash, evidence, chain, clock, channel, active, committed,
                        faults, restarts, overlapped>>
<1> DEFINE c == [call[s] EXCEPT !.pc = "recv", !.prev = NoHash, !.hash = NoHash]
<1>1. call[s] \in CallStates /\ s \in Calls /\ NoHash \in Hashes
  BY NewCallType DEF Shape, Calls
<1>2. c \in CallStates /\ c.pc = "recv" /\ c.flow = call[s].flow
  BY <1>1 DEF CallStates, Pcs
<1>3. Move(s, c) /\ call[s].pc = "push"
  BY DEF StreamPush
<1> HIDE DEF c
<1>4. call'[s] = c /\ Others(s)
  BY <1>1, <1>2, <1>3, MoveType DEF Others
<1>5. /\ pushed' = Append(pushed, [ch |-> channel, flow |-> s, hash |-> call[s].hash])
      /\ currentFlowID' = s
      /\ UNCHANGED <<lastRecordHash, evidence, chain, clock, channel, active, committed,
                     faults, restarts, overlapped>>
  BY DEF StreamPush, tables, history
<1> QED BY <1>2, <1>3, <1>4, <1>5

\* What the steps by which a call begins or returns have in common
Ended(x) == call'[x].pc = "done" /\ call'[x].flow = NoFlow

\* A call that has returned names no flow
LEMMA ReturnedGoes == \A pc \in Pcs : Returned(pc).pc = pc /\ Returned(pc).flow = NoFlow
  BY DEF Returned, NewCall

\* A stream that is opened is of its own flow
LEMMA OpenEffect ==
  ASSUME Shape, NEW s \in Streams, StreamOpen(s)
  PROVE  /\ call[s].pc = "new" /\ call'[s].pc = "recv" /\ call'[s].flow = s /\ Others(s)
         /\ UNCHANGED <<lastRecordHash, evidence, chain, clock, channel, active, currentFlowID,
                        pushed, committed, faults, restarts, overlapped>>
<1> DEFINE c == [call[s] EXCEPT !.pc = "recv", !.flow = s]
<1>1. call[s] \in CallStates /\ s \in Calls
  BY DEF Shape, Calls
<1>2. c \in CallStates /\ c.pc = "recv" /\ c.flow = s
  BY <1>1 DEF CallStates, Pcs, Flows
<1>3. Move(s, c) /\ call[s].pc = "new"
  BY DEF StreamOpen
<1> HIDE DEF c
<1>4. call'[s] = c /\ Others(s)
  BY <1>1, <1>2, <1>3, MoveType DEF Others
<1>5. UNCHANGED <<lastRecordHash, evidence, chain, clock, channel, active, currentFlowID,
                  pushed, committed, faults, restarts, overlapped>>
  BY DEF StreamOpen, tables, chanState, history
<1> QED BY <1>2, <1>3, <1>4, <1>5

\* The end of a stream has its flow signed, unless that fails
LEMMA EOFEffect ==
  ASSUME Shape, NEW s \in Streams, NEW ok \in BOOLEAN, StreamEOF(s, ok)
  PROVE  /\ call[s].pc = "recv" /\ call'[s].pc = (IF ok THEN "signed" ELSE "done")
         /\ Others(s)
         /\ evidence' = IF ok THEN SignFlow(s) ELSE evidence
         /\ Counted(ok)
         /\ UNCHANGED <<lastRecordHash, chain, clock, channel, active, currentFlowID,
                        pushed, committed, restarts, overlapped>>
<1> DEFINE c == Returned(IF ok THEN "signed" ELSE "done")
<1>1. call[s] \in CallStates /\ s \in Calls
  BY DEF Shape, Calls
<1>2. c \in CallStates /\ c.pc = (IF ok THEN "signed" ELSE "done")
  BY NewCallType DEF Pcs
<1>3. Move(s, c) /\ call[s].pc = "recv" /\ Outcome(ok)
  BY DEF StreamEOF
<1> HIDE DEF c
<1>4. call'[s] = c /\ Others(s)
  BY <1>1, <1>2, <1>3, MoveType DEF Others
<1>5. /\ evidence' = IF ok THEN SignFlow(s) ELSE evidence
      /\ UNCHANGED <<lastRecordHash, chain, clock, channel, active, currentFlowID,
                     pushed, committed, restarts, overlapped>>
  BY DEF StreamEOF, tables, chanState, history
<1>6. Counted(ok)
  BY <1>3, OutcomeCounts
<1> QED BY <1>2, <1>3, <1>4, <1>5, <1>6

\* A stream that breaks, an acknowledgement that is refused
LEMMA EndEffect ==
  ASSUME Shape, NEW x \in Calls, NEW ok \in BOOLEAN,
         (x \in Streams /\ StreamEnds(x)) \/ (x \in Acks /\ SendAckRefused(x, ok))
  PROVE  /\ call[x].pc # "signed" /\ Ended(x) /\ Others(x) /\ Counted(TRUE)
         /\ UNCHANGED <<lastRecordHash, evidence, chain, clock, channel, active, currentFlowID,
                        pushed, committed, restarts, overlapped>>
<1>1. Move(x, Returned("done")) /\ call[x].pc \in {"recv", "push", "new"}
  BY DEF StreamEnds, SendAckRefused
<1>2. Returned("done") \in CallStates /\ Returned("done").pc = "done" /\ Returned("done").flow = NoFlow
  BY NewCallType, ReturnedGoes DEF Pcs
<1>3. Ended(x) /\ Others(x)
  BY <1>1, <1>2, MoveType DEF Ended, Others
<1>4. Counted(TRUE)
  <2>1. CASE StreamEnds(x)
    BY <2>1 DEF StreamEnds, Counted
  <2>2. CASE SendAckRefused(x, ok)
    BY <2>2, OutcomeCounts DEF SendAckRefused, Counted
  <2> QED BY <2>1, <2>2
<1>5. UNCHANGED <<lastRecordHash, evidence, chain, clock, channel, active, currentFlowID,
                  pushed, committed, restarts, overlapped>>
  BY DEF StreamEnds, SendAckRefused, tables, chanState, history
<1> QED BY <1>1, <1>3, <1>4, <1>5

\* SendAck takes the current flow of the channel, a report none
LEMMA SubmitBegins ==
  ASSUME Shape, NEW x \in Calls,
         (x \in Acks /\ SendAck(x)) \/ (x \in Reports /\ SubmitEvidence(x))
  PROVE  /\ call[x].pc = "new" /\ call'[x].pc = "submit" /\ Others(x) /\ overlapped' \in BOOLEAN
         /\ x \in Acks => call'[x].flow = currentFlowID
         /\ x \in Reports => call'[x].flow = call[x].flow
         /\ UNCHANGED <<lastRecordHash, evidence, chain, clock, channel, active, currentFlowID,
                        pushed, committed, faults, restarts>>
<1>1. call[x] \in CallStates
  BY DEF Shape
<1>2. CASE x \in Acks /\ SendAck(x)
  <2> DEFINE c == [call[x] EXCEPT !.pc = "submit", !.type = "ACK_RECEIVED", !.flow = currentFlowID]
  <2>1. c \in CallStates /\ c.pc = "submit" /\ c.flow = currentFlowID
    BY <1>1 DEF CallStates, Pcs, EventTypes, Shape
  <2>2. Move(x, c) /\ call[x].pc = "new" /\ Begin
    BY <1>2 DEF SendAck
  <2> HIDE DEF c
  <2>3. call'[x] = c /\ Others(x)
    BY <2>1, <2>2, MoveType DEF Others
  <2>4. overlapped' \in BOOLEAN
    BY <2>2 DEF Begin
  <2>5. UNCHANGED <<lastRecordHash, evidence, chain, clock, channel, active, currentFlowID,
                    pushed, committed, faults, restarts>>
    BY <1>2 DEF SendAck, tables, chanState
  <2>6. x \notin Reports
    BY <1>2, EvidenceConstants
  <2> QED BY <2>1, <2>2, <2>3, <2>4, <2>5, <2>6
<1>3. CASE x \in Reports /\ SubmitEvidence(x)
  <2> DEFINE c == [call[x] EXCEPT !.pc = "submit", !.type = "REPORT"]
  <2>1. c \in CallStates /\ c.pc = "submit" /\ c.flow = call[x].flow
    BY <1>1 DEF CallStates, Pcs, EventTypes
  <2>2. Move(x, c) /\ call[x].pc = "new" /\ Begin
    BY <1>3 DEF SubmitEvidence
  <2> HIDE DEF c
  <2>3. call'[x] = c /\ Others(x)
    BY <2>1, <2>2, MoveType DEF Others
  <2>4. overlapped' \in BOOLEAN
    BY <2>2 DEF Begin
  <2>5. UNCHANGED <<lastRecordHash, evidence, chain, clock, channel, active, currentFlowID,
                    pushed, committed, faults, restarts>>
    BY <1>3 DEF SubmitEvidence, tables, chanState
  <2>6. x \notin Acks
    BY <1>3, EvidenceConstants
  <2> QED BY <2>1, <2>2, <2>3, <2>4, <2>5, <2>6
<1> QED BY <1>2, <1>3

\* RecordAck and the push of the acknowledgement
LEMMA AckEffect ==
  ASSUME Shape, NEW a \in Acks, NEW ok \in BOOLEAN,
         RecordAckScan(a, ok) \/ RecordAckInsert(a, ok) \/ AckPush(a)
  PROVE  /\ call'[a].pc \in {"push", "insert", "done"} /\ call'[a].flow \in {call[a].flow, NoFlow}
         /\ Others(a)
         /\ currentFlowID' \in {currentFlowID, call[a].flow}
         /\ \A i \in DOMAIN chain : i \in DOMAIN chain' /\ chain'[i] = chain[i]
         /\ \A i \in DOMAIN chain' \ DOMAIN chain : chain'[i].ch = channel
         /\ Counted(TRUE)
         /\ UNCHANGED <<lastRecordHash, evidence, clock, channel, active, pushed, committed,
                        restarts, overlapped>>
<1>1. call[a] \in CallStates /\ a \in Calls
  BY DEF Shape, Calls
<1>2. CASE RecordAckScan(a, ok)
  <2> DEFINE c == [call[a] EXCEPT !.pc = IF ok /\ AckSeen(AckSig[a]) THEN "push" ELSE "insert"]
  <2>1. c \in CallStates /\ c.pc \in {"push", "insert"} /\ c.flow = call[a].flow
    BY <1>1 DEF CallStates, Pcs
  <2>2. Move(a, c) /\ Outcome(ok)
    BY <1>2 DEF RecordAckScan
  <2> HIDE DEF c
  <2>3. call'[a] = c /\ Others(a)
    BY <1>1, <2>1, <2>2, MoveType DEF Others
  <2>4. Counted(TRUE)
    BY <2>2, OutcomeCounts DEF Counted
  <2>5. UNCHANGED <<lastRecordHash, evidence, chain, clock, channel, active, currentFlowID, pushed,
                    committed, restarts, overlapped>>
    BY <1>2 DEF RecordAckScan, tables, chanState, history
  <2> QED BY <2>1, <2>3, <2>4, <2>5
<1>3. CASE RecordAckInsert(a, ok)
  <2> DEFINE c == [call[a] EXCEPT !.pc = "push"]
  <2> DEFINE row == AckRow(channel, AckSig[a])
  <2>1. c \in CallStates /\ c.pc = "push" /\ c.flow = call[a].flow
    BY <1>1 DEF CallStates, Pcs
  <2>2. row \in Rows /\ row.ch = channel
    BY NewCallType DEF AckRow, Rows, Shape
  <2>3. Move(a, c) /\ Outcome(ok) /\ InsertRecord(row, ok)
    BY <1>3 DEF RecordAckInsert
  <2> HIDE DEF c, row
  <2>4. call'[a] = c /\ Others(a)
    BY <1>1, <2>1, <2>3, MoveType DEF Others
  <2>5. Counted(TRUE)
    BY <2>3, OutcomeCounts DEF Counted
  <2>6. /\ \A i \in DOMAIN chain : i \in DOMAIN chain' /\ chain'[i] = chain[i]
        /\ \A i \in DOMAIN chain' \ DOMAIN chain : chain'[i].ch = channel
    BY <2>2, <2>3, InsertEffect
  <2>7. UNCHANGED <<lastRecordHash, evidence, clock, channel, active, currentFlowID, pushed,
                    committed, restarts, overlapped>>
    BY <1>3 DEF RecordAckInsert, chanState, history
  <2> QED BY <2>1, <2>4, <2>5, <2>6, <2>7
<1>4. CASE AckPush(a)
  <2>1. Move(a, Returned("done"))
    BY <1>4 DEF AckPush
  <2>2. /\ Returned("done") \in CallStates /\ Returned("done").pc = "done"
        /\ Returned("done").flow = NoFlow
    BY NewCallType, ReturnedGoes DEF Pcs
  <2>3. call'[a] = Returned("done") /\ Others(a)
    BY <1>1, <2>1, <2>2, MoveType DEF Others
  <2>4. /\ currentFlowID' \in {currentFlowID, call[a].flow}
        /\ UNCHANGED <<lastRecordHash, evidence, chain, clock, channel, active, pushed, committed,
                       faults, restarts, overlapped>>
    BY <1>4 DEF AckPush, tables, history
  <2> QED BY <2>2, <2>3, <2>4 DEF Counted
<1> QED BY <1>2, <1>3, <1>4

\* A restart leaves only calls that have not begun or that have returned
LEMMA RestartEffect ==
  ASSUME Shape, Restart
  PROVE  /\ \A x \in Calls : \/ call[x].pc \in {"new", "signed"} /\ call'[x] = call[x]
                             \/ call[x].pc \notin {"new", "signed"} /\ Ended(x)
         /\ lastRecordHash' = 0 /\ channel' = channel + 1 /\ active' = TRUE
         /\ currentFlowID' = NoFlow /\ restarts' = restarts + 1 /\ restarts < MaxRestarts
         /\ UNCHANGED <<evidence, chain, clock, pushed, committed, faults, overlapped>>
<1>1. \A x \in Calls : call'[x] = IF call[x].pc \in {"new", "signed"} THEN call[x]
                                                                     ELSE Returned("done")
  BY DEF Restart
<1>2. Returned("done").pc = "done" /\ Returned("done").flow = NoFlow
  BY ReturnedGoes DEF Pcs
<1>3. /\ lastRecordHash' = 0 /\ channel' = channel + 1 /\ active' = TRUE
      /\ currentFlowID' = NoFlow /\ restarts' = restarts + 1 /\ restarts < MaxRestarts
      /\ UNCHANGED <<evidence, chain, clock, pushed, committed, faults, overlapped>>
  BY DEF Restart, tables
<1> QED BY <1>1, <1>2, <1>3 DEF Ended

-----------------------------------------------------------------------------
(* Numbers, flows and event ids *)

Pending(x) == call[x].pc \in {"advance", "store"}

\* The types that relate one variable to another
Bounded ==
  /\ lastRecordHash \in 0 .. clock
  /\ \A i \in DOMAIN evidence : evidence[i].ev \in 1 .. clock /\ evidence[i].prev \in 0 .. clock
  /\ \A x \in Calls : Pending(x) => call[x].rec.ev \in 1 .. clock /\ call[x].rec.prev \in 0 .. clock
  /\ \A i \in DOMAIN chain : chain[i].ch \in 0 .. channel
  /\ active \in BOOLEAN /\ overlapped \in BOOLEAN
  /\ pushed \in Seq(Packets)
  /\ committed \subseteq 1 .. clock
  /\ faults <= MaxFaults /\ restarts <= MaxRestarts

\* What a call holds belongs to it
Subjects ==
  /\ \A s \in Streams : call[s].pc \notin {"new", "signed", "done"} => call[s].flow = s
  /\ \A s \in Streams : call[s].pc \in {"submit", "advance", "store"}
                          => call[s].type \in {"DATA_SEND", "DATA_RECEIVE"}
  /\ \A r \in Reports : call[r].flow = NoFlow
  /\ \A x \in Calls : Pending(x) =>
       /\ call[x].rec.type = call[x].type /\ call[x].rec.flow = call[x].flow
       /\ call[x].rec.hash = call[x].hash /\ call[x].rec.sig # "flow"

\* An event id is given out once; all its rows are of one flow
EventsDiffer ==
  /\ \A x, y \in Calls : x # y /\ Pending(x) /\ Pending(y) => call[x].rec.ev # call[y].rec.ev
  /\ \A x \in Calls : Pending(x) => \A i \in DOMAIN evidence : evidence[i].ev # call[x].rec.ev
  /\ \A i, j \in DOMAIN evidence :
       evidence[i].ev = evidence[j].ev => evidence[i].flow = evidence[j].flow

\* A step by which call x gets no record and the tables keep what they say, but for signatures
Quiet(x) ==
  /\ x \in Calls /\ Others(x) /\ call'[x].pc \notin {"advance", "store"}
  /\ DOMAIN evidence' = DOMAIN evidence
  /\ \A i \in DOMAIN evidence :
       /\ evidence'[i].ev = evidence[i].ev /\ evidence'[i].prev = evidence[i].prev
       /\ evidence'[i].flow = evidence[i].flow
  /\ \A i \in DOMAIN chain' \ DOMAIN chain : chain'[i].ch = channel
  /\ \A i \in DOMAIN chain : chain'[i] = chain[i]
  /\ UNCHANGED <<lastRecordHash, clock, channel, committed, restarts>>
  /\ active' \in {active, FALSE} /\ overlapped' \in {overlapped} \union BOOLEAN
  /\ Counted(TRUE)

\* The steps of StreamData, apart from its submits, are quiet
LEMMA QuietStream ==
  ASSUME Shape, NEW s \in Streams, NEW read \in BOOLEAN, NEW ok \in BOOLEAN,
         \/ StreamOpen(s) \/ StreamPacket(s, read, ok) \/ RecordDataHash(s, ok)
         \/ StreamPush(s) \/ StreamEOF(s, ok) \/ StreamEnds(s)
  PROVE  Quiet(s)
<1>0. s \in Calls
  BY DEF Calls
<1>1. CASE StreamOpen(s)
  BY <1>0, <1>1, OpenEffect DEF Quiet, Counted
<1>2. CASE StreamPacket(s, read, ok)
  BY <1>0, <1>2, PacketEffect DEF Quiet, Counted
<1>3. CASE RecordDataHash(s, ok)
  BY <1>0, <1>3, ChainEffect DEF Quiet
<1>4. CASE StreamPush(s)
  BY <1>0, <1>4, PushEffect DEF Quiet, Counted
<1>5. CASE StreamEOF(s, ok)
  <2>1. /\ DOMAIN evidence' = DOMAIN evidence
        /\ \A i \in DOMAIN evidence :
             /\ evidence'[i].ev = evidence[i].ev /\ evidence'[i].prev = evidence[i].prev
             /\ evidence'[i].flow = evidence[i].flow
    BY <1>5, EOFEffect, SignFlowKeeps DEF Shape
  <2>2. Counted(TRUE)
    BY <1>5, EOFEffect DEF Counted
  <2> QED BY <1>0, <1>5, <2>1, <2>2, EOFEffect DEF Quiet
<1>6. CASE StreamEnds(s)
  BY <1>0, <1>6, EndEffect DEF Quiet, Ended
<1> QED BY <1>1, <1>2, <1>3, <1>4, <1>5, <1>6

\* So are those of SendAck and SubmitEvidence
LEMMA QuietOther ==
  ASSUME Shape, NEW x \in Acks \union Reports, NEW ok \in BOOLEAN,
         \/ x \in Acks /\ \/ SendAck(x) \/ SendAckRefused(x, ok) \/ RecordAckScan(x, ok)
                          \/ RecordAckInsert(x, ok) \/ AckPush(x)
         \/ x \in Reports /\ SubmitEvidence(x)
  PROVE  Quiet(x)
<1>0. x \in Calls
  BY DEF Calls
<1>1. CASE (x \in Acks /\ SendAck(x)) \/ (x \in Reports /\ SubmitEvidence(x))
  BY <1>0, <1>1, SubmitBegins DEF Quiet, Counted
<1>2. CASE x \in Acks /\ SendAckRefused(x, ok)
  BY <1>0, <1>2, EndEffect DEF Quiet, Ended
<1>3. CASE x \in Acks /\ (RecordAckScan(x, ok) \/ RecordAckInsert(x, ok) \/ AckPush(x))
  BY <1>0, <1>3, AckEffect DEF Quiet
<1> QED BY <1>1, <1>2, <1>3

\* Every step keeps the numbers in their bounds
LEMMA StepBounded == Shape /\ Bounded /\ [Next]_vars => Bounded'
<1> SUFFICES ASSUME Shape, Bounded, [Next]_vars PROVE Bounded'
  OBVIOUS
<1>0. clock \in Nat /\ channel \in Nat /\ lastRecordHash \in Nat /\ restarts \in Nat
  BY DEF Shape
<1>1. ASSUME NEW x \in Calls, NEW signed \in BOOLEAN, SubmitRead(x, signed) PROVE Bounded'
  <2>0. /\ clock' = clock + 1 /\ UNCHANGED <<lastRecordHash, evidence, committed>>
        /\ call'[x].rec.ev = clock + 1 /\ call'[x].rec.prev = lastRecordHash
    BY <1>1, ReadEffect
  <2>00. 0 .. clock \subseteq 0 .. clock' /\ 1 .. clock \subseteq 1 .. clock' /\ clock + 1 \in 1 .. clock'
    BY <1>0, <2>0
  <2>1. lastRecordHash' \in 0 .. clock' /\ committed' \subseteq 1 .. clock'
    BY <2>0, <2>00 DEF Bounded
  <2>2. \A i \in DOMAIN evidence' :
          evidence'[i].ev \in 1 .. clock' /\ evidence'[i].prev \in 0 .. clock'
    BY <2>0, <2>00 DEF Bounded
  <2>3. ASSUME NEW y \in Calls, Pending(y)'
        PROVE  call'[y].rec.ev \in 1 .. clock' /\ call'[y].rec.prev \in 0 .. clock'
    <3>1. CASE y = x
      <4>1. lastRecordHash \in 0 .. clock
        BY DEF Bounded
      <4> QED BY <2>0, <2>00, <3>1, <4>1
    <3>2. CASE y # x
      <4>1. call'[y] = call[y] /\ clock' = clock + 1
        BY <1>1, <3>2, ReadEffect DEF Others
      <4>2. call[y].rec.ev \in 1 .. clock /\ call[y].rec.prev \in 0 .. clock
        BY <2>3, <4>1 DEF Bounded, Pending
      <4> QED BY <1>0, <4>1, <4>2
    <3> QED BY <3>1, <3>2
  <2>4. /\ UNCHANGED <<chain, channel, active, overlapped, pushed, restarts>>
        /\ faults' <= MaxFaults
    BY <1>1, ReadEffect DEF Counted, Bounded
  <2> QED BY <2>1, <2>2, <2>3, <2>4 DEF Bounded
<1>2. ASSUME NEW x \in Calls, SubmitAdvance(x) PROVE Bounded'
  <2>1. /\ Pending(x) /\ lastRecordHash' = call[x].rec.ev
        /\ UNCHANGED <<evidence, chain, clock, channel, active, pushed, committed, faults,
                       restarts, overlapped>>
    BY <1>2, AdvanceEffect DEF Pending
  <2>2. lastRecordHash' \in 0 .. clock
    BY <1>0, <2>1 DEF Bounded
  <2>3. \A y \in Calls : Pending(y)' => Pending(y) /\ call'[y].rec = call[y].rec
    BY <1>2, AdvanceEffect DEF Pending, Others
  <2> QED BY <2>1, <2>2, <2>3 DEF Bounded
<1>3. ASSUME NEW x \in Calls, NEW copies \in 0 .. StoreAttempts, SubmitStore(x, copies)
      PROVE  Bounded'
  <2>1. Pending(x)
    BY <1>3, StoreEffect DEF Pending
  <2>2. /\ call[x].rec.ev \in 1 .. clock /\ call[x].rec.prev \in 0 .. clock
    BY <2>1 DEF Bounded
  <2>3. \A i \in DOMAIN evidence' : evidence'[i].ev \in 1 .. clock /\ evidence'[i].prev \in 0 .. clock
    BY <1>3, <2>2, StoreEffect DEF Bounded
  <2>4. committed' \subseteq 1 .. clock
    <3>1. committed' \subseteq committed \union {call[x].rec.ev}
      BY <1>3, StoreEffect
    <3> QED BY <2>2, <3>1 DEF Bounded
  <2>5. \A y \in Calls : Pending(y)' => Pending(y) /\ call'[y].rec = call[y].rec
    BY <1>3, StoreEffect DEF Pending, Others
  <2>6. /\ UNCHANGED <<lastRecordHash, chain, clock, channel, active, pushed, restarts, overlapped>>
        /\ faults' <= MaxFaults
    BY <1>3, StoreEffect DEF Counted, Bounded
  <2> QED BY <2>3, <2>4, <2>5, <2>6 DEF Bounded
<1>4. ASSUME NEW x, Quiet(x), pushed' \in Seq(Packets)
      PROVE  Bounded'
  <2>1. \A i \in DOMAIN chain' : chain'[i].ch \in 0 .. channel
    BY <1>0, <1>4 DEF Quiet, Bounded
  <2>2. \A y \in Calls : Pending(y)' => Pending(y) /\ call'[y].rec = call[y].rec
    BY <1>4 DEF Quiet, Others, Pending
  <2>3. \A i \in DOMAIN evidence' : evidence'[i].ev \in 1 .. clock /\ evidence'[i].prev \in 0 .. clock
    BY <1>4 DEF Quiet, Bounded
  <2>4. active' \in BOOLEAN /\ overlapped' \in BOOLEAN /\ faults' <= MaxFaults
    BY <1>4 DEF Quiet, Bounded, Counted
  <2> QED BY <1>4, <2>1, <2>2, <2>3, <2>4 DEF Quiet, Bounded
<1>5. ASSUME NEW s \in Streams, NEW read \in BOOLEAN, NEW ok \in BOOLEAN,
             \/ StreamOpen(s) \/ StreamPacket(s, read, ok) \/ RecordDataHash(s, ok)
             \/ StreamPush(s) \/ StreamEOF(s, ok) \/ StreamEnds(s)
      PROVE  Bounded'
  <2>1. Quiet(s)
    BY <1>5, QuietStream
  <2>2. CASE StreamPush(s)
    <3>1. call[s].hash \in Hashes
      BY DEF Shape, CallStates, Calls
    <3>2. pushed' \in Seq(Packets)
      <4> DEFINE p == [ch |-> channel, flow |-> s, hash |-> call[s].hash]
      <4>1. pushed' = Append(pushed, p)
        BY <2>2, PushEffect
      <4>2. p \in Packets
        BY <1>0, <3>1 DEF Packets
      <4> HIDE DEF p
      <4> QED BY <4>1, <4>2 DEF Bounded
    <3> QED BY <1>4, <2>1, <3>2
  <2>3. CASE ~StreamPush(s)
    <3>1. pushed' = pushed
      BY <1>5, <2>3 DEF StreamOpen, StreamPacket, RecordDataHash, StreamEOF, StreamEnds
    <3> QED BY <1>4, <2>1, <3>1 DEF Bounded
  <2> QED BY <2>2, <2>3
<1>6. ASSUME NEW x \in Acks \union Reports, NEW ok \in BOOLEAN,
             \/ x \in Acks /\ \/ SendAck(x) \/ SendAckRefused(x, ok) \/ RecordAckScan(x, ok)
                              \/ RecordAckInsert(x, ok) \/ AckPush(x)
             \/ x \in Reports /\ SubmitEvidence(x)
      PROVE  Bounded'
  <2>1. Quiet(x)
    BY <1>6, QuietOther
  <2>2. pushed' = pushed
    BY <1>6 DEF SendAck, SendAckRefused, RecordAckScan, RecordAckInsert, AckPush, SubmitEvidence
  <2> QED BY <1>4, <2>1, <2>2 DEF Bounded
<1>7. CASE CloseChannel
  BY <1>7 DEF CloseChannel, Bounded, Pending, tables, history
<1>8. CASE Restart
  <2>1. \A x \in Calls : Pending(x)' => Pending(x) /\ call'[x].rec = call[x].rec
    BY <1>8, RestartEffect DEF Pending, Ended
  <2>2. restarts' <= MaxRestarts
    BY <1>0, <1>8, RestartEffect, EvidenceConstants
  <2>3. \A i \in DOMAIN chain' : chain'[i].ch \in 0 .. channel'
    BY <1>0, <1>8, RestartEffect DEF Bounded
  <2>4. /\ lastRecordHash' = 0 /\ active' = TRUE
        /\ UNCHANGED <<evidence, clock, pushed, committed, faults, overlapped>>
    BY <1>8, RestartEffect
  <2> QED BY <1>0, <2>1, <2>2, <2>3, <2>4 DEF Bounded
<1>9. CASE UNCHANGED vars
  BY <1>9 DEF vars, Bounded, Pending
<1> QED BY <1>1, <1>2, <1>3, <1>5, <1>6, <1>7, <1>8, <1>9
        DEF Next, StreamStep, AckStep, SubmitStep

\* Only streams are in the middle of a stream, only acknowledgements take up a flow
LEMMA KindsDiffer ==
  /\ Streams \subseteq Calls /\ Acks \subseteq Calls /\ Reports \subseteq Calls
  /\ \A x \in Acks \union Reports : x \notin Streams
  /\ \A x \in Streams \union Reports : x \notin Acks
  /\ \A x \in Streams \union Acks : x \notin Reports
  BY EvidenceConstants DEF Calls

\* What Subjects says of one call
Subject(x, c) ==
  /\ x \in Streams =>
       /\ c.pc \notin {"new", "signed", "done"} => c.flow = x
       /\ c.pc \in {"submit", "advance", "store"} => c.type \in {"DATA_SEND", "DATA_RECEIVE"}
  /\ x \in Reports => c.flow = NoFlow
  /\ c.pc \in {"advance", "store"} =>
       /\ c.rec.type = c.type /\ c.rec.flow = c.flow /\ c.rec.hash = c.hash
       /\ c.rec.sig # "flow"

\* Subjects, call by call
LEMMA SubjectsByCall == Subjects <=> \A x \in Calls : Subject(x, call[x])
  BY KindsDiffer DEF Subjects, Subject, Pending

\* Every step leaves a call with what belongs to it
LEMMA StepSubjects == Shape /\ Subjects /\ [Next]_vars => Subjects'
<1> SUFFICES ASSUME Shape, \A x \in Calls : Subject(x, call[x]), [Next]_vars
             PROVE  \A x \in Calls : Subject(x, call'[x])
  BY KindsDiffer, SubjectsByCall DEF Subjects, Subject, Pending
<1>0. ASSUME NEW x \in Calls, Others(x), Subject(x, call'[x])
      PROVE  \A y \in Calls : Subject(y, call'[y])
  BY <1>0 DEF Others
<1>00. \A x \in Calls : call[x].type \in EventTypes
  BY DEF Shape, CallStates
<1>1. ASSUME NEW x \in Calls, NEW signed \in BOOLEAN, SubmitRead(x, signed)
      PROVE  Subject(x, call'[x]) /\ Others(x)
  <2>1. /\ call[x].pc = "submit" /\ call'[x].pc = "advance" /\ Others(x)
        /\ call'[x].type = call[x].type /\ call'[x].flow = call[x].flow
        /\ call'[x].hash = call[x].hash
        /\ call'[x].rec.type = call[x].type /\ call'[x].rec.flow = call[x].flow
        /\ call'[x].rec.hash = call[x].hash /\ call'[x].rec.sig # "flow"
    BY <1>1, ReadEffect DEF SameSubject
  <2> QED BY <2>1 DEF Subject
<1>2. ASSUME NEW x \in Calls, SubmitAdvance(x)
      PROVE  Subject(x, call'[x]) /\ Others(x)
  BY <1>2, AdvanceEffect DEF Subject, SameSubject
<1>3. ASSUME NEW x \in Calls, NEW copies \in 0 .. StoreAttempts, SubmitStore(x, copies)
      PROVE  Subject(x, call'[x]) /\ Others(x)
  BY <1>3, StoreEffect DEF Subject, SameSubject
<1>4. ASSUME NEW s \in Streams, NEW read \in BOOLEAN, NEW ok \in BOOLEAN,
             \/ StreamOpen(s) \/ StreamPacket(s, read, ok) \/ RecordDataHash(s, ok)
             \/ StreamPush(s) \/ StreamEOF(s, ok) \/ StreamEnds(s)
      PROVE  s \in Calls /\ Subject(s, call'[s]) /\ Others(s)
  <2>0. s \in Calls /\ s \notin Reports /\ Subject(s, call[s])
    BY KindsDiffer
  <2>1. CASE StreamOpen(s)
    BY <2>0, <2>1, OpenEffect DEF Subject
  <2>2. CASE StreamPacket(s, read, ok)
    BY <2>0, <2>2, PacketEffect DEF Subject
  <2>3. CASE RecordDataHash(s, ok)
    BY <2>0, <2>3, ChainEffect DEF Subject, SameSubject
  <2>4. CASE StreamPush(s)
    BY <2>0, <2>4, PushEffect DEF Subject
  <2>5. CASE StreamEOF(s, ok)
    BY <2>0, <2>5, EOFEffect DEF Subject
  <2>6. CASE StreamEnds(s)
    BY <2>0, <2>6, EndEffect DEF Subject, Ended
  <2> QED BY <1>4, <2>1, <2>2, <2>3, <2>4, <2>5, <2>6
<1>5. ASSUME NEW x \in Acks \union Reports, NEW ok \in BOOLEAN,
             \/ x \in Acks /\ \/ SendAck(x) \/ SendAckRefused(x, ok) \/ RecordAckScan(x, ok)
                              \/ RecordAckInsert(x, ok) \/ AckPush(x)
             \/ x \in Reports /\ SubmitEvidence(x)
      PROVE  x \in Calls /\ Subject(x, call'[x]) /\ Others(x)
  <2>0. x \in Calls /\ x \notin Streams /\ Subject(x, call[x])
    BY KindsDiffer
  <2>1. CASE x \in Acks
    <3>1. Quiet(x) /\ x \notin Reports
      BY <1>5, <2>1, KindsDiffer, QuietOther
    <3> QED BY <2>0, <3>1 DEF Quiet, Subject
  <2>2. CASE x \in Reports /\ SubmitEvidence(x)
    BY <2>0, <2>2, SubmitBegins DEF Subject
  <2> QED BY <1>5, <2>1, <2>2
<1>6. CASE CloseChannel
  BY <1>6 DEF CloseChannel
<1>7. CASE Restart
  BY <1>7, RestartEffect DEF Subject, Ended
<1>8. CASE UNCHANGED vars
  BY <1>8 DEF vars
<1> QED BY <1>0, <1>1, <1>2, <1>3, <1>4, <1>5, <1>6, <1>7, <1>8
        DEF Next, StreamStep, AckStep, SubmitStep

\* Every step keeps the event ids apart
LEMMA StepEvents ==
  Shape /\ Bounded /\ Subjects /\ EventsDiffer /\ [Next]_vars => EventsDiffer'
<1> SUFFICES ASSUME Shape, Bounded, Subjects, EventsDiffer, [Next]_vars PROVE EventsDiffer'
  OBVIOUS
<1>1. ASSUME NEW x \in Calls, NEW signed \in BOOLEAN, SubmitRead(x, signed) PROVE EventsDiffer'
  <2>1. /\ call'[x].rec.ev = clock + 1 /\ evidence' = evidence /\ clock \in Nat
        /\ \A y \in Calls : y # x => call'[y] = call[y]
    BY <1>1, ReadEffect DEF Others, Shape
  <2>2. \A y \in Calls : y # x /\ Pending(y)' => Pending(y) /\ call'[y].rec.ev = call[y].rec.ev
                                                  /\ call[y].rec.ev # clock + 1
    BY <2>1 DEF Bounded, Pending
  <2>3. \A i \in DOMAIN evidence : evidence[i].ev # clock + 1
    BY <2>1 DEF Bounded
  <2> QED BY <2>1, <2>2, <2>3 DEF EventsDiffer
<1>2. ASSUME NEW x \in Calls, SubmitAdvance(x) PROVE EventsDiffer'
  <2>1. \A y \in Calls : Pending(y)' => Pending(y) /\ call'[y].rec = call[y].rec
    BY <1>2, AdvanceEffect DEF Others, Pending
  <2>2. evidence' = evidence
    BY <1>2, AdvanceEffect
  <2> QED BY <2>1, <2>2 DEF EventsDiffer
<1>3. ASSUME NEW x \in Calls, NEW copies \in 0 .. StoreAttempts, SubmitStore(x, copies)
      PROVE  EventsDiffer'
  <2>1. \A y \in Calls : Pending(y)' => Pending(y) /\ y # x /\ call'[y].rec = call[y].rec
    BY <1>3, StoreEffect DEF Others, Pending
  <2>2. Pending(x)
    BY <1>3, StoreEffect DEF Pending
  <2>3. \A i \in DOMAIN evidence' : \/ i \in DOMAIN evidence /\ evidence'[i] = evidence[i]
                                    \/ evidence'[i] = call[x].rec
    BY <1>3, StoreEffect
  <2>4. \A i \in DOMAIN evidence : evidence[i].ev # call[x].rec.ev
    BY <2>2 DEF EventsDiffer
  <2>5. \A i, j \in DOMAIN evidence' :
          evidence'[i].ev = evidence'[j].ev => evidence'[i].flow = evidence'[j].flow
    BY <2>3, <2>4 DEF EventsDiffer
  <2>6. \A y \in Calls : Pending(y)' => \A i \in DOMAIN evidence' : evidence'[i].ev # call'[y].rec.ev
    BY <2>1, <2>2, <2>3 DEF EventsDiffer
  <2> QED BY <2>1, <2>5, <2>6 DEF EventsDiffer
<1>4. ASSUME NEW x, Quiet(x) PROVE EventsDiffer'
  <2>1. \A y \in Calls : Pending(y)' => Pending(y) /\ call'[y].rec = call[y].rec
    BY <1>4 DEF Quiet, Others, Pending
  <2> QED BY <1>4, <2>1 DEF Quiet, EventsDiffer
<1>5. ASSUME NEW s \in Streams, StreamStep(s) PROVE EventsDiffer'
  BY <1>4, <1>5, QuietStream DEF StreamStep
<1>6. ASSUME NEW x \in Acks \union Reports,
             (x \in Acks /\ AckStep(x)) \/ (x \in Reports /\ SubmitEvidence(x))
      PROVE  EventsDiffer'
  BY <1>4, <1>6, QuietOther DEF AckStep
<1>7. CASE CloseChannel
  BY <1>7 DEF CloseChannel, EventsDiffer, Pending, tables
<1>8. CASE Restart
  <2>1. \A y \in Calls : Pending(y)' => Pending(y) /\ call'[y].rec = call[y].rec
    BY <1>8, RestartEffect DEF Pending, Ended
  <2>2. evidence' = evidence
    BY <1>8, RestartEffect
  <2> QED BY <2>1, <2>2 DEF EventsDiffer
<1>9. CASE UNCHANGED vars
  BY <1>9 DEF vars, EventsDiffer, Pending
<1> QED BY <1>1, <1>2, <1>3, <1>5, <1>6, <1>7, <1>8, <1>9 DEF Next, SubmitStep

-----------------------------------------------------------------------------
(* What others can see is on record *)

\* No row is taken out of a table, and none is changed but for its signature
Kept ==
  /\ \A i \in DOMAIN evidence :
       /\ i \in DOMAIN evidence' /\ evidence'[i].ev = evidence[i].ev
       /\ evidence'[i].type = evidence[i].type /\ evidence'[i].flow = evidence[i].flow
       /\ evidence'[i].hash = evidence[i].hash /\ evidence'[i].prev = evidence[i].prev
  /\ \A i \in DOMAIN chain : i \in DOMAIN chain' /\ chain'[i] = chain[i]

\* Every step keeps the rows
LEMMA StepKept == Shape /\ [Next]_vars => Kept
<1> SUFFICES ASSUME Shape, [Next]_vars PROVE Kept
  OBVIOUS
<1>0. evidence' = evidence /\ chain' = chain => Kept
  BY DEF Kept
<1>1. ASSUME NEW x \in Calls, NEW copies \in 0 .. StoreAttempts, SubmitStore(x, copies) PROVE Kept
  BY <1>1, StoreEffect DEF Kept
<1>2. ASSUME NEW x \in Calls, SubmitStep(x) PROVE Kept
  <2>1. CASE \E signed \in BOOLEAN : SubmitRead(x, signed)
    BY <1>0, <2>1 DEF SubmitRead, tables
  <2>2. CASE SubmitAdvance(x)
    BY <1>0, <2>2 DEF SubmitAdvance, tables
  <2> QED BY <1>1, <1>2, <2>1, <2>2 DEF SubmitStep
<1>3. ASSUME NEW s \in Streams, NEW ok \in BOOLEAN, StreamEOF(s, ok) PROVE Kept
  <2>1. chain' = chain /\ (evidence' = evidence \/ evidence' = SignFlow(s))
    BY <1>3 DEF StreamEOF
  <2> QED BY <1>0, <2>1, SignFlowKeeps DEF Shape, Kept
<1>4. ASSUME NEW s \in Streams, StreamStep(s) PROVE Kept
  <2>1. CASE \E ok \in BOOLEAN : RecordDataHash(s, ok)
    BY <2>1, ChainEffect DEF Kept
  <2>2. CASE StreamOpen(s) \/ StreamPush(s) \/ StreamEnds(s)
             \/ \E read, signed \in BOOLEAN : StreamPacket(s, read, signed)
    BY <1>0, <2>2 DEF StreamOpen, StreamPush, StreamEnds, StreamPacket, tables
  <2> QED BY <1>3, <1>4, <2>1, <2>2 DEF StreamStep
<1>5. ASSUME NEW a \in Acks, AckStep(a) PROVE Kept
  <2>1. CASE SendAck(a) \/ \E signed \in BOOLEAN : SendAckRefused(a, signed)
    BY <1>0, <2>1 DEF SendAck, SendAckRefused, tables
  <2>2. ASSUME NEW ok \in BOOLEAN, RecordAckScan(a, ok) \/ RecordAckInsert(a, ok) \/ AckPush(a)
        PROVE  Kept
    BY <2>2, AckEffect DEF Kept
  <2>3. TRUE \in BOOLEAN
    OBVIOUS
  <2> QED BY <1>5, <2>1, <2>2, <2>3 DEF AckStep
<1>6. ASSUME NEW r \in Reports, SubmitEvidence(r) PROVE Kept
  BY <1>0, <1>6 DEF SubmitEvidence, tables
<1>7. CASE CloseChannel \/ Restart \/ UNCHANGED vars
  BY <1>0, <1>7 DEF CloseChannel, Restart, vars, tables
<1> QED BY <1>2, <1>4, <1>5, <1>6, <1>7 DEF Next

\* No step, a crash or a failure included, takes a row out of a table or changes anything of it
\* but its signature
THEOREM TablesAreKept == Spec => [][Kept]_vars
<1>1. Init => Shape
  BY InitShape
<1>2. Shape /\ [Next]_vars => Shape'
  BY StepShape
<1>3. Shape /\ [Next]_vars => [Kept]_vars
  BY StepKept
<1> QED BY <1>1, <1>2, <1>3, PTL DEF Spec

HasRecord(table, type, flow, hash) ==
  \E i \in DOMAIN table : table[i].type = type /\ table[i].flow = flow /\ table[i].hash = hash

\* What is on record of the packet a stream is working on, where it has come to
OnRecord(s, c, table, rows, ch) ==
  /\ c.pc \in {"submit", "advance", "store"} /\ c.type = "DATA_RECEIVE"
       => HasRecord(table, "DATA_SEND", s, c.hash)
  /\ c.pc \in {"chain", "push"} => /\ HasRecord(table, "DATA_SEND", s, c.hash)
                                   /\ HasRecord(table, "DATA_RECEIVE", s, c.hash)
  /\ c.pc = "push" => RowIn(rows, ch, c.hash)

RecordedInv ==
  /\ faults = 0 => \A s \in Streams : OnRecord(s, call[s], evidence, chain, channel)
  /\ ForwardedWasRecorded
  /\ CommittedIsStored

\* What is on record stays on record
LEMMA KeptOnRecord ==
  ASSUME Kept
  PROVE  /\ \A type, flow, hash :
              HasRecord(evidence, type, flow, hash) => HasRecord(evidence', type, flow, hash)
         /\ \A ch, hash : RowIn(chain, ch, hash) => RowIn(chain', ch, hash)
         /\ \A s, c, ch : OnRecord(s, c, evidence, chain, ch) => OnRecord(s, c, evidence', chain', ch)
<1>1. \A type, flow, hash :
        HasRecord(evidence, type, flow, hash) => HasRecord(evidence', type, flow, hash)
  BY DEF Kept, HasRecord
<1>2. \A ch, hash : RowIn(chain, ch, hash) => RowIn(chain', ch, hash)
  BY DEF Kept, RowIn
<1> QED BY <1>1, <1>2 DEF OnRecord

\* What was seen stays on record: for the steps that push no packet
LEMMA KeptVisible ==
  ASSUME Kept, faults' = 0, faults = 0, ForwardedWasRecorded, CommittedIsStored,
         committed' \subseteq committed \union Stored'
  PROVE  /\ pushed' = pushed => ForwardedWasRecorded'
         /\ CommittedIsStored'
<1>1. Stored \subseteq Stored'
  BY DEF Kept, Stored
<1>2. /\ \A type, hash : HasEvidence(type, hash) =>
           \E i \in DOMAIN evidence' : evidence'[i].type = type /\ evidence'[i].hash = hash
      /\ \A ch, hash : (\E j \in DOMAIN chain : chain[j].ch = ch /\ chain[j].hash = hash)
           => \E j \in DOMAIN chain' : chain'[j].ch = ch /\ chain'[j].hash = hash
  BY DEF Kept, HasEvidence
<1>3. CommittedIsStored'
  BY <1>1 DEF CommittedIsStored
<1>4. ASSUME pushed' = pushed PROVE ForwardedWasRecorded'
  <2> SUFFICES ASSUME NEW i \in DOMAIN pushed
               PROVE  /\ HasEvidence("DATA_SEND", pushed[i].hash)'
                      /\ HasEvidence("DATA_RECEIVE", pushed[i].hash)'
                      /\ \E j \in DOMAIN chain' :
                           chain'[j].ch = pushed[i].ch /\ chain'[j].hash = pushed[i].hash
    BY <1>4 DEF ForwardedWasRecorded
  <2>1. /\ HasEvidence("DATA_SEND", pushed[i].hash) /\ HasEvidence("DATA_RECEIVE", pushed[i].hash)
        /\ \E j \in DOMAIN chain : chain[j].ch = pushed[i].ch /\ chain[j].hash = pushed[i].hash
    BY DEF ForwardedWasRecorded
  <2> QED BY <1>2, <1>4, <2>1 DEF HasEvidence
<1> QED BY <1>3, <1>4

\* A step of call x that pushes nothing
LEMMA KeepsRecorded ==
  ASSUME Kept, faults' = 0, faults = 0, RecordedInv, NEW x \in Calls, Others(x),
         x \in Streams => OnRecord(x, call'[x], evidence', chain', channel'),
         UNCHANGED <<channel, pushed>>, committed' \subseteq committed \union Stored'
  PROVE  RecordedInv'
<1>1. ForwardedWasRecorded' /\ CommittedIsStored'
  BY KeptVisible DEF RecordedInv
<1>2. ASSUME NEW s \in Streams PROVE OnRecord(s, call'[s], evidence', chain', channel')
  <2>1. CASE s = x
    BY <2>1
  <2>2. CASE s # x
    <3>1. call'[s] = call[s]
      BY <2>2 DEF Others, Calls
    <3>2. OnRecord(s, call[s], evidence, chain, channel)
      BY DEF RecordedInv
    <3> QED BY <3>1, <3>2, KeptOnRecord
  <2> QED BY <2>1, <2>2
<1> QED BY <1>1, <1>2 DEF RecordedInv

\* Every step keeps what others can see on record
LEMMA StepRecorded ==
  Shape /\ Bounded /\ Subjects /\ RecordedInv /\ [Next]_vars => RecordedInv'
<1> SUFFICES ASSUME Shape, Bounded, Subjects, RecordedInv, [Next]_vars, faults' = 0
             PROVE  RecordedInv'
  BY DEF RecordedInv, ForwardedWasRecorded, CommittedIsStored
<1>0. Kept
  BY StepKept
<1>00. ASSUME NEW s \in Streams, faults = 0
       PROVE  OnRecord(s, call[s], evidence, chain, channel) /\ s \in Calls
  BY <1>00 DEF RecordedInv, Calls
<1>1. ASSUME NEW x \in Calls, NEW signed \in BOOLEAN, SubmitRead(x, signed) PROVE RecordedInv'
  <2>1. faults = 0 /\ UNCHANGED <<evidence, chain, channel, pushed, committed>> /\ Others(x)
    BY <1>1, ReadEffect DEF Counted
  <2>2. /\ call[x].pc = "submit" /\ call'[x].pc = "advance"
        /\ call'[x].type = call[x].type /\ call'[x].hash = call[x].hash
    BY <1>1, ReadEffect DEF SameSubject
  <2>3. x \in Streams => OnRecord(x, call'[x], evidence', chain', channel')
    BY <1>00, <2>1, <2>2 DEF OnRecord
  <2> QED BY <1>0, <2>1, <2>3, KeepsRecorded
<1>2. ASSUME NEW x \in Calls, SubmitAdvance(x) PROVE RecordedInv'
  <2>1. faults = 0 /\ UNCHANGED <<evidence, chain, channel, pushed, committed>> /\ Others(x)
    BY <1>2, AdvanceEffect
  <2>2. /\ call[x].pc = "advance" /\ call'[x].pc = "store"
        /\ call'[x].type = call[x].type /\ call'[x].hash = call[x].hash
    BY <1>2, AdvanceEffect DEF SameSubject
  <2>3. x \in Streams => OnRecord(x, call'[x], evidence', chain', channel')
    BY <1>00, <2>1, <2>2 DEF OnRecord
  <2> QED BY <1>0, <2>1, <2>3, KeepsRecorded
<1>3. ASSUME NEW x \in Calls, NEW copies \in 0 .. StoreAttempts, SubmitStore(x, copies)
      PROVE  RecordedInv'
  <2>1. faults = 0 /\ UNCHANGED <<chain, channel, pushed>> /\ Others(x) /\ call[x].pc = "store"
    BY <1>3, StoreEffect DEF Counted
  <2>2. PICK i \in DOMAIN evidence' : evidence'[i] = call[x].rec
    BY <1>3, StoreEffect
  <2>3. committed' \subseteq committed \union Stored'
    <3>1. call[x].rec.ev \in Stored'
      BY <2>2 DEF Stored
    <3>2. committed' \subseteq committed \union {call[x].rec.ev}
      BY <1>3, StoreEffect
    <3> QED BY <3>1, <3>2
  <2>4. ASSUME x \in Streams PROVE OnRecord(x, call'[x], evidence', chain', channel')
    <3>1. /\ call[x].rec.type = call[x].type /\ call[x].rec.flow = x
          /\ call[x].rec.hash = call[x].hash /\ call[x].type \in {"DATA_SEND", "DATA_RECEIVE"}
      BY <2>1, <2>4 DEF Subjects, Pending
    <3>2. HasRecord(evidence', call[x].type, x, call[x].hash)
      BY <2>2, <3>1 DEF HasRecord
    <3>3. CASE call[x].type = "DATA_SEND"
      <4>1. /\ call'[x].pc = "submit" /\ call'[x].type = "DATA_RECEIVE"
            /\ call'[x].hash = call[x].hash
        BY <1>3, <3>3, StoreEffect
      <4> QED BY <3>2, <3>3, <4>1 DEF OnRecord
    <3>4. CASE call[x].type = "DATA_RECEIVE"
      <4>1. call'[x].pc = "chain" /\ call'[x].hash = call[x].hash
        BY <1>3, <3>4, StoreEffect DEF SameSubject
      <4>2. HasRecord(evidence, "DATA_SEND", x, call[x].hash)
        BY <1>00, <2>1, <2>4, <3>4 DEF OnRecord
      <4>3. HasRecord(evidence', "DATA_SEND", x, call[x].hash)
        BY <1>0, <4>2, KeptOnRecord
      <4> QED BY <3>2, <3>4, <4>1, <4>3 DEF OnRecord
    <3> QED BY <3>1, <3>3, <3>4
  <2> QED BY <1>0, <2>1, <2>3, <2>4, KeepsRecorded
<1>4. ASSUME NEW s \in Streams, NEW read \in BOOLEAN, NEW signed \in BOOLEAN,
             StreamPacket(s, read, signed)
      PROVE  RecordedInv'
  <2>1. /\ faults = 0 /\ UNCHANGED <<channel, pushed, committed>> /\ Others(s)
        /\ call'[s].pc = "submit" /\ call'[s].type = "DATA_SEND"
    BY <1>4, PacketEffect DEF Counted
  <2>2. OnRecord(s, call'[s], evidence', chain', channel')
    BY <2>1 DEF OnRecord
  <2> QED BY <1>0, <1>00, <2>1, <2>2, KeepsRecorded
<1>5. ASSUME NEW s \in Streams, NEW ok \in BOOLEAN, RecordDataHash(s, ok) PROVE RecordedInv'
  <2>1. /\ faults = 0 /\ UNCHANGED <<channel, pushed, committed>> /\ Others(s)
        /\ call[s].pc = "chain" /\ call'[s].pc = "push" /\ call'[s].hash = call[s].hash
    BY <1>5, ChainEffect DEF Counted, SameSubject
  <2>2. RowIn(chain', channel, call[s].hash)
    BY <1>5, ChainEffect DEF RowIn
  <2>3. /\ HasRecord(evidence', "DATA_SEND", s, call[s].hash)
        /\ HasRecord(evidence', "DATA_RECEIVE", s, call[s].hash)
    <3>1. /\ HasRecord(evidence, "DATA_SEND", s, call[s].hash)
          /\ HasRecord(evidence, "DATA_RECEIVE", s, call[s].hash)
      BY <1>00, <2>1 DEF OnRecord
    <3> QED BY <1>0, <3>1, KeptOnRecord
  <2>4. OnRecord(s, call'[s], evidence', chain', channel')
    BY <2>1, <2>2, <2>3 DEF OnRecord
  <2> QED BY <1>0, <1>00, <2>1, <2>4, KeepsRecorded
<1>6. ASSUME NEW s \in Streams, StreamPush(s) PROVE RecordedInv'
  <2> DEFINE p == [ch |-> channel, flow |-> s, hash |-> call[s].hash]
  <2>1. /\ faults = 0 /\ UNCHANGED <<evidence, chain, channel, committed>> /\ Others(s)
        /\ call[s].pc = "push" /\ call'[s].pc = "recv" /\ pushed' = Append(pushed, p)
    BY <1>6, PushEffect
  <2>2. CommittedIsStored'
    BY <2>1 DEF RecordedInv, CommittedIsStored, Stored
  <2>3. ASSUME NEW t \in Streams PROVE OnRecord(t, call'[t], evidence', chain', channel')
    <3>1. CASE t = s
      BY <2>1, <3>1 DEF OnRecord
    <3>2. CASE t # s
      <4>1. call'[t] = call[t] /\ OnRecord(t, call[t], evidence, chain, channel)
        BY <1>00, <2>1, <3>2 DEF Others
      <4> QED BY <2>1, <4>1
    <3> QED BY <3>1, <3>2
  <2>4. OnRecord(s, call[s], evidence, chain, channel)
    BY <1>00, <2>1
  <2>5. /\ HasEvidence("DATA_SEND", p.hash) /\ HasEvidence("DATA_RECEIVE", p.hash)
        /\ \E j \in DOMAIN chain : chain[j].ch = p.ch /\ chain[j].hash = p.hash
    BY <2>1, <2>4 DEF OnRecord, HasRecord, HasEvidence, RowIn
  <2> HIDE DEF p
  <2>6. \A i \in DOMAIN pushed' : (i \in DOMAIN pushed /\ pushed'[i] = pushed[i]) \/ pushed'[i] = p
    <3>1. pushed \in Seq(Packets)
      BY DEF Bounded
    <3> QED BY <2>1, <3>1
  <2>7. ForwardedWasRecorded'
    <3> SUFFICES ASSUME NEW i \in DOMAIN pushed'
                 PROVE  /\ HasEvidence("DATA_SEND", pushed'[i].hash)
                        /\ HasEvidence("DATA_RECEIVE", pushed'[i].hash)
                        /\ \E j \in DOMAIN chain :
                             chain[j].ch = pushed'[i].ch /\ chain[j].hash = pushed'[i].hash
      BY <2>1 DEF ForwardedWasRecorded, HasEvidence
    <3>1. CASE i \in DOMAIN pushed /\ pushed'[i] = pushed[i]
      BY <2>1, <3>1 DEF RecordedInv, ForwardedWasRecorded
    <3>2. CASE pushed'[i] = p
      BY <2>5, <3>2
    <3> QED BY <2>6, <3>1, <3>2
  <2> QED BY <2>2, <2>3, <2>7 DEF RecordedInv
<1>7. ASSUME NEW s \in Streams, NEW ok \in BOOLEAN, StreamOpen(s) \/ StreamEOF(s, ok) \/ StreamEnds(s)
      PROVE  RecordedInv'
  <2>1. Quiet(s)
    BY <1>7, QuietStream
  <2>2. call'[s].pc \in {"recv", "signed", "done"} /\ pushed' = pushed
    <3>1. CASE StreamOpen(s)
      BY <3>1, OpenEffect
    <3>2. CASE StreamEOF(s, ok)
      BY <3>2, EOFEffect
    <3>3. CASE StreamEnds(s)
      BY <1>00, <3>3, EndEffect, KindsDiffer DEF Ended
    <3> QED BY <1>7, <3>1, <3>2, <3>3
  <2>3. faults = 0 /\ s \in Calls /\ Others(s) /\ UNCHANGED <<channel, committed>>
    BY <2>1 DEF Quiet, Counted
  <2>4. OnRecord(s, call'[s], evidence', chain', channel')
    BY <2>2 DEF OnRecord
  <2> QED BY <1>0, <2>2, <2>3, <2>4, KeepsRecorded
<1>8. ASSUME NEW x \in Acks \union Reports,
             (x \in Acks /\ AckStep(x)) \/ (x \in Reports /\ SubmitEvidence(x))
      PROVE  RecordedInv'
  <2>1. Quiet(x)
    BY <1>8, QuietOther DEF AckStep
  <2>2. faults = 0 /\ x \in Calls /\ Others(x) /\ UNCHANGED <<channel, committed>> /\ x \notin Streams
    BY <2>1, KindsDiffer DEF Quiet, Counted
  <2>3. pushed' = pushed
    BY <1>8 DEF AckStep, SendAck, SendAckRefused, RecordAckScan, RecordAckInsert, AckPush,
                SubmitEvidence
  <2> QED BY <1>0, <2>2, <2>3, KeepsRecorded
<1>9. CASE CloseChannel
  BY <1>9 DEF CloseChannel, RecordedInv, ForwardedWasRecorded, CommittedIsStored, HasEvidence,
              Stored, tables
<1>10. CASE Restart
  <2>1. UNCHANGED <<evidence, chain, pushed, committed, faults>>
    BY <1>10, RestartEffect
  <2>2. ForwardedWasRecorded' /\ CommittedIsStored'
    BY <2>1 DEF RecordedInv, ForwardedWasRecorded, CommittedIsStored, HasEvidence, Stored
  <2>3. \A s \in Streams : call'[s].pc \in {"new", "signed", "done"}
    BY <1>10, RestartEffect, KindsDiffer DEF Ended
  <2>4. \A s \in Streams : OnRecord(s, call'[s], evidence', chain', channel')
    BY <2>3 DEF OnRecord
  <2> QED BY <2>2, <2>4 DEF RecordedInv
<1>11. CASE UNCHANGED vars
  BY <1>11 DEF vars, RecordedInv, ForwardedWasRecorded, CommittedIsStored, HasEvidence, Stored
<1> QED BY <1>1, <1>2, <1>3, <1>4, <1>5, <1>6, <1>7, <1>8, <1>9, <1>10, <1>11
        DEF Next, StreamStep, SubmitStep

\* What holds of the records when the kernel starts on an empty database
LEMMA InitRecorded == Init => Bounded /\ Subjects /\ RecordedInv
<1>1. Init => Bounded
  <2> SUFFICES ASSUME Init PROVE Bounded
    OBVIOUS
  <2>1. \A x \in Calls : ~Pending(x)
    BY DEF Init, Pending, NewCall
  <2>2. pushed \in Seq(Packets)
    BY DEF Init
  <2>3. evidence = <<>> /\ chain = <<>> /\ active = TRUE /\ overlapped = FALSE /\ committed = {}
    BY DEF Init
  <2>4. lastRecordHash \in 0 .. clock /\ faults <= MaxFaults /\ restarts <= MaxRestarts
    BY EvidenceConstants DEF Init
  <2>5. DOMAIN evidence = {} /\ DOMAIN chain = {}
    BY <2>3
  <2>6. active \in BOOLEAN /\ overlapped \in BOOLEAN /\ committed \subseteq 1 .. clock
    BY <2>3
  <2> QED BY <2>1, <2>2, <2>4, <2>5, <2>6, Zenon DEF Bounded
<1>2. Init => Subjects
  BY KindsDiffer DEF Init, Subjects, Pending, NewCall
<1>3. Init => RecordedInv
  BY KindsDiffer DEF Init, RecordedInv, OnRecord, NewCall, ForwardedWasRecorded, CommittedIsStored
<1> QED BY <1>1, <1>2, <1>3

\* What others can see is on record as long as nothing fails, whatever overlaps, crashes and
\* restarts there are, and the tables are well formed in any case
THEOREM VisibleStaysRecorded == Spec => []VisibleIsRecorded
<1> DEFINE Inv == Shape /\ Bounded /\ Subjects /\ RecordedInv
<1>1. Init => Inv
  BY InitShape, InitRecorded
<1>2. Inv /\ [Next]_vars => Inv'
  BY StepShape, StepBounded, StepSubjects, StepRecorded
<1>3. Inv => VisibleIsRecorded
  <2> SUFFICES ASSUME Shape, Bounded PROVE TypeOK
    BY DEF VisibleIsRecorded, RecordedInv
  <2>1. \A i \in DOMAIN evidence : evidence[i] \in Records
    BY DEF Shape
  <2>2. \A i \in DOMAIN chain : chain[i] \in Rows
    BY DEF Shape
  <2>3. \A i \in DOMAIN pushed : pushed[i] \in Packets
    <3>1. pushed \in Seq(Packets)
      BY DEF Bounded
    <3> QED BY <3>1
  <2>4. \A x \in Calls : call[x].n \in 0 .. MaxPackets /\ call[x].type \in EventTypes
    BY DEF Shape, CallStates
  <2>5. \A i \in DOMAIN evidence :
          /\ evidence[i].ev \in 1 .. clock /\ evidence[i].prev \in 0 .. clock
          /\ evidence[i].type \in EventTypes /\ evidence[i].flow \in Streams \union {NoFlow}
          /\ evidence[i].hash \in Hashes /\ evidence[i].sig \in {"record", "flow", "none"}
    BY <2>1 DEF Bounded, Records, Flows
  <2>6. \A i \in DOMAIN chain :
          chain[i].ch \in 0 .. channel /\ {chain[i].hash, chain[i].prev} \subseteq Hashes
    BY <2>2 DEF Bounded, Rows
  <2>7. \A i \in DOMAIN pushed : pushed[i].hash \in Hashes
    BY <2>3 DEF Packets
  <2>8. /\ faults \in 0 .. MaxFaults /\ restarts \in 0 .. MaxRestarts
        /\ lastRecordHash \in 0 .. clock /\ clock \in Nat /\ channel \in Nat
        /\ active \in BOOLEAN /\ overlapped \in BOOLEAN /\ committed \subseteq 1 .. clock
        /\ currentFlowID \in Streams \union {NoFlow}
    BY EvidenceConstants DEF Shape, Bounded, Flows
  <2> QED BY <2>4, <2>5, <2>6, <2>7, <2>8 DEF TypeOK
<1> QED BY <1>1, <1>2, <1>3, PTL DEF Spec

-----------------------------------------------------------------------------
(* The signatures of flows *)

\* A set of natural numbers that is not empty has a smallest member
LEMMA SmallestExists ==
  ASSUME NEW S \in SUBSET Nat, S # {}
  PROVE  \E e \in S : \A d \in S : e <= d
<1> DEFINE R == OpToRel(<, Nat)
<1>1. IsWellFoundedOn(R, Nat)
  BY NatLessThanWellFounded
<1> HIDE DEF R
<1>2. PICK e \in S : \A d \in S : ~ (<<d, e>> \in R)
  BY <1>1, WFMin
<1>3. ASSUME NEW d \in S PROVE e <= d
  <2>1. ~ (d < e)
    BY <1>2 DEF R, OpToRel
  <2> QED BY <2>1
<1> QED BY <1>3

HasFlow(table, f) == \E i \in DOMAIN table : table[i].flow = f

\* A flow that the channel or an acknowledgement names has left a record
FlowsOnRecord ==
  faults = 0 =>
    /\ currentFlowID # NoFlow => HasFlow(evidence, currentFlowID)
    /\ \A a \in Acks : call[a].flow # NoFlow => HasFlow(evidence, call[a].flow)

SignedInv == FlowsOnRecord /\ EndedFlowIsSigned

Signed(table, s) == \E i \in DOMAIN table : table[i].flow = s /\ table[i].sig = "flow"

\* SignFlow signs its flow, if that has a record, and no other
LEMMA SignFlowSigns ==
  ASSUME Shape, EventsDiffer, NEW s \in Streams
  PROVE  /\ HasFlow(evidence, s) => Signed(SignFlow(s), s)
         /\ \A t : t # s => (Signed(SignFlow(s), t) <=> Signed(evidence, t))
<1>1. CASE FlowEvents(s) = {}
  <2>1. ~HasFlow(evidence, s)
    BY <1>1 DEF HasFlow, FlowEvents
  <2>2. SignFlow(s) = evidence
    BY <1>1 DEF SignFlow
  <2> QED BY <2>1, <2>2
<1>2. CASE FlowEvents(s) # {}
  <2> DEFINE m == LastOfQuery(s)
  <2> DEFINE U == SignFlow(s)
  <2>1. \A i \in DOMAIN evidence : evidence[i] \in Records
    BY DEF Shape
  <2>2. FlowEvents(s) \in SUBSET Nat
    BY <2>1 DEF FlowEvents, Records
  <2>3. \E e \in FlowEvents(s) : \A d \in FlowEvents(s) : e <= d
    BY <1>2, <2>2, SmallestExists
  <2>4. m \in FlowEvents(s)
    BY <2>3 DEF LastOfQuery
  <2>5. PICK k \in DOMAIN evidence : evidence[k].flow = s /\ evidence[k].ev = m
    BY <2>4 DEF FlowEvents
  <2>6. /\ DOMAIN U = DOMAIN evidence
        /\ \A i \in DOMAIN evidence :
             U[i] = IF evidence[i].ev = m THEN [evidence[i] EXCEPT !.sig = "flow"] ELSE evidence[i]
    BY <1>2 DEF SignFlow, Update
  <2> HIDE DEF U, m
  <2>7. U[k].flow = s /\ U[k].sig = "flow"
    BY <2>1, <2>5, <2>6 DEF Records
  <2>8. \A i \in DOMAIN evidence : evidence[i].ev = m => evidence[i].flow = s
    BY <2>5 DEF EventsDiffer
  <2>9. \A i \in DOMAIN evidence : evidence[i].ev = m => U[i].flow = s
    BY <2>1, <2>6, <2>8 DEF Records
  <2>10. \A t : t # s => (Signed(U, t) <=> Signed(evidence, t))
    BY <2>6, <2>8, <2>9 DEF Signed
  <2>11. Signed(U, s)
    BY <2>5, <2>6, <2>7 DEF Signed
  <2> QED BY <2>10, <2>11 DEF U
<1> QED BY <1>1, <1>2

\* A step that signs nothing, after which every new record is of a flow that has one already
\* or whose stream has not ended
LEMMA KeepsSigned ==
  ASSUME EndedFlowIsSigned, faults' = 0, faults = 0,
         \A i \in DOMAIN evidence : i \in DOMAIN evidence' /\ evidence'[i] = evidence[i],
         \A i \in DOMAIN evidence' \ DOMAIN evidence : evidence'[i].sig # "flow",
         \A s \in Streams : call'[s].pc = "signed" <=> call[s].pc = "signed",
         \A s \in Streams : call[s].pc = "signed" /\ HasFlow(evidence', s) => HasFlow(evidence, s)
  PROVE  EndedFlowIsSigned'
<1> SUFFICES ASSUME NEW s \in Streams
             PROVE  Signed(evidence', s) <=> call'[s].pc = "signed" /\ HasFlow(evidence', s)
  BY DEF EndedFlowIsSigned, Signed, HasFlow
<1>1. Signed(evidence, s) <=> call[s].pc = "signed" /\ HasFlow(evidence, s)
  BY DEF EndedFlowIsSigned, Signed, HasFlow
<1>2. Signed(evidence', s) <=> Signed(evidence, s)
  BY DEF Signed
<1>3. HasFlow(evidence, s) => HasFlow(evidence', s)
  BY DEF HasFlow
<1> QED BY <1>1, <1>2, <1>3

\* The flows the channel and the acknowledgements name stay on record
LEMMA KeepsFlows ==
  ASSUME Kept, FlowsOnRecord, faults' = 0, faults = 0,
         \/ currentFlowID' \in {currentFlowID, NoFlow} \/ HasFlow(evidence, currentFlowID')
         \/ \E a \in Acks : currentFlowID' = call[a].flow,
         \A a \in Acks : call'[a].flow \in {call[a].flow, NoFlow, currentFlowID}
  PROVE  FlowsOnRecord'
<1>1. \A f : HasFlow(evidence, f) => HasFlow(evidence', f)
  BY DEF Kept, HasFlow
<1>2. /\ currentFlowID # NoFlow => HasFlow(evidence, currentFlowID)
      /\ \A a \in Acks : call[a].flow # NoFlow => HasFlow(evidence, call[a].flow)
  BY DEF FlowsOnRecord
<1>3. currentFlowID' # NoFlow => HasFlow(evidence', currentFlowID')
  BY <1>1, <1>2
<1>4. \A a \in Acks : call'[a].flow # NoFlow => HasFlow(evidence', call'[a].flow)
  BY <1>1, <1>2
<1> QED BY <1>3, <1>4 DEF FlowsOnRecord

\* Every step keeps the flow signatures where they belong
LEMMA StepSigned ==
  Shape /\ Subjects /\ EventsDiffer /\ RecordedInv /\ SignedInv /\ [Next]_vars => SignedInv'
<1> SUFFICES ASSUME Shape, Subjects, EventsDiffer, RecordedInv, SignedInv, [Next]_vars, faults' = 0
             PROVE  SignedInv'
  BY DEF SignedInv, FlowsOnRecord, EndedFlowIsSigned
<1>0. Kept /\ FlowsOnRecord /\ EndedFlowIsSigned
  BY StepKept DEF SignedInv
\* steps of a call that has neither ended with a signature nor does so now
<1>1. ASSUME NEW x \in Calls, Others(x), evidence' = evidence, faults = 0,
             x \in Streams => call[x].pc # "signed" /\ call'[x].pc # "signed",
             x \in Acks => call'[x].flow \in {call[x].flow, NoFlow, currentFlowID},
             \/ currentFlowID' \in {currentFlowID, NoFlow} \/ HasFlow(evidence, currentFlowID')
             \/ \E a \in Acks : currentFlowID' = call[a].flow
      PROVE  SignedInv'
  <2>1. \A s \in Streams : call'[s].pc = "signed" <=> call[s].pc = "signed"
    BY <1>1, KindsDiffer DEF Others
  <2>2. EndedFlowIsSigned'
    BY <1>0, <1>1, <2>1, KeepsSigned
  <2>3. \A a \in Acks : call'[a].flow \in {call[a].flow, NoFlow, currentFlowID}
    BY <1>1, KindsDiffer DEF Others
  <2>4. FlowsOnRecord'
    BY <1>0, <1>1, <2>3, KeepsFlows
  <2> QED BY <2>2, <2>4 DEF SignedInv
<1>2. ASSUME NEW x \in Calls, NEW signed \in BOOLEAN, SubmitRead(x, signed) PROVE SignedInv'
  <2>1. /\ Others(x) /\ UNCHANGED <<evidence, currentFlowID>> /\ faults = 0
        /\ call[x].pc = "submit" /\ call'[x].pc = "advance" /\ call'[x].flow = call[x].flow
    BY <1>2, ReadEffect DEF Counted, SameSubject
  <2> QED BY <1>1, <2>1
<1>3. ASSUME NEW x \in Calls, SubmitAdvance(x) PROVE SignedInv'
  <2>1. /\ Others(x) /\ UNCHANGED <<evidence, currentFlowID>> /\ faults = 0
        /\ call[x].pc = "advance" /\ call'[x].pc = "store" /\ call'[x].flow = call[x].flow
    BY <1>3, AdvanceEffect DEF SameSubject
  <2> QED BY <1>1, <2>1
<1>4. ASSUME NEW x \in Calls, NEW copies \in 0 .. StoreAttempts, SubmitStore(x, copies)
      PROVE  SignedInv'
  <2>1. /\ Others(x) /\ UNCHANGED currentFlowID /\ faults = 0
        /\ call[x].pc = "store" /\ call'[x].pc # "signed" /\ call'[x].flow \in {call[x].flow, NoFlow}
    BY <1>4, StoreEffect DEF Counted
  <2>2. /\ \A i \in DOMAIN evidence : i \in DOMAIN evidence' /\ evidence'[i] = evidence[i]
        /\ \A i \in DOMAIN evidence' \ DOMAIN evidence : evidence'[i] = call[x].rec
    BY <1>4, StoreEffect
  <2>3. call[x].rec.flow = call[x].flow /\ call[x].rec.sig # "flow"
    BY <2>1 DEF Subjects, Pending
  <2>4. \A s \in Streams : call'[s].pc = "signed" <=> call[s].pc = "signed"
    BY <2>1, KindsDiffer DEF Others
  <2>5. ASSUME NEW s \in Streams, call[s].pc = "signed", HasFlow(evidence', s)
        PROVE  HasFlow(evidence, s)
    <3>1. CASE call[x].flow = s
      <4>1. x # s /\ s # NoFlow
        BY <2>1, <2>5, EvidenceConstants
      <4>2. x \in Acks
        BY <2>1, <3>1, <4>1 DEF Subjects, Calls
      <4> QED BY <1>0, <2>1, <3>1, <4>1, <4>2 DEF FlowsOnRecord
    <3>2. CASE call[x].flow # s
      BY <2>2, <2>3, <2>5, <3>2 DEF HasFlow
    <3> QED BY <3>1, <3>2
  <2>6. EndedFlowIsSigned'
    BY <1>0, <2>1, <2>2, <2>3, <2>4, <2>5, KeepsSigned
  <2>7. \A a \in Acks : call'[a].flow \in {call[a].flow, NoFlow, currentFlowID}
    BY <2>1, KindsDiffer DEF Others
  <2>8. FlowsOnRecord'
    BY <1>0, <2>1, <2>7, KeepsFlows
  <2> QED BY <2>6, <2>8 DEF SignedInv
<1>5. ASSUME NEW s \in Streams, NEW read \in BOOLEAN, NEW ok \in BOOLEAN,
             \/ StreamOpen(s) \/ StreamPacket(s, read, ok) \/ RecordDataHash(s, ok)
             \/ StreamEnds(s)
      PROVE  SignedInv'
  <2>1. Others(s) /\ faults = 0 /\ s \in Calls
    <3>1. Quiet(s)
      BY <1>5, QuietStream
    <3> QED BY <3>1 DEF Quiet, Counted
  <2>2. /\ UNCHANGED <<evidence, currentFlowID>>
        /\ call[s].pc # "signed" /\ call'[s].pc # "signed"
    <3>1. CASE StreamOpen(s)
      BY <3>1, OpenEffect
    <3>2. CASE StreamPacket(s, read, ok)
      BY <3>2, PacketEffect
    <3>3. CASE RecordDataHash(s, ok)
      BY <3>3, ChainEffect
    <3>4. CASE StreamEnds(s)
      BY <2>1, <3>4, EndEffect DEF Ended
    <3> QED BY <1>5, <3>1, <3>2, <3>3, <3>4
  <2>3. s \notin Acks
    BY KindsDiffer
  <2> QED BY <1>1, <2>1, <2>2, <2>3
<1>6. ASSUME NEW s \in Streams, StreamPush(s) PROVE SignedInv'
  <2>1. /\ Others(s) /\ evidence' = evidence /\ faults = 0 /\ currentFlowID' = s
        /\ call[s].pc = "push" /\ call'[s].pc = "recv"
    BY <1>6, PushEffect
  <2>2. HasFlow(evidence, s)
    <3>1. OnRecord(s, call[s], evidence, chain, channel)
      BY <2>1 DEF RecordedInv
    <3>2. HasRecord(evidence, "DATA_SEND", s, call[s].hash)
      BY <2>1, <3>1 DEF OnRecord
    <3> QED BY <3>2 DEF HasRecord, HasFlow
  <2>3. s \in Calls /\ s \notin Acks
    BY KindsDiffer
  <2> QED BY <1>1, <2>1, <2>2, <2>3
<1>7. ASSUME NEW s \in Streams, NEW ok \in BOOLEAN, StreamEOF(s, ok) PROVE SignedInv'
  <2>1. /\ Others(s) /\ currentFlowID' = currentFlowID /\ faults = 0
        /\ evidence' = SignFlow(s) /\ call[s].pc = "recv" /\ call'[s].pc = "signed"
    BY <1>7, EOFEffect DEF Counted
  <2>2. FlowsOnRecord'
    <3>1. \A a \in Acks : call'[a].flow \in {call[a].flow, NoFlow, currentFlowID}
      BY <2>1, KindsDiffer DEF Others
    <3> QED BY <1>0, <2>1, <3>1, KeepsFlows
  <2>3. ASSUME NEW t \in Streams
        PROVE  Signed(evidence', t) <=> call'[t].pc = "signed" /\ HasFlow(evidence', t)
    <3>1. Signed(evidence, t) <=> call[t].pc = "signed" /\ HasFlow(evidence, t)
      BY <1>0, <2>1 DEF EndedFlowIsSigned, Signed, HasFlow
    <3>2. HasFlow(evidence', t) <=> HasFlow(evidence, t)
      BY <2>1, SignFlowKeeps DEF Shape, HasFlow
    <3>3. CASE t = s
      <4>1. Signed(evidence', s) => HasFlow(evidence', s)
        BY DEF Signed, HasFlow
      <4>2. HasFlow(evidence, s) => Signed(evidence', s)
        BY <2>1, SignFlowSigns
      <4> QED BY <2>1, <3>2, <3>3, <4>1, <4>2
    <3>4. CASE t # s
      <4>1. call'[t] = call[t]
        BY <2>1, <3>4, KindsDiffer DEF Others
      <4>2. Signed(evidence', t) <=> Signed(evidence, t)
        BY <2>1, <3>4, SignFlowSigns
      <4> QED BY <3>1, <3>2, <4>1, <4>2
    <3> QED BY <3>3, <3>4
  <2>4. EndedFlowIsSigned'
    BY <2>3 DEF EndedFlowIsSigned, Signed, HasFlow
  <2> QED BY <2>2, <2>4 DEF SignedInv
<1>8. ASSUME NEW x \in Acks \union Reports, NEW ok \in BOOLEAN,
             \/ x \in Acks /\ \/ SendAck(x) \/ SendAckRefused(x, ok) \/ RecordAckScan(x, ok)
                              \/ RecordAckInsert(x, ok) \/ AckPush(x)
             \/ x \in Reports /\ SubmitEvidence(x)
      PROVE  SignedInv'
  <2>1. Others(x) /\ faults = 0 /\ x \in Calls /\ x \notin Streams
    <3>1. Quiet(x)
      BY <1>8, QuietOther
    <3> QED BY <3>1, KindsDiffer DEF Quiet, Counted
  <2>2. CASE (x \in Acks /\ SendAck(x)) \/ (x \in Reports /\ SubmitEvidence(x))
    <3>1. /\ UNCHANGED <<evidence, currentFlowID>>
          /\ x \in Acks => call'[x].flow = currentFlowID
      BY <2>1, <2>2, SubmitBegins
    <3> QED BY <1>1, <2>1, <3>1
  <2>3. CASE x \in Acks /\ SendAckRefused(x, ok)
    <3>1. UNCHANGED <<evidence, currentFlowID>> /\ call'[x].flow = NoFlow
      BY <2>1, <2>3, EndEffect DEF Ended
    <3> QED BY <1>1, <2>1, <3>1
  <2>4. CASE x \in Acks /\ (RecordAckScan(x, ok) \/ RecordAckInsert(x, ok) \/ AckPush(x))
    <3>1. /\ evidence' = evidence /\ call'[x].flow \in {call[x].flow, NoFlow}
          /\ currentFlowID' \in {currentFlowID, call[x].flow}
      BY <2>4, AckEffect
    <3> QED BY <1>1, <2>1, <2>4, <3>1
  <2> QED BY <1>8, <2>2, <2>3, <2>4
<1>9. CASE CloseChannel
  BY <1>9 DEF CloseChannel, SignedInv, FlowsOnRecord, EndedFlowIsSigned, tables
<1>10. CASE Restart
  <2>1. /\ evidence' = evidence /\ faults = 0 /\ currentFlowID' = NoFlow
        /\ \A x \in Calls : (call[x].pc \in {"new", "signed"} /\ call'[x] = call[x])
                            \/ (call[x].pc \notin {"new", "signed"} /\ Ended(x))
    BY <1>10, RestartEffect
  <2>2. \A s \in Streams : call'[s].pc = "signed" <=> call[s].pc = "signed"
    BY <2>1, KindsDiffer DEF Ended
  <2>3. \A a \in Acks : call'[a].flow \in {call[a].flow, NoFlow, currentFlowID}
    BY <2>1, KindsDiffer DEF Ended
  <2>4. EndedFlowIsSigned'
    BY <1>0, <2>1, <2>2, KeepsSigned
  <2>5. FlowsOnRecord'
    BY <1>0, <2>1, <2>3, KeepsFlows
  <2> QED BY <2>4, <2>5 DEF SignedInv
<1>11. CASE UNCHANGED vars
  BY <1>11 DEF vars, SignedInv, FlowsOnRecord, EndedFlowIsSigned
<1>12. ASSUME NEW a \in Acks, AckStep(a) PROVE SignedInv'
  BY <1>8, <1>12 DEF AckStep
<1> QED BY <1>2, <1>3, <1>4, <1>5, <1>6, <1>7, <1>8, <1>9, <1>10, <1>11, <1>12
        DEF Next, StreamStep, SubmitStep

\* While nothing fails, the flows with a flow signature are those whose stream has ended with its
\* end seen and has left a record, whatever streams, acknowledgements and restarts come in between
THEOREM SignaturesWhereEnded == Spec => []EndedFlowIsSigned
<1> DEFINE Inv == Shape /\ Bounded /\ Subjects /\ EventsDiffer /\ RecordedInv /\ SignedInv
<1>1. Init => Inv
  <2>1. Init => EventsDiffer
    BY DEF Init, EventsDiffer, Pending, NewCall
  <2>2. Init => SignedInv
    BY KindsDiffer DEF Init, SignedInv, FlowsOnRecord, EndedFlowIsSigned, NewCall
  <2> QED BY <2>1, <2>2, InitShape, InitRecorded
<1>2. Inv /\ [Next]_vars => Inv'
  BY StepShape, StepBounded, StepSubjects, StepEvents, StepRecorded, StepSigned
<1>3. Inv => EndedFlowIsSigned
  BY DEF SignedInv
<1> QED BY <1>1, <1>2, <1>3, PTL DEF Spec

-----------------------------------------------------------------------------
(* Calls that do not overlap *)

\* As long as no two calls have overlapped, one is in progress at most
OneAtATime == ~overlapped => \A x, y \in Calls : Busy(x) /\ Busy(y) => x = y

\* Only call x works
Alone(x) == \A y \in Calls : y # x => ~Busy(y)

\* A call that begins while nothing has overlapped is alone
LEMMA BeginsAlone ==
  ASSUME Begin, ~overlapped'
  PROVE  ~overlapped /\ \A y \in Calls : ~Busy(y)
  BY DEF Begin, InProgress

\* The step of call x, which begins or goes on
Works(x) ==
  /\ x \in Calls /\ Others(x)
  /\ ~overlapped' => ~overlapped /\ (Alone(x) \/ (~Busy(x) /\ ~Busy(x)'))

\* A call that goes on
LEMMA GoesOn ==
  ASSUME Shape, OneAtATime, NEW x \in Calls, Others(x), Busy(x) \/ ~Busy(x)',
         overlapped' = overlapped
  PROVE  Works(x)
  BY DEF Works, OneAtATime, Alone

\* Every step is one of a call that works alone, as long as nothing has overlapped, of the
\* channel or of the process
LEMMA StepWorks ==
  ASSUME Shape, OneAtATime, Next
  PROVE  \/ \E x \in Calls : Works(x)
         \/ CloseChannel \/ Restart
<1>1. ASSUME NEW x \in Calls, SubmitStep(x) PROVE Works(x)
  <2>1. Others(x) /\ Busy(x) /\ overlapped' = overlapped
    BY <1>1, ReadEffect, AdvanceEffect, StoreEffect DEF SubmitStep, Busy
  <2> QED BY <2>1, GoesOn
<1>2. ASSUME NEW s \in Streams, StreamStep(s) PROVE s \in Calls /\ Works(s)
  <2>0. s \in Calls
    BY KindsDiffer
  <2>1. CASE \E read, signed \in BOOLEAN : StreamPacket(s, read, signed)
    <3>1. Others(s) /\ Begin
      BY <2>1, PacketEffect DEF StreamPacket
    <3> QED BY <2>0, <3>1, BeginsAlone DEF Works, Alone
  <2>2. CASE StreamOpen(s) \/ StreamEnds(s) \/ \E ok \in BOOLEAN : StreamEOF(s, ok)
    <3>1. Others(s) /\ overlapped' = overlapped
      BY <2>0, <2>2, OpenEffect, EndEffect, EOFEffect
    <3>2. call'[s].pc \in {"recv", "signed", "done"}
      BY <2>0, <2>2, OpenEffect, EndEffect, EOFEffect DEF Ended
    <3> QED BY <2>0, <3>1, <3>2, GoesOn DEF Busy
  <2>3. CASE StreamPush(s) \/ \E ok \in BOOLEAN : RecordDataHash(s, ok)
    <3>1. Others(s) /\ overlapped' = overlapped /\ call[s].pc \in {"push", "chain"}
      BY <2>3, PushEffect, ChainEffect
    <3> QED BY <2>0, <3>1, GoesOn DEF Busy
  <2> QED BY <1>2, <2>1, <2>2, <2>3 DEF StreamStep
<1>3. ASSUME NEW x \in Calls, (x \in Acks /\ SendAck(x)) \/ (x \in Reports /\ SubmitEvidence(x))
      PROVE  Works(x)
  <2>1. Others(x) /\ Begin
    BY <1>3, SubmitBegins DEF SendAck, SubmitEvidence
  <2> QED BY <2>1, BeginsAlone DEF Works, Alone
<1>4. ASSUME NEW a \in Acks, NEW ok \in BOOLEAN, SendAckRefused(a, ok)
      PROVE  a \in Calls /\ Works(a)
  <2>1. a \in Calls /\ Others(a) /\ overlapped' = overlapped /\ call'[a].pc = "done"
    BY <1>4, KindsDiffer, EndEffect DEF Ended
  <2> QED BY <2>1, GoesOn DEF Busy
<1>5. ASSUME NEW a \in Acks, NEW ok \in BOOLEAN,
             RecordAckScan(a, ok) \/ RecordAckInsert(a, ok) \/ AckPush(a)
      PROVE  a \in Calls /\ Works(a)
  <2>1. a \in Calls /\ Others(a) /\ overlapped' = overlapped
    BY <1>5, KindsDiffer, AckEffect
  <2>2. Busy(a)
    BY <1>5 DEF RecordAckScan, RecordAckInsert, AckPush, Busy
  <2> QED BY <2>1, <2>2, GoesOn
<1>6. ASSUME NEW a \in Acks, AckStep(a) PROVE a \in Calls /\ Works(a)
  <2>1. a \in Calls /\ TRUE \in BOOLEAN
    BY KindsDiffer
  <2> QED BY <1>3, <1>4, <1>5, <1>6, <2>1 DEF AckStep
<1>7. ASSUME NEW r \in Reports, SubmitEvidence(r) PROVE r \in Calls /\ Works(r)
  BY <1>3, <1>7, KindsDiffer
<1> QED BY <1>1, <1>2, <1>6, <1>7 DEF Next

\* Every step keeps one call at a time
LEMMA StepOneAtATime == Shape /\ OneAtATime /\ [Next]_vars => OneAtATime'
<1> SUFFICES ASSUME Shape, OneAtATime, [Next]_vars, ~overlapped'
             PROVE  \A x, y \in Calls : Busy(x)' /\ Busy(y)' => x = y
  BY DEF OneAtATime
<1>1. ASSUME NEW z \in Calls, Works(z) PROVE \A x, y \in Calls : Busy(x)' /\ Busy(y)' => x = y
  <2>1. ~overlapped /\ Others(z) /\ (Alone(z) \/ (~Busy(z) /\ ~Busy(z)'))
    BY <1>1 DEF Works
  <2>2. \A y \in Calls : y # z => (Busy(y)' <=> Busy(y))
    BY <2>1 DEF Others, Busy
  <2> QED BY <2>1, <2>2 DEF Alone, OneAtATime
<1>2. CASE CloseChannel \/ UNCHANGED vars
  BY <1>2 DEF CloseChannel, vars, history, OneAtATime, Busy
<1>3. CASE Restart
  BY <1>3, RestartEffect DEF Busy, Ended
<1> QED BY <1>1, <1>2, <1>3, StepWorks

-----------------------------------------------------------------------------
(* The evidence records, one submit after the other *)

\* The records that name no predecessor
Roots == {i \in DOMAIN evidence : evidence[i].prev = 0}

\* The last record of the table is that of event e
IsLast(e) == Len(evidence) > 0 /\ evidence[Len(evidence)].ev = e

\* The record of a call that is being submitted goes after the last one of the table, or is the
\* first since the kernel was started
Follows(rec) == IF rec.prev = 0 THEN Cardinality(Roots) <= restarts ELSE IsLast(rec.prev)

\* What lastRecordHash and the record in the making say of the table
LinkedCalls ==
  /\ (\A x \in Calls : call[x].pc # "store") => lastRecordHash = 0 \/ IsLast(lastRecordHash)
  /\ lastRecordHash = 0 => Cardinality(Roots) <= restarts
  /\ \A x \in Calls : call[x].pc = "advance" => call[x].rec.prev = lastRecordHash
  /\ \A x \in Calls : call[x].pc = "store" =>
       lastRecordHash = call[x].rec.ev /\ Follows(call[x].rec)

LinkedInv == SerialEvidenceChain /\ (faults = 0 /\ ~overlapped => LinkedCalls)

\* Roots is a finite set
LEMMA RootsFinite ==
  ASSUME evidence \in Seq(Records)
  PROVE  IsFiniteSet(Roots) /\ Cardinality(Roots) \in Nat
<1>1. Len(evidence) \in Nat /\ DOMAIN evidence = 1 .. Len(evidence)
  BY LenProperties
<1>2. IsFiniteSet(1 .. Len(evidence))
  BY <1>1, FS_Interval
<1>3. Roots \subseteq 1 .. Len(evidence)
  BY <1>1 DEF Roots
<1>4. IsFiniteSet(Roots)
  BY <1>2, <1>3, FS_Subset
<1> QED BY <1>4, FS_CardinalityType

\* A step that leaves the links of the evidence table and lastRecordHash alone
LEMMA KeepsLinks ==
  ASSUME Shape, LinkedInv, faults' = 0 => faults = 0, ~overlapped' => ~overlapped,
         DOMAIN evidence' = DOMAIN evidence, Len(evidence') = Len(evidence),
         \A i \in DOMAIN evidence :
           evidence'[i].ev = evidence[i].ev /\ evidence'[i].prev = evidence[i].prev,
         UNCHANGED <<lastRecordHash, restarts>>,
         \A x \in Calls : call'[x].pc = "store" =>
           call[x].pc = "store" /\ call'[x].rec = call[x].rec,
         \A x \in Calls : call[x].pc = "store" => call'[x].pc = "store",
         \A x \in Calls : call'[x].pc = "advance" =>
           \/ call[x].pc = "advance" /\ call'[x].rec = call[x].rec
           \/ call'[x].rec.prev = lastRecordHash
  PROVE  LinkedInv'
<1> SUFFICES ASSUME faults' = 0, ~overlapped' PROVE SerialEvidenceChain' /\ LinkedCalls'
  BY DEF LinkedInv, SerialEvidenceChain
<1>1. faults = 0 /\ ~overlapped /\ SerialEvidenceChain /\ LinkedCalls
  BY DEF LinkedInv
<1>2. Roots' = Roots
  BY DEF Roots
<1>3. \A e : IsLast(e)' <=> IsLast(e)
  <2>1. Len(evidence) \in Nat /\ DOMAIN evidence = 1 .. Len(evidence)
    BY LenProperties DEF Shape
  <2> QED BY <2>1 DEF IsLast
<1>4. SerialEvidenceChain'
  <2>1. Cardinality(Roots') <= restarts' + 1
    BY <1>1, <1>2 DEF SerialEvidenceChain, Roots
  <2>2. \A i \in DOMAIN evidence' :
          evidence'[i].prev # 0 => i > 1 /\ evidence'[i].prev = evidence'[i - 1].ev
    <3> SUFFICES ASSUME NEW i \in DOMAIN evidence, evidence[i].prev # 0
                 PROVE  i > 1 /\ evidence[i].prev = evidence'[i - 1].ev
      OBVIOUS
    <3>1. i > 1 /\ evidence[i].prev = evidence[i - 1].ev
      BY <1>1 DEF SerialEvidenceChain
    <3>2. i - 1 \in DOMAIN evidence
      BY <3>1, LenProperties DEF Shape
    <3> QED BY <3>1, <3>2
  <2> QED BY <2>1, <2>2 DEF SerialEvidenceChain, Roots
<1>5. LinkedCalls'
  <2>2. (\A x \in Calls : call'[x].pc # "store") => lastRecordHash = 0 \/ IsLast(lastRecordHash)'
    BY <1>1, <1>3 DEF LinkedCalls
  <2>3. lastRecordHash = 0 => Cardinality(Roots') <= restarts'
    BY <1>1, <1>2 DEF LinkedCalls
  <2>4. \A x \in Calls : call'[x].pc = "advance" => call'[x].rec.prev = lastRecordHash
    BY <1>1 DEF LinkedCalls
  <2>5. \A x \in Calls : call'[x].pc = "store" =>
          lastRecordHash = call'[x].rec.ev /\ Follows(call[x].rec)'
    <3> SUFFICES ASSUME NEW x \in Calls, call'[x].pc = "store"
                 PROVE  lastRecordHash = call'[x].rec.ev /\ Follows(call[x].rec)'
      OBVIOUS
    <3>1. call[x].pc = "store" /\ call'[x].rec = call[x].rec
      OBVIOUS
    <3> QED BY <1>1, <1>2, <1>3, <3>1 DEF LinkedCalls, Follows
  <2> QED BY <2>2, <2>3, <2>4, <2>5 DEF LinkedCalls
<1> QED BY <1>4, <1>5

\* The second critical section: the record becomes the last one before it is stored
LEMMA AdvanceLinks ==
  ASSUME Shape, Bounded, OneAtATime, LinkedInv, NEW x \in Calls, SubmitAdvance(x)
  PROVE  LinkedInv'
<1>1. /\ call[x].pc = "advance" /\ call'[x].pc = "store" /\ Others(x)
      /\ call'[x].rec = call[x].rec /\ lastRecordHash' = call[x].rec.ev
      /\ UNCHANGED <<evidence, faults, restarts, overlapped>>
  BY AdvanceEffect
<1>2. Roots' = Roots /\ \A e : IsLast(e)' <=> IsLast(e)
  BY <1>1 DEF Roots, IsLast
<1> SUFFICES ASSUME faults = 0, ~overlapped PROVE SerialEvidenceChain' /\ LinkedCalls'
  BY <1>1 DEF LinkedInv, SerialEvidenceChain
<1>3. SerialEvidenceChain /\ LinkedCalls
  BY DEF LinkedInv
<1>4. \A y \in Calls : y # x => call[y].pc \notin {"advance", "store"} /\ call'[y] = call[y]
  BY <1>1 DEF OneAtATime, Busy, Others
<1>5. call[x].rec.prev = lastRecordHash /\ lastRecordHash' \in 1 .. clock /\ clock \in Nat
  BY <1>1, <1>3 DEF LinkedCalls, Bounded, Pending, Shape
<1>6. lastRecordHash = 0 \/ IsLast(lastRecordHash)
  BY <1>1, <1>3, <1>4 DEF LinkedCalls
<1>7. lastRecordHash' = call'[x].rec.ev /\ Follows(call[x].rec)'
  <2>1. lastRecordHash = 0 => Cardinality(Roots) <= restarts
    BY <1>3 DEF LinkedCalls
  <2> QED BY <1>1, <1>2, <1>5, <1>6, <2>1 DEF Follows
<1>8. SerialEvidenceChain'
  BY <1>1, <1>3 DEF SerialEvidenceChain
<1>9. \A y \in Calls : call'[y].pc \in {"advance", "store"} => y = x
  BY <1>4
<1>10. call'[x].pc = "store" /\ lastRecordHash' # 0
  BY <1>1, <1>5
<1> QED BY <1>7, <1>8, <1>9, <1>10 DEF LinkedCalls

\* The record is stored once, after the one it names
LEMMA StoreLinks ==
  ASSUME Shape, Bounded, OneAtATime, LinkedInv, NEW x \in Calls,
         NEW copies \in 0 .. StoreAttempts, SubmitStore(x, copies)
  PROVE  LinkedInv'
<1>1. /\ call[x].pc = "store" /\ call[x].rec \in Records /\ Others(x)
      /\ call'[x].pc \notin {"advance", "store"}
      /\ UNCHANGED <<lastRecordHash, restarts, overlapped>>
      /\ Counted(TRUE)
  BY StoreEffect
<1> SUFFICES ASSUME faults' = 0, ~overlapped' PROVE SerialEvidenceChain' /\ LinkedCalls'
  BY DEF LinkedInv, SerialEvidenceChain
<1>2. faults = 0 /\ ~overlapped /\ SerialEvidenceChain /\ LinkedCalls
  BY <1>1 DEF LinkedInv, Counted
<1> DEFINE rec == call[x].rec
           n == Len(evidence)
<1>3. copies = 1 /\ evidence' = Store(rec, 1) /\ evidence \in Seq(Records)
  <2>1. Outcome(copies = 1) /\ evidence' = Store(rec, copies)
    BY DEF SubmitStore
  <2>2. copies = 1
    BY <1>2, <2>1 DEF Outcome
  <2> QED BY <2>1, <2>2 DEF Shape
<1>4. /\ n \in Nat /\ DOMAIN evidence = 1 .. n /\ DOMAIN evidence' = 1 .. n + 1
      /\ Len(evidence') = n + 1
      /\ \A i \in 1 .. n : evidence'[i] = evidence[i]
      /\ evidence'[n + 1] = rec
  <2> DEFINE table == Store(rec, 1)
  <2>1. /\ table \in Seq(Records) /\ Len(table) = Len(evidence) + 1
        /\ \A i \in DOMAIN evidence : table[i] = evidence[i]
        /\ \A i \in DOMAIN table \ DOMAIN evidence : table[i] = rec
    BY <1>1, <1>3, StoreType
  <2> HIDE DEF table
  <2>2. DOMAIN table = 1 .. Len(table) /\ DOMAIN evidence = 1 .. n /\ n \in Nat
    BY <1>3, <2>1, LenProperties
  <2>3. n + 1 \in DOMAIN table \ DOMAIN evidence
    BY <2>1, <2>2
  <2>4. evidence' = table
    BY <1>3 DEF table
  <2> QED BY <2>1, <2>2, <2>3, <2>4
<1>5. lastRecordHash = rec.ev /\ Follows(rec)
  BY <1>1, <1>2 DEF LinkedCalls
<1>6. rec.ev \in 1 .. clock /\ clock \in Nat /\ restarts \in Nat
  BY <1>1 DEF Bounded, Pending, Shape
<1>7. \A y \in Calls : call'[y].pc \notin {"advance", "store"}
  BY <1>1, <1>2 DEF OneAtATime, Busy, Others
<1> HIDE DEF n, rec
<1>8. Cardinality(Roots') <= restarts + 1
  <2>1. IsFiniteSet(Roots) /\ Cardinality(Roots) \in Nat
    BY <1>3, RootsFinite
  <2>2. CASE rec.prev = 0
    <3>1. Roots' = Roots \union {n + 1}
      BY <1>4, <2>2 DEF Roots
    <3>2. Cardinality(Roots) <= restarts
      BY <1>5, <2>2 DEF Follows
    <3>3. Cardinality(Roots \union {n + 1}) \in {Cardinality(Roots), Cardinality(Roots) + 1}
      <4>1. Cardinality(Roots \union {n + 1})
              = IF n + 1 \in Roots THEN Cardinality(Roots) ELSE Cardinality(Roots) + 1
        BY <2>1, FS_AddElement, Zenon
      <4> QED BY <4>1, Zenon
    <3> QED BY <1>6, <2>1, <3>1, <3>2, <3>3
  <2>3. CASE rec.prev # 0
    <3>1. Roots' = Roots
      BY <1>4, <2>3 DEF Roots
    <3> QED BY <1>2, <3>1 DEF SerialEvidenceChain, Roots
  <2> QED BY <2>2, <2>3
<1>9. ASSUME NEW i \in DOMAIN evidence', evidence'[i].prev # 0
      PROVE  i > 1 /\ evidence'[i].prev = evidence'[i - 1].ev
  <2>1. CASE i \in 1 .. n
    <3>1. i > 1 /\ evidence[i].prev = evidence[i - 1].ev
      BY <1>2, <1>4, <1>9, <2>1 DEF SerialEvidenceChain
    <3>2. i - 1 \in 1 .. n
      BY <1>4, <2>1, <3>1
    <3> QED BY <1>4, <2>1, <3>1, <3>2
  <2>2. CASE i = n + 1
    <3>1. IsLast(rec.prev)
      BY <1>4, <1>5, <1>9, <2>2 DEF Follows
    <3>2. n > 0 /\ evidence[n].ev = rec.prev
      BY <3>1 DEF IsLast, n
    <3>3. i - 1 = n /\ n \in 1 .. n
      BY <1>4, <2>2, <3>2
    <3> QED BY <1>4, <2>2, <3>2, <3>3
  <2> QED BY <1>4, <1>9, <2>1, <2>2
<1>10. SerialEvidenceChain'
  BY <1>1, <1>8, <1>9 DEF SerialEvidenceChain, Roots
<1>11. IsLast(lastRecordHash)' /\ lastRecordHash' # 0
  BY <1>1, <1>4, <1>5, <1>6 DEF IsLast
<1> QED BY <1>7, <1>10, <1>11 DEF LinkedCalls

\* After a restart the chain starts again
LEMMA RestartLinks ==
  ASSUME Shape, LinkedInv, Restart
  PROVE  LinkedInv'
<1>1. /\ lastRecordHash' = 0 /\ restarts' = restarts + 1 /\ UNCHANGED <<evidence, faults, overlapped>>
      /\ \A x \in Calls : call'[x].pc \notin {"advance", "store"}
      /\ restarts \in Nat
  BY RestartEffect DEF Ended, Shape
<1> SUFFICES ASSUME faults = 0, ~overlapped PROVE SerialEvidenceChain' /\ LinkedCalls'
  BY <1>1 DEF LinkedInv, SerialEvidenceChain
<1>2. SerialEvidenceChain
  BY DEF LinkedInv
<1>3. Roots' = Roots /\ Cardinality(Roots) \in Nat /\ Cardinality(Roots) <= restarts + 1
  BY <1>1, <1>2, RootsFinite DEF Roots, SerialEvidenceChain, Shape
<1>4. SerialEvidenceChain'
  <2>1. Cardinality(Roots') <= restarts' + 1
    BY <1>1, <1>3
  <2> QED BY <1>1, <1>2, <2>1 DEF SerialEvidenceChain, Roots
<1> QED BY <1>1, <1>3, <1>4 DEF LinkedCalls

\* Every step keeps the evidence records linked
LEMMA StepLinked ==
  Shape /\ Bounded /\ OneAtATime /\ LinkedInv /\ [Next]_vars => LinkedInv'
<1> SUFFICES ASSUME Shape, Bounded, OneAtATime, LinkedInv, [Next]_vars PROVE LinkedInv'
  OBVIOUS
<1>0. /\ Shape'
      /\ Len(evidence) \in Nat /\ DOMAIN evidence = 1 .. Len(evidence)
      /\ Len(evidence') \in Nat /\ DOMAIN evidence' = 1 .. Len(evidence')
  BY StepShape, LenProperties DEF Shape
<1>1. DOMAIN evidence' = DOMAIN evidence => Len(evidence') = Len(evidence)
  <2>1. \A n, m \in Nat : n # m => (n \notin 1 .. m /\ n \in 1 .. n) \/ (m \notin 1 .. n /\ m \in 1 .. m)
    OBVIOUS
  <2> QED BY <1>0, <2>1
<1>2. ASSUME NEW x \in Calls, NEW signed \in BOOLEAN, SubmitRead(x, signed) PROVE LinkedInv'
  <2>1. /\ call[x].pc = "submit" /\ call'[x].pc = "advance" /\ Others(x) /\ Counted(TRUE)
        /\ call'[x].rec.prev = lastRecordHash
        /\ UNCHANGED <<lastRecordHash, evidence, restarts, overlapped>>
    BY <1>2, ReadEffect
  <2>2. \A y \in Calls : y # x => call'[y] = call[y]
    BY <2>1 DEF Others
  <2>3. faults' = 0 => faults = 0
    BY <2>1 DEF Counted
  <2> QED BY <2>1, <2>2, <2>3, KeepsLinks
<1>3. ASSUME NEW x \in Calls, Quiet(x), call[x].pc # "store", ~overlapped' => ~overlapped
      PROVE  LinkedInv'
  <2>1. /\ DOMAIN evidence' = DOMAIN evidence
        /\ \A i \in DOMAIN evidence :
             evidence'[i].ev = evidence[i].ev /\ evidence'[i].prev = evidence[i].prev
        /\ UNCHANGED <<lastRecordHash, restarts>>
        /\ call'[x].pc \notin {"advance", "store"}
        /\ \A y \in Calls : y # x => call'[y] = call[y]
        /\ faults' = 0 => faults = 0
    BY <1>3 DEF Quiet, Counted, Others
  <2> QED BY <1>1, <1>3, <2>1, KeepsLinks
<1>4. ASSUME Next PROVE CloseChannel \/ Restart \/ (~overlapped' => ~overlapped)
  BY <1>4, StepWorks DEF Works
<1>5. CASE CloseChannel \/ UNCHANGED vars
  <2>1. UNCHANGED <<lastRecordHash, evidence, call, faults, restarts, overlapped>>
    BY <1>5 DEF CloseChannel, vars, tables, history
  <2> QED BY <2>1, KeepsLinks
<1>6. CASE Restart
  BY <1>6, RestartLinks
<1>7. ASSUME NEW s \in Streams, StreamStep(s) PROVE LinkedInv'
  <2>1. s \in Calls /\ Quiet(s)
    BY <1>7, QuietStream, KindsDiffer DEF StreamStep
  <2>2. call[s].pc # "store"
    BY <1>7 DEF StreamStep, StreamOpen, StreamPacket, RecordDataHash, StreamPush, StreamEOF,
                StreamEnds
  <2> QED BY <1>3, <2>1, <2>2, <1>4, <1>7, <1>5, <1>6 DEF Next
<1>8. ASSUME NEW x \in Acks \union Reports,
             (x \in Acks /\ AckStep(x)) \/ (x \in Reports /\ SubmitEvidence(x))
      PROVE  LinkedInv'
  <2>1. x \in Calls /\ Quiet(x)
    BY <1>8, QuietOther, KindsDiffer DEF AckStep
  <2>2. call[x].pc # "store"
    BY <1>8 DEF AckStep, SendAck, SendAckRefused, RecordAckScan, RecordAckInsert, AckPush,
                SubmitEvidence
  <2> QED BY <1>3, <2>1, <2>2, <1>4, <1>5, <1>6, <1>8 DEF Next
<1> QED BY <1>2, <1>7, <1>5, <1>6, <1>8, AdvanceLinks, StoreLinks DEF Next, SubmitStep

-----------------------------------------------------------------------------
(* The business chain, one packet after the other *)

\* The data rows of the channel of row i up to it, and what its hash covers
Upto(i) == {j \in DataIds(chain[i].ch) : j <= i}
Covered(i) ==
  /\ Len(chain[i].hash) = Cardinality(Upto(i))
  /\ \A j \in Upto(i) : chain[j].hash = SubSeq(chain[i].hash, 1, Len(chain[j].hash))
AllCovered == \A i \in DOMAIN chain : chain[i].hash # NoHash => Covered(i)

\* SerialBusinessChain in these words
LEMMA CoveredIsSerial == SerialBusinessChain <=> (faults = 0 /\ ~overlapped => AllCovered)
  BY DEF SerialBusinessChain, AllCovered, Covered, Upto

\* What is appended to a sequence does not change its prefixes
LEMMA PrefixOfAppend ==
  ASSUME NEW S, NEW h \in Seq(S), NEW p \in S, NEW k \in 0 .. Len(h)
  PROVE  SubSeq(Append(h, p), 1, k) = SubSeq(h, 1, k) /\ SubSeq(h, 1, Len(h)) = h
<1>1. Append(h, p) \in Seq(S) /\ Len(Append(h, p)) = Len(h) + 1 /\ Len(h) \in Nat
  BY AppendProperties, LenProperties
<1>2. \A i \in 1 .. Len(h) : Append(h, p)[i] = h[i]
  BY AppendProperties
<1> DEFINE a == Append(h, p)
<1> HIDE DEF a
<1>3. SubSeq(a, 1, k) = [i \in 1 .. k |-> a[i]] /\ SubSeq(h, 1, k) = [i \in 1 .. k |-> h[i]]
  BY <1>1 DEF a
<1>4. \A i \in 1 .. k : a[i] = h[i]
  BY <1>1, <1>2 DEF a
<1>5. SubSeq(h, 1, Len(h)) = h
  <2>1. SubSeq(h, 1, Len(h)) = [i \in 1 .. Len(h) |-> h[i]]
    BY <1>1
  <2>2. h = [i \in 1 .. Len(h) |-> h[i]]
    OBVIOUS
  <2> QED BY <2>1, <2>2
<1> QED BY <1>3, <1>4, <1>5 DEF a

\* The rows of a channel are a finite set
LEMMA DataIdsFinite ==
  ASSUME chain \in Seq(Rows), NEW ch
  PROVE  /\ DataIds(ch) \in SUBSET (1 .. Len(chain)) /\ Len(chain) \in Nat
         /\ IsFiniteSet(DataIds(ch)) /\ Cardinality(DataIds(ch)) \in Nat
<1>1. DataIds(ch) \in SUBSET (1 .. Len(chain)) /\ Len(chain) \in Nat
  BY DEF DataIds
<1>2. IsFiniteSet(1 .. Len(chain))
  BY <1>1, FS_Interval
<1>3. IsFiniteSet(DataIds(ch))
  BY <1>1, <1>2, FS_Subset
<1> QED BY <1>1, <1>3, FS_CardinalityType

\* The hash GetLastDataHash returns covers all data rows of the channel
LEMMA LastCoversAll ==
  ASSUME chain \in Seq(Rows), AllCovered, NEW ch
  PROVE  /\ LastDataHash(ch) \in Hashes
         /\ Len(LastDataHash(ch)) = Cardinality(DataIds(ch))
         /\ \A j \in DataIds(ch) :
              /\ Len(chain[j].hash) \in 0 .. Len(LastDataHash(ch))
              /\ chain[j].hash = SubSeq(LastDataHash(ch), 1, Len(chain[j].hash))
<1>0. LastDataHash(ch) \in Hashes
  BY LastHashIsRow
<1>1. CASE DataIds(ch) = {}
  BY <1>0, <1>1, FS_EmptySet DEF LastDataHash, NoHash
<1>2. CASE DataIds(ch) # {}
  <2>1. /\ DataIds(ch) \in SUBSET (1 .. Len(chain)) /\ Len(chain) \in Nat
        /\ IsFiniteSet(DataIds(ch)) /\ Cardinality(DataIds(ch)) \in Nat
    BY DataIdsFinite
  <2>2. \E i \in DataIds(ch) : \A j \in DataIds(ch) : j <= i
    BY <1>2, <2>1, LargestExists
  <2> DEFINE m == CHOOSE i \in DataIds(ch) : \A j \in DataIds(ch) : j <= i
  <2>3. m \in DataIds(ch) /\ \A j \in DataIds(ch) : j <= m
    BY <2>2
  <2>4. LastDataHash(ch) = chain[m].hash
    BY <1>2 DEF LastDataHash
  <2> HIDE DEF m
  <2>5. Upto(m) = DataIds(ch) /\ Covered(m)
    BY <2>3 DEF Upto, DataIds, AllCovered
  <2>6. ASSUME NEW j \in DataIds(ch) PROVE Len(chain[j].hash) \in 0 .. Cardinality(DataIds(ch))
    <3>1. Covered(j) /\ Upto(j) \subseteq DataIds(ch)
      BY DEF AllCovered, DataIds, Upto
    <3>2. Cardinality(Upto(j)) <= Cardinality(DataIds(ch)) /\ IsFiniteSet(Upto(j))
      BY <2>1, <3>1, FS_Subset
    <3>3. Cardinality(Upto(j)) \in Nat
      BY <3>2, FS_CardinalityType
    <3> QED BY <2>1, <3>1, <3>2, <3>3 DEF Covered
  <2> QED BY <1>0, <2>4, <2>5, <2>6 DEF Covered
<1> QED BY <1>1, <1>2

\* A row that is an acknowledgement or covers what the last data row covers and one packet more
LEMMA InsertCovered ==
  ASSUME Shape, AllCovered, NEW row \in Rows, chain' = Append(chain, row),
         \/ row.hash = NoHash
         \/ \E p \in Payloads : row.hash = Append(LastDataHash(row.ch), p)
  PROVE  AllCovered'
<1>0. PICK n \in Nat : n = Len(chain)
  BY LenProperties DEF Shape
<1>1. /\ chain \in Seq(Rows) /\ chain' \in Seq(Rows) /\ n \in Nat
      /\ DOMAIN chain = 1 .. n /\ DOMAIN chain' = 1 .. n + 1
      /\ \A i \in 1 .. n : chain'[i] = chain[i]
      /\ chain'[n + 1] = row
  <2>1. chain \in Seq(Rows)
    BY DEF Shape
  <2>2. chain' \in Seq(Rows) /\ Len(chain') = n + 1 /\ chain'[n + 1] = row
        /\ \A i \in 1 .. n : chain'[i] = chain[i]
    BY <1>0, <2>1, AppendProperties, LenProperties
  <2> QED BY <1>0, <2>1, <2>2, LenProperties
<1>2. ASSUME NEW ch PROVE \A j \in 1 .. n : j \in DataIds(ch)' <=> j \in DataIds(ch)
  BY <1>1 DEF DataIds
<1>3. ASSUME NEW i \in 1 .. n, chain'[i].hash # NoHash PROVE Covered(i)'
  <2>1. chain'[i] = chain[i] /\ Covered(i)
    BY <1>1, <1>3 DEF AllCovered
  <2>2. Upto(i)' = Upto(i) /\ Upto(i) \subseteq 1 .. n
    BY <1>1, <2>1 DEF Upto, DataIds
  <2>3. \A j \in Upto(i) : chain'[j] = chain[j]
    BY <1>1, <2>2
  <2> QED BY <2>1, <2>2, <2>3 DEF Covered
<1>4. ASSUME row.hash # NoHash PROVE Covered(n + 1)'
  <2> DEFINE h == LastDataHash(row.ch)
             D == DataIds(row.ch)
  <2>1. PICK p \in Payloads : row.hash = Append(h, p)
    BY <1>4
  <2>2. /\ h \in Hashes /\ Len(h) = Cardinality(D)
        /\ \A j \in D : /\ Len(chain[j].hash) \in 0 .. Len(h)
                        /\ chain[j].hash = SubSeq(h, 1, Len(chain[j].hash))
    BY <1>1, LastCoversAll
  <2>3. IsFiniteSet(D) /\ Cardinality(D) \in Nat /\ D \in SUBSET (1 .. n)
    BY <1>0, <1>1, DataIdsFinite
  <2>4. Upto(n + 1)' = D \union {n + 1}
    BY <1>1, <1>4 DEF Upto, DataIds
  <2> HIDE DEF h, D
  <2>5. n + 1 \notin D
    BY <1>1, <2>3
  <2>6. Cardinality(D \union {n + 1}) = Cardinality(D) + 1
    <3>1. Cardinality(D \union {n + 1}) = IF n + 1 \in D THEN Cardinality(D) ELSE Cardinality(D) + 1
      BY <2>3, FS_AddElement, Zenon
    <3> QED BY <2>5, <3>1, Zenon
  <2>7. Append(h, p) \in Hashes /\ Len(Append(h, p)) = Len(h) + 1
    BY <2>1, <2>2, AppendProperties DEF Hashes
  <2>8. ASSUME NEW j \in D PROVE chain'[j].hash = SubSeq(row.hash, 1, Len(chain'[j].hash))
    <3>1. chain'[j] = chain[j]
      BY <1>1, <2>3
    <3>2. /\ Len(chain[j].hash) \in 0 .. Len(h)
          /\ chain[j].hash = SubSeq(h, 1, Len(chain[j].hash))
      BY <2>2
    <3>3. SubSeq(Append(h, p), 1, Len(chain[j].hash)) = SubSeq(h, 1, Len(chain[j].hash))
      BY <2>1, <2>2, <3>2, PrefixOfAppend DEF Hashes
    <3> QED BY <2>1, <3>1, <3>2, <3>3
  <2>9. row.hash = SubSeq(row.hash, 1, Len(row.hash))
    <3>1. row.hash \in Seq(Payloads)
      BY <2>1, <2>7 DEF Hashes
    <3> QED BY <3>1, SubSeqFull
  <2> QED BY <1>1, <2>1, <2>2, <2>4, <2>6, <2>7, <2>8, <2>9 DEF Covered
<1> QED BY <1>1, <1>3, <1>4 DEF AllCovered

\* What a stream that is recording a packet holds: the last hash of the channel, and that with
\* its packet
HoldsNext(s) ==
  call[s].pc \in {"submit", "advance", "store", "chain"} =>
    /\ call[s].prev = LastDataHash(channel)
    /\ \E p \in Payloads : call[s].hash = Append(call[s].prev, p)

CoveredInv == faults = 0 /\ ~overlapped => AllCovered /\ \A s \in Streams : HoldsNext(s)

\* A step that leaves the business chain alone and gives no stream another hash to record
LEMMA KeepsCovered ==
  ASSUME CoveredInv, faults' = 0 => faults = 0, ~overlapped' => ~overlapped,
         chain' = chain, channel' = channel,
         \A s \in Streams :
           call'[s].pc \in {"submit", "advance", "store", "chain"} =>
             /\ call[s].pc \in {"submit", "advance", "store", "chain"}
             /\ call'[s].prev = call[s].prev /\ call'[s].hash = call[s].hash
  PROVE  CoveredInv'
<1> SUFFICES ASSUME faults' = 0, ~overlapped' PROVE AllCovered' /\ \A s \in Streams : HoldsNext(s)'
  BY DEF CoveredInv
<1>1. AllCovered /\ \A s \in Streams : HoldsNext(s)
  BY DEF CoveredInv
<1>2. AllCovered'
  BY <1>1 DEF AllCovered, Covered, Upto, DataIds
<1>3. LastDataHash(channel)' = LastDataHash(channel)
  BY DEF LastDataHash, DataIds
<1> QED BY <1>1, <1>2, <1>3 DEF HoldsNext

\* Submitting a record leaves the hashes a stream holds alone
LEMMA SubmitKeepsHash ==
  ASSUME Shape, Subjects, NEW x \in Calls, SubmitStep(x)
  PROVE  /\ Others(x) /\ chain' = chain /\ channel' = channel /\ overlapped' = overlapped
         /\ Counted(TRUE)
         /\ x \in Streams => /\ call[x].pc \in {"submit", "advance", "store"}
                             /\ call'[x].prev = call[x].prev /\ call'[x].hash = call[x].hash
<1>0. call[x] \in CallStates /\ NoRecord \in Records
  BY NewCallType DEF Shape
<1>1. CASE \E signed \in BOOLEAN : SubmitRead(x, signed)
  <2>1. PICK signed \in BOOLEAN : SubmitRead(x, signed)
    BY <1>1
  <2>2. /\ Others(x) /\ chain' = chain /\ channel' = channel /\ overlapped' = overlapped
        /\ Counted(TRUE) /\ call[x].pc = "submit" /\ call'[x].hash = call[x].hash
    BY <2>1, ReadEffect DEF SameSubject
  <2>3. call'[x].prev = call[x].prev
    <3>1. PICK rec : call' = [call EXCEPT ![x] = [call[x] EXCEPT !.pc = "advance", !.rec = rec]]
      BY <2>1 DEF SubmitRead, Move
    <3> QED BY <1>0, <3>1 DEF Shape, CallStates
  <2> QED BY <2>2, <2>3
<1>2. CASE SubmitAdvance(x)
  <2>1. call'[x].prev = call[x].prev
    <3>1. call' = [call EXCEPT ![x] = [call[x] EXCEPT !.pc = "store"]]
      BY <1>2 DEF SubmitAdvance, Move
    <3> QED BY <1>0, <3>1 DEF Shape, CallStates
  <2> QED BY <1>2, <2>1, AdvanceEffect DEF SameSubject, Counted
<1>3. CASE \E copies \in 0 .. StoreAttempts : SubmitStore(x, copies)
  <2>1. PICK copies \in 0 .. StoreAttempts : SubmitStore(x, copies)
    BY <1>3
  <2>2. /\ Others(x) /\ chain' = chain /\ channel' = channel /\ overlapped' = overlapped
        /\ Counted(TRUE) /\ call[x].pc = "store"
    BY <2>1, StoreEffect
  <2>3. x \in Streams => call[x].type \in {"DATA_SEND", "DATA_RECEIVE"}
    BY <2>2 DEF Subjects
  <2>4. x \in Streams => call'[x].hash = call[x].hash
    BY <2>1, <2>3, StoreEffect DEF SameSubject
  <2>5. x \in Streams => call'[x].prev = call[x].prev
    <3> DEFINE b == [call[x] EXCEPT !.rec = NoRecord]
    <3>1. b \in CallStates /\ b.type = call[x].type /\ b.prev = call[x].prev
      BY <1>0 DEF CallStates
    <3>2. Move(x, AfterSubmit(b))
      BY <2>1 DEF SubmitStore
    <3> HIDE DEF b
    <3>3. call'[x] = AfterSubmit(b)
      BY <3>1, <3>2, AfterSubmitType, MoveType
    <3>4. b.type \in {"DATA_SEND", "DATA_RECEIVE"} => AfterSubmit(b).prev = b.prev
      BY <3>1 DEF AfterSubmit, CallStates
    <3> QED BY <2>3, <3>1, <3>3, <3>4
  <2> QED BY <2>2, <2>4, <2>5
<1> QED BY <1>1, <1>2, <1>3 DEF SubmitStep

\* The hash of a packet that arrives covers what the last data row covers and the packet
LEMMA PacketHash ==
  ASSUME Shape, NEW s \in Streams, NEW read \in BOOLEAN, NEW signed \in BOOLEAN,
         StreamPacket(s, read, signed), faults' = 0
  PROVE  /\ call'[s].prev = LastDataHash(channel) /\ Begin
         /\ \E p \in Payloads : call'[s].hash = Append(call'[s].prev, p)
<1> DEFINE p == <<s, call[s].n + 1>>
           prev == IF read THEN LastDataHash(channel) ELSE NoHash
<1>1. call' = [call EXCEPT ![s] = [call[s] EXCEPT
                 !.pc = IF signed THEN "submit" ELSE "push",
                 !.type = "DATA_SEND",
                 !.n = call[s].n + 1,
                 !.prev = prev,
                 !.hash = Append(prev, p)]]
  BY DEF StreamPacket, Move
<1>2. Outcome(read /\ signed) /\ call[s].n < MaxPackets /\ Begin
  BY DEF StreamPacket
<1>3. read
  BY <1>2, EvidenceConstants DEF Outcome, Shape
<1>4. call[s] \in CallStates /\ s \in Calls /\ MaxPackets \in Nat
  BY EvidenceConstants DEF Shape, Calls
<1>5. p \in Payloads
  BY <1>2, <1>4 DEF Payloads, CallStates
<1>6. prev = LastDataHash(channel)
  BY <1>3
<1> HIDE DEF p, prev
<1>7. call'[s].prev = prev /\ call'[s].hash = Append(prev, p)
  BY <1>1, <1>4 DEF Shape, CallStates
<1> QED BY <1>2, <1>5, <1>6, <1>7

\* Every step keeps the business chain covered
LEMMA StepCovered ==
  Shape /\ Subjects /\ OneAtATime /\ CoveredInv /\ [Next]_vars => CoveredInv'
<1> SUFFICES ASSUME Shape, Subjects, OneAtATime, CoveredInv, [Next]_vars PROVE CoveredInv'
  OBVIOUS
<1> DEFINE W == {"submit", "advance", "store", "chain"}
<1>1. ASSUME NEW x \in Calls, SubmitStep(x) PROVE CoveredInv'
  <2>1. \A s \in Streams : call'[s].pc \in W =>
          call[s].pc \in W /\ call'[s].prev = call[s].prev /\ call'[s].hash = call[s].hash
    BY <1>1, KindsDiffer, SubmitKeepsHash DEF Others
  <2>2. /\ chain' = chain /\ channel' = channel /\ overlapped' = overlapped
        /\ faults' = 0 => faults = 0
    BY <1>1, SubmitKeepsHash DEF Counted
  <2> QED BY <2>1, <2>2, KeepsCovered
<1>2. ASSUME NEW s \in Streams, NEW read \in BOOLEAN, NEW signed \in BOOLEAN,
             StreamPacket(s, read, signed)
      PROVE  CoveredInv'
  <2> SUFFICES ASSUME faults' = 0, ~overlapped'
               PROVE  AllCovered' /\ \A r \in Streams : HoldsNext(r)'
    BY DEF CoveredInv
  <2>1. /\ Others(s) /\ Counted(signed) /\ UNCHANGED <<chain, channel>> /\ Begin
        /\ call'[s].prev = LastDataHash(channel)
        /\ \E p \in Payloads : call'[s].hash = Append(call'[s].prev, p)
    BY <1>2, PacketEffect, PacketHash
  <2>2. faults = 0 /\ ~overlapped /\ \A y \in Calls : ~Busy(y)
    BY <2>1, BeginsAlone DEF Counted
  <2>3. AllCovered'
    BY <2>1, <2>2 DEF CoveredInv, AllCovered, Covered, Upto, DataIds
  <2>4. LastDataHash(channel)' = LastDataHash(channel)
    BY <2>1 DEF LastDataHash, DataIds
  <2>5. HoldsNext(s)'
    BY <2>1, <2>4 DEF HoldsNext
  <2>6. ASSUME NEW r \in Streams, r # s PROVE HoldsNext(r)'
    <3>1. call'[r] = call[r] /\ ~Busy(r)
      BY <2>1, <2>2, <2>6, KindsDiffer DEF Others
    <3> QED BY <3>1 DEF HoldsNext, Busy
  <2> QED BY <2>3, <2>5, <2>6
<1>3. ASSUME NEW s \in Streams, NEW ok \in BOOLEAN, RecordDataHash(s, ok) PROVE CoveredInv'
  <2> SUFFICES ASSUME faults' = 0, ~overlapped'
               PROVE  AllCovered' /\ \A r \in Streams : HoldsNext(r)'
    BY DEF CoveredInv
  <2>1. /\ call[s].pc = "chain" /\ call'[s].pc = "push" /\ Others(s) /\ Counted(TRUE)
        /\ overlapped' = overlapped
    BY <1>3, ChainEffect
  <2>2. faults = 0 /\ AllCovered /\ HoldsNext(s)
    BY <2>1 DEF CoveredInv, Counted
  <2> DEFINE row == DataRow(channel, call[s].hash, call[s].prev)
  <2>3. row \in Rows /\ row.ch = channel /\ row.hash = call[s].hash
    <3>1. call[s] \in CallStates /\ channel \in Nat
      BY KindsDiffer DEF Shape
    <3> QED BY <3>1 DEF DataRow, Rows, CallStates
  <2>4. chain' = Append(chain, row)
    BY <1>3, <2>2 DEF RecordDataHash, Outcome, InsertRecord
  <2> HIDE DEF row
  <2>5. \E p \in Payloads : row.hash = Append(LastDataHash(row.ch), p)
    BY <2>1, <2>2, <2>3 DEF HoldsNext
  <2>6. AllCovered'
    BY <2>2, <2>3, <2>4, <2>5, InsertCovered
  <2>7. \A r \in Streams : call'[r].pc \notin W
    BY <2>1, KindsDiffer DEF OneAtATime, Busy, Others
  <2> QED BY <2>6, <2>7 DEF HoldsNext
<1>4. ASSUME NEW a \in Acks, NEW ok \in BOOLEAN, RecordAckInsert(a, ok) PROVE CoveredInv'
  <2> SUFFICES ASSUME faults' = 0, ~overlapped'
               PROVE  AllCovered' /\ \A r \in Streams : HoldsNext(r)'
    BY DEF CoveredInv
  <2>1. call[a].pc = "insert" /\ Others(a) /\ Counted(TRUE) /\ overlapped' = overlapped
    BY <1>4, AckEffect DEF RecordAckInsert
  <2>2. faults = 0 /\ AllCovered
    BY <2>1 DEF CoveredInv, Counted
  <2> DEFINE row == AckRow(channel, AckSig[a])
  <2>3. row \in Rows /\ row.hash = NoHash
    BY NewCallType DEF AckRow, Rows, Shape
  <2>4. chain' = Append(chain, row)
    BY <1>4, <2>2 DEF RecordAckInsert, Outcome, InsertRecord
  <2> HIDE DEF row
  <2>5. AllCovered'
    BY <2>2, <2>3, <2>4, InsertCovered
  <2>6. \A r \in Streams : call'[r].pc \notin W
    BY <2>1, KindsDiffer DEF OneAtATime, Busy, Others
  <2> QED BY <2>5, <2>6 DEF HoldsNext
<1>5. ASSUME NEW s \in Streams, NEW ok \in BOOLEAN,
             StreamOpen(s) \/ StreamPush(s) \/ StreamEOF(s, ok) \/ StreamEnds(s)
      PROVE  CoveredInv'
  <2>1. /\ Quiet(s) /\ overlapped' = overlapped /\ UNCHANGED <<chain, channel>>
        /\ call'[s].pc \notin W
    <3>0. s \in Calls
      BY KindsDiffer
    <3>1. Quiet(s)
      BY <1>5, QuietStream
    <3>2. CASE StreamOpen(s) \/ StreamPush(s)
      BY <3>1, <3>2, OpenEffect, PushEffect
    <3>3. CASE StreamEOF(s, ok)
      BY <3>1, <3>3, EOFEffect
    <3>4. CASE StreamEnds(s)
      BY <3>0, <3>1, <3>4, EndEffect DEF Ended
    <3> QED BY <1>5, <3>2, <3>3, <3>4
  <2>2. \A r \in Streams : r # s => call'[r] = call[r]
    BY <2>1, KindsDiffer DEF Quiet, Others
  <2> QED BY <2>1, <2>2, KeepsCovered DEF Quiet, Counted
<1>6. ASSUME NEW x \in Acks \union Reports, NEW ok \in BOOLEAN,
             \/ x \in Acks /\ (SendAck(x) \/ SendAckRefused(x, ok) \/ RecordAckScan(x, ok) \/ AckPush(x))
             \/ x \in Reports /\ SubmitEvidence(x)
      PROVE  CoveredInv'
  <2>1. Quiet(x) /\ UNCHANGED <<chain, channel>>
    BY <1>6, QuietOther DEF Quiet, SendAck, SendAckRefused, RecordAckScan, AckPush,
                            SubmitEvidence, tables, chanState
  <2>2. \A r \in Streams : call'[r] = call[r]
    BY <2>1, KindsDiffer DEF Quiet, Others
  <2>3. ~overlapped' => ~overlapped
    <3>1. Begin \/ overlapped' = overlapped
      BY <1>6 DEF SendAck, SubmitEvidence, SendAckRefused, RecordAckScan, AckPush, history
    <3> QED BY <3>1, BeginsAlone
  <2> QED BY <2>1, <2>2, <2>3, KeepsCovered DEF Quiet, Counted
<1>7. CASE CloseChannel \/ UNCHANGED vars
  <2>1. UNCHANGED <<chain, channel, call, faults, overlapped>>
    BY <1>7 DEF CloseChannel, vars, tables, history
  <2> QED BY <2>1, KeepsCovered
<1>8. CASE Restart
  <2>1. /\ UNCHANGED <<chain, faults, overlapped>>
        /\ \A s \in Streams : call'[s].pc \notin W
    BY <1>8, RestartEffect, KindsDiffer DEF Ended
  <2>2. \A s \in Streams : HoldsNext(s)'
    BY <2>1 DEF HoldsNext
  <2>3. AllCovered => AllCovered'
    BY <2>1 DEF AllCovered, Covered, Upto, DataIds
  <2> QED BY <2>1, <2>2, <2>3 DEF CoveredInv
<1>9. ASSUME NEW s \in Streams, StreamStep(s) PROVE CoveredInv'
  BY <1>2, <1>3, <1>5, <1>9 DEF StreamStep
<1>10. ASSUME NEW a \in Acks, AckStep(a) PROVE CoveredInv'
  BY <1>4, <1>6, <1>10 DEF AckStep
<1>11. ASSUME NEW r \in Reports, SubmitEvidence(r) PROVE CoveredInv'
  BY <1>6, <1>11
<1> QED BY <1>1, <1>7, <1>8, <1>9, <1>10, <1>11 DEF Next

-----------------------------------------------------------------------------

\* DataEvidence.SerialChains: without overlaps and failures both tables are chains without forks, for
\* any number of packets, acknowledgements, reports and restarts (SubmitBasicEvidenceWithMetadata,
\* InsertRecord, StreamData)
THEOREM SerialTablesAreChains == Spec => []SerialChains
<1> DEFINE Inv == Shape /\ Bounded /\ Subjects /\ OneAtATime /\ LinkedInv /\ CoveredInv
<1>1. Init => Inv
  <2> SUFFICES ASSUME Init PROVE OneAtATime /\ LinkedInv /\ CoveredInv
    BY InitShape, InitRecorded
  <2>1. /\ \A x \in Calls : call[x].pc = "new"
        /\ evidence = <<>> /\ chain = <<>> /\ lastRecordHash = 0 /\ restarts = 0
    BY DEF Init, NewCall
  <2>2. OneAtATime
    BY <2>1 DEF OneAtATime, Busy
  <2>3. Roots = {} /\ Cardinality(Roots) = 0
    BY <2>1, FS_EmptySet DEF Roots
  <2>4. LinkedInv
    <3>1. SerialEvidenceChain
      BY <2>1, <2>3 DEF SerialEvidenceChain, Roots
    <3> QED BY <2>1, <2>3, <3>1 DEF LinkedInv, LinkedCalls
  <2>5. CoveredInv
    BY <2>1, KindsDiffer DEF CoveredInv, AllCovered, HoldsNext
  <2> QED BY <2>2, <2>4, <2>5
<1>2. Inv /\ [Next]_vars => Inv'
  BY StepShape, StepBounded, StepSubjects, StepOneAtATime, StepLinked, StepCovered
<1>3. Inv => SerialChains
  BY CoveredIsSerial DEF LinkedInv, CoveredInv, SerialChains
<1> QED BY <1>1, <1>2, <1>3, PTL DEF Spec

-----------------------------------------------------------------------------
(* Acknowledgements, one call after the other *)

\* An acknowledgement is submitted as one
AckTypes ==
  \A a \in Acks : call[a].pc \in {"submit", "advance", "store"} => call[a].type = "ACK_RECEIVED"

\* SendAck submits an acknowledgement and no other step of it changes what is submitted
LEMMA StepAckTypes == Shape /\ AckTypes /\ [Next]_vars => AckTypes'
<1> SUFFICES ASSUME Shape, AckTypes, [Next]_vars PROVE AckTypes'
  OBVIOUS
<1>0. ASSUME NEW x \in Calls, Others(x),
             x \in Acks /\ call'[x].pc \in {"submit", "advance", "store"}
               => call'[x].type = "ACK_RECEIVED"
      PROVE  AckTypes'
  BY <1>0, KindsDiffer DEF Others, AckTypes
<1>1. ASSUME NEW x \in Calls, SubmitStep(x) PROVE AckTypes'
  <2>1. Others(x) /\ call[x].pc \in {"submit", "advance", "store"}
    BY <1>1, ReadEffect, AdvanceEffect, StoreEffect DEF SubmitStep
  <2>2. call[x].type = "ACK_RECEIVED" /\ call'[x].pc \in {"submit", "advance", "store"}
          => call'[x].type = "ACK_RECEIVED"
    BY <1>1, ReadEffect, AdvanceEffect, StoreEffect DEF SubmitStep, SameSubject
  <2> QED BY <1>0, <2>1, <2>2 DEF AckTypes
<1>2. ASSUME NEW s \in Streams, StreamStep(s) PROVE AckTypes'
  BY <1>0, <1>2, QuietStream, KindsDiffer DEF StreamStep, Quiet
<1>3. ASSUME NEW a \in Acks, SendAck(a) PROVE AckTypes'
  <2>1. a \in Calls /\ Others(a)
    BY <1>3, KindsDiffer, SubmitBegins
  <2>2. call' = [call EXCEPT ![a] = [call[a] EXCEPT !.pc = "submit", !.type = "ACK_RECEIVED",
                                                    !.flow = currentFlowID]]
    BY <1>3 DEF SendAck, Move
  <2>3. call'[a].type = "ACK_RECEIVED"
    BY <2>1, <2>2 DEF Shape, CallStates
  <2> QED BY <1>0, <2>1, <2>3
<1>4. ASSUME NEW a \in Acks, NEW ok \in BOOLEAN, SendAckRefused(a, ok) PROVE AckTypes'
  BY <1>0, <1>4, EndEffect, KindsDiffer DEF Ended
<1>5. ASSUME NEW a \in Acks, NEW ok \in BOOLEAN,
             RecordAckScan(a, ok) \/ RecordAckInsert(a, ok) \/ AckPush(a)
      PROVE  AckTypes'
  BY <1>0, <1>5, AckEffect, KindsDiffer
<1>6. ASSUME NEW r \in Reports, SubmitEvidence(r) PROVE AckTypes'
  BY <1>0, <1>6, SubmitBegins, KindsDiffer
<1>7. CASE CloseChannel \/ UNCHANGED vars
  BY <1>7 DEF CloseChannel, vars, AckTypes
<1>8. CASE Restart
  BY <1>8, RestartEffect, KindsDiffer DEF Ended, AckTypes
<1>9. ASSUME NEW a \in Acks, AckStep(a) PROVE AckTypes'
  <2>1. TRUE \in BOOLEAN
    OBVIOUS
  <2> QED BY <1>3, <1>4, <1>5, <1>9, <2>1 DEF AckStep
<1> QED BY <1>1, <1>2, <1>6, <1>7, <1>8, <1>9 DEF Next

\* The current flow is that of the last packet, and an acknowledgement in progress carries it
FlowsAgree ==
  /\ currentFlowID # NoFlow =>
       /\ pushed # <<>>
       /\ pushed[Len(pushed)].ch = channel /\ pushed[Len(pushed)].flow = currentFlowID
  /\ \A a \in Acks : Busy(a) => call[a].flow = currentFlowID

FlowInv == ~overlapped => FlowsAgree

\* A step that leaves the packets and the current flow alone
LEMMA KeepsFlowInv ==
  ASSUME FlowInv, ~overlapped' => ~overlapped, UNCHANGED <<pushed, channel, currentFlowID>>,
         \A a \in Acks : Busy(a)' => \/ Busy(a) /\ call'[a].flow = call[a].flow
                                     \/ call'[a].flow = currentFlowID
  PROVE  FlowInv'
  BY DEF FlowInv, FlowsAgree

\* RecordAck keeps the flow the acknowledgement carries
LEMMA AckKeepsFlow ==
  ASSUME Shape, NEW a \in Acks, NEW ok \in BOOLEAN, RecordAckScan(a, ok) \/ RecordAckInsert(a, ok)
  PROVE  call'[a].flow = call[a].flow /\ Busy(a) /\ currentFlowID' = currentFlowID
<1>1. call[a] \in CallStates /\ a \in Calls
  BY KindsDiffer DEF Shape
<1>2. PICK pc : call' = [call EXCEPT ![a] = [call[a] EXCEPT !.pc = pc]]
  BY DEF RecordAckScan, RecordAckInsert, Move
<1>3. call'[a].flow = call[a].flow
  BY <1>1, <1>2 DEF Shape, CallStates
<1> QED BY <1>3 DEF RecordAckScan, RecordAckInsert, Busy, chanState

\* Every step keeps the flows in agreement
LEMMA StepFlowInv ==
  Shape /\ Bounded /\ OneAtATime /\ AckTypes /\ FlowInv /\ [Next]_vars => FlowInv'
<1> SUFFICES ASSUME Shape, Bounded, OneAtATime, AckTypes, FlowInv, [Next]_vars PROVE FlowInv'
  OBVIOUS
<1>1. ASSUME NEW x \in Calls, SubmitStep(x) PROVE FlowInv'
  <2>1. /\ Others(x) /\ call[x].pc \in {"submit", "advance", "store"}
        /\ UNCHANGED <<pushed, channel, currentFlowID, overlapped>>
    BY <1>1, ReadEffect, AdvanceEffect, StoreEffect DEF SubmitStep
  <2>2. call[x].type = "ACK_RECEIVED" => call'[x].flow = call[x].flow
    BY <1>1, ReadEffect, AdvanceEffect, StoreEffect DEF SubmitStep, SameSubject
  <2>3. \A a \in Acks : Busy(a)' => Busy(a) /\ call'[a].flow = call[a].flow
    BY <2>1, <2>2, KindsDiffer DEF Others, Busy, AckTypes
  <2> QED BY <2>1, <2>3, KeepsFlowInv
<1>2. ASSUME NEW s \in Streams, Others(s) PROVE \A a \in Acks : call'[a] = call[a]
  BY <1>2, KindsDiffer DEF Others
<1>3. ASSUME NEW s \in Streams, NEW read \in BOOLEAN, NEW ok \in BOOLEAN,
             \/ StreamOpen(s) \/ StreamPacket(s, read, ok) \/ RecordDataHash(s, ok)
             \/ StreamEOF(s, ok) \/ StreamEnds(s)
      PROVE  FlowInv'
  <2>1. Others(s)
    BY <1>3, QuietStream DEF Quiet
  <2>2. UNCHANGED <<pushed, channel, currentFlowID>>
    BY <1>3 DEF StreamOpen, StreamPacket, RecordDataHash, StreamEOF, StreamEnds, chanState
  <2>3. Begin \/ overlapped' = overlapped
    BY <1>3 DEF StreamOpen, StreamPacket, RecordDataHash, StreamEOF, StreamEnds, history
  <2> QED BY <1>2, <2>1, <2>2, <2>3, BeginsAlone, KeepsFlowInv DEF Busy
<1>4. ASSUME NEW s \in Streams, StreamPush(s) PROVE FlowInv'
  <2>1. /\ call[s].pc = "push" /\ Others(s) /\ currentFlowID' = s
        /\ pushed' = Append(pushed, [ch |-> channel, flow |-> s, hash |-> call[s].hash])
        /\ UNCHANGED <<channel, overlapped>>
    BY <1>4, PushEffect
  <2> SUFFICES ASSUME ~overlapped PROVE FlowsAgree'
    BY <2>1 DEF FlowInv
  <2>2. \A a \in Acks : ~Busy(a)'
    BY <1>2, <2>1, KindsDiffer DEF OneAtATime, Busy
  <2> DEFINE p == [ch |-> channel, flow |-> s, hash |-> call[s].hash]
  <2>3. p.ch = channel /\ p.flow = s /\ p \in Packets /\ pushed \in Seq(Packets)
    BY KindsDiffer DEF Packets, Shape, CallStates, Bounded
  <2> HIDE DEF p
  <2>4. pushed' = Append(pushed, p)
    BY <2>1 DEF p
  <2>5. pushed' # <<>> /\ pushed'[Len(pushed')] = p
    BY <2>3, <2>4
  <2> QED BY <2>1, <2>2, <2>3, <2>5 DEF FlowsAgree
<1>5. ASSUME NEW x \in Calls, (x \in Acks /\ SendAck(x)) \/ (x \in Reports /\ SubmitEvidence(x))
      PROVE  FlowInv'
  <2>1. /\ Others(x) /\ UNCHANGED <<pushed, channel, currentFlowID>>
        /\ x \in Acks => call'[x].flow = currentFlowID
    BY <1>5, SubmitBegins
  <2>2. \A a \in Acks : a # x => call'[a] = call[a]
    BY <2>1, KindsDiffer DEF Others
  <2>3. Begin
    BY <1>5 DEF SendAck, SubmitEvidence
  <2> QED BY <2>1, <2>2, <2>3, BeginsAlone, KeepsFlowInv DEF Busy
<1>6. ASSUME NEW a \in Acks, NEW ok \in BOOLEAN, SendAckRefused(a, ok) PROVE FlowInv'
  <2>1. a \in Calls /\ Others(a) /\ call'[a].pc = "done"
          /\ UNCHANGED <<pushed, channel, currentFlowID, overlapped>>
    BY <1>6, KindsDiffer, EndEffect DEF Ended
  <2>2. \A b \in Acks : Busy(b)' => call'[b] = call[b]
    BY <2>1, KindsDiffer DEF Others, Busy
  <2> QED BY <2>1, <2>2, KeepsFlowInv DEF Busy
<1>7. ASSUME NEW a \in Acks, NEW ok \in BOOLEAN, RecordAckScan(a, ok) \/ RecordAckInsert(a, ok)
      PROVE  FlowInv'
  <2>1. /\ Others(a) /\ UNCHANGED <<pushed, channel, overlapped>>
        /\ call'[a].flow = call[a].flow /\ Busy(a) /\ currentFlowID' = currentFlowID
    BY <1>7, AckEffect, AckKeepsFlow
  <2>2. \A b \in Acks : b # a => call'[b] = call[b]
    BY <2>1, KindsDiffer DEF Others
  <2> QED BY <2>1, <2>2, KeepsFlowInv DEF Busy
<1>8. ASSUME NEW a \in Acks, AckPush(a) PROVE FlowInv'
  <2>1. TRUE \in BOOLEAN
    OBVIOUS
  <2>2. /\ Others(a) /\ UNCHANGED <<pushed, channel, overlapped>>
        /\ currentFlowID' \in {currentFlowID, call[a].flow}
    BY <1>8, <2>1, AckEffect
  <2>3. call[a].pc = "push"
    BY <1>8 DEF AckPush
  <2>4. call'[a].pc = "done"
    BY <1>8, KindsDiffer, NewCallType DEF AckPush, Move, Pcs, Shape
  <2>5. ~overlapped => currentFlowID' = currentFlowID
    BY <2>2, <2>3 DEF FlowInv, FlowsAgree, Busy
  <2>6. \A b \in Acks : Busy(b)' => call'[b] = call[b]
    BY <2>2, <2>4, KindsDiffer DEF Others, Busy
  <2> QED BY <2>2, <2>5, <2>6 DEF FlowInv, FlowsAgree, Busy
<1>9. CASE CloseChannel \/ UNCHANGED vars
  <2>1. UNCHANGED <<pushed, channel, currentFlowID, call, overlapped>>
    BY <1>9 DEF CloseChannel, vars, history
  <2> QED BY <2>1, KeepsFlowInv DEF Busy
<1>10. CASE Restart
  BY <1>10, RestartEffect, KindsDiffer DEF FlowInv, FlowsAgree, Ended, Busy
<1>11. ASSUME NEW s \in Streams, StreamStep(s) PROVE FlowInv'
  <2>1. TRUE \in BOOLEAN
    OBVIOUS
  <2> QED BY <1>3, <1>4, <1>11, <2>1 DEF StreamStep
<1>12. ASSUME NEW a \in Acks, AckStep(a) PROVE FlowInv'
  BY <1>5, <1>6, <1>7, <1>8, <1>12, KindsDiffer DEF AckStep
<1>13. ASSUME NEW r \in Reports, SubmitEvidence(r) PROVE FlowInv'
  BY <1>5, <1>13, KindsDiffer
<1> QED BY <1>1, <1>9, <1>10, <1>11, <1>12, <1>13 DEF Next

\* Among the rows RecordAck looks at, an acknowledgement is not repeated
NoneTwice ==
  \A i \in Scanned, j \in DOMAIN chain :
    i < j /\ chain[i].ch = chain[j].ch /\ chain[i].ack # "none" => chain[i].ack # chain[j].ack

\* An acknowledgement about to be inserted is not there
OnceInv ==
  faults = 0 /\ ~overlapped =>
    NoneTwice /\ \A a \in Acks : call[a].pc = "insert" => ~AckSeen(AckSig[a])

\* A row whose acknowledgement is not among those RecordAck looks at
LEMMA InsertOnce ==
  ASSUME Shape, NoneTwice, NEW row \in Rows, chain' = Append(chain, row),
         \A i \in Scanned : chain[i].ch = row.ch /\ chain[i].ack # "none" => chain[i].ack # row.ack
  PROVE  NoneTwice'
<1>0. PICK n \in Nat : n = Len(chain)
  BY LenProperties DEF Shape
<1>1. /\ DOMAIN chain = 1 .. n /\ DOMAIN chain' = 1 .. n + 1
      /\ \A i \in 1 .. n : chain'[i] = chain[i]
      /\ chain'[n + 1] = row
  <2>1. chain \in Seq(Rows)
    BY DEF Shape
  <2>2. /\ chain' \in Seq(Rows) /\ Len(chain') = n + 1 /\ chain'[n + 1] = row
        /\ \A i \in 1 .. n : chain'[i] = chain[i]
    BY <1>0, <2>1, AppendProperties, LenProperties
  <2> QED BY <1>0, <2>1, <2>2, LenProperties
<1>2. ASSUME NEW i \in 1 .. n, i \in Scanned' PROVE i \in Scanned
  <2>1. {j \in 1 .. i : chain'[j].ch = chain'[i].ch} = {j \in 1 .. i : chain[j].ch = chain[i].ch}
    BY <1>1
  <2> QED BY <1>1, <1>2, <2>1 DEF Scanned
<1> SUFFICES ASSUME NEW i \in Scanned', NEW j \in DOMAIN chain', i < j,
                    chain'[i].ch = chain'[j].ch, chain'[i].ack # "none"
             PROVE  chain'[i].ack # chain'[j].ack
  BY DEF NoneTwice
<1>3. i \in 1 .. n /\ i \in Scanned /\ chain'[i] = chain[i]
  <2>1. i \in 1 .. n + 1
    BY <1>1 DEF Scanned
  <2>2. i \in 1 .. n
    BY <1>1, <2>1
  <2>3. i \in Scanned
    BY <1>2, <2>2
  <2> QED BY <1>1, <2>2, <2>3
<1>4. CASE j = n + 1
  BY <1>1, <1>3, <1>4
<1>5. CASE j \in 1 .. n
  BY <1>1, <1>3, <1>5 DEF NoneTwice
<1>6. j = n + 1 \/ j \in 1 .. n
  BY <1>0, <1>1
<1> QED BY <1>4, <1>5, <1>6

\* A step that leaves the business chain alone and brings no acknowledgement to its insert
LEMMA KeepsOnce ==
  ASSUME OnceInv, faults' = 0 => faults = 0, ~overlapped' => ~overlapped,
         chain' = chain, channel' = channel,
         \A a \in Acks : call'[a].pc = "insert" =>
           \/ call[a].pc = "insert"
           \/ faults' = 0 => ~AckSeen(AckSig[a])
  PROVE  OnceInv'
<1>1. Scanned' = Scanned
  BY DEF Scanned
<1>2. \A sig : AckSeen(sig)' <=> AckSeen(sig)
  BY <1>1 DEF AckSeen
<1>3. NoneTwice => NoneTwice'
  BY <1>1 DEF NoneTwice
<1> QED BY <1>2, <1>3 DEF OnceInv

\* Every step keeps the acknowledgements apart
LEMMA StepOnce == Shape /\ Subjects /\ OneAtATime /\ OnceInv /\ [Next]_vars => OnceInv'
<1> SUFFICES ASSUME Shape, Subjects, OneAtATime, OnceInv, [Next]_vars PROVE OnceInv'
  OBVIOUS
<1>1. ASSUME NEW x \in Calls, Others(x), chain' = chain, channel' = channel,
             Begin \/ overlapped' = overlapped, Counted(TRUE),
             x \in Acks => call'[x].pc # "insert"
      PROVE  OnceInv'
  <2>1. \A a \in Acks : call'[a].pc = "insert" => call[a].pc = "insert"
    BY <1>1, KindsDiffer DEF Others
  <2> QED BY <1>1, <2>1, BeginsAlone, KeepsOnce DEF Counted
<1>2. ASSUME NEW x \in Calls, SubmitStep(x) PROVE OnceInv'
  <2>1. call'[x].pc # "insert"
    <3>1. CASE \E copies \in 0 .. StoreAttempts : SubmitStore(x, copies)
      <4>1. call[x].type \in EventTypes
        BY DEF Shape, CallStates
      <4> QED BY <3>1, <4>1, StoreEffect DEF EventTypes
    <3> QED BY <1>2, <3>1, ReadEffect, AdvanceEffect DEF SubmitStep
  <2> QED BY <1>1, <1>2, <2>1, SubmitKeepsHash
<1>3. ASSUME NEW s \in Streams, NEW read \in BOOLEAN, NEW ok \in BOOLEAN,
             \/ StreamOpen(s) \/ StreamPacket(s, read, ok) \/ StreamPush(s)
             \/ StreamEOF(s, ok) \/ StreamEnds(s)
      PROVE  OnceInv'
  <2>1. s \in Calls /\ s \notin Acks /\ Others(s) /\ Counted(TRUE)
    BY <1>3, KindsDiffer, QuietStream DEF Quiet
  <2>2. chain' = chain /\ channel' = channel
    BY <1>3 DEF StreamOpen, StreamPacket, StreamPush, StreamEOF, StreamEnds, chanState, tables
  <2>3. Begin \/ overlapped' = overlapped
    BY <1>3 DEF StreamOpen, StreamPacket, StreamPush, StreamEOF, StreamEnds, history
  <2> QED BY <1>1, <2>1, <2>2, <2>3
<1>4. ASSUME NEW s \in Streams, NEW ok \in BOOLEAN, RecordDataHash(s, ok) PROVE OnceInv'
  <2> SUFFICES ASSUME faults' = 0, ~overlapped'
               PROVE  NoneTwice' /\ \A a \in Acks : call'[a].pc # "insert"
    BY DEF OnceInv
  <2>1. call[s].pc = "chain" /\ Others(s) /\ Counted(TRUE) /\ overlapped' = overlapped
    BY <1>4, ChainEffect
  <2>2. faults = 0 /\ NoneTwice
    BY <2>1 DEF OnceInv, Counted
  <2> DEFINE row == DataRow(channel, call[s].hash, call[s].prev)
  <2>3. row \in Rows /\ row.ack = "none"
    <3>1. call[s] \in CallStates /\ channel \in Nat
      BY KindsDiffer DEF Shape
    <3> QED BY <3>1 DEF DataRow, Rows, CallStates
  <2>4. chain' = Append(chain, row)
    BY <1>4, <2>2 DEF RecordDataHash, Outcome, InsertRecord
  <2> HIDE DEF row
  <2>5. NoneTwice'
    BY <2>2, <2>3, <2>4, InsertOnce
  <2>6. \A a \in Acks : call'[a].pc # "insert"
    BY <2>1, KindsDiffer DEF OneAtATime, Busy, Others
  <2> QED BY <2>5, <2>6
<1>5. ASSUME NEW x \in Calls, (x \in Acks /\ SendAck(x)) \/ (x \in Reports /\ SubmitEvidence(x))
      PROVE  OnceInv'
  <2>1. Others(x) /\ UNCHANGED <<chain, channel, faults>> /\ call'[x].pc = "submit" /\ Begin
    BY <1>5, SubmitBegins DEF SendAck, SubmitEvidence
  <2> QED BY <1>1, <2>1 DEF Counted
<1>6. ASSUME NEW a \in Acks, NEW ok \in BOOLEAN, SendAckRefused(a, ok) PROVE OnceInv'
  <2>1. a \in Calls /\ Others(a) /\ call'[a].pc = "done" /\ Counted(TRUE)
          /\ UNCHANGED <<chain, channel, overlapped>>
    BY <1>6, KindsDiffer, EndEffect DEF Ended
  <2> QED BY <1>1, <2>1
<1>7. ASSUME NEW a \in Acks, NEW ok \in BOOLEAN, RecordAckScan(a, ok) PROVE OnceInv'
  <2>1. /\ Others(a) /\ Counted(TRUE) /\ UNCHANGED <<chain, channel, overlapped>>
    BY <1>7, AckEffect DEF RecordAckScan, tables
  <2> DEFINE pc == IF ok /\ AckSeen(AckSig[a]) THEN "push" ELSE "insert"
  <2>2. call' = [call EXCEPT ![a] = [call[a] EXCEPT !.pc = pc]] /\ Outcome(ok)
    BY <1>7 DEF RecordAckScan, Move
  <2>3. call'[a].pc = pc
    BY <2>2, KindsDiffer DEF Shape, CallStates
  <2>4. faults' = 0 => ok
    BY <2>2, OutcomeType DEF Shape
  <2>5. call'[a].pc = "insert" => (faults' = 0 => ~AckSeen(AckSig[a]))
    BY <2>3, <2>4
  <2>6. \A b \in Acks : b # a => call'[b] = call[b]
    BY <2>1, KindsDiffer DEF Others
  <2>7. faults' = 0 => faults = 0
    BY <2>1 DEF Counted
  <2> HIDE DEF pc
  <2> QED BY <2>1, <2>5, <2>6, <2>7, KeepsOnce
<1>8. ASSUME NEW a \in Acks, NEW ok \in BOOLEAN, RecordAckInsert(a, ok) PROVE OnceInv'
  <2> SUFFICES ASSUME faults' = 0, ~overlapped'
               PROVE  NoneTwice' /\ \A b \in Acks : call'[b].pc # "insert"
    BY DEF OnceInv
  <2>1. call[a].pc = "insert" /\ Others(a) /\ Counted(TRUE) /\ overlapped' = overlapped
    BY <1>8, AckEffect DEF RecordAckInsert
  <2>2. faults = 0 /\ NoneTwice /\ ~AckSeen(AckSig[a])
    BY <2>1 DEF OnceInv, Counted
  <2> DEFINE row == AckRow(channel, AckSig[a])
  <2>3. row \in Rows /\ row.ch = channel /\ row.ack = AckSig[a]
    BY NewCallType DEF AckRow, Rows, Shape
  <2>4. chain' = Append(chain, row)
    BY <1>8, <2>2 DEF RecordAckInsert, Outcome, InsertRecord
  <2> HIDE DEF row
  <2>5. NoneTwice'
    BY <2>2, <2>3, <2>4, InsertOnce DEF AckSeen
  <2>6. call'[a].pc = "push"
    <3>1. call' = [call EXCEPT ![a] = [call[a] EXCEPT !.pc = "push"]]
      BY <1>8 DEF RecordAckInsert, Move
    <3> QED BY <3>1, KindsDiffer DEF Shape, CallStates
  <2>7. \A b \in Acks : call'[b].pc # "insert"
    BY <2>1, <2>6, KindsDiffer DEF OneAtATime, Busy, Others
  <2> QED BY <2>5, <2>7
<1>9. ASSUME NEW a \in Acks, AckPush(a) PROVE OnceInv'
  <2>1. TRUE \in BOOLEAN
    OBVIOUS
  <2>2. Others(a) /\ UNCHANGED <<chain, channel, overlapped, faults>>
    BY <1>9, <2>1, AckEffect DEF AckPush, tables
  <2>3. call'[a].pc = "done" /\ a \in Calls
    BY <1>9, KindsDiffer, NewCallType DEF AckPush, Move, Pcs, Shape
  <2> QED BY <1>1, <2>2, <2>3 DEF Counted
<1>10. CASE CloseChannel \/ UNCHANGED vars
  <2>1. UNCHANGED <<chain, channel, call, faults, overlapped>>
    BY <1>10 DEF CloseChannel, vars, tables, history
  <2> QED BY <2>1, KeepsOnce
<1>11. CASE Restart
  <2>1. /\ UNCHANGED <<chain, faults, overlapped>>
        /\ \A a \in Acks : call'[a].pc # "insert"
    BY <1>11, RestartEffect, KindsDiffer DEF Ended
  <2>2. NoneTwice => NoneTwice'
    BY <2>1 DEF NoneTwice, Scanned
  <2> QED BY <2>1, <2>2 DEF OnceInv
<1>12. ASSUME NEW s \in Streams, StreamStep(s) PROVE OnceInv'
  <2>1. TRUE \in BOOLEAN
    OBVIOUS
  <2> QED BY <1>3, <1>4, <1>12, <2>1 DEF StreamStep
<1>13. ASSUME NEW a \in Acks, AckStep(a) PROVE OnceInv'
  BY <1>5, <1>6, <1>7, <1>8, <1>9, <1>13, KindsDiffer DEF AckStep
<1>14. ASSUME NEW r \in Reports, SubmitEvidence(r) PROVE OnceInv'
  BY <1>5, <1>14, KindsDiffer
<1> QED BY <1>2, <1>10, <1>11, <1>12, <1>13, <1>14 DEF Next

\* DataEvidence.SerialAcks: without overlaps and failures an acknowledgement that RecordAck can see is
\* there once, and the current flow of a channel is that of its last packet (RecordAck, SendAck,
\* PushData)
THEOREM SerialAcksAreOnce == Spec => []SerialAcks
<1> DEFINE Inv == Shape /\ Bounded /\ Subjects /\ OneAtATime /\ AckTypes /\ FlowInv /\ OnceInv
<1>1. Init => Inv
  <2> SUFFICES ASSUME Init PROVE OneAtATime /\ AckTypes /\ FlowInv /\ OnceInv
    BY InitShape, InitRecorded
  <2>1. (\A x \in Calls : call[x].pc = "new") /\ chain = <<>> /\ currentFlowID = NoFlow
    BY DEF Init, NewCall
  <2> QED BY <2>1, KindsDiffer
          DEF OneAtATime, Busy, AckTypes, FlowInv, FlowsAgree, OnceInv, NoneTwice, Scanned
<1>2. Inv /\ [Next]_vars => Inv'
  BY StepShape, StepBounded, StepSubjects, StepOneAtATime, StepAckTypes, StepFlowInv, StepOnce
<1>3. Inv => SerialAcks
  BY DEF FlowInv, FlowsAgree, OnceInv, NoneTwice, SerialAcks, AckRecordedOnce, CurrentFlowIsLast
<1> QED BY <1>1, <1>2, <1>3, PTL DEF Spec

=============================================================================
