----------------------------- MODULE DataEvidence -----------------------------
(***************************************************************************)
(* What the kernel records of the data that passes it.  Three kinds of     *)
(* calls write to two tables of its database:                              *)
(*                                                                         *)
(*  - StreamData (kernel/server/channel_service.go): for every packet of a *)
(*    sender, two evidence records, a row of the channel's business hash   *)
(*    chain and then the push to the receivers; at the end of the stream   *)
(*    the signature of the flow;                                           *)
(*  - SendAck: an evidence record and an acknowledgement row of the chain; *)
(*  - EvidenceService.SubmitEvidence: an evidence record a connector asks  *)
(*    for.                                                                 *)
(*                                                                         *)
(* AuditLog (kernel/evidence/audit_log.go) links the evidence records by   *)
(* lastRecordHash, which lives in memory only and which it reads and       *)
(* writes in two critical sections; BusinessChainManager links the rows of *)
(* a channel by reading the last one.  Calls overlap, the database and the *)
(* signing key may fail, and the kernel may end at any point.              *)
(*                                                                         *)
(* The kernel runs with a database and the channel has only participants   *)
(* of this kernel.                                                         *)
(*                                                                         *)
(* Hashes are modelled by what they determine.  data_hash covers the       *)
(* payload and the hash before it, so it is the sequence of the payloads   *)
(* it covers.  The hash of an evidence record covers its unique event id,  *)
(* so it is the event id.                                                  *)
(***************************************************************************)
EXTENDS Naturals, Sequences, FiniteSets

CONSTANTS
  Streams,        \* StreamData calls; each carries one flow
  Acks,           \* SendAck calls
  AckSig,         \* the connector signature of each of them: equal for a repeated ack
  Reports,        \* SubmitEvidence calls of the evidence service
  NoFlow,         \* no flow id
  ScanLimit,      \* the 100 rows RecordAck looks at
  StoreAttempts,  \* the 3 attempts to store an evidence record
  MaxPackets,     \* bound: packets of a stream
  MaxInProgress,  \* bound: calls in progress at the same time
  MaxFaults,      \* bound: failures of the database or of the signing key
  MaxRestarts     \* bound: times the kernel ends and starts again

ASSUME EvidenceConstants ==
  /\ Streams \intersect Acks = {} /\ Streams \intersect Reports = {}
  /\ Acks \intersect Reports = {}
  /\ NoFlow \notin Streams
  /\ {ScanLimit, StoreAttempts, MaxPackets, MaxInProgress, MaxFaults,
      MaxRestarts} \subseteq Nat

VARIABLES
  lastRecordHash,  \* AuditLog.lastRecordHash, 0 when empty
  evidence,        \* table evidence_records, in the order of insertion
  chain,           \* table business_data_chain, in the order of insertion
  clock,           \* event ids drawn so far, in the order of their timestamps
  channel,         \* id of the channel; one made after a restart has another
  active,          \* its status is active
  currentFlowID,   \* Channel.currentFlowID
  call,            \* every call: where it is and what it holds
  pushed,          \* packets handed to the receivers
  committed,       \* evidence the service has reported as committed, by event id
  faults,          \* failures so far
  restarts,        \* restarts so far
  overlapped       \* two calls have been in progress at the same time

tables == <<evidence, chain>>
chanState == <<channel, active, currentFlowID>>
history == <<restarts, overlapped>>
vars == <<lastRecordHash, evidence, chain, clock, channel, active, currentFlowID, call,
          pushed, committed, faults, restarts, overlapped>>

Calls == Streams \union Acks \union Reports
Payloads == Streams \X (1 .. MaxPackets)
Hashes == Seq(Payloads)
NoHash == <<>>

EventTypes == {"DATA_SEND", "DATA_RECEIVE", "ACK_RECEIVED", "REPORT"}

\* EvidenceRecord: of the signatures, whether it is the record's, the flow's or missing
Record(ev, type, flow, hash, prev, sig) ==
  [ev |-> ev, type |-> type, flow |-> flow, hash |-> hash, prev |-> prev, sig |-> sig]
NoRecord == Record(0, "REPORT", NoFlow, NoHash, 0, "none")

\* BusinessChainRecord: an acknowledgement has no hash, a data row no ack
DataRow(ch, hash, prev) == [ch |-> ch, hash |-> hash, prev |-> prev, ack |-> "none"]
AckRow(ch, sig) == [ch |-> ch, hash |-> NoHash, prev |-> NoHash, ack |-> sig]

NewCall == [pc |-> "new", n |-> 0, type |-> "REPORT", flow |-> NoFlow, prev |-> NoHash,
            hash |-> NoHash, rec |-> NoRecord]

\* A call that has returned holds nothing any more
Returned(pc) == [NewCall EXCEPT !.pc = pc]

Init ==
  /\ lastRecordHash = 0
  /\ evidence = <<>> /\ chain = <<>>
  /\ clock = 0
  /\ channel = 0 /\ active = TRUE /\ currentFlowID = NoFlow
  /\ call = [x \in Calls |-> NewCall]
  /\ pushed = <<>>
  /\ committed = {}
  /\ faults = 0 /\ restarts = 0 /\ overlapped = FALSE

\* A call that is between two of its steps; an open stream waits for packets in "recv"
Busy(x) == call[x].pc \notin {"new", "recv", "signed", "done"}

InProgress == {x \in Calls : Busy(x)}

\* A call starts to work: it overlaps what is in progress
Begin ==
  /\ Cardinality(InProgress) < MaxInProgress
  /\ overlapped' = (overlapped \/ InProgress # {})

\* Call x goes on to state c
Move(x, c) == call' = [call EXCEPT ![x] = c]

\* A step of which ok says whether it works; failures are bounded
Outcome(ok) == IF ok THEN UNCHANGED faults ELSE faults < MaxFaults /\ faults' = faults + 1

-----------------------------------------------------------------------------
(* AuditLog.SubmitBasicEvidenceWithMetadata, for every kind of call *)

\* The event id, the time and, under the lock, the record's predecessor.  The record is
\* hashed and signed; without the key it goes on unsigned
SubmitRead(x, signed) ==
  /\ call[x].pc = "submit"
  /\ clock' = clock + 1
  /\ Move(x, [call[x] EXCEPT !.pc = "advance",
                             !.rec = Record(clock + 1, call[x].type, call[x].flow, call[x].hash,
                                            lastRecordHash, IF signed THEN "record" ELSE "none")])
  /\ Outcome(signed)
  /\ UNCHANGED <<lastRecordHash, tables, chanState, pushed, committed, history>>

\* The second critical section: whatever lastRecordHash is by now, it is overwritten
SubmitAdvance(x) ==
  /\ call[x].pc = "advance"
  /\ lastRecordHash' = call[x].rec.ev
  /\ Move(x, [call[x] EXCEPT !.pc = "store"])
  /\ UNCHANGED <<tables, clock, chanState, pushed, committed, faults, history>>

\* mutant: the record of the receiving side is left out
SubmitSendOnly(c) ==
  CASE c.type \in {"DATA_SEND", "DATA_RECEIVE"} -> [c EXCEPT !.pc = "chain"]
    [] c.type = "ACK_RECEIVED"                  -> [c EXCEPT !.pc = "scan"]
    [] OTHER                                    -> Returned("done")

\* Where a call goes once its record is submitted; it is told nothing of a failure to store
AfterSubmit(c) ==
  CASE c.type = "DATA_SEND"    -> [c EXCEPT !.pc = "submit", !.type = "DATA_RECEIVE"]
    [] c.type = "DATA_RECEIVE" -> [c EXCEPT !.pc = "chain"]
    [] c.type = "ACK_RECEIVED" -> [c EXCEPT !.pc = "scan"]
    [] OTHER                   -> Returned("done")

\* MySQLEvidenceStore.Store, called until it reports success: event_id is no unique key, so an
\* attempt that was written and yet reported as failed leaves a copy
Store(rec, copies) == evidence \o [i \in 1 .. copies |-> rec]

\* mutant: a record is not stored when a later one has been linked to it meanwhile
StoreIfLast(x, copies) ==
  /\ call[x].pc = "store"
  /\ evidence' = IF lastRecordHash = call[x].rec.ev
                   THEN Store(call[x].rec, copies) ELSE evidence
  /\ Move(x, AfterSubmit([call[x] EXCEPT !.rec = NoRecord]))
  /\ Outcome(copies = 1)
  /\ UNCHANGED <<lastRecordHash, chain, clock, chanState, pushed, committed, history>>

\* Up to StoreAttempts attempts; when all fail this is logged
SubmitStore(x, copies) ==
  /\ call[x].pc = "store"
  /\ evidence' = Store(call[x].rec, copies)
  /\ Move(x, AfterSubmit([call[x] EXCEPT !.rec = NoRecord]))
  /\ committed' = IF x \in Reports THEN committed \union {call[x].rec.ev} ELSE committed
  /\ Outcome(copies = 1)
  /\ UNCHANGED <<lastRecordHash, chain, clock, chanState, pushed, history>>

-----------------------------------------------------------------------------
(* The business chain: BusinessChainManager and its table *)

\* GetRecords: the ids of the first ScanLimit rows of every channel
Scanned == {i \in DOMAIN chain :
              Cardinality({j \in 1 .. i : chain[j].ch = chain[i].ch}) <= ScanLimit}

DataIds(ch) == {i \in DOMAIN chain : chain[i].ch = ch /\ chain[i].hash # NoHash}

\* mutant: the last row of any channel
LastHashAnyChannel(ch) == IF chain = <<>> THEN NoHash ELSE chain[Len(chain)].hash

\* mutant: the last row of the channel, acknowledgements too
LastHashOrAck(ch) ==
  LET ids == {i \in DOMAIN chain : chain[i].ch = ch} IN
  IF ids = {} THEN NoHash ELSE chain[CHOOSE i \in ids : \A j \in ids : j <= i].hash

\* GetLastDataHash: the last row of the channel that is not an acknowledgement
LastDataHash(ch) ==
  IF DataIds(ch) = {} THEN NoHash
  ELSE chain[CHOOSE i \in DataIds(ch) : \A j \in DataIds(ch) : j <= i].hash

-----------------------------------------------------------------------------
(* StreamData *)

\* The sender opens a stream
StreamOpen(s) ==
  /\ call[s].pc = "new"
  /\ Move(s, [call[s] EXCEPT !.pc = "recv", !.flow = s])
  /\ UNCHANGED <<lastRecordHash, tables, clock, chanState, pushed, committed, faults, history>>

\* A packet arrives: the last hash of the channel is read and the packet's hash computed and
\* signed.  A failed read counts as an empty chain
StreamPacket(s, read, signed) ==
  LET prev == IF read THEN LastDataHash(channel) ELSE NoHash IN
  /\ call[s].pc = "recv" /\ call[s].n < MaxPackets
  /\ active
  /\ Move(s, [call[s] EXCEPT !.pc = IF signed THEN "submit" ELSE "push",
                             !.type = "DATA_SEND",
                             !.n = call[s].n + 1,
                             !.prev = prev,
                             !.hash = Append(prev, <<s, call[s].n + 1>>)])
  /\ Begin
  /\ Outcome(read /\ signed)
  /\ UNCHANGED <<lastRecordHash, tables, clock, chanState, pushed, committed, restarts>>

InsertRecord(row, ok) == chain' = IF ok THEN Append(chain, row) ELSE chain

\* RecordDataHash; a failure is logged
RecordDataHash(s, ok) ==
  /\ call[s].pc = "chain"
  /\ InsertRecord(DataRow(channel, call[s].hash, call[s].prev), ok)
  /\ Move(s, [call[s] EXCEPT !.pc = "push"])
  /\ Outcome(ok)
  /\ UNCHANGED <<lastRecordHash, evidence, clock, chanState, pushed, committed, history>>

\* PushData takes the packet, and the sender is sent the status
StreamPush(s) ==
  /\ call[s].pc = "push" /\ active
  /\ pushed' = Append(pushed, [ch |-> channel, flow |-> s, hash |-> call[s].hash])
  /\ currentFlowID' = s
  /\ Move(s, [call[s] EXCEPT !.pc = "recv", !.prev = NoHash, !.hash = NoHash])
  /\ UNCHANGED <<lastRecordHash, tables, clock, channel, active, committed, faults, history>>

\* GetByFlowID: the events of a flow; Query answers with the newest first
FlowEvents(f) == {evidence[i].ev : i \in {j \in DOMAIN evidence : evidence[j].flow = f}}
LastOfQuery(f) == CHOOSE e \in FlowEvents(f) : \A d \in FlowEvents(f) : e <= d

\* Update: every row with the event id
Update(ev, sig) ==
  [i \in DOMAIN evidence |->
     IF evidence[i].ev = ev THEN [evidence[i] EXCEPT !.sig = sig] ELSE evidence[i]]

\* SignFlow signs the last record of the answer
SignFlow(f) == IF FlowEvents(f) = {} THEN evidence ELSE Update(LastOfQuery(f), "flow")

\* mutant: the flow that is signed is the channel's current one
StreamEOFCurrent(s, ok) ==
  /\ call[s].pc = "recv"
  /\ Move(s, Returned(IF ok THEN "signed" ELSE "done"))
  /\ evidence' = IF ok THEN SignFlow(currentFlowID) ELSE evidence
  /\ Outcome(ok)
  /\ UNCHANGED <<lastRecordHash, chain, clock, chanState, pushed, committed, history>>

\* The sender ends its stream; a failure to sign is logged
StreamEOF(s, ok) ==
  /\ call[s].pc = "recv"
  /\ Move(s, Returned(IF ok THEN "signed" ELSE "done"))
  /\ evidence' = IF ok THEN SignFlow(s) ELSE evidence
  /\ Outcome(ok)
  /\ UNCHANGED <<lastRecordHash, chain, clock, chanState, pushed, committed, history>>

\* The stream ends without its end having been seen: it breaks, the channel is not active when
\* the packet comes or is pushed, or the sender may no longer send
StreamEnds(s) ==
  /\ call[s].pc \in {"recv", "push"}
  /\ Move(s, Returned("done"))
  /\ UNCHANGED <<lastRecordHash, tables, clock, chanState, pushed, committed, faults, history>>

-----------------------------------------------------------------------------
(* SendAck *)

\* A receiver acknowledges what it was sent.  The flow is the channel's current one
SendAck(a) ==
  /\ call[a].pc = "new"
  /\ active /\ currentFlowID # NoFlow
  /\ Move(a, [call[a] EXCEPT !.pc = "submit", !.type = "ACK_RECEIVED", !.flow = currentFlowID])
  /\ Begin
  /\ UNCHANGED <<lastRecordHash, tables, clock, chanState, pushed, committed, faults, restarts>>

\* An acknowledgement is refused: the channel is not active or cannot be signed for
SendAckRefused(a, signed) ==
  /\ call[a].pc = "new" /\ currentFlowID # NoFlow
  /\ active # signed
  /\ Move(a, Returned("done"))
  /\ Outcome(signed)
  /\ UNCHANGED <<lastRecordHash, tables, clock, chanState, pushed, committed, history>>

\* mutant: the last row of the table is not compared
AckSeenBefore(sig) ==
  \E i \in Scanned : i < Len(chain) /\ chain[i].ch = channel /\ chain[i].ack = sig

\* What RecordAck compares with: the first ScanLimit rows of the channel
AckSeen(sig) == \E i \in Scanned : chain[i].ch = channel /\ chain[i].ack = sig

\* RecordAck, first statement: an ack that is among those rows is not recorded again
RecordAckScan(a, ok) ==
  /\ call[a].pc = "scan"
  /\ Move(a, [call[a] EXCEPT !.pc = IF ok /\ AckSeen(AckSig[a]) THEN "push" ELSE "insert"])
  /\ Outcome(ok)
  /\ UNCHANGED <<lastRecordHash, tables, clock, chanState, pushed, committed, history>>

\* RecordAck, second statement
RecordAckInsert(a, ok) ==
  /\ call[a].pc = "insert"
  /\ InsertRecord(AckRow(channel, AckSig[a]), ok)
  /\ Move(a, [call[a] EXCEPT !.pc = "push"])
  /\ Outcome(ok)
  /\ UNCHANGED <<lastRecordHash, evidence, clock, chanState, pushed, committed, history>>

\* PushData of the ack: the packet carries the flow read at the start of the call
AckPush(a) ==
  /\ call[a].pc = "push"
  /\ currentFlowID' = IF active THEN call[a].flow ELSE currentFlowID
  /\ Move(a, Returned("done"))
  /\ UNCHANGED <<lastRecordHash, tables, clock, channel, active, pushed, committed, faults,
                 history>>

-----------------------------------------------------------------------------
(* The evidence service, the channel and the process *)

\* EvidenceService.SubmitEvidence: control evidence without a flow
SubmitEvidence(r) ==
  /\ call[r].pc = "new"
  /\ Move(r, [call[r] EXCEPT !.pc = "submit", !.type = "REPORT"])
  /\ Begin
  /\ UNCHANGED <<lastRecordHash, tables, clock, chanState, pushed, committed, faults, restarts>>

\* CloseChannel, as far as these calls see it
CloseChannel ==
  /\ active
  /\ active' = FALSE
  /\ UNCHANGED <<lastRecordHash, tables, clock, channel, currentFlowID, call, pushed, committed,
                 faults, history>>

\* The kernel ends and starts again: calls, channels and lastRecordHash were in memory.  The
\* participants negotiate a channel anew, and it has another id
Restart ==
  /\ restarts < MaxRestarts
  /\ restarts' = restarts + 1
  /\ lastRecordHash' = 0
  /\ call' = [x \in Calls |-> IF call[x].pc \in {"new", "signed"} THEN call[x]
                              ELSE Returned("done")]
  /\ channel' = channel + 1 /\ active' = TRUE /\ currentFlowID' = NoFlow
  /\ UNCHANGED <<tables, clock, pushed, committed, faults, overlapped>>

-----------------------------------------------------------------------------

StreamStep(s) ==
  \/ StreamOpen(s)
  \/ \E read, signed \in BOOLEAN : StreamPacket(s, read, signed)
  \/ \E ok \in BOOLEAN : RecordDataHash(s, ok)
  \/ StreamPush(s)
  \/ \E ok \in BOOLEAN : StreamEOF(s, ok)
  \/ StreamEnds(s)

AckStep(a) ==
  \/ SendAck(a)
  \/ \E signed \in BOOLEAN : SendAckRefused(a, signed)
  \/ \E ok \in BOOLEAN : RecordAckScan(a, ok) \/ RecordAckInsert(a, ok)
  \/ AckPush(a)

SubmitStep(x) ==
  \/ \E signed \in BOOLEAN : SubmitRead(x, signed)
  \/ SubmitAdvance(x)
  \/ \E copies \in 0 .. StoreAttempts : SubmitStore(x, copies)

Next ==
  \/ \E s \in Streams : StreamStep(s)
  \/ \E a \in Acks : AckStep(a)
  \/ \E r \in Reports : SubmitEvidence(r)
  \/ \E x \in Calls : SubmitStep(x)
  \/ CloseChannel
  \/ Restart

Spec == Init /\ [][Next]_vars

-----------------------------------------------------------------------------
(* Properties *)

\* The variables keep their types
TypeOK ==
  /\ lastRecordHash \in 0 .. clock /\ clock \in Nat
  /\ \A i \in DOMAIN evidence :
       /\ evidence[i].ev \in 1 .. clock /\ evidence[i].prev \in 0 .. clock
       /\ evidence[i].type \in EventTypes /\ evidence[i].flow \in Streams \union {NoFlow}
       /\ evidence[i].hash \in Hashes /\ evidence[i].sig \in {"record", "flow", "none"}
  /\ \A i \in DOMAIN chain : chain[i].ch \in 0 .. channel /\ {chain[i].hash, chain[i].prev} \subseteq Hashes
  /\ channel \in Nat /\ active \in BOOLEAN /\ currentFlowID \in Streams \union {NoFlow}
  /\ \A x \in Calls : call[x].n \in 0 .. MaxPackets /\ call[x].type \in EventTypes
  /\ \A i \in DOMAIN pushed : pushed[i].hash \in Hashes
  /\ committed \subseteq 1 .. clock
  /\ faults \in 0 .. MaxFaults /\ restarts \in 0 .. MaxRestarts /\ overlapped \in BOOLEAN

Stored == {evidence[i].ev : i \in DOMAIN evidence}
HasEvidence(type, hash) == \E i \in DOMAIN evidence : evidence[i].type = type /\ evidence[i].hash = hash

\* Whatever overlaps, fails or crashes, the hash a data row of the business chain was computed
\* from is that of an earlier row of the same channel: a verifier who follows prev_data_hash
\* (InsertRecord, GetLastRecord) always arrives at a row with an empty one
ChainIsRooted ==
  \A i \in DOMAIN chain : chain[i].prev # NoHash =>
    \E j \in 1 .. i - 1 : chain[j].ch = chain[i].ch /\ chain[j].hash = chain[i].prev

\* As long as neither the database nor the key fails, a packet reaches the receivers only after
\* both its evidence records and its row of the business chain are in the database (the order of
\* StreamData), wherever the kernel crashes and whatever the other calls do
ForwardedWasRecorded ==
  faults = 0 => \A i \in DOMAIN pushed :
    /\ HasEvidence("DATA_SEND", pushed[i].hash) /\ HasEvidence("DATA_RECEIVE", pushed[i].hash)
    /\ \E j \in DOMAIN chain : chain[j].ch = pushed[i].ch /\ chain[j].hash = pushed[i].hash

\* As long as the kernel runs and the database works, the predecessor a record names is in the
\* table or is a record some call is about to store: overlapping submits may fork the evidence
\* chain but do not cut it (lastRecordHash in SubmitBasicEvidenceWithMetadata)
NoLostPredecessor ==
  faults = 0 /\ restarts = 0 =>
    \A i \in DOMAIN evidence :
      \/ evidence[i].prev \in Stored \union {0}
      \/ \E x \in Calls : call[x].pc = "store" /\ call[x].rec.ev = evidence[i].prev

\* If calls do not overlap and nothing fails, the evidence records of every run of the kernel
\* form one chain in the order of the table, over crashes: a record follows the one before it or,
\* after a restart, nothing
SerialEvidenceChain ==
  faults = 0 /\ ~overlapped =>
    /\ \A i \in DOMAIN evidence :
         evidence[i].prev # 0 => i > 1 /\ evidence[i].prev = evidence[i - 1].ev
    /\ Cardinality({i \in DOMAIN evidence : evidence[i].prev = 0}) <= restarts + 1

\* If calls do not overlap and nothing fails, the hash of the n-th data row of a channel covers
\* the payloads of the n rows up to it: acknowledgements in between do not break the chain
SerialBusinessChain ==
  faults = 0 /\ ~overlapped =>
    \A i \in DOMAIN chain : chain[i].hash # NoHash =>
      LET upto == {j \in DataIds(chain[i].ch) : j <= i} IN
      /\ Len(chain[i].hash) = Cardinality(upto)
      /\ \A j \in upto : chain[j].hash = SubSeq(chain[i].hash, 1, Len(chain[j].hash))

\* If calls do not overlap and nothing fails, an acknowledgement that is in the rows RecordAck
\* looks at is nowhere else in the rows of its channel
AckRecordedOnce ==
  faults = 0 /\ ~overlapped =>
    \A i \in Scanned, j \in DOMAIN chain :
      i < j /\ chain[i].ch = chain[j].ch /\ chain[i].ack # "none" => chain[i].ack # chain[j].ack

\* If calls do not overlap, an acknowledgement is put on record under the flow of the last packet
\* the channel took: the flow id an ack packet carries back into PushData changes nothing
CurrentFlowIsLast ==
  ~overlapped /\ currentFlowID # NoFlow =>
    /\ pushed[Len(pushed)].ch = channel
    /\ pushed[Len(pushed)].flow = currentFlowID

\* What the evidence service has reported as committed is in the database while nothing fails
CommittedIsStored == faults = 0 => committed \subseteq Stored

\* While nothing fails, the flows that carry a flow signature are exactly those whose stream has
\* ended with its end seen and has left a record (StreamData's SignFlow), whatever streams, acks and
\* restarts come in between
EndedFlowIsSigned ==
  faults = 0 => \A s \in Streams :
    (\E i \in DOMAIN evidence : evidence[i].flow = s /\ evidence[i].sig = "flow")
      <=> call[s].pc = "signed" /\ \E i \in DOMAIN evidence : evidence[i].flow = s

\* SAFETY.  What others can see is on record, and the tables are well formed: forwarded packets
\* (StreamData) and evidence reported as committed (SubmitEvidence)
VisibleIsRecorded == TypeOK /\ ForwardedWasRecorded /\ CommittedIsStored

\* SAFETY.  Without overlaps and failures both tables are chains without forks
\* (SubmitBasicEvidenceWithMetadata, InsertRecord)
SerialChains == SerialEvidenceChain /\ SerialBusinessChain

\* SAFETY.  Without overlaps and failures an acknowledgement is there once, and under the flow it
\* belongs to (RecordAck, SendAck)
SerialAcks == AckRecordedOnce /\ CurrentFlowIsLast
=============================================================================
