-------------------------- MODULE ChannelDelivery --------------------------
(***************************************************************************)
(* How the packets of an active channel reach its subscribers, at one      *)
(* kernel (kernel/circulation/channel_manager.go: PushData,                *)
(* startDataDistribution, SubscribeWithRecovery, Unsubscribe, CloseChannel *)
(* and the connector status; kernel/server/channel_service.go:             *)
(* SubscribeData).                                                         *)
(*                                                                         *)
(* A sender's PushData reads the subscribers without a lock, several       *)
(* times, and then sends to dataQueue and to the buffers; one distributor  *)
(* goroutine moves packets from dataQueue to the subscribers' channels;    *)
(* every SubscribeData call runs a handler that reads its channel, and a   *)
(* goroutine that replays what was buffered.  A step is what the code does *)
(* between two points where another goroutine can interfere.  A send on a  *)
(* closed Go channel ends the process: that is the variable panicked.      *)
(*                                                                         *)
(* All members are connectors of this kernel, and packets are data.        *)
(***************************************************************************)
EXTENDS Naturals, Sequences, SequencesExt

CONSTANTS
  Senders, Receivers,  \* SenderIDs, ReceiverIDs
  Others,              \* connectors that are no members of the channel
  Streams,             \* the calls of SubscribeData
  Caller,              \* the connector that makes each of them
  NoStream,            \* a connector that has no entry in subscribers
  TargetSets,          \* the TargetIDs packets may have; {} is a broadcast
  QueueCap,            \* capacity of dataQueue
  StreamCap,           \* capacity of a subscriber's channel
  BufferCap,           \* maxBufferSize
  ConnectorCap,        \* capacity of a connector's own buffer
  MaxPackets,          \* bound: packets pushed
  MayDisconnect,       \* whether streams may end
  MayClose,            \* whether the channel may be closed
  MayExpire            \* whether an hour may pass while packets wait

VARIABLES
  active,              \* Status is "active"; CloseChannel also closes dataQueue
  queue,               \* dataQueue
  buffer,              \* buffer: packets for receivers that are online but not subscribed
  connectorBuffers,    \* connectorBuffers: packets for receivers that are offline
  online,              \* connectorStatus is online
  known,               \* lastActivity has an entry
  subscribers,         \* subscribers: the stream whose channel is registered
  stream,              \* the SubscribeData calls
  distributor,         \* the packet the distributor holds, and the streams still to get it
  push,                \* the PushData calls
  pushed,              \* packets pushed so far
  accepted,            \* packets PushData returned nil for
  panicked             \* the kernel died

vars == <<active, queue, buffer, connectorBuffers, online, known, subscribers, stream,
          distributor, push, pushed, accepted, panicked>>
buffers == <<buffer, connectorBuffers>>
status == <<online, known>>

ASSUME DeliveryConstants ==
  /\ Senders \intersect Receivers = {}
  /\ (Senders \union Receivers) \intersect Others = {}
  /\ NoStream \notin Streams
  /\ Caller \in [Streams -> Senders \union Receivers \union Others]
  /\ {QueueCap, StreamCap, BufferCap, ConnectorCap, MaxPackets} \subseteq Nat \ {0}
  /\ {MayDisconnect, MayClose, MayExpire} \subseteq BOOLEAN

Connectors == Senders \union Receivers \union Others
Packets == [n : 1..MaxPackets, from : Senders, to : TargetSets]

\* shouldSendToSubscriber, for a data packet
ShouldSend(p, c) ==
  /\ c \in Receivers
  /\ p.to = {} \/ c \in p.to

\* The receivers a packet is for
Addressed(p) == {c \in Receivers : ShouldSend(p, c)}
Subscribed(c) == subscribers[c] # NoStream

NoPush == [pc |-> "idle"]
Idle == [todo |-> {}]
NoCall == [pc |-> "free", isRecovery |-> FALSE, chan |-> <<>>, got |-> <<>>, closed |-> FALSE,
           replay |-> <<>>]

Init ==
  /\ active = TRUE /\ panicked = FALSE
  /\ queue = <<>> /\ buffer = <<>>
  /\ connectorBuffers = [c \in Connectors |-> <<>>]
  /\ online = [c \in Connectors |-> FALSE] /\ known = [c \in Connectors |-> FALSE]
  /\ subscribers = [c \in Connectors |-> NoStream]
  /\ stream = [h \in Streams |-> NoCall]
  /\ distributor = Idle
  /\ push = [s \in Senders |-> NoPush]
  /\ pushed = 0 /\ accepted = {}

Alive == panicked = FALSE /\ panicked' = FALSE
Panic ==
  /\ panicked = FALSE /\ panicked' = TRUE
  /\ UNCHANGED <<active, queue, buffers, status, subscribers, stream, distributor, push,
                 pushed, accepted>>

-----------------------------------------------------------------------------
(* PushData *)

\* mutant: a full buffer takes nothing more
BufferOldestStay(b, p) == IF Len(b) >= ConnectorCap THEN b ELSE Append(b, p)

\* BufferDataForOfflineConnector: the oldest packet makes room
BufferDataForOfflineConnector(b, p) ==
  IF Len(b) >= ConnectorCap THEN Append(Tail(b), p) ELSE Append(b, p)

\* PushData returns nil
Accept(s, p) ==
  /\ accepted' = accepted \union {p}
  /\ push' = [push EXCEPT ![s] = NoPush]

\* PushData up to the offline targets: whether there are subscribers, and a copy into the
\* buffer of every receiver that is neither subscribed nor online
PushRoute(s, to) ==
  LET p == [n |-> pushed + 1, from |-> s, to |-> to]
      waiting == {c \in Addressed(p) : ~Subscribed(c)}
  IN  /\ Alive
      /\ push[s] = NoPush /\ active /\ pushed < MaxPackets
      /\ pushed' = pushed + 1
      /\ IF Addressed(p) = {}
           THEN Accept(s, p) /\ UNCHANGED connectorBuffers
           ELSE /\ push' = [push EXCEPT ![s] =
                     [pc |-> "decide", p |-> p,
                      hasSubscribers |-> \E c \in Connectors : Subscribed(c)]]
                /\ connectorBuffers' =
                     [c \in Connectors |->
                        IF c \in waiting /\ ~online[c]
                          THEN BufferDataForOfflineConnector(connectorBuffers[c], p)
                          ELSE connectorBuffers[c]]
                /\ UNCHANGED accepted
      /\ UNCHANGED <<active, queue, buffer, status, subscribers, stream, distributor>>

\* PushData decides to buffer when a receiver is online and not subscribed
PushDecide(s) ==
  /\ Alive
  /\ push[s].pc = "decide"
  /\ push' = [push EXCEPT ![s] =
       [pc |-> "enqueue", p |-> @.p, hasSubscribers |-> @.hasSubscribers,
        shouldBuffer |-> \E c \in Addressed(@.p) : ~Subscribed(c) /\ online[c]]]
  /\ UNCHANGED <<active, queue, buffers, status, subscribers, stream, distributor, pushed,
                 accepted>>

\* PushData sends to dataQueue; after 5 s without room it returns an error
PushEnqueue(s) ==
  /\ Alive
  /\ push[s].pc = "enqueue" /\ (active \/ ~push[s].hasSubscribers)
  /\ \/ /\ ~push[s].hasSubscribers
        /\ push' = [push EXCEPT ![s].pc = "buffer"] /\ UNCHANGED queue
     \/ /\ push[s].hasSubscribers /\ Len(queue) < QueueCap
        /\ queue' = Append(queue, push[s].p)
        /\ push' = [push EXCEPT ![s].pc = "buffer"]
     \/ /\ push[s].hasSubscribers /\ Len(queue) >= QueueCap
        /\ push' = [push EXCEPT ![s] = NoPush] /\ UNCHANGED queue
  /\ UNCHANGED <<active, buffers, status, subscribers, stream, distributor, pushed, accepted>>

\* ... unless the queue was closed meanwhile
PushPanics(s) ==
  /\ push[s].pc = "enqueue" /\ push[s].hasSubscribers /\ ~active
  /\ Panic

\* PushData buffers the packet, or returns an error when the buffer is full
PushBuffer(s) ==
  /\ Alive
  /\ push[s].pc = "buffer"
  /\ IF push[s].shouldBuffer /\ Len(buffer) >= BufferCap
       THEN push' = [push EXCEPT ![s] = NoPush] /\ UNCHANGED <<buffer, accepted>>
       ELSE /\ buffer' = IF push[s].shouldBuffer THEN Append(buffer, push[s].p) ELSE buffer
            /\ Accept(s, push[s].p)
  /\ UNCHANGED <<active, queue, connectorBuffers, status, subscribers, stream, distributor,
                 pushed>>

-----------------------------------------------------------------------------
(* startDataDistribution *)

\* mutant: newest packet first
DistributorTakesLast ==
  /\ Alive
  /\ distributor.todo = {} /\ queue # <<>>
  /\ distributor' = [p |-> Last(queue),
                     todo |-> {subscribers[c] : c \in {d \in Connectors :
                                 Subscribed(d) /\ ShouldSend(Last(queue), d)}}]
  /\ queue' = Front(queue)
  /\ UNCHANGED <<active, buffers, status, subscribers, stream, push, pushed, accepted>>

\* The distributor takes a packet and a copy of the subscribers
DistributorTakes ==
  /\ Alive
  /\ distributor.todo = {} /\ queue # <<>>
  /\ distributor' = [p |-> Head(queue),
                     todo |-> {subscribers[c] : c \in {d \in Connectors :
                                 Subscribed(d) /\ ShouldSend(Head(queue), d)}}]
  /\ queue' = Tail(queue)
  /\ UNCHANGED <<active, buffers, status, subscribers, stream, push, pushed, accepted>>

\* mutant: there is no timeout
DistributorSendsOrWaits(h) ==
  /\ Alive
  /\ h \in distributor.todo /\ ~stream[h].closed
  /\ Len(stream[h].chan) < StreamCap
  /\ stream' = [stream EXCEPT ![h].chan = Append(@, [p |-> distributor.p, live |-> TRUE])]
  /\ distributor' = [distributor EXCEPT !.todo = @ \ {h}]
  /\ UNCHANGED <<active, queue, buffers, status, subscribers, push, pushed, accepted>>

\* It sends to one of them, and gives up after 1 s when there is no room
DistributorSends(h) ==
  /\ Alive
  /\ h \in distributor.todo /\ ~stream[h].closed
  /\ stream' = [stream EXCEPT ![h].chan =
       IF Len(@) < StreamCap THEN Append(@, [p |-> distributor.p, live |-> TRUE]) ELSE @]
  /\ distributor' = [distributor EXCEPT !.todo = @ \ {h}]
  /\ UNCHANGED <<active, queue, buffers, status, subscribers, push, pushed, accepted>>

\* ... unless that subscriber left meanwhile
DistributorPanics(h) ==
  /\ h \in distributor.todo /\ stream[h].closed
  /\ Panic

-----------------------------------------------------------------------------
(* SubscribeData *)

\* A connector opens a stream: the call notes whether it is back after more than 5 s and
\* marks it online
SubscribeDataOpens(h, isRecovery) ==
  /\ Alive
  /\ stream[h].pc = "free"
  /\ isRecovery => known[Caller[h]]
  /\ stream' = [stream EXCEPT ![h].pc = "opened", ![h].isRecovery = isRecovery]
  /\ online' = [online EXCEPT ![Caller[h]] = TRUE]
  /\ known' = [known EXCEPT ![Caller[h]] = TRUE]
  /\ UNCHANGED <<active, queue, buffers, subscribers, distributor, push, pushed, accepted>>

\* SubscribeWithRecovery: a new channel takes the place of the connector's old one, and what
\* is buffered is to be replayed; its own buffer only on recovery, and that is drained
SubscribeWithRecovery(h) ==
  /\ Alive
  /\ stream[h].pc = "opened" /\ active
  /\ LET c == Caller[h]
         own == IF stream[h].isRecovery THEN connectorBuffers[c] ELSE <<>>
     IN  /\ stream' = [stream EXCEPT ![h].pc = "streaming", ![h].replay = buffer \o own]
         /\ subscribers' = [subscribers EXCEPT ![c] = h]
         /\ connectorBuffers' =
              IF stream[h].isRecovery THEN [connectorBuffers EXCEPT ![c] = <<>>]
                                      ELSE connectorBuffers
  /\ UNCHANGED <<active, queue, buffer, status, distributor, push, pushed, accepted>>

\* SubscribeWithRecovery refuses: the call returns and marks the connector offline
SubscribeRefused(h) ==
  /\ Alive
  /\ stream[h].pc = "opened" /\ ~active
  /\ online' = [online EXCEPT ![Caller[h]] = FALSE]
  /\ stream' = [stream EXCEPT ![h].pc = "done"]
  /\ UNCHANGED <<active, queue, buffers, known, subscribers, distributor, push, pushed, accepted>>

\* The replaying goroutine passes over the packets for others to the next one for its connector
ReplayNext(h) ==
  {i \in DOMAIN stream[h].replay :
     /\ ShouldSend(stream[h].replay[i], Caller[h])
     /\ \A j \in 1..i-1 : ~ShouldSend(stream[h].replay[j], Caller[h])}

\* ... and sends it, or stops after 5 s without room
Replay(h) ==
  LET q == stream[h].replay
      room == Len(stream[h].chan) < StreamCap
  IN  /\ Alive
      /\ ~stream[h].closed
      /\ \E i \in ReplayNext(h) :
           stream' = [stream EXCEPT
             ![h].chan = IF room THEN Append(@, [p |-> q[i], live |-> FALSE]) ELSE @,
             ![h].replay = IF room THEN SubSeq(q, i + 1, Len(q)) ELSE <<>>]
      /\ UNCHANGED <<active, queue, buffers, status, subscribers, distributor, push, pushed,
                     accepted>>

\* ... unless the subscriber left meanwhile
ReplayPanics(h) ==
  /\ ReplayNext(h) # {} /\ stream[h].closed
  /\ Panic

\* The handler passes a packet to its connector
StreamSend(h) ==
  /\ Alive
  /\ stream[h].pc = "streaming" /\ stream[h].chan # <<>>
  /\ stream' = [stream EXCEPT ![h].got = Append(@, Head(stream[h].chan)), ![h].chan = Tail(@)]
  /\ UNCHANGED <<active, queue, buffers, status, subscribers, distributor, push, pushed, accepted>>

\* The handler ends: its channel is closed and empty, or its connector is gone
StreamEnds(h) ==
  /\ Alive
  /\ stream[h].pc = "streaming"
  /\ MayDisconnect \/ (stream[h].closed /\ stream[h].chan = <<>>)
  /\ stream' = [stream EXCEPT ![h].pc = "leaving"]
  /\ UNCHANGED <<active, queue, buffers, status, subscribers, distributor, push, pushed, accepted>>

\* mutant: the entry stays in the map
UnsubscribeKeepsEntry(h) ==
  /\ Alive
  /\ stream[h].pc = "leaving"
  /\ stream' = [k \in Streams |->
       [stream[k] EXCEPT !.pc = IF k = h THEN "left" ELSE @,
                         !.closed = @ \/ k = subscribers[Caller[h]]]]
  /\ UNCHANGED <<active, queue, buffers, status, subscribers, distributor, push, pushed, accepted>>

\* Its first deferred call: whatever channel the connector has now is closed
Unsubscribe(h) ==
  /\ Alive
  /\ stream[h].pc = "leaving"
  /\ stream' = [k \in Streams |->
       [stream[k] EXCEPT !.pc = IF k = h THEN "left" ELSE @,
                         !.closed = @ \/ k = subscribers[Caller[h]]]]
  /\ subscribers' = [subscribers EXCEPT ![Caller[h]] = NoStream]
  /\ UNCHANGED <<active, queue, buffers, status, distributor, push, pushed, accepted>>

\* Its second deferred call
MarkConnectorOffline(h) ==
  /\ Alive
  /\ stream[h].pc = "left"
  /\ stream' = [stream EXCEPT ![h].pc = "done"]
  /\ online' = [online EXCEPT ![Caller[h]] = FALSE]
  /\ UNCHANGED <<active, queue, buffers, known, subscribers, distributor, push, pushed, accepted>>

-----------------------------------------------------------------------------
(* The channel manager *)

\* CloseChannel closes dataQueue and every subscriber's channel
CloseChannel ==
  /\ Alive
  /\ MayClose /\ active
  /\ active' = FALSE
  /\ stream' = [h \in Streams |->
       [stream[h] EXCEPT !.closed = @ \/ \E c \in Connectors : subscribers[c] = h]]
  /\ subscribers' = [c \in Connectors |-> NoStream]
  /\ UNCHANGED <<queue, buffers, status, distributor, push, pushed, accepted>>

\* CleanupExpiredConnectorBuffers: the connector opened its last stream an hour ago
CleanupExpiredConnectorBuffers(c) ==
  /\ Alive
  /\ MayExpire /\ connectorBuffers[c] # <<>> /\ known[c]
  /\ connectorBuffers' = [connectorBuffers EXCEPT ![c] = <<>>]
  /\ known' = [known EXCEPT ![c] = FALSE]
  /\ online' = [online EXCEPT ![c] = FALSE]
  /\ UNCHANGED <<active, queue, buffer, subscribers, stream, distributor, push, pushed, accepted>>

Distribute ==
  \/ DistributorTakes
  \/ \E h \in Streams : DistributorSends(h)
  \/ \E h \in Streams : DistributorPanics(h)

Next ==
  \/ \E s \in Senders, to \in TargetSets : PushRoute(s, to)
  \/ \E s \in Senders : PushDecide(s)
  \/ \E s \in Senders : PushEnqueue(s)
  \/ \E s \in Senders : PushPanics(s)
  \/ \E s \in Senders : PushBuffer(s)
  \/ Distribute
  \/ \E h \in Streams, r \in BOOLEAN : SubscribeDataOpens(h, r)
  \/ \E h \in Streams : SubscribeWithRecovery(h)
  \/ \E h \in Streams : SubscribeRefused(h)
  \/ \E h \in Streams : Replay(h)
  \/ \E h \in Streams : ReplayPanics(h)
  \/ \E h \in Streams : StreamSend(h)
  \/ \E h \in Streams : StreamEnds(h)
  \/ \E h \in Streams : Unsubscribe(h)
  \/ \E h \in Streams : MarkConnectorOffline(h)
  \/ CloseChannel
  \/ \E c \in Connectors : CleanupExpiredConnectorBuffers(c)

SafetySpec == Init /\ [][Next]_vars

\* The distributor goroutine is scheduled; nobody has to push, to subscribe or to read
Spec == SafetySpec /\ WF_vars(Distribute)

-----------------------------------------------------------------------------
Items == [p : Packets, live : BOOLEAN]
Calls == [pc : {"free", "opened", "streaming", "leaving", "left", "done"}, isRecovery : BOOLEAN,
          chan : Seq(Items), got : Seq(Items), closed : BOOLEAN, replay : Seq(Packets)]
Pushes == [pc : {"idle"}]
          \union [pc : {"decide"}, p : Packets, hasSubscribers : BOOLEAN]
          \union [pc : {"enqueue", "buffer"}, p : Packets, hasSubscribers : BOOLEAN,
                  shouldBuffer : BOOLEAN]
Rounds == [todo : {{}}] \union [p : Packets, todo : SUBSET Streams]

\* Every variable has its type, and no channel or buffer is over its capacity, although two
\* goroutines send to a subscriber's channel and concurrent pushes fill the buffers
TypeOK ==
  /\ active \in BOOLEAN /\ panicked \in BOOLEAN
  /\ queue \in Seq(Packets) /\ Len(queue) <= QueueCap
  /\ buffer \in Seq(Packets) /\ Len(buffer) <= BufferCap
  /\ connectorBuffers \in [Connectors -> Seq(Packets)]
  /\ \A c \in Connectors : Len(connectorBuffers[c]) <= ConnectorCap
  /\ online \in [Connectors -> BOOLEAN] /\ known \in [Connectors -> BOOLEAN]
  /\ subscribers \in [Connectors -> Streams \union {NoStream}]
  /\ stream \in [Streams -> Calls]
  /\ \A h \in Streams : Len(stream[h].chan) <= StreamCap
  /\ distributor \in Rounds
  /\ push \in [Senders -> Pushes]
  /\ pushed \in 0..MaxPackets
  /\ accepted \subseteq Packets

\* No channel is closed twice: Unsubscribe and CloseChannel close what they find in
\* subscribers, and whatever the order in which the calls of a connector overlap, what is
\* there is the open channel of a call of that connector
RegisteredIsOpen ==
  \A c \in Connectors : Subscribed(c) =>
    /\ Caller[subscribers[c]] = c
    /\ stream[subscribers[c]].pc \in {"streaming", "leaving"}
    /\ ~stream[subscribers[c]].closed

\* Once the channel is closed nobody is subscribed to it, and nobody can be again: the
\* channel of a late subscription would never be closed, and its stream never end
ClosedHasNoSubscribers ==
  ~active => \A c \in Connectors : ~Subscribed(c)

\* A connector only gets what is addressed to it, live or out of the buffers that it shares
\* with the other receivers
OnlyAddressees ==
  \A h \in Streams : \A i \in DOMAIN stream[h].got :
    Caller[h] \in Addressed(stream[h].got[i].p)

\* "Data for an offline connector is buffered": a receiver that has not opened a stream yet has
\* every packet PushData accepted for it in its own buffer, or a full buffer of newer ones
StagedForOffline ==
  \A p \in accepted : \A c \in Addressed(p) :
    LET own == connectorBuffers[c]
    IN  (\A h \in Streams : Caller[h] = c => stream[h].pc = "free") =>
          \/ \E i \in DOMAIN own : own[i] = p
          \/ Len(own) = ConnectorCap /\ \A i \in DOMAIN own : own[i].n > p.n

\* The live packets of one sender reach a stream in the order in which they were pushed, and
\* none of them twice, also while the replay goroutine writes into the same channel
LiveInOrder ==
  \A h \in Streams :
    LET items == stream[h].got \o stream[h].chan
    IN  \A i, j \in DOMAIN items :
          i < j /\ items[i].live /\ items[j].live /\ items[i].p.from = items[j].p.from
            => items[i].p.n < items[j].p.n

\* Nobody can hold up the channel: a packet in dataQueue is taken out of it, even if the
\* subscribers it goes to never read
QueueMoves ==
  \A n \in 1..MaxPackets :
    (\E i \in DOMAIN queue : queue[i].n = n)
      ~> (panicked \/ \A i \in DOMAIN queue : queue[i].n # n)

\* SAFETY.  No channel is closed twice, and a closed one has no subscribers (SubscribeWithRecovery,
\* Unsubscribe, CloseChannel)
SubscribersConsistent == RegisteredIsOpen /\ ClosedHasNoSubscribers

\* SAFETY.  Queues and buffers keep to their capacities, and what is accepted waits for receivers that
\* were not there yet (PushData, BufferDataForOfflineConnector)
BuffersConsistent == TypeOK /\ StagedForOffline

\* SAFETY.  A stream carries what is addressed to its connector only, and live packets in order
\* (startDataDistribution, SubscribeWithRecovery)
StreamsConsistent == OnlyAddressees /\ LiveInOrder
=============================================================================
