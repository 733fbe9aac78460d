---------------------- MODULE ChannelDeliveryProofs ----------------------
(***************************************************************************)
(* Proofs about ChannelDelivery, for every set of connectors, calls and    *)
(* capacities, however many calls of one connector overlap.                *)
(*                                                                         *)
(* That subscribers only holds open channels is inductive once one adds    *)
(* that a call which has not subscribed yet has an open channel, since it  *)
(* is this channel that subscribing registers (IInv).                      *)
(*                                                                         *)
(* That a stream carries the packets of a sender in order needs the same   *)
(* of everything a packet passes through: what a connector was given and   *)
(* what is in its Go channel comes before what the distributor holds, that *)
(* before dataQueue, and that before the packets being pushed (FlowInv).   *)
(* That accepted packets wait for an absent connector needs to know which  *)
(* packets were promised to it and that its buffer gave way only to newer  *)
(* ones (StagingInv).                                                      *)
(***************************************************************************)
EXTENDS ChannelDelivery, TLAPS

Fields == {"pc", "isRecovery", "chan", "got", "closed", "replay"}

\* stream and subscribers are what the steps update: a record for every call, and an entry
\* for every connector
Shape ==
  /\ subscribers \in [Connectors -> Streams \union {NoStream}]
  /\ stream = [h \in Streams |-> stream[h]]
  /\ \A h \in Streams : stream[h] = [f \in Fields |-> stream[h][f]]

\* A call that has not subscribed yet has an open channel
FreshIsOpen ==
  \A h \in Streams : stream[h].pc \in {"free", "opened"} => stream[h].closed = FALSE

IInv == Shape /\ FreshIsOpen /\ RegisteredIsOpen /\ ClosedHasNoSubscribers

\* The kernel starts without calls and without subscribers
LEMMA InitIInv == Init => IInv
  BY DeliveryConstants
  DEF Init, IInv, Shape, Fields, NoCall, FreshIsOpen, RegisteredIsOpen, ClosedHasNoSubscribers,
      Subscribed, Connectors

\* A step that leaves the calls, the subscribers and the status alone
LEMMA OtherStep ==
  ASSUME IInv, UNCHANGED <<active, subscribers, stream>>
  PROVE  IInv'
  BY DEF IInv, Shape, FreshIsOpen, RegisteredIsOpen, ClosedHasNoSubscribers, Subscribed

\* A step that only changes the contents of one channel, or moves its call on from
\* streaming to leaving, from opened or left to done, or from free to opened
LEMMA CallStep ==
  ASSUME IInv, NEW h \in Streams, Shape',
         \A k \in Streams \ {h} : stream'[k] = stream[k],
         stream'[h].closed = stream[h].closed,
         \/ stream'[h].pc = stream[h].pc
         \/ stream[h].pc = "streaming" /\ stream'[h].pc = "leaving"
         \/ stream[h].pc \in {"opened", "left"} /\ stream'[h].pc = "done"
         \/ stream[h].pc = "free" /\ stream'[h].pc = "opened",
         UNCHANGED <<active, subscribers>>
  PROVE  IInv'
<1>1. FreshIsOpen'
  BY DEF IInv, FreshIsOpen
<1>2. RegisteredIsOpen'
  <2> SUFFICES ASSUME NEW c \in Connectors, Subscribed(c)'
               PROVE  /\ Caller[subscribers'[c]] = c
                      /\ stream'[subscribers'[c]].pc \in {"streaming", "leaving"}
                      /\ ~stream'[subscribers'[c]].closed
    BY DEF RegisteredIsOpen
  <2>1. Subscribed(c) /\ subscribers'[c] = subscribers[c] /\ subscribers[c] \in Streams
    BY DEF IInv, Shape, Subscribed
  <2>2. /\ Caller[subscribers[c]] = c
        /\ stream[subscribers[c]].pc \in {"streaming", "leaving"}
        /\ ~stream[subscribers[c]].closed
    BY <2>1 DEF IInv, RegisteredIsOpen
  <2>3. CASE subscribers[c] = h
    BY <2>1, <2>2, <2>3
  <2>4. CASE subscribers[c] # h
    BY <2>1, <2>2, <2>4
  <2> QED BY <2>3, <2>4
<1>3. ClosedHasNoSubscribers'
  BY DEF IInv, ClosedHasNoSubscribers, Subscribed
<1> QED BY <1>1, <1>2, <1>3 DEF IInv

\* Every step keeps the invariant
LEMMA StepIInv == IInv /\ [Next]_vars => IInv'
<1> SUFFICES ASSUME IInv, [Next]_vars PROVE IInv'
  OBVIOUS
<1> USE DEF IInv
<1>1. CASE \E s \in Senders, to \in TargetSets : PushRoute(s, to)
  BY <1>1, OtherStep DEF PushRoute
<1>2. CASE \E s \in Senders : PushDecide(s) \/ PushEnqueue(s) \/ PushPanics(s) \/ PushBuffer(s)
  BY <1>2, OtherStep DEF PushDecide, PushEnqueue, PushPanics, PushBuffer, Panic
<1>3. CASE DistributorTakes
  BY <1>3, OtherStep DEF DistributorTakes
<1>4. CASE \E h \in Streams : DistributorPanics(h) \/ ReplayPanics(h)
  BY <1>4, OtherStep DEF DistributorPanics, ReplayPanics, Panic
<1>5. ASSUME NEW h \in Streams, DistributorSends(h) PROVE IInv'
  <2>1. Shape'
    BY <1>5 DEF DistributorSends, Shape, Fields
  <2> QED BY <1>5, <2>1, CallStep DEF DistributorSends, Shape, Fields
<1>6. ASSUME NEW h \in Streams, NEW r \in BOOLEAN, SubscribeDataOpens(h, r) PROVE IInv'
  <2>1. Shape'
    BY <1>6 DEF SubscribeDataOpens, Shape, Fields
  <2> QED BY <1>6, <2>1, CallStep DEF SubscribeDataOpens, Shape, Fields
<1>7. ASSUME NEW h \in Streams, SubscribeWithRecovery(h) PROVE IInv'
  <2>1. Shape'
    BY <1>7, DeliveryConstants DEF SubscribeWithRecovery, Shape, Fields, Connectors
  <2>2. /\ stream[h].pc = "opened" /\ active /\ active'
        /\ stream'[h].pc = "streaming" /\ stream'[h].closed = stream[h].closed
        /\ \A k \in Streams \ {h} : stream'[k] = stream[k]
        /\ Caller[h] \in Connectors
        /\ subscribers' = [subscribers EXCEPT ![Caller[h]] = h]
    <3>1. /\ stream[h].pc = "opened" /\ active /\ active' = active
          /\ subscribers' = [subscribers EXCEPT ![Caller[h]] = h]
      BY <1>7 DEF SubscribeWithRecovery
    <3>2. PICK q : stream' = [stream EXCEPT ![h].pc = "streaming", ![h].replay = q]
      BY <1>7 DEF SubscribeWithRecovery
    <3>3. /\ stream'[h].pc = "streaming" /\ stream'[h].closed = stream[h].closed
          /\ \A k \in Streams \ {h} : stream'[k] = stream[k]
      BY <3>2 DEF Shape, Fields
    <3>4. Caller[h] \in Connectors
      BY DeliveryConstants DEF Connectors
    <3> QED BY <3>1, <3>3, <3>4
  <2>3. FreshIsOpen'
    BY <2>2 DEF FreshIsOpen
  <2>4. RegisteredIsOpen'
    <3> SUFFICES ASSUME NEW c \in Connectors, Subscribed(c)'
                 PROVE  /\ Caller[subscribers'[c]] = c
                        /\ stream'[subscribers'[c]].pc \in {"streaming", "leaving"}
                        /\ ~stream'[subscribers'[c]].closed
      BY DEF RegisteredIsOpen
    <3>1. CASE c = Caller[h]
      <4>1. subscribers'[c] = h
        BY <3>1, <2>2 DEF Shape
      <4> QED BY <4>1, <3>1, <2>2 DEF FreshIsOpen
    <3>2. CASE c # Caller[h]
      <4>1. subscribers'[c] = subscribers[c] /\ Subscribed(c) /\ subscribers[c] \in Streams
        BY <3>2, <2>2 DEF Shape, Subscribed
      <4>2. Caller[subscribers[c]] = c /\ subscribers[c] # h
        BY <4>1, <3>2 DEF RegisteredIsOpen
      <4> QED BY <4>1, <4>2, <2>2 DEF RegisteredIsOpen
    <3> QED BY <3>1, <3>2
  <2>5. ClosedHasNoSubscribers'
    BY <2>2 DEF ClosedHasNoSubscribers
  <2> QED BY <2>1, <2>3, <2>4, <2>5
<1>8. ASSUME NEW h \in Streams, SubscribeRefused(h) PROVE IInv'
  <2>1. Shape'
    BY <1>8 DEF SubscribeRefused, Shape, Fields
  <2> QED BY <1>8, <2>1, CallStep DEF SubscribeRefused, Shape, Fields
<1>9. ASSUME NEW h \in Streams, Replay(h) PROVE IInv'
  <2>1. PICK q, r : stream' = [stream EXCEPT ![h].chan = q, ![h].replay = r]
    BY <1>9 DEF Replay
  <2>2. UNCHANGED <<active, subscribers>>
    BY <1>9 DEF Replay
  <2>3. Shape'
    BY <2>1, <2>2 DEF Shape, Fields
  <2> QED BY <2>1, <2>2, <2>3, CallStep DEF Shape, Fields
<1>10. ASSUME NEW h \in Streams, StreamSend(h) PROVE IInv'
  <2>1. Shape'
    BY <1>10 DEF StreamSend, Shape, Fields
  <2> QED BY <1>10, <2>1, CallStep DEF StreamSend, Shape, Fields
<1>11. ASSUME NEW h \in Streams, StreamEnds(h) PROVE IInv'
  <2>1. Shape'
    BY <1>11 DEF StreamEnds, Shape, Fields
  <2> QED BY <1>11, <2>1, CallStep DEF StreamEnds, Shape, Fields
<1>12. ASSUME NEW h \in Streams, Unsubscribe(h) PROVE IInv'
  <2>1. Shape'
    BY <1>12, DeliveryConstants DEF Unsubscribe, Shape, Fields, Connectors
  <2>2. /\ stream[h].pc = "leaving" /\ active' = active
        /\ Caller[h] \in Connectors
        /\ subscribers' = [subscribers EXCEPT ![Caller[h]] = NoStream]
        /\ \A k \in Streams :
             /\ stream'[k].pc = IF k = h THEN "left" ELSE stream[k].pc
             /\ stream'[k].closed = (stream[k].closed \/ k = subscribers[Caller[h]])
    <3>1. /\ stream[h].pc = "leaving" /\ active' = active
          /\ subscribers' = [subscribers EXCEPT ![Caller[h]] = NoStream]
      BY <1>12 DEF Unsubscribe
    <3>2. Caller[h] \in Connectors
      BY DeliveryConstants DEF Connectors
    <3>3. stream' = [k \in Streams |->
            [stream[k] EXCEPT !.pc = IF k = h THEN "left" ELSE @,
                              !.closed = @ \/ k = subscribers[Caller[h]]]]
      BY <1>12 DEF Unsubscribe
    <3>4. ASSUME NEW k \in Streams
          PROVE  /\ stream'[k].pc = IF k = h THEN "left" ELSE stream[k].pc
                 /\ stream'[k].closed = (stream[k].closed \/ k = subscribers[Caller[h]])
      BY <3>3 DEF Shape, Fields
    <3> QED BY <3>1, <3>2, <3>4
  <2>3. FreshIsOpen'
    <3> SUFFICES ASSUME NEW k \in Streams, stream'[k].pc \in {"free", "opened"}
                 PROVE  stream'[k].closed = FALSE
      BY DEF FreshIsOpen
    <3>1. k # h /\ stream[k].pc \in {"free", "opened"} /\ stream[k].closed = FALSE
      BY <2>2 DEF FreshIsOpen
    <3>2. k # subscribers[Caller[h]]
      BY <2>2, <3>1, DeliveryConstants DEF RegisteredIsOpen, Subscribed
    <3> QED BY <2>2, <3>1, <3>2
  <2>4. RegisteredIsOpen'
    <3> SUFFICES ASSUME NEW c \in Connectors, Subscribed(c)'
                 PROVE  /\ Caller[subscribers'[c]] = c
                        /\ stream'[subscribers'[c]].pc \in {"streaming", "leaving"}
                        /\ ~stream'[subscribers'[c]].closed
      BY DEF RegisteredIsOpen
    <3>1. /\ c # Caller[h] /\ subscribers'[c] = subscribers[c] /\ Subscribed(c)
          /\ subscribers[c] \in Streams
      BY <2>2 DEF Shape, Subscribed
    <3>2. /\ Caller[subscribers[c]] = c /\ subscribers[c] # h
          /\ stream[subscribers[c]].pc \in {"streaming", "leaving"}
          /\ ~stream[subscribers[c]].closed
      BY <3>1 DEF RegisteredIsOpen
    <3>3. subscribers[c] # subscribers[Caller[h]]
      BY <2>2, <3>1, <3>2, DeliveryConstants DEF RegisteredIsOpen, Subscribed
    <3> QED BY <2>2, <3>1, <3>2, <3>3
  <2>5. ClosedHasNoSubscribers'
    BY <2>2 DEF ClosedHasNoSubscribers, Subscribed, Shape
  <2> QED BY <2>1, <2>3, <2>4, <2>5
<1>13. ASSUME NEW h \in Streams, MarkConnectorOffline(h) PROVE IInv'
  <2>1. Shape'
    BY <1>13 DEF MarkConnectorOffline, Shape, Fields
  <2> QED BY <1>13, <2>1, CallStep DEF MarkConnectorOffline, Shape, Fields
<1>14. CASE CloseChannel
  <2>1. Shape'
    BY <1>14 DEF CloseChannel, Shape, Fields
  <2>2. /\ \A c \in Connectors : subscribers'[c] = NoStream
        /\ \A k \in Streams :
             /\ stream'[k].pc = stream[k].pc
             /\ stream'[k].closed = (stream[k].closed \/ \E c \in Connectors : subscribers[c] = k)
    BY <1>14 DEF CloseChannel, Shape, Fields
  <2>3. FreshIsOpen'
    <3> SUFFICES ASSUME NEW k \in Streams, stream'[k].pc \in {"free", "opened"}
                 PROVE  stream'[k].closed = FALSE
      BY DEF FreshIsOpen
    <3>1. stream[k].pc \in {"free", "opened"} /\ stream[k].closed = FALSE
      BY <2>2 DEF FreshIsOpen
    <3>2. \A c \in Connectors : subscribers[c] # k
      BY <3>1, DeliveryConstants DEF RegisteredIsOpen, Subscribed
    <3> QED BY <2>2, <3>1, <3>2
  <2>4. RegisteredIsOpen' /\ ClosedHasNoSubscribers'
    BY <2>2 DEF RegisteredIsOpen, ClosedHasNoSubscribers, Subscribed
  <2> QED BY <2>1, <2>3, <2>4
<1>15. CASE \E c \in Connectors : CleanupExpiredConnectorBuffers(c)
  BY <1>15, OtherStep DEF CleanupExpiredConnectorBuffers
<1>16. CASE UNCHANGED vars
  BY <1>16, OtherStep DEF vars
<1> QED
  BY <1>1, <1>2, <1>3, <1>4, <1>5, <1>6, <1>7, <1>8, <1>9, <1>10, <1>11, <1>12, <1>13, <1>14,
     <1>15, <1>16 DEF Next, Distribute

-----------------------------------------------------------------------------
(* Types and capacities, and what a step does to the calls *)

\* A step replaces the record of one call
CallBecomes(h, c) ==
  /\ stream' \in [Streams -> Calls]
  /\ \A k \in Streams : stream'[k] = IF k = h THEN c ELSE stream[k]

\* A step leaves every channel and what came out of it alone
SameContents ==
  \A k \in Streams : stream'[k].chan = stream[k].chan /\ stream'[k].got = stream[k].got

\* A call that has begun does not become free again
NoneFreed ==
  \A k \in Streams : stream'[k].pc = "free" => stream[k].pc = "free"

StreamTypes ==
  stream \in [Streams -> Calls] /\ \A k \in Streams : Len(stream[k].chan) <= StreamCap

\* Replacing a record
LEMMA OneCall ==
  ASSUME TypeOK, NEW h \in Streams, NEW c \in Calls, stream' = [stream EXCEPT ![h] = c]
  PROVE  CallBecomes(h, c)
  BY DEF TypeOK, CallBecomes

\* Replacing a record by one with the same channel
LEMMA QuietCall ==
  ASSUME TypeOK, NEW h \in Streams, NEW c \in Calls, CallBecomes(h, c),
         c.chan = stream[h].chan, c.got = stream[h].got, c.pc # "free"
  PROVE  SameContents /\ NoneFreed /\ StreamTypes'
  BY DEF TypeOK, CallBecomes, SameContents, NoneFreed, StreamTypes

LEMMA OpensEffect ==
  ASSUME TypeOK, NEW h \in Streams, NEW r \in BOOLEAN, SubscribeDataOpens(h, r)
  PROVE  /\ SameContents /\ NoneFreed /\ StreamTypes'
         /\ stream'[h].pc = "opened"
<1>1. PICK c : c = [stream[h] EXCEPT !.pc = "opened", !.isRecovery = r]
  OBVIOUS
<1>2. stream[h] \in Calls
  BY DEF TypeOK
<1>3. /\ c \in Calls /\ c.chan = stream[h].chan /\ c.got = stream[h].got /\ c.pc = "opened"
  BY <1>1, <1>2 DEF Calls
<1>4. stream' = [stream EXCEPT ![h] = c]
  BY <1>1, <1>2 DEF SubscribeDataOpens, TypeOK
<1>5. CallBecomes(h, c)
  BY <1>3, <1>4, OneCall
<1> QED BY <1>3, <1>5, QuietCall DEF CallBecomes

LEMMA SubscribeEffect ==
  ASSUME TypeOK, NEW h \in Streams, SubscribeWithRecovery(h)
  PROVE  SameContents /\ NoneFreed /\ StreamTypes'
<1>0. stream[h] \in Calls /\ Caller[h] \in Connectors
  BY DeliveryConstants DEF TypeOK, Connectors
<1>1. PICK own : own = IF stream[h].isRecovery THEN connectorBuffers[Caller[h]] ELSE <<>>
  OBVIOUS
<1>2. own \in Seq(Packets)
  BY <1>0, <1>1 DEF TypeOK
<1>3. PICK q : q = buffer \o own
  OBVIOUS
<1>4. q \in Seq(Packets)
  BY <1>2, <1>3 DEF TypeOK
<1>5. stream' = [stream EXCEPT ![h].pc = "streaming", ![h].replay = q]
  BY <1>1, <1>3 DEF SubscribeWithRecovery
<1>6. PICK c : c = [stream[h] EXCEPT !.pc = "streaming", !.replay = q]
  OBVIOUS
<1>7. c \in Calls /\ c.chan = stream[h].chan /\ c.got = stream[h].got /\ c.pc # "free"
  BY <1>0, <1>4, <1>6 DEF Calls
<1>8. stream' = [stream EXCEPT ![h] = c]
  BY <1>0, <1>5, <1>6 DEF TypeOK
<1>9. CallBecomes(h, c)
  BY <1>7, <1>8, OneCall
<1> QED BY <1>7, <1>9, QuietCall

LEMMA MoveEffect ==
  ASSUME TypeOK, NEW h \in Streams, NEW pc \in {"leaving", "done"},
         stream' = [stream EXCEPT ![h].pc = pc]
  PROVE  SameContents /\ NoneFreed /\ StreamTypes'
<1>1. PICK c : c = [stream[h] EXCEPT !.pc = pc]
  OBVIOUS
<1>2. stream[h] \in Calls
  BY DEF TypeOK
<1>3. c \in Calls /\ c.chan = stream[h].chan /\ c.got = stream[h].got /\ c.pc # "free"
  BY <1>1, <1>2 DEF Calls
<1>4. stream' = [stream EXCEPT ![h] = c]
  BY <1>1, <1>2 DEF TypeOK
<1>5. CallBecomes(h, c)
  BY <1>3, <1>4, OneCall
<1> QED BY <1>3, <1>5, QuietCall

\* Replacing every record by one with the same channel
LEMMA QuietCalls ==
  ASSUME TypeOK, stream' \in [Streams -> Calls],
         \A k \in Streams : /\ stream'[k].chan = stream[k].chan /\ stream'[k].got = stream[k].got
                            /\ stream'[k].pc = "free" => stream[k].pc = "free"
  PROVE  SameContents /\ NoneFreed /\ StreamTypes'
  BY DEF TypeOK, SameContents, NoneFreed, StreamTypes

\* What the calls become when some channels are closed
LEMMA CloseEffect ==
  ASSUME TypeOK, NEW closes, NEW h,
         stream' = [k \in Streams |->
           [stream[k] EXCEPT !.pc = IF k = h THEN "left" ELSE @, !.closed = @ \/ k \in closes]]
  PROVE  SameContents /\ NoneFreed /\ StreamTypes'
<1>1. ASSUME NEW k \in Streams
      PROVE  /\ stream'[k] \in Calls /\ stream'[k].chan = stream[k].chan
             /\ stream'[k].got = stream[k].got
             /\ stream'[k].pc = "free" => stream[k].pc = "free"
  <2>1. stream[k] \in Calls
    BY DEF TypeOK
  <2>2. PICK b : b = (stream[k].closed \/ k \in closes)
    OBVIOUS
  <2>3. PICK pc : pc = IF k = h THEN "left" ELSE stream[k].pc
    OBVIOUS
  <2>4. b \in BOOLEAN /\ pc \in {"free", "opened", "streaming", "leaving", "left", "done"}
    BY <2>1, <2>2, <2>3 DEF Calls
  <2>5. stream'[k] = [stream[k] EXCEPT !.pc = pc, !.closed = b]
    BY <2>2, <2>3
  <2>6. PICK c : c = [stream[k] EXCEPT !.pc = pc, !.closed = b]
    OBVIOUS
  <2>7. c \in Calls /\ c.chan = stream[k].chan /\ c.got = stream[k].got /\ c.pc = pc
    BY <2>1, <2>4, <2>6 DEF Calls
  <2>8. stream'[k] = c
    BY <2>5, <2>6
  <2> QED BY <2>1, <2>3, <2>7, <2>8
<1>2. stream' = [k \in Streams |-> stream'[k]]
  OBVIOUS
<1>3. stream' \in [Streams -> Calls]
  BY <1>1, <1>2
<1> QED BY <1>1, <1>3, QuietCalls

LEMMA UnsubscribeEffect ==
  ASSUME TypeOK, NEW h \in Streams, Unsubscribe(h)
  PROVE  SameContents /\ NoneFreed /\ StreamTypes'
<1>1. stream' = [k \in Streams |->
        [stream[k] EXCEPT !.pc = IF k = h THEN "left" ELSE @,
                          !.closed = @ \/ k \in {subscribers[Caller[h]]}]]
  BY DEF Unsubscribe
<1> QED BY <1>1, CloseEffect

LEMMA CloseChannelEffect ==
  ASSUME TypeOK, CloseChannel
  PROVE  SameContents /\ NoneFreed /\ StreamTypes'
<1>1. ASSUME NEW k \in Streams
      PROVE  /\ stream'[k] \in Calls /\ stream'[k].chan = stream[k].chan
             /\ stream'[k].got = stream[k].got /\ stream'[k].pc = stream[k].pc
  <2>1. stream[k] \in Calls
    BY DEF TypeOK
  <2>2. PICK b : b = (stream[k].closed \/ \E c \in Connectors : subscribers[c] = k)
    OBVIOUS
  <2>3. b \in BOOLEAN
    BY <2>1, <2>2 DEF Calls
  <2>4. PICK c : c = [stream[k] EXCEPT !.closed = b]
    OBVIOUS
  <2>5. c \in Calls /\ c.chan = stream[k].chan /\ c.got = stream[k].got /\ c.pc = stream[k].pc
    BY <2>1, <2>3, <2>4 DEF Calls
  <2>6. stream'[k] = c
    BY <2>2, <2>4 DEF CloseChannel
  <2> QED BY <2>5, <2>6
<1>2. stream' = [k \in Streams |-> stream'[k]]
  BY DEF CloseChannel
<1>3. stream' \in [Streams -> Calls]
  BY <1>1, <1>2
<1> QED BY <1>1, <1>3, QuietCalls

\* A step changes the channel of one call and what came out of it
NewContents(h, chan, got) ==
  \A k \in Streams :
    /\ stream'[k].chan = IF k = h THEN chan ELSE stream[k].chan
    /\ stream'[k].got = IF k = h THEN got ELSE stream[k].got

\* Such a step keeps the types, and no call begins or ends
LEMMA ContentsCall ==
  ASSUME TypeOK, NEW h \in Streams, NEW chan \in Seq(Items), NEW got \in Seq(Items),
         NEW replay \in Seq(Packets), Len(chan) <= StreamCap,
         stream' = [stream EXCEPT ![h] =
           [stream[h] EXCEPT !.chan = chan, !.got = got, !.replay = replay]]
  PROVE  NewContents(h, chan, got) /\ NoneFreed /\ StreamTypes'
<1>1. stream[h] \in Calls
  BY DEF TypeOK
<1>2. PICK c : c = [stream[h] EXCEPT !.chan = chan, !.got = got, !.replay = replay]
  OBVIOUS
<1>3. c \in Calls /\ c.chan = chan /\ c.got = got /\ c.pc = stream[h].pc
  BY <1>1, <1>2 DEF Calls
<1>4. CallBecomes(h, c)
  BY <1>2, <1>3, OneCall
<1>5. ASSUME NEW k \in Streams
      PROVE  /\ stream'[k].chan = IF k = h THEN chan ELSE stream[k].chan
             /\ stream'[k].got = IF k = h THEN got ELSE stream[k].got
             /\ stream'[k].pc = stream[k].pc
             /\ Len(stream'[k].chan) <= StreamCap
  <2>1. CASE k = h
    BY <1>3, <1>4, <2>1 DEF CallBecomes
  <2>2. CASE k # h
    BY <1>4, <2>2 DEF CallBecomes, TypeOK
  <2> QED BY <2>1, <2>2
<1>6. stream' \in [Streams -> Calls]
  BY <1>4 DEF CallBecomes
<1> QED BY <1>5, <1>6 DEF NewContents, NoneFreed, StreamTypes

LEMMA SendsEffect ==
  ASSUME TypeOK, NEW h \in Streams, DistributorSends(h)
  PROVE  /\ NoneFreed /\ StreamTypes' /\ distributor.p \in Packets
         /\ \E chan \in {stream[h].chan,
                         Append(stream[h].chan, [p |-> distributor.p, live |-> TRUE])} :
              NewContents(h, chan, stream[h].got)
<1>1. /\ stream[h] \in Calls /\ distributor.p \in Packets /\ StreamCap \in Nat
      /\ Len(stream[h].chan) <= StreamCap
  BY DeliveryConstants DEF TypeOK, Rounds, DistributorSends
<1>2. PICK chan : chan = IF Len(stream[h].chan) < StreamCap
                         THEN Append(stream[h].chan, [p |-> distributor.p, live |-> TRUE])
                         ELSE stream[h].chan
  OBVIOUS
<1>3. [p |-> distributor.p, live |-> TRUE] \in Items
  BY <1>1 DEF Items
<1>4. /\ stream[h].chan \in Seq(Items) /\ stream[h].got \in Seq(Items)
      /\ stream[h].replay \in Seq(Packets)
  BY <1>1 DEF Calls
<1>5. chan \in Seq(Items) /\ Len(chan) <= StreamCap
  BY <1>1, <1>2, <1>3, <1>4
<1>6. stream' = [stream EXCEPT ![h].chan = chan]
  BY <1>2 DEF DistributorSends
<1>7. stream' = [stream EXCEPT ![h] = [stream[h] EXCEPT
        !.chan = chan, !.got = stream[h].got, !.replay = stream[h].replay]]
  BY <1>1, <1>6 DEF TypeOK, Calls
<1>8. NewContents(h, chan, stream[h].got) /\ NoneFreed /\ StreamTypes'
  BY <1>4, <1>5, <1>7, ContentsCall
<1> QED BY <1>1, <1>2, <1>8

LEMMA ReplayEffect ==
  ASSUME TypeOK, NEW h \in Streams, Replay(h)
  PROVE  /\ NoneFreed /\ StreamTypes'
         /\ \E p \in Packets :
              /\ ShouldSend(p, Caller[h])
              /\ \E chan \in {stream[h].chan, Append(stream[h].chan, [p |-> p, live |-> FALSE])} :
                   NewContents(h, chan, stream[h].got)
<1>1. /\ stream[h] \in Calls /\ StreamCap \in Nat /\ Len(stream[h].chan) <= StreamCap
  BY DeliveryConstants DEF TypeOK
<1>2. PICK i \in ReplayNext(h) :
        stream' = [stream EXCEPT
          ![h].chan = IF Len(stream[h].chan) < StreamCap
                        THEN Append(@, [p |-> stream[h].replay[i], live |-> FALSE]) ELSE @,
          ![h].replay = IF Len(stream[h].chan) < StreamCap
                          THEN SubSeq(stream[h].replay, i + 1, Len(stream[h].replay))
                          ELSE <<>>]
  BY DEF Replay
<1>3. /\ stream[h].chan \in Seq(Items) /\ stream[h].got \in Seq(Items)
      /\ stream[h].replay \in Seq(Packets)
  BY <1>1 DEF Calls
<1>4. PICK p : p = stream[h].replay[i]
  OBVIOUS
<1>5. i \in 1..Len(stream[h].replay) /\ p \in Packets /\ ShouldSend(p, Caller[h])
  BY <1>2, <1>3, <1>4 DEF ReplayNext
<1>6. [p |-> p, live |-> FALSE] \in Items
  BY <1>5 DEF Items
<1>7. PICK chan : chan = IF Len(stream[h].chan) < StreamCap
                         THEN Append(stream[h].chan, [p |-> p, live |-> FALSE])
                         ELSE stream[h].chan
  OBVIOUS
<1>8. PICK replay : replay = IF Len(stream[h].chan) < StreamCap
                             THEN SubSeq(stream[h].replay, i + 1, Len(stream[h].replay))
                             ELSE <<>>
  OBVIOUS
<1>9. chan \in Seq(Items) /\ Len(chan) <= StreamCap
  BY <1>1, <1>3, <1>6, <1>7
<1>10. replay \in Seq(Packets)
  BY <1>3, <1>5, <1>8
<1>11. stream' = [stream EXCEPT ![h].chan = chan, ![h].replay = replay]
  BY <1>2, <1>4, <1>7, <1>8
<1>12. stream' = [stream EXCEPT ![h] = [stream[h] EXCEPT
         !.chan = chan, !.got = stream[h].got, !.replay = replay]]
  <2>1. PICK c : c = [stream[h] EXCEPT !.chan = chan, !.replay = replay]
    OBVIOUS
  <2>2. c = [stream[h] EXCEPT !.chan = chan, !.got = stream[h].got, !.replay = replay]
    BY <1>1, <2>1 DEF Calls
  <2>3. stream' = [stream EXCEPT ![h] = c]
    BY <1>11, <2>1
  <2> QED BY <2>2, <2>3
<1>13. NewContents(h, chan, stream[h].got) /\ NoneFreed /\ StreamTypes'
  BY <1>3, <1>9, <1>10, <1>12, ContentsCall
<1> QED BY <1>5, <1>7, <1>13

LEMMA StreamSendEffect ==
  ASSUME TypeOK, NEW h \in Streams, StreamSend(h)
  PROVE  /\ NoneFreed /\ StreamTypes'
         /\ stream[h].chan # <<>>
         /\ NewContents(h, Tail(stream[h].chan), Append(stream[h].got, Head(stream[h].chan)))
<1>1. /\ stream[h] \in Calls /\ StreamCap \in Nat /\ Len(stream[h].chan) <= StreamCap
      /\ stream[h].chan # <<>>
  BY DeliveryConstants DEF TypeOK, StreamSend
<1>3. /\ stream[h].chan \in Seq(Items) /\ stream[h].got \in Seq(Items)
      /\ stream[h].replay \in Seq(Packets)
  BY <1>1 DEF Calls
<1>4. PICK chan, got : /\ chan = Tail(stream[h].chan)
                       /\ got = Append(stream[h].got, Head(stream[h].chan))
  OBVIOUS
<1>5. chan \in Seq(Items) /\ got \in Seq(Items) /\ Len(chan) <= StreamCap
  BY <1>1, <1>3, <1>4
<1>6. stream' = [stream EXCEPT ![h].got = got, ![h].chan = chan]
  BY <1>4 DEF StreamSend
<1>7. stream' = [stream EXCEPT ![h] = [stream[h] EXCEPT
        !.chan = chan, !.got = got, !.replay = stream[h].replay]]
  <2>1. PICK c : c = [stream[h] EXCEPT !.got = got, !.chan = chan]
    OBVIOUS
  <2>2. c = [stream[h] EXCEPT !.chan = chan, !.got = got, !.replay = stream[h].replay]
    BY <1>1, <2>1 DEF Calls
  <2>3. stream' = [stream EXCEPT ![h] = c]
    BY <1>6, <2>1
  <2> QED BY <2>2, <2>3
<1>8. NewContents(h, chan, got) /\ NoneFreed /\ StreamTypes'
  BY <1>3, <1>5, <1>7, ContentsCall
<1> QED BY <1>1, <1>4, <1>8

\* A step replaces the record of one PushData
PushBecomes(s, r) ==
  /\ push' \in [Senders -> Pushes]
  /\ \A t \in Senders : push'[t] = IF t = s THEN r ELSE push[t]

LEMMA OnePush ==
  ASSUME TypeOK, NEW s \in Senders, NEW r \in Pushes, push' = [push EXCEPT ![s] = r]
  PROVE  PushBecomes(s, r)
  BY DEF TypeOK, PushBecomes

\* What a PushData under way carries
LEMMA PushCarries ==
  ASSUME TypeOK, NEW s \in Senders, push[s].pc # "idle"
  PROVE  push[s].p \in Packets /\ push[s].hasSubscribers \in BOOLEAN
  BY DEF TypeOK, Pushes

LEMMA IdlePush == NoPush \in Pushes /\ NoPush.pc = "idle"
  BY DEF NoPush, Pushes

\* The packet PushRoute makes, where it goes and who waits for it
LEMMA RouteEffect ==
  ASSUME TypeOK, NEW s \in Senders, NEW to \in TargetSets, PushRoute(s, to)
  PROVE  \E p \in Packets :
           /\ p.n = pushed + 1 /\ p.from = s /\ pushed' = pushed + 1 /\ pushed' \in 0..MaxPackets
           /\ \/ /\ Addressed(p) = {} /\ accepted' = accepted \union {p}
                 /\ PushBecomes(s, NoPush) /\ UNCHANGED connectorBuffers
              \/ /\ UNCHANGED accepted
                 /\ \E r \in Pushes : r.pc = "decide" /\ r.p = p /\ PushBecomes(s, r)
                 /\ connectorBuffers' =
                      [c \in Connectors |->
                         IF c \in Addressed(p) /\ ~Subscribed(c) /\ ~online[c]
                           THEN BufferDataForOfflineConnector(connectorBuffers[c], p)
                           ELSE connectorBuffers[c]]
<1>1. PICK p : p = [n |-> pushed + 1, from |-> s, to |-> to]
  OBVIOUS
<1>2. pushed \in Nat /\ pushed < MaxPackets /\ MaxPackets \in Nat /\ pushed' = pushed + 1
  BY DeliveryConstants DEF TypeOK, PushRoute
<1>3. p \in Packets /\ p.n = pushed + 1 /\ p.from = s /\ pushed' \in 0..MaxPackets
  BY <1>1, <1>2 DEF Packets
<1>4. CASE Addressed(p) = {}
  <2>1. /\ accepted' = accepted \union {p} /\ push' = [push EXCEPT ![s] = NoPush]
        /\ UNCHANGED connectorBuffers
    BY <1>1, <1>4 DEF PushRoute, Accept
  <2>2. PushBecomes(s, NoPush)
    BY <2>1, IdlePush, OnePush
  <2> QED BY <1>2, <1>3, <1>4, <2>1, <2>2
<1>5. CASE Addressed(p) # {}
  <2>1. PICK b : b = \E c \in Connectors : Subscribed(c)
    OBVIOUS
  <2>2. PICK r : r = [pc |-> "decide", p |-> p, hasSubscribers |-> b]
    OBVIOUS
  <2>3. r \in Pushes /\ r.pc = "decide" /\ r.p = p
    BY <1>3, <2>1, <2>2 DEF Pushes
  <2>4. UNCHANGED accepted /\ push' = [push EXCEPT ![s] = r]
    BY <1>1, <1>5, <2>1, <2>2 DEF PushRoute
  <2>5. connectorBuffers' =
          [c \in Connectors |->
             IF c \in Addressed(p) /\ ~Subscribed(c) /\ ~online[c]
               THEN BufferDataForOfflineConnector(connectorBuffers[c], p)
               ELSE connectorBuffers[c]]
    BY <1>1, <1>5 DEF PushRoute
  <2>6. PushBecomes(s, r)
    BY <2>3, <2>4, OnePush
  <2> QED BY <1>2, <1>3, <2>3, <2>4, <2>5, <2>6
<1> QED BY <1>4, <1>5

LEMMA DecideEffect ==
  ASSUME TypeOK, NEW s \in Senders, PushDecide(s)
  PROVE  /\ push[s].pc = "decide"
         /\ \E r \in Pushes : r.pc = "enqueue" /\ r.p = push[s].p /\ PushBecomes(s, r)
<1>1. /\ push[s].pc = "decide" /\ push[s].p \in Packets /\ push[s].hasSubscribers \in BOOLEAN
  BY PushCarries DEF PushDecide
<1>2. PICK b : b = \E c \in Addressed(push[s].p) : ~Subscribed(c) /\ online[c]
  OBVIOUS
<1>3. PICK r : r = [pc |-> "enqueue", p |-> push[s].p,
                    hasSubscribers |-> push[s].hasSubscribers, shouldBuffer |-> b]
  OBVIOUS
<1>4. r \in Pushes /\ r.pc = "enqueue" /\ r.p = push[s].p
  BY <1>1, <1>2, <1>3 DEF Pushes
<1>5. push' = [push EXCEPT ![s] = r]
  BY <1>2, <1>3 DEF PushDecide
<1> QED BY <1>1, <1>4, <1>5, OnePush

LEMMA EnqueueEffect ==
  ASSUME TypeOK, NEW s \in Senders, PushEnqueue(s)
  PROVE  /\ push[s].pc = "enqueue"
         /\ \/ PushBecomes(s, NoPush) /\ UNCHANGED queue
            \/ /\ \E r \in Pushes : r.pc = "buffer" /\ r.p = push[s].p /\ PushBecomes(s, r)
               /\ \/ UNCHANGED queue
                  \/ Len(queue) < QueueCap /\ queue' = Append(queue, push[s].p)
<1>1. push[s].pc = "enqueue" /\ push[s] \in Pushes
  BY DEF PushEnqueue, TypeOK
<1>2. push[s] \in [pc : {"enqueue", "buffer"}, p : Packets, hasSubscribers : BOOLEAN,
                   shouldBuffer : BOOLEAN]
  BY <1>1 DEF Pushes
<1>3. PICK r : r = [push[s] EXCEPT !.pc = "buffer"]
  OBVIOUS
<1>4. r \in Pushes /\ r.pc = "buffer" /\ r.p = push[s].p
  BY <1>2, <1>3 DEF Pushes
<1>5. CASE push' = [push EXCEPT ![s] = NoPush] /\ UNCHANGED queue
  BY <1>1, <1>5, IdlePush, OnePush
<1>6. CASE /\ push' = [push EXCEPT ![s].pc = "buffer"]
           /\ UNCHANGED queue \/ (Len(queue) < QueueCap /\ queue' = Append(queue, push[s].p))
  <2>1. push' = [push EXCEPT ![s] = r]
    BY <1>3, <1>6
  <2>2. PushBecomes(s, r)
    BY <1>4, <2>1, OnePush
  <2> QED BY <1>1, <1>4, <1>6, <2>2
<1> QED BY <1>5, <1>6 DEF PushEnqueue

LEMMA BufferEffect ==
  ASSUME TypeOK, NEW s \in Senders, PushBuffer(s)
  PROVE  /\ push[s].pc = "buffer" /\ PushBecomes(s, NoPush)
         /\ accepted' \in {accepted, accepted \union {push[s].p}}
         /\ \/ UNCHANGED buffer
            \/ Len(buffer) < BufferCap /\ buffer' = Append(buffer, push[s].p)
<1>1. push[s].pc = "buffer" /\ push' = [push EXCEPT ![s] = NoPush]
  BY DEF PushBuffer, Accept
<1>2. PushBecomes(s, NoPush)
  BY <1>1, IdlePush, OnePush
<1>3. accepted' \in {accepted, accepted \union {push[s].p}}
  BY DEF PushBuffer, Accept
<1>4. BufferCap \in Nat /\ Len(buffer) \in Nat
  BY DeliveryConstants DEF TypeOK
<1>5. UNCHANGED buffer \/ (~(Len(buffer) >= BufferCap) /\ buffer' = Append(buffer, push[s].p))
  BY DEF PushBuffer
<1> QED BY <1>1, <1>2, <1>3, <1>4, <1>5

LEMMA TakesEffect ==
  ASSUME TypeOK, DistributorTakes
  PROVE  /\ queue # <<>> /\ queue' = Tail(queue) /\ distributor' \in Rounds
         /\ distributor'.p = Head(queue) /\ Head(queue) \in Packets
         /\ \A h \in distributor'.todo : \E c \in Connectors :
              h = subscribers[c] /\ Subscribed(c) /\ ShouldSend(Head(queue), c)
<1>1. queue \in Seq(Packets) /\ queue # <<>> /\ queue' = Tail(queue)
  BY DEF TypeOK, DistributorTakes
<1>2. Head(queue) \in Packets
  BY <1>1
<1>3. PICK todo : todo = {subscribers[c] : c \in {d \in Connectors :
                            Subscribed(d) /\ ShouldSend(Head(queue), d)}}
  OBVIOUS
<1>4. distributor' = [p |-> Head(queue), todo |-> todo]
  BY <1>3 DEF DistributorTakes
<1>5. todo \subseteq Streams
  BY <1>3 DEF TypeOK, Subscribed
<1> QED BY <1>1, <1>2, <1>3, <1>4, <1>5 DEF Rounds

\* The kernel starts with nothing queued, buffered or subscribed
LEMMA InitTypes == Init => TypeOK
<1> SUFFICES ASSUME Init PROVE TypeOK
  OBVIOUS
<1>1. /\ QueueCap \in Nat /\ StreamCap \in Nat /\ BufferCap \in Nat /\ ConnectorCap \in Nat
      /\ MaxPackets \in Nat
  BY DeliveryConstants
<1>2. <<>> \in Seq(Packets) /\ <<>> \in Seq(Items) /\ Len(<<>>) = 0
  OBVIOUS
<1>3. NoCall \in Calls /\ NoCall.chan = <<>>
  BY <1>2 DEF NoCall, Calls
<1>4. StreamTypes
  BY <1>1, <1>2, <1>3 DEF Init, StreamTypes
<1>5. push \in [Senders -> Pushes] /\ distributor \in Rounds
  BY IdlePush DEF Init, Idle, Rounds
<1>6. /\ connectorBuffers \in [Connectors -> Seq(Packets)]
      /\ \A c \in Connectors : Len(connectorBuffers[c]) <= ConnectorCap
  BY <1>1, <1>2 DEF Init
<1>7. /\ online \in [Connectors -> BOOLEAN] /\ known \in [Connectors -> BOOLEAN]
      /\ subscribers \in [Connectors -> Streams \union {NoStream}]
  BY DEF Init
<1>8. /\ active \in BOOLEAN /\ panicked \in BOOLEAN /\ pushed \in 0..MaxPackets
      /\ accepted \subseteq Packets
      /\ queue \in Seq(Packets) /\ Len(queue) <= QueueCap
      /\ buffer \in Seq(Packets) /\ Len(buffer) <= BufferCap
  <2>1. active \in BOOLEAN /\ panicked \in BOOLEAN /\ accepted \subseteq Packets
    BY DEF Init
  <2>2. pushed = 0 /\ queue = <<>> /\ buffer = <<>>
    BY DEF Init
  <2>3. 0 \in 0..MaxPackets /\ 0 <= QueueCap /\ 0 <= BufferCap
    BY <1>1
  <2> QED BY <1>2, <2>1, <2>2, <2>3
<1> QED BY <1>4, <1>5, <1>6, <1>7, <1>8 DEF TypeOK, StreamTypes

\* The buffer of an offline connector never exceeds its capacity
LEMMA BufferTypes ==
  ASSUME NEW b \in Seq(Packets), Len(b) <= ConnectorCap, NEW p \in Packets
  PROVE  /\ BufferDataForOfflineConnector(b, p) \in Seq(Packets)
         /\ Len(BufferDataForOfflineConnector(b, p)) <= ConnectorCap
  BY DeliveryConstants DEF BufferDataForOfflineConnector

\* A queue with room takes one more
LEMMA AppendFits ==
  ASSUME NEW S, NEW q \in Seq(S), NEW x \in S, NEW cap \in Nat, Len(q) < cap
  PROVE  Append(q, x) \in Seq(S) /\ Len(Append(q, x)) <= cap
  OBVIOUS

\* Every step keeps the types and the capacities
LEMMA StepTypes == TypeOK /\ [Next]_vars => TypeOK'
<1> SUFFICES ASSUME TypeOK, [Next]_vars PROVE TypeOK'
  OBVIOUS
<1>0. /\ QueueCap \in Nat \ {0} /\ StreamCap \in Nat \ {0} /\ BufferCap \in Nat \ {0}
      /\ ConnectorCap \in Nat \ {0} /\ MaxPackets \in Nat \ {0}
      /\ \A h \in Streams : Caller[h] \in Connectors
  BY DeliveryConstants DEF Connectors
<1>1. ASSUME NEW s \in Senders, NEW to \in TargetSets, PushRoute(s, to) PROVE TypeOK'
  <2>1. PICK p \in Packets :
          /\ pushed' \in 0..MaxPackets
          /\ \/ /\ accepted' = accepted \union {p}
                /\ PushBecomes(s, NoPush) /\ UNCHANGED connectorBuffers
             \/ /\ UNCHANGED accepted
                /\ \E r \in Pushes : PushBecomes(s, r)
                /\ connectorBuffers' =
                     [c \in Connectors |->
                        IF c \in Addressed(p) /\ ~Subscribed(c) /\ ~online[c]
                          THEN BufferDataForOfflineConnector(connectorBuffers[c], p)
                          ELSE connectorBuffers[c]]
    BY <1>1, RouteEffect
  <2>2. push' \in [Senders -> Pushes] /\ accepted' \subseteq Packets
    BY <2>1 DEF PushBecomes, TypeOK
  <2>3. /\ connectorBuffers' \in [Connectors -> Seq(Packets)]
        /\ \A c \in Connectors : Len(connectorBuffers'[c]) <= ConnectorCap
    <3>1. CASE UNCHANGED connectorBuffers
      BY <3>1 DEF TypeOK
    <3>2. CASE connectorBuffers' =
                 [c \in Connectors |->
                    IF c \in Addressed(p) /\ ~Subscribed(c) /\ ~online[c]
                      THEN BufferDataForOfflineConnector(connectorBuffers[c], p)
                      ELSE connectorBuffers[c]]
      <4>1. ASSUME NEW c \in Connectors
            PROVE  connectorBuffers'[c] \in Seq(Packets) /\ Len(connectorBuffers'[c]) <= ConnectorCap
        <5>1. /\ connectorBuffers[c] \in Seq(Packets)
              /\ Len(connectorBuffers[c]) <= ConnectorCap
          BY DEF TypeOK
        <5>2. /\ BufferDataForOfflineConnector(connectorBuffers[c], p) \in Seq(Packets)
              /\ Len(BufferDataForOfflineConnector(connectorBuffers[c], p)) <= ConnectorCap
          BY <5>1, BufferTypes
        <5>3. \/ connectorBuffers'[c] = connectorBuffers[c]
              \/ connectorBuffers'[c] = BufferDataForOfflineConnector(connectorBuffers[c], p)
          BY <3>2
        <5> QED BY <5>1, <5>2, <5>3
      <4>2. connectorBuffers' = [c \in Connectors |-> connectorBuffers'[c]]
        BY <3>2
      <4> QED BY <4>1, <4>2
    <3> QED BY <2>1, <3>1, <3>2
  <2> QED BY <1>1, <2>1, <2>2, <2>3 DEF PushRoute, TypeOK, Alive, status
<1>2. ASSUME NEW s \in Senders, PushDecide(s) PROVE TypeOK'
  <2>1. push' \in [Senders -> Pushes]
    BY <1>2, DecideEffect DEF PushBecomes
  <2> QED BY <1>2, <2>1 DEF PushDecide, TypeOK, Alive, status, buffers
<1>3. ASSUME NEW s \in Senders, PushEnqueue(s) PROVE TypeOK'
  <2>1. push' \in [Senders -> Pushes]
    BY <1>3, EnqueueEffect DEF PushBecomes
  <2>2. push[s].p \in Packets
    BY <1>3, PushCarries, EnqueueEffect
  <2>3. UNCHANGED queue \/ (Len(queue) < QueueCap /\ queue' = Append(queue, push[s].p))
    BY <1>3, EnqueueEffect
  <2>4. queue' \in Seq(Packets) /\ Len(queue') <= QueueCap
    <3>1. queue \in Seq(Packets) /\ Len(queue) <= QueueCap
      BY DEF TypeOK
    <3> QED BY <2>2, <2>3, <3>1, <1>0, AppendFits
  <2> QED BY <1>3, <2>1, <2>4 DEF PushEnqueue, TypeOK, Alive, status, buffers
<1>4. ASSUME NEW s \in Senders, PushBuffer(s) PROVE TypeOK'
  <2>1. push' \in [Senders -> Pushes]
    BY <1>4, BufferEffect DEF PushBecomes
  <2>2. push[s].p \in Packets
    BY <1>4, PushCarries, BufferEffect
  <2>3. accepted' \subseteq Packets
    BY <1>4, <2>2, BufferEffect DEF TypeOK
  <2>4. UNCHANGED buffer \/ (Len(buffer) < BufferCap /\ buffer' = Append(buffer, push[s].p))
    BY <1>4, BufferEffect
  <2>5. buffer' \in Seq(Packets) /\ Len(buffer') <= BufferCap
    <3>1. buffer \in Seq(Packets) /\ Len(buffer) <= BufferCap
      BY DEF TypeOK
    <3> QED BY <2>2, <2>4, <3>1, <1>0, AppendFits
  <2> QED BY <1>4, <2>1, <2>3, <2>5 DEF PushBuffer, TypeOK, Alive, status
<1>5. CASE DistributorTakes
  <2>1. distributor' \in Rounds /\ queue' = Tail(queue) /\ queue # <<>>
    BY <1>5, TakesEffect
  <2>2. queue' \in Seq(Packets) /\ Len(queue') <= QueueCap
    BY <2>1, <1>0 DEF TypeOK
  <2> QED BY <1>5, <2>1, <2>2 DEF DistributorTakes, TypeOK, Alive, status, buffers
<1>6. ASSUME NEW h \in Streams, DistributorSends(h) PROVE TypeOK'
  <2>1. distributor \in [p : Packets, todo : SUBSET Streams]
    BY <1>6 DEF DistributorSends, TypeOK, Rounds
  <2>2. distributor' \in Rounds
    BY <1>6, <2>1 DEF DistributorSends, Rounds
  <2>3. StreamTypes'
    BY <1>6, SendsEffect
  <2> QED BY <1>6, <2>2, <2>3 DEF DistributorSends, TypeOK, StreamTypes, Alive, status, buffers
<1>7. ASSUME NEW h \in Streams, NEW r \in BOOLEAN, SubscribeDataOpens(h, r) PROVE TypeOK'
  <2>1. StreamTypes'
    BY <1>7, OpensEffect
  <2> QED BY <1>7, <2>1, <1>0 DEF SubscribeDataOpens, TypeOK, StreamTypes, Alive, buffers
<1>8. ASSUME NEW h \in Streams, SubscribeWithRecovery(h) PROVE TypeOK'
  <2>1. StreamTypes'
    BY <1>8, SubscribeEffect
  <2>2. /\ connectorBuffers' \in [Connectors -> Seq(Packets)]
        /\ \A c \in Connectors : Len(connectorBuffers'[c]) <= ConnectorCap
    <3>1. <<>> \in Seq(Packets) /\ Len(<<>>) = 0
      OBVIOUS
    <3>2. CASE UNCHANGED connectorBuffers
      BY <3>2 DEF TypeOK
    <3>3. CASE connectorBuffers' = [connectorBuffers EXCEPT ![Caller[h]] = <<>>]
      BY <3>1, <3>3, <1>0 DEF TypeOK
    <3> QED BY <1>8, <3>2, <3>3 DEF SubscribeWithRecovery
  <2>3. subscribers' \in [Connectors -> Streams \union {NoStream}]
    <3>1. subscribers' = [subscribers EXCEPT ![Caller[h]] = h]
      BY <1>8 DEF SubscribeWithRecovery
    <3> QED BY <3>1 DEF TypeOK
  <2> QED
    BY <1>8, <2>1, <2>2, <2>3 DEF SubscribeWithRecovery, TypeOK, StreamTypes, Alive, status
<1>9. ASSUME NEW h \in Streams, SubscribeRefused(h) PROVE TypeOK'
  <2>1. StreamTypes'
    BY <1>9, MoveEffect DEF SubscribeRefused
  <2> QED BY <1>9, <2>1, <1>0 DEF SubscribeRefused, TypeOK, StreamTypes, Alive, buffers
<1>10. ASSUME NEW h \in Streams, Replay(h) PROVE TypeOK'
  <2>1. StreamTypes'
    BY <1>10, ReplayEffect
  <2> QED BY <1>10, <2>1 DEF Replay, TypeOK, StreamTypes, Alive, status, buffers
<1>11. ASSUME NEW h \in Streams, StreamSend(h) PROVE TypeOK'
  <2>1. StreamTypes'
    BY <1>11, StreamSendEffect
  <2> QED BY <1>11, <2>1 DEF StreamSend, TypeOK, StreamTypes, Alive, status, buffers
<1>12. ASSUME NEW h \in Streams, StreamEnds(h) PROVE TypeOK'
  <2>1. StreamTypes'
    BY <1>12, MoveEffect DEF StreamEnds
  <2> QED BY <1>12, <2>1 DEF StreamEnds, TypeOK, StreamTypes, Alive, status, buffers
<1>13. ASSUME NEW h \in Streams, Unsubscribe(h) PROVE TypeOK'
  <2>1. StreamTypes'
    BY <1>13, UnsubscribeEffect
  <2>2. subscribers' \in [Connectors -> Streams \union {NoStream}]
    BY <1>13 DEF Unsubscribe, TypeOK
  <2> QED BY <1>13, <2>1, <2>2 DEF Unsubscribe, TypeOK, StreamTypes, Alive, status, buffers
<1>14. ASSUME NEW h \in Streams, MarkConnectorOffline(h) PROVE TypeOK'
  <2>1. StreamTypes'
    BY <1>14, MoveEffect DEF MarkConnectorOffline
  <2> QED BY <1>14, <2>1, <1>0 DEF MarkConnectorOffline, TypeOK, StreamTypes, Alive, buffers
<1>15. CASE CloseChannel
  <2>1. StreamTypes'
    BY <1>15, CloseChannelEffect
  <2> QED BY <1>15, <2>1 DEF CloseChannel, TypeOK, StreamTypes, Alive, status, buffers
<1>16. ASSUME NEW c \in Connectors, CleanupExpiredConnectorBuffers(c) PROVE TypeOK'
  <2>1. /\ connectorBuffers' \in [Connectors -> Seq(Packets)]
        /\ \A d \in Connectors : Len(connectorBuffers'[d]) <= ConnectorCap
    <3>1. <<>> \in Seq(Packets) /\ Len(<<>>) = 0
      OBVIOUS
    <3>2. connectorBuffers' = [connectorBuffers EXCEPT ![c] = <<>>]
      BY <1>16 DEF CleanupExpiredConnectorBuffers
    <3> QED BY <3>1, <3>2, <1>0 DEF TypeOK
  <2> QED BY <1>16, <2>1 DEF CleanupExpiredConnectorBuffers, TypeOK, Alive
<1>17. CASE Panic
  BY <1>17 DEF Panic, TypeOK, status, buffers
<1>18. CASE UNCHANGED vars
  BY <1>18 DEF vars, TypeOK
<1> QED
  BY <1>1, <1>2, <1>3, <1>4, <1>5, <1>6, <1>7, <1>8, <1>9, <1>10, <1>11, <1>12, <1>13, <1>14,
     <1>15, <1>16, <1>17, <1>18 DEF Next, Distribute, PushPanics, DistributorPanics, ReplayPanics

-----------------------------------------------------------------------------
(* What is on its way *)

\* The packets of one sender keep the order in which they were pushed
Before(p, q) == p.from = q.from => p.n < q.n

\* The live packets in a channel, or among what came out of it
Live(q) == {q[i].p : i \in {j \in DOMAIN q : q[j].live}}
LivePackets(h) == Live(stream[h].got) \union Live(stream[h].chan)

\* s is about to put its packet in dataQueue
Pending(s) == push[s].pc \in {"decide", "enqueue"}

\* Whatever the distributor has yet to take comes after x
InFront(x) ==
  /\ \A i \in DOMAIN queue : Before(x, queue[i])
  /\ \A s \in Senders : Pending(s) => Before(x, push[s].p)
  /\ x.n <= pushed

\* What is in a channel, or came out of it, or is to be sent into it, is for its connector
AllAddressed ==
  /\ \A h \in Streams : \A i \in DOMAIN stream[h].chan :
       ShouldSend(stream[h].chan[i].p, Caller[h])
  /\ \A h \in Streams : \A i \in DOMAIN stream[h].got :
       ShouldSend(stream[h].got[i].p, Caller[h])
  /\ \A h \in distributor.todo : ShouldSend(distributor.p, Caller[h])

\* The live items of q are in order, and so are those of q followed by those of r
InOrder(q) ==
  \A i, j \in DOMAIN q : i < j /\ q[i].live /\ q[j].live => Before(q[i].p, q[j].p)
InOrderBoth(q, r) ==
  \A i \in DOMAIN q, j \in DOMAIN r : q[i].live /\ r[j].live => Before(q[i].p, r[j].p)
CallsInOrder ==
  \A h \in Streams : /\ InOrder(stream[h].got) /\ InOrder(stream[h].chan)
                     /\ InOrderBoth(stream[h].got, stream[h].chan)

\* What is in a channel is in front of everything else, and so is what the distributor holds,
\* and each packet of dataQueue is in front of the later ones
ItemsFirst ==
  \A h \in Streams : \A x \in LivePackets(h) :
    InFront(x) /\ (h \in distributor.todo => Before(x, distributor.p))
HeldFirst == distributor.todo # {} => InFront(distributor.p)
QueueInOrder ==
  \A i \in DOMAIN queue :
    /\ \A j \in DOMAIN queue : i < j => Before(queue[i], queue[j])
    /\ \A s \in Senders : Pending(s) => Before(queue[i], push[s].p)
    /\ queue[i].n <= pushed
PushesOwn ==
  \A s \in Senders : push[s].pc # "idle" => push[s].p.from = s /\ push[s].p.n <= pushed

FlowInv ==
  AllAddressed /\ CallsInOrder /\ ItemsFirst /\ HeldFirst /\ QueueInOrder /\ PushesOwn

\* PushData makes the packet p
Made(s, p, r) ==
  /\ p.n = pushed + 1 /\ p.from = s /\ pushed' = pushed + 1 /\ queue' = queue
  /\ PushBecomes(s, r)
  /\ r.pc = "idle" \/ (r.pc = "decide" /\ r.p = p)

\* It moves on with its packet, maybe into dataQueue, or returns
Moved(s, r) ==
  /\ push[s].pc # "idle" /\ pushed' = pushed
  /\ PushBecomes(s, r)
  /\ r.pc # "idle" => r.p = push[s].p
  /\ r.pc \in {"decide", "enqueue"} => Pending(s) /\ queue' = queue
  /\ queue' = queue \/ (Pending(s) /\ queue' = Append(queue, push[s].p))

Taken == queue # <<>> /\ queue' = Tail(queue) /\ UNCHANGED <<push, pushed>>

\* All that happens to dataQueue and the packets on their way into it
LEMMA PushCases ==
  ASSUME TypeOK, [Next]_vars
  PROVE  \/ \E s \in Senders : \E p \in Packets : \E r \in Pushes : Made(s, p, r)
         \/ \E s \in Senders : \E r \in Pushes : Moved(s, r)
         \/ Taken
         \/ UNCHANGED <<queue, push, pushed>>
<1>1. ASSUME NEW s \in Senders, NEW to \in TargetSets, PushRoute(s, to)
      PROVE  \E p \in Packets : \E r \in Pushes : Made(s, p, r)
  <2>1. queue' = queue
    BY <1>1 DEF PushRoute
  <2>2. PICK p \in Packets :
          /\ p.n = pushed + 1 /\ p.from = s /\ pushed' = pushed + 1
          /\ \/ PushBecomes(s, NoPush)
             \/ \E r \in Pushes : r.pc = "decide" /\ r.p = p /\ PushBecomes(s, r)
    BY <1>1, RouteEffect
  <2> QED BY <2>1, <2>2, IdlePush DEF Made
<1>2. ASSUME NEW s \in Senders, PushDecide(s)
      PROVE  \E r \in Pushes : Moved(s, r)
  <2>1. queue' = queue /\ pushed' = pushed
    BY <1>2 DEF PushDecide
  <2> QED BY <1>2, <2>1, DecideEffect DEF Moved, Pending
<1>3. ASSUME NEW s \in Senders, PushEnqueue(s)
      PROVE  \E r \in Pushes : Moved(s, r)
  <2>1. pushed' = pushed
    BY <1>3 DEF PushEnqueue
  <2> QED BY <1>3, <2>1, EnqueueEffect, IdlePush DEF Moved, Pending
<1>4. ASSUME NEW s \in Senders, PushBuffer(s)
      PROVE  \E r \in Pushes : Moved(s, r)
  <2>1. queue' = queue /\ pushed' = pushed
    BY <1>4 DEF PushBuffer
  <2> QED BY <1>4, <2>1, BufferEffect, IdlePush DEF Moved, Pending
<1>5. CASE DistributorTakes
  BY <1>5, TakesEffect DEF Taken, DistributorTakes
<1>6. CASE Panic \/ UNCHANGED vars
  BY <1>6 DEF Panic, vars
<1>7. CASE \E h \in Streams : \/ DistributorSends(h) \/ \E r \in BOOLEAN : SubscribeDataOpens(h, r)
                              \/ SubscribeWithRecovery(h) \/ SubscribeRefused(h) \/ Replay(h)
  BY <1>7
  DEF DistributorSends, SubscribeDataOpens, SubscribeWithRecovery, SubscribeRefused, Replay
<1>8. CASE \E h \in Streams : StreamSend(h) \/ StreamEnds(h) \/ Unsubscribe(h)
                              \/ MarkConnectorOffline(h)
  BY <1>8 DEF StreamSend, StreamEnds, Unsubscribe, MarkConnectorOffline
<1>9. CASE CloseChannel \/ \E c \in Connectors : CleanupExpiredConnectorBuffers(c)
  BY <1>9 DEF CloseChannel, CleanupExpiredConnectorBuffers
<1> QED
  BY <1>1, <1>2, <1>3, <1>4, <1>5, <1>6, <1>7, <1>8, <1>9
  DEF Next, Distribute, PushPanics, DistributorPanics, ReplayPanics

\* A PushData carries a packet of its sender
LEMMA PushesOwnStep ==
  ASSUME TypeOK, PushesOwn, [Next]_vars
  PROVE  PushesOwn'
<1> SUFFICES ASSUME NEW t \in Senders, push'[t].pc # "idle"
             PROVE  push'[t].p.from = t /\ push'[t].p.n <= pushed'
  BY DEF PushesOwn
<1>0. pushed \in Nat /\ (push[t].pc # "idle" => push[t].p \in Packets)
  BY PushCarries, DeliveryConstants DEF TypeOK
<1>1. ASSUME NEW s \in Senders, NEW p \in Packets, NEW r \in Pushes, Made(s, p, r)
      PROVE  push'[t].p.from = t /\ push'[t].p.n <= pushed'
  <2>1. CASE t = s
    BY <1>0, <1>1, <2>1 DEF Made, PushBecomes
  <2>2. CASE t # s
    <3>1. push'[t] = push[t] /\ pushed' = pushed + 1
      BY <1>1, <2>2 DEF Made, PushBecomes
    <3>2. push[t].p.from = t /\ push[t].p.n <= pushed /\ push[t].p.n \in Nat
      BY <1>0, <3>1, DeliveryConstants DEF PushesOwn, Packets
    <3> QED BY <1>0, <3>1, <3>2
  <2> QED BY <2>1, <2>2
<1>2. ASSUME NEW s \in Senders, NEW r \in Pushes, Moved(s, r)
      PROVE  push'[t].p.from = t /\ push'[t].p.n <= pushed'
  BY <1>2 DEF Moved, PushBecomes, PushesOwn
<1>3. CASE Taken \/ UNCHANGED <<queue, push, pushed>>
  BY <1>3 DEF Taken, PushesOwn
<1> QED BY <1>1, <1>2, <1>3, PushCases

\* What is in front of everything the distributor has yet to take stays there
LEMMA FrontStays ==
  ASSUME TypeOK, PushesOwn, NEW x \in Packets, InFront(x), [Next]_vars
  PROVE  InFront(x)'
<1>0. pushed \in Nat /\ x.n \in Nat /\ queue \in Seq(Packets)
  BY DeliveryConstants DEF TypeOK, Packets
<1>1. ASSUME NEW s \in Senders, NEW p \in Packets, NEW r \in Pushes, Made(s, p, r)
      PROVE  InFront(x)'
  <2>1. Before(x, p) /\ x.n <= pushed'
    BY <1>0, <1>1 DEF Made, Before, InFront
  <2>2. \A t \in Senders : Pending(t)' => Before(x, push'[t].p)
    BY <1>1, <2>1 DEF Made, PushBecomes, InFront, Pending
  <2> QED BY <1>1, <2>1, <2>2 DEF Made, InFront
<1>2. ASSUME NEW s \in Senders, NEW r \in Pushes, Moved(s, r)
      PROVE  InFront(x)'
  <2>1. x.n <= pushed'
    BY <1>2 DEF Moved, InFront
  <2>2. \A t \in Senders : Pending(t)' => Before(x, push'[t].p)
    BY <1>2 DEF Moved, PushBecomes, InFront, Pending
  <2>3. \A i \in DOMAIN queue' : Before(x, queue'[i])
    <3>1. CASE queue' = queue
      BY <3>1 DEF InFront
    <3>2. CASE Pending(s) /\ queue' = Append(queue, push[s].p)
      <4>1. Before(x, push[s].p)
        BY <3>2 DEF InFront
      <4> SUFFICES ASSUME NEW i \in DOMAIN queue' PROVE Before(x, queue'[i])
        OBVIOUS
      <4>2. (i \in DOMAIN queue /\ queue'[i] = queue[i]) \/ queue'[i] = push[s].p
        BY <1>0, <3>2
      <4> QED BY <4>1, <4>2 DEF InFront
    <3> QED BY <1>2, <3>1, <3>2 DEF Moved
  <2> QED BY <2>1, <2>2, <2>3 DEF InFront
<1>3. CASE Taken
  <2>1. \A i \in DOMAIN queue' : Before(x, queue'[i])
    <3> SUFFICES ASSUME NEW i \in DOMAIN queue' PROVE Before(x, queue'[i])
      OBVIOUS
    <3>1. i + 1 \in DOMAIN queue /\ queue'[i] = queue[i + 1]
      BY <1>0, <1>3 DEF Taken
    <3> QED BY <3>1 DEF InFront
  <2>2. x.n <= pushed' /\ \A t \in Senders : Pending(t)' => Before(x, push'[t].p)
    BY <1>3 DEF Taken, InFront, Pending
  <2> QED BY <2>1, <2>2 DEF InFront
<1>4. CASE UNCHANGED <<queue, push, pushed>>
  BY <1>4 DEF InFront, Pending
<1> QED BY <1>1, <1>2, <1>3, <1>4, PushCases

\* dataQueue keeps its order
LEMMA QueueStep ==
  ASSUME TypeOK, PushesOwn, QueueInOrder, [Next]_vars
  PROVE  QueueInOrder'
<1>0. pushed \in Nat /\ queue \in Seq(Packets)
  BY DeliveryConstants DEF TypeOK
<1>1. ASSUME NEW i \in DOMAIN queue, NEW x \in Packets, x = queue[i]
      PROVE  /\ \A t \in Senders : Pending(t)' => Before(x, push'[t].p)
             /\ x.n <= pushed'
  <2>0. /\ \A t \in Senders : Pending(t) => Before(x, push[t].p)
        /\ x.n <= pushed /\ x.n \in Nat
    BY <1>1 DEF QueueInOrder, Packets
  <2>1. ASSUME NEW s \in Senders, NEW p \in Packets, NEW r \in Pushes, Made(s, p, r)
        PROVE  /\ \A t \in Senders : Pending(t)' => Before(x, push'[t].p)
               /\ x.n <= pushed'
    <3>1. Before(x, p) /\ x.n <= pushed'
      BY <1>0, <2>0, <2>1 DEF Made, Before
    <3> QED BY <2>0, <2>1, <3>1 DEF Made, PushBecomes, Pending
  <2>2. ASSUME NEW s \in Senders, NEW r \in Pushes, Moved(s, r)
        PROVE  /\ \A t \in Senders : Pending(t)' => Before(x, push'[t].p)
               /\ x.n <= pushed'
    BY <2>0, <2>2 DEF Moved, PushBecomes, Pending
  <2>3. CASE Taken \/ UNCHANGED <<queue, push, pushed>>
    BY <2>0, <2>3 DEF Taken, Pending
  <2> QED BY <2>1, <2>2, <2>3, PushCases
<1>2. ASSUME NEW s \in Senders, NEW p \in Packets, NEW r \in Pushes, Made(s, p, r)
      PROVE  QueueInOrder'
  <2>1. queue' = queue
    BY <1>2 DEF Made
  <2> QED BY <1>0, <1>1, <2>1 DEF QueueInOrder
<1>3. ASSUME NEW s \in Senders, NEW r \in Pushes, Moved(s, r)
      PROVE  QueueInOrder'
  <2>1. CASE queue' = queue
    BY <1>0, <1>1, <2>1 DEF QueueInOrder
  <2>2. CASE Pending(s) /\ queue' = Append(queue, push[s].p) /\ queue' # queue
    <3>1. /\ push[s].p \in Packets /\ push[s].p.from = s /\ push[s].p.n <= pushed
          /\ pushed' = pushed
      BY <1>3, PushCarries DEF Moved, PushesOwn
    <3>2. \A t \in Senders : Pending(t)' => t # s /\ push'[t].p.from = t
      <4> SUFFICES ASSUME NEW t \in Senders, Pending(t)'
                   PROVE  t # s /\ push'[t].p.from = t
        OBVIOUS
      <4>1. t # s
        BY <1>3, <2>2 DEF Moved, PushBecomes, Pending
      <4>2. push'[t] = push[t]
        BY <1>3, <4>1 DEF Moved, PushBecomes
      <4> QED BY <4>1, <4>2 DEF Pending, PushesOwn
    <3>3. ASSUME NEW i \in DOMAIN queue'
          PROVE  \/ i \in DOMAIN queue /\ queue'[i] = queue[i] /\ i <= Len(queue)
                 \/ i = Len(queue) + 1 /\ queue'[i] = push[s].p
      BY <1>0, <2>2
    <3>4. ASSUME NEW i \in DOMAIN queue'
          PROVE  \A j \in DOMAIN queue' : i < j => Before(queue'[i], queue'[j])
      <4> SUFFICES ASSUME NEW j \in DOMAIN queue', i < j
                   PROVE  Before(queue'[i], queue'[j])
        OBVIOUS
      <4>1. i \in DOMAIN queue /\ queue'[i] = queue[i]
        BY <1>0, <2>2, <3>3
      <4>2. CASE j \in DOMAIN queue /\ queue'[j] = queue[j]
        BY <4>1, <4>2 DEF QueueInOrder
      <4>3. CASE queue'[j] = push[s].p
        BY <2>2, <4>1, <4>3 DEF QueueInOrder
      <4> QED BY <3>3, <4>2, <4>3
    <3>5. ASSUME NEW i \in DOMAIN queue'
          PROVE  /\ \A t \in Senders : Pending(t)' => Before(queue'[i], push'[t].p)
                 /\ queue'[i].n <= pushed'
      <4>1. CASE i \in DOMAIN queue /\ queue'[i] = queue[i]
        BY <1>0, <1>1, <4>1
      <4>2. CASE queue'[i] = push[s].p
        BY <3>1, <3>2, <4>2 DEF Before
      <4> QED BY <3>3, <4>1, <4>2
    <3> QED BY <3>4, <3>5 DEF QueueInOrder
  <2> QED BY <1>3, <2>1, <2>2 DEF Moved
<1>4. CASE Taken
  <2> SUFFICES ASSUME NEW i \in DOMAIN queue'
               PROVE  /\ \A j \in DOMAIN queue' : i < j => Before(queue'[i], queue'[j])
                      /\ \A t \in Senders : Pending(t)' => Before(queue'[i], push'[t].p)
                      /\ queue'[i].n <= pushed'
    BY DEF QueueInOrder
  <2>1. \A j \in DOMAIN queue' : j \in Nat /\ j + 1 \in DOMAIN queue /\ queue'[j] = queue[j + 1]
    BY <1>0, <1>4 DEF Taken
  <2>2. \A j \in DOMAIN queue' : i < j => Before(queue'[i], queue'[j])
    BY <2>1 DEF QueueInOrder
  <2>3. queue[i + 1] \in Packets
    BY <1>0, <2>1
  <2> QED BY <1>1, <2>1, <2>2, <2>3
<1>5. CASE UNCHANGED <<queue, push, pushed>>
  BY <1>5 DEF QueueInOrder, Pending
<1> QED BY <1>2, <1>3, <1>4, <1>5, PushCases

\* An item is put into a channel: what the distributor holds, or a packet that is replayed
Sent(h) ==
  /\ h \in distributor.todo
  /\ \E chan \in {stream[h].chan, Append(stream[h].chan, [p |-> distributor.p, live |-> TRUE])} :
       NewContents(h, chan, stream[h].got)
  /\ distributor' = [distributor EXCEPT !.todo = @ \ {h}]
Replayed(h, p) ==
  /\ ShouldSend(p, Caller[h])
  /\ \E chan \in {stream[h].chan, Append(stream[h].chan, [p |-> p, live |-> FALSE])} :
       NewContents(h, chan, stream[h].got)
  /\ UNCHANGED distributor

\* One comes out of it
Received(h) ==
  /\ stream[h].chan # <<>>
  /\ NewContents(h, Tail(stream[h].chan), Append(stream[h].got, Head(stream[h].chan)))
  /\ UNCHANGED distributor

\* All that happens to the channels, to what came out of them and to the distributor
LEMMA StreamCases ==
  ASSUME TypeOK, [Next]_vars
  PROVE  \/ DistributorTakes /\ SameContents
         \/ \E h \in Streams : Sent(h)
         \/ \E h \in Streams : \E p \in Packets : Replayed(h, p)
         \/ \E h \in Streams : Received(h)
         \/ SameContents /\ UNCHANGED distributor
<1>1. CASE DistributorTakes
  BY <1>1 DEF DistributorTakes, SameContents
<1>2. ASSUME NEW h \in Streams, DistributorSends(h) PROVE Sent(h)
  BY <1>2, SendsEffect DEF DistributorSends, Sent
<1>3. ASSUME NEW h \in Streams, Replay(h) PROVE \E p \in Packets : Replayed(h, p)
  <2>1. UNCHANGED distributor
    BY <1>3 DEF Replay
  <2> QED BY <1>3, <2>1, ReplayEffect DEF Replayed
<1>4. ASSUME NEW h \in Streams, StreamSend(h) PROVE Received(h)
  BY <1>4, StreamSendEffect DEF StreamSend, Received
<1>5. ASSUME NEW h \in Streams, NEW r \in BOOLEAN, SubscribeDataOpens(h, r)
      PROVE  SameContents /\ UNCHANGED distributor
  BY <1>5, OpensEffect DEF SubscribeDataOpens
<1>6. ASSUME NEW h \in Streams, SubscribeWithRecovery(h)
      PROVE  SameContents /\ UNCHANGED distributor
  <2>1. UNCHANGED distributor
    BY <1>6 DEF SubscribeWithRecovery
  <2> QED BY <1>6, <2>1, SubscribeEffect
<1>7. ASSUME NEW h \in Streams, SubscribeRefused(h) \/ StreamEnds(h) \/ MarkConnectorOffline(h)
      PROVE  SameContents /\ UNCHANGED distributor
  <2>1. UNCHANGED distributor
    BY <1>7 DEF SubscribeRefused, StreamEnds, MarkConnectorOffline
  <2>2. \/ stream' = [stream EXCEPT ![h].pc = "done"]
        \/ stream' = [stream EXCEPT ![h].pc = "leaving"]
    BY <1>7 DEF SubscribeRefused, StreamEnds, MarkConnectorOffline
  <2> QED BY <2>1, <2>2, MoveEffect
<1>8. ASSUME NEW h \in Streams, Unsubscribe(h)
      PROVE  SameContents /\ UNCHANGED distributor
  <2>1. UNCHANGED distributor
    BY <1>8 DEF Unsubscribe
  <2> QED BY <1>8, <2>1, UnsubscribeEffect
<1>9. CASE CloseChannel
  <2>1. UNCHANGED distributor
    BY <1>9 DEF CloseChannel
  <2> QED BY <1>9, <2>1, CloseChannelEffect
<1>10. CASE Panic \/ UNCHANGED vars
  BY <1>10 DEF Panic, vars, SameContents
<1>11. CASE \E c \in Connectors : CleanupExpiredConnectorBuffers(c)
  BY <1>11 DEF CleanupExpiredConnectorBuffers, SameContents
<1>12. CASE \E s \in Senders : \/ \E to \in TargetSets : PushRoute(s, to)
                               \/ PushDecide(s) \/ PushEnqueue(s) \/ PushBuffer(s)
  BY <1>12 DEF PushRoute, PushDecide, PushEnqueue, PushBuffer, SameContents
<1> QED
  BY <1>1, <1>2, <1>3, <1>4, <1>5, <1>6, <1>7, <1>8, <1>9, <1>10, <1>11, <1>12
  DEF Next, Distribute, PushPanics, DistributorPanics, ReplayPanics

\* The live packets of a channel that got one more, or lost its first
LEMMA LiveAppend ==
  ASSUME NEW q \in Seq(Items), NEW x \in Items
  PROVE  /\ ~x.live => Live(Append(q, x)) = Live(q)
         /\ Live(Append(q, x)) \subseteq Live(q) \union {x.p}
         /\ \A i \in DOMAIN q : q[i].live => q[i].p \in Live(q)
<1> USE DEF Live
<1>1. \A i \in DOMAIN Append(q, x) :
        (i \in DOMAIN q /\ Append(q, x)[i] = q[i]) \/ Append(q, x)[i] = x
  OBVIOUS
<1>2. \A i \in DOMAIN q : i \in DOMAIN Append(q, x) /\ Append(q, x)[i] = q[i]
  OBVIOUS
<1>3. Live(Append(q, x)) \subseteq Live(q) \union {x.p}
  BY <1>1
<1>4. Live(q) \subseteq Live(Append(q, x))
  BY <1>2
<1>5. ASSUME ~x.live PROVE Live(Append(q, x)) \subseteq Live(q)
  BY <1>1, <1>5
<1> QED BY <1>3, <1>4, <1>5

LEMMA LiveTail ==
  ASSUME NEW q \in Seq(Items), q # <<>>
  PROVE  /\ Live(Tail(q)) \subseteq Live(q)
         /\ Head(q) \in Items
         /\ Head(q).live => Head(q).p \in Live(q)
<1>1. \A i \in DOMAIN Tail(q) : i + 1 \in DOMAIN q /\ Tail(q)[i] = q[i + 1]
  OBVIOUS
<1>2. 1 \in DOMAIN q /\ Head(q) = q[1] /\ Head(q) \in Items
  OBVIOUS
<1> QED BY <1>1, <1>2 DEF Live

\* Order is kept when an item comes after the live ones, and when the first one moves
LEMMA OrderAppend ==
  ASSUME NEW q \in Seq(Items), NEW x \in Items, InOrder(q),
         x.live => \A y \in Live(q) : Before(y, x.p)
  PROVE  InOrder(Append(q, x))
<1> SUFFICES ASSUME NEW i \in DOMAIN Append(q, x), NEW j \in DOMAIN Append(q, x), i < j,
                    Append(q, x)[i].live, Append(q, x)[j].live
             PROVE  Before(Append(q, x)[i].p, Append(q, x)[j].p)
  BY DEF InOrder
<1>1. i \in DOMAIN q /\ Append(q, x)[i] = q[i]
  OBVIOUS
<1>2. CASE j \in DOMAIN q /\ Append(q, x)[j] = q[j]
  BY <1>1, <1>2 DEF InOrder
<1>3. CASE Append(q, x)[j] = x
  BY <1>1, <1>3 DEF Live
<1> QED BY <1>2, <1>3

LEMMA OrderTail ==
  ASSUME NEW q \in Seq(Items), q # <<>>, InOrder(q)
  PROVE  InOrder(Tail(q)) /\ (Head(q).live => \A y \in Live(Tail(q)) : Before(Head(q).p, y))
<1>1. \A i \in DOMAIN Tail(q) :
        i \in Nat /\ 1 < i + 1 /\ i + 1 \in DOMAIN q /\ Tail(q)[i] = q[i + 1]
  OBVIOUS
<1>2. 1 \in DOMAIN q /\ Head(q) = q[1]
  OBVIOUS
<1>3. InOrder(Tail(q))
  BY <1>1 DEF InOrder
<1>4. ASSUME Head(q).live, NEW y \in Live(Tail(q)) PROVE Before(Head(q).p, y)
  <2>1. PICK i \in DOMAIN Tail(q) : Tail(q)[i].live /\ Tail(q)[i].p = y
    BY DEF Live
  <2> QED BY <1>1, <1>2, <1>4, <2>1 DEF InOrder
<1> QED BY <1>3, <1>4

LEMMA BothLive ==
  ASSUME NEW q \in Seq(Items), NEW r \in Seq(Items)
  PROVE  InOrderBoth(q, r) <=> \A x \in Live(q), y \in Live(r) : Before(x, y)
<1>1. ASSUME InOrderBoth(q, r), NEW x \in Live(q), NEW y \in Live(r) PROVE Before(x, y)
  <2>1. PICK i \in DOMAIN q : q[i].live /\ q[i].p = x
    BY DEF Live
  <2>2. PICK j \in DOMAIN r : r[j].live /\ r[j].p = y
    BY DEF Live
  <2> QED BY <1>1, <2>1, <2>2 DEF InOrderBoth
<1>2. ASSUME \A x \in Live(q), y \in Live(r) : Before(x, y) PROVE InOrderBoth(q, r)
  <2> SUFFICES ASSUME NEW i \in DOMAIN q, NEW j \in DOMAIN r, q[i].live, r[j].live
               PROVE  Before(q[i].p, r[j].p)
    BY DEF InOrderBoth
  <2>1. q[i].p \in Live(q) /\ r[j].p \in Live(r)
    BY DEF Live
  <2> QED BY <1>2, <2>1
<1> QED BY <1>1, <1>2

\* What is in the channels are packets
LEMMA ContentTypes ==
  ASSUME TypeOK, NEW h \in Streams
  PROVE  /\ stream[h].chan \in Seq(Items) /\ stream[h].got \in Seq(Items)
         /\ Live(stream[h].chan) \subseteq Packets /\ Live(stream[h].got) \subseteq Packets
<1>1. stream[h].chan \in Seq(Items) /\ stream[h].got \in Seq(Items)
  BY DEF TypeOK, Calls
<1>2. ASSUME NEW q \in Seq(Items) PROVE Live(q) \subseteq Packets
  <2>1. \A i \in DOMAIN q : q[i] \in Items
    OBVIOUS
  <2>2. \A x \in Items : x.p \in Packets
    BY DEF Items
  <2> QED BY <2>1, <2>2 DEF Live
<1> QED BY <1>1, <1>2

\* The channels, and what came out of them, stay in order
LEMMA CallsStep ==
  ASSUME TypeOK, CallsInOrder, ItemsFirst, [Next]_vars
  PROVE  CallsInOrder'
<1> SUFFICES ASSUME NEW h \in Streams
             PROVE  /\ InOrder(stream'[h].got) /\ InOrder(stream'[h].chan)
                    /\ InOrderBoth(stream'[h].got, stream'[h].chan)
  BY DEF CallsInOrder
<1> DEFINE chan == stream[h].chan
           got == stream[h].got
<1>0. /\ InOrder(got) /\ InOrder(chan) /\ \A x \in Live(got), y \in Live(chan) : Before(x, y)
      /\ InOrderBoth(got, chan)
      /\ chan \in Seq(Items) /\ got \in Seq(Items)
  BY ContentTypes, BothLive DEF CallsInOrder
<1>1. CASE stream'[h].chan = chan /\ stream'[h].got = got
  BY <1>0, <1>1
<1>2. ASSUME NEW x \in Items, stream'[h].chan = Append(chan, x), stream'[h].got = got,
             x.live => \A y \in Live(got) \union Live(chan) : Before(y, x.p)
      PROVE  /\ InOrder(stream'[h].got) /\ InOrder(stream'[h].chan)
             /\ InOrderBoth(stream'[h].got, stream'[h].chan)
  <2>1. InOrder(Append(chan, x))
    BY <1>0, <1>2, OrderAppend
  <2>2. Append(chan, x) \in Seq(Items)
    BY <1>0
  <2>3. \A y \in Live(got), z \in Live(Append(chan, x)) : Before(y, z)
    BY <1>0, <1>2, LiveAppend
  <2>4. InOrderBoth(got, Append(chan, x))
    BY <1>0, <2>2, <2>3, BothLive
  <2> QED BY <1>0, <1>2, <2>1, <2>4
<1>3. CASE stream'[h].chan = Tail(chan) /\ stream'[h].got = Append(got, Head(chan)) /\ chan # <<>>
  <2>1. Head(chan) \in Items /\ Tail(chan) \in Seq(Items)
    BY <1>0, <1>3
  <2>2. /\ InOrder(Tail(chan))
        /\ Head(chan).live => \A y \in Live(Tail(chan)) : Before(Head(chan).p, y)
    BY <1>0, <1>3, OrderTail
  <2>3. Live(Tail(chan)) \subseteq Live(chan) /\ (Head(chan).live => Head(chan).p \in Live(chan))
    BY <1>0, <1>3, LiveTail
  <2>4. InOrder(Append(got, Head(chan)))
    BY <1>0, <2>1, <2>3, OrderAppend
  <2>5. Append(got, Head(chan)) \in Seq(Items)
    BY <1>0, <2>1
  <2>6. /\ ~Head(chan).live => Live(Append(got, Head(chan))) = Live(got)
        /\ Live(Append(got, Head(chan))) \subseteq Live(got) \union {Head(chan).p}
    BY <1>0, <2>1, LiveAppend
  <2>7. \A x \in Live(Append(got, Head(chan))), y \in Live(Tail(chan)) : Before(x, y)
    BY <1>0, <2>2, <2>3, <2>6
  <2>8. InOrderBoth(Append(got, Head(chan)), Tail(chan))
    BY <2>1, <2>5, <2>7, BothLive
  <2> QED BY <1>3, <2>2, <2>4, <2>8
<1>4. ASSUME NEW k \in Streams, Sent(k)
      PROVE  /\ InOrder(stream'[h].got) /\ InOrder(stream'[h].chan)
             /\ InOrderBoth(stream'[h].got, stream'[h].chan)
  <2>1. CASE stream'[h].chan = chan /\ stream'[h].got = got
    BY <1>1, <2>1
  <2>2. CASE ~(stream'[h].chan = chan /\ stream'[h].got = got)
    <3>1. /\ k = h /\ h \in distributor.todo
          /\ stream'[h].chan = Append(chan, [p |-> distributor.p, live |-> TRUE])
          /\ stream'[h].got = got
      BY <1>4, <2>2 DEF Sent, NewContents
    <3>2. distributor.p \in Packets
      BY <3>1 DEF TypeOK, Rounds
    <3>3. PICK x : x = [p |-> distributor.p, live |-> TRUE]
      OBVIOUS
    <3>4. x \in Items /\ x.p = distributor.p
      BY <3>2, <3>3 DEF Items
    <3>5. \A y \in Live(got) \union Live(chan) : Before(y, x.p)
      BY <3>1, <3>4 DEF ItemsFirst, LivePackets
    <3> QED BY <1>2, <3>1, <3>3, <3>4, <3>5
  <2> QED BY <2>1, <2>2
<1>5. ASSUME NEW k \in Streams, NEW p \in Packets, Replayed(k, p)
      PROVE  /\ InOrder(stream'[h].got) /\ InOrder(stream'[h].chan)
             /\ InOrderBoth(stream'[h].got, stream'[h].chan)
  <2>1. CASE stream'[h].chan = chan /\ stream'[h].got = got
    BY <1>1, <2>1
  <2>2. CASE ~(stream'[h].chan = chan /\ stream'[h].got = got)
    <3>1. /\ stream'[h].chan = Append(chan, [p |-> p, live |-> FALSE])
          /\ stream'[h].got = got
      BY <1>5, <2>2 DEF Replayed, NewContents
    <3>2. PICK x : x = [p |-> p, live |-> FALSE]
      OBVIOUS
    <3>3. x \in Items /\ ~x.live
      BY <3>2 DEF Items
    <3> QED BY <1>2, <3>1, <3>2, <3>3
  <2> QED BY <2>1, <2>2
<1>6. ASSUME NEW k \in Streams, Received(k)
      PROVE  \/ stream'[h].chan = chan /\ stream'[h].got = got
             \/ stream'[h].chan = Tail(chan) /\ stream'[h].got = Append(got, Head(chan)) /\ chan # <<>>
  BY <1>6 DEF Received, NewContents
<1>7. CASE SameContents
  BY <1>1, <1>7 DEF SameContents
<1> HIDE DEF chan, got
<1> QED BY <1>1, <1>3, <1>4, <1>5, <1>6, <1>7, StreamCases

\* What is in a channel stays in front of what is not, and so does what the distributor holds
LEMMA FirstStep ==
  ASSUME TypeOK, ItemsFirst, HeldFirst, QueueInOrder, PushesOwn, [Next]_vars
  PROVE  ItemsFirst' /\ HeldFirst'
<1>1. CASE DistributorTakes /\ SameContents
  <2>1. /\ queue # <<>> /\ queue' = Tail(queue) /\ distributor'.p = Head(queue)
        /\ Head(queue) \in Packets /\ UNCHANGED <<push, pushed>>
    BY <1>1, TakesEffect DEF DistributorTakes
  <2>2. /\ queue \in Seq(Packets) /\ 1 \in DOMAIN queue /\ Head(queue) = queue[1]
        /\ \A i \in DOMAIN Tail(queue) :
             i \in Nat /\ 1 < i + 1 /\ i + 1 \in DOMAIN queue /\ Tail(queue)[i] = queue[i + 1]
    BY <2>1 DEF TypeOK
  <2>3. PICK p : p = Head(queue)
    OBVIOUS
  <2>4. InFront(p)'
    <3>1. \A i \in DOMAIN queue' : Before(p, queue'[i])
      BY <2>1, <2>2, <2>3 DEF QueueInOrder
    <3> QED BY <2>1, <2>2, <2>3, <3>1 DEF InFront, QueueInOrder, Pending
  <2>5. HeldFirst'
    BY <2>1, <2>3, <2>4 DEF HeldFirst
  <2>6. ASSUME NEW h \in Streams, NEW x \in Packets, x \in LivePackets(h)'
        PROVE  InFront(x)' /\ Before(x, distributor'.p)
    <3>1. x \in LivePackets(h)
      BY <1>1, <2>6 DEF SameContents, LivePackets
    <3>2. InFront(x)
      BY <3>1 DEF ItemsFirst
    <3>3. InFront(x)'
      BY <3>2, FrontStays
    <3> QED BY <2>1, <2>2, <3>2, <3>3 DEF InFront
  <2>7. ASSUME NEW h \in Streams PROVE LivePackets(h)' \subseteq Packets
    <3>1. LivePackets(h)' = LivePackets(h)
      BY <1>1 DEF SameContents, LivePackets
    <3> QED BY <3>1, ContentTypes DEF LivePackets
  <2>8. ItemsFirst'
    BY <2>6, <2>7 DEF ItemsFirst
  <2> QED BY <2>5, <2>8
<1>2. ASSUME distributor'.todo \subseteq distributor.todo,
             distributor'.todo # {} => distributor'.p = distributor.p,
             \A h \in Streams : LivePackets(h)' \subseteq LivePackets(h) \/
               /\ h \in distributor.todo /\ h \notin distributor'.todo
               /\ LivePackets(h)' \subseteq LivePackets(h) \union {distributor.p}
      PROVE  ItemsFirst' /\ HeldFirst'
  <2>1. ASSUME distributor.todo # {}
        PROVE  distributor.p \in Packets /\ InFront(distributor.p)
    BY <2>1 DEF TypeOK, Rounds, HeldFirst
  <2>2. PICK d : d = distributor.p
    OBVIOUS
  <2>3. ASSUME distributor.todo # {} PROVE InFront(d)'
    BY <2>1, <2>2, <2>3, FrontStays
  <2>4. HeldFirst'
    <3> SUFFICES ASSUME distributor'.todo # {} PROVE InFront(distributor.p)'
      BY <1>2 DEF HeldFirst, InFront
    <3>1. distributor.todo # {}
      BY <1>2
    <3>2. distributor'.p = d
      BY <1>2, <2>2
    <3>3. InFront(d)'
      BY <2>3, <3>1
    <3> QED BY <3>2, <3>3 DEF InFront
  <2>5. ASSUME NEW h \in Streams, NEW x, x \in LivePackets(h)'
        PROVE  InFront(x)' /\ (h \in distributor'.todo => Before(x, distributor'.p))
    <3>1. CASE x \in LivePackets(h)
      <4>1. x \in Packets
        BY <3>1, ContentTypes DEF LivePackets
      <4>2. InFront(x) /\ (h \in distributor.todo => Before(x, distributor.p))
        BY <3>1 DEF ItemsFirst
      <4>3. InFront(x)'
        BY <4>1, <4>2, FrontStays
      <4>4. ASSUME h \in distributor'.todo PROVE Before(x, distributor'.p)
        BY <1>2, <4>2, <4>4
      <4> QED BY <4>3, <4>4
    <3>2. CASE x \notin LivePackets(h)
      <4>1. x = d /\ h \in distributor.todo /\ h \notin distributor'.todo
        BY <1>2, <2>2, <2>5, <3>2
      <4>2. InFront(x)'
        BY <2>3, <4>1
      <4> QED BY <4>1, <4>2
    <3> QED BY <3>1, <3>2
  <2>6. ItemsFirst'
    BY <2>5 DEF ItemsFirst
  <2> QED BY <2>4, <2>6
<1>3. ASSUME NEW k \in Streams, Sent(k)
      PROVE  ItemsFirst' /\ HeldFirst'
  <2>1. distributor \in [p : Packets, todo : SUBSET Streams] /\ k \in distributor.todo
    BY <1>3 DEF Sent, TypeOK, Rounds
  <2>2. distributor'.p = distributor.p /\ distributor'.todo = distributor.todo \ {k}
    BY <1>3, <2>1 DEF Sent
  <2>3. PICK x : x = [p |-> distributor.p, live |-> TRUE]
    OBVIOUS
  <2>4. x \in Items /\ x.p = distributor.p
    BY <2>1, <2>3 DEF Items
  <2>5. PICK chan \in {stream[k].chan, Append(stream[k].chan, x)} :
          NewContents(k, chan, stream[k].got)
    BY <1>3, <2>3 DEF Sent
  <2>6. Live(chan) \subseteq Live(stream[k].chan) \union {distributor.p}
    BY <2>4, <2>5, LiveAppend, ContentTypes
  <2>7. ASSUME NEW h \in Streams
        PROVE  LivePackets(h)' \subseteq LivePackets(h) \/
                 /\ h \in distributor.todo /\ h \notin distributor'.todo
                 /\ LivePackets(h)' \subseteq LivePackets(h) \union {distributor.p}
    <3>1. CASE h = k
      <4>1. stream'[h].chan = chan /\ stream'[h].got = stream[h].got
        BY <2>5, <3>1 DEF NewContents
      <4> QED BY <2>1, <2>2, <2>6, <3>1, <4>1 DEF LivePackets
    <3>2. CASE h # k
      <4>1. stream'[h].chan = stream[h].chan /\ stream'[h].got = stream[h].got
        BY <2>5, <3>2 DEF NewContents
      <4> QED BY <4>1 DEF LivePackets
    <3> QED BY <3>1, <3>2
  <2> QED BY <1>2, <2>2, <2>7
<1>4. ASSUME NEW k \in Streams, NEW p \in Packets, Replayed(k, p)
      PROVE  ItemsFirst' /\ HeldFirst'
  <2>1. PICK x : x = [p |-> p, live |-> FALSE]
    OBVIOUS
  <2>2. x \in Items /\ ~x.live
    BY <2>1 DEF Items
  <2>3. PICK chan \in {stream[k].chan, Append(stream[k].chan, x)} :
          NewContents(k, chan, stream[k].got)
    BY <1>4, <2>1 DEF Replayed
  <2>4. Live(chan) = Live(stream[k].chan)
    BY <2>2, <2>3, LiveAppend, ContentTypes
  <2>5. ASSUME NEW h \in Streams PROVE LivePackets(h)' \subseteq LivePackets(h)
    <3>1. CASE h = k
      <4>1. stream'[h].chan = chan /\ stream'[h].got = stream[h].got
        BY <2>3, <3>1 DEF NewContents
      <4> QED BY <2>4, <3>1, <4>1 DEF LivePackets
    <3>2. CASE h # k
      <4>1. stream'[h].chan = stream[h].chan /\ stream'[h].got = stream[h].got
        BY <2>3, <3>2 DEF NewContents
      <4> QED BY <4>1 DEF LivePackets
    <3> QED BY <3>1, <3>2
  <2>6. distributor' = distributor
    BY <1>4 DEF Replayed
  <2> QED BY <1>2, <2>5, <2>6
<1>5. ASSUME NEW k \in Streams, Received(k)
      PROVE  ItemsFirst' /\ HeldFirst'
  <2>1. PICK chan, got : /\ chan = Tail(stream[k].chan)
                         /\ got = Append(stream[k].got, Head(stream[k].chan))
    OBVIOUS
  <2>2. stream[k].chan # <<>> /\ NewContents(k, chan, got) /\ distributor' = distributor
    BY <1>5, <2>1 DEF Received
  <2>3. /\ stream[k].chan \in Seq(Items) /\ stream[k].got \in Seq(Items)
    BY ContentTypes
  <2>4. /\ Live(chan) \subseteq Live(stream[k].chan) /\ Head(stream[k].chan) \in Items
        /\ Head(stream[k].chan).live => Head(stream[k].chan).p \in Live(stream[k].chan)
    BY <2>1, <2>2, <2>3, LiveTail
  <2>5. Live(got) \subseteq Live(stream[k].got) \union Live(stream[k].chan)
    BY <2>1, <2>3, <2>4, LiveAppend
  <2>6. ASSUME NEW h \in Streams PROVE LivePackets(h)' \subseteq LivePackets(h)
    <3>1. CASE h = k
      <4>1. stream'[h].chan = chan /\ stream'[h].got = got
        BY <2>2, <3>1 DEF NewContents
      <4> QED BY <2>4, <2>5, <3>1, <4>1 DEF LivePackets
    <3>2. CASE h # k
      <4>1. stream'[h].chan = stream[h].chan /\ stream'[h].got = stream[h].got
        BY <2>2, <3>2 DEF NewContents
      <4> QED BY <4>1 DEF LivePackets
    <3> QED BY <3>1, <3>2
  <2> QED BY <1>2, <2>2, <2>6
<1>6. CASE SameContents /\ UNCHANGED distributor
  <2>1. \A h \in Streams : LivePackets(h)' \subseteq LivePackets(h)
    BY <1>6 DEF SameContents, LivePackets
  <2>2. distributor' = distributor
    BY <1>6
  <2> QED BY <1>2, <2>1, <2>2
<1> QED BY <1>1, <1>3, <1>4, <1>5, <1>6, StreamCases

\* Nothing comes into a channel that is not for its connector
LEMMA AddressedStep ==
  ASSUME TypeOK, RegisteredIsOpen, AllAddressed, [Next]_vars
  PROVE  AllAddressed'
<1>0. \A h \in Streams : stream[h].chan \in Seq(Items) /\ stream[h].got \in Seq(Items)
  BY ContentTypes
<1>1. CASE DistributorTakes /\ SameContents
  <2>1. distributor'.p = Head(queue)
    BY <1>1, TakesEffect
  <2>2. ASSUME NEW h \in distributor'.todo PROVE ShouldSend(distributor'.p, Caller[h])
    <3>1. PICK c \in Connectors :
            h = subscribers[c] /\ Subscribed(c) /\ ShouldSend(Head(queue), c)
      BY <1>1, TakesEffect
    <3>2. Caller[h] = c
      BY <3>1 DEF RegisteredIsOpen
    <3> QED BY <2>1, <3>1, <3>2
  <2>3. ASSUME NEW h \in Streams
        PROVE  stream'[h].chan = stream[h].chan /\ stream'[h].got = stream[h].got
    BY <1>1 DEF SameContents
  <2> QED BY <2>2, <2>3 DEF AllAddressed, ShouldSend
<1>2. ASSUME NEW k \in Streams, NEW x \in Items, ShouldSend(x.p, Caller[k]),
             NEW chan \in {stream[k].chan, Append(stream[k].chan, x)},
             NewContents(k, chan, stream[k].got)
      PROVE  \A h \in Streams : /\ \A i \in DOMAIN stream'[h].chan :
                                     ShouldSend(stream'[h].chan[i].p, Caller[h])
                                /\ \A i \in DOMAIN stream'[h].got :
                                     ShouldSend(stream'[h].got[i].p, Caller[h])
  <2> SUFFICES ASSUME NEW h \in Streams
               PROVE  /\ \A i \in DOMAIN stream'[h].chan :
                           ShouldSend(stream'[h].chan[i].p, Caller[h])
                      /\ \A i \in DOMAIN stream'[h].got :
                           ShouldSend(stream'[h].got[i].p, Caller[h])
    OBVIOUS
  <2>1. stream'[h].got = stream[h].got
    BY <1>2 DEF NewContents
  <2>2. CASE stream'[h].chan = stream[h].chan
    BY <2>1, <2>2 DEF AllAddressed
  <2>3. CASE h = k /\ stream'[h].chan = Append(stream[h].chan, x)
    <3>1. \A i \in DOMAIN Append(stream[h].chan, x) :
            \/ i \in DOMAIN stream[h].chan /\ Append(stream[h].chan, x)[i] = stream[h].chan[i]
            \/ Append(stream[h].chan, x)[i] = x
      BY <1>0
    <3> QED BY <1>2, <2>1, <2>3, <3>1 DEF AllAddressed
  <2> QED BY <1>2, <2>2, <2>3 DEF NewContents
<1>3. ASSUME NEW k \in Streams, Sent(k)
      PROVE  AllAddressed'
  <2>1. distributor \in [p : Packets, todo : SUBSET Streams] /\ k \in distributor.todo
    BY <1>3 DEF Sent, TypeOK, Rounds
  <2>2. distributor'.p = distributor.p /\ distributor'.todo = distributor.todo \ {k}
    BY <1>3, <2>1 DEF Sent
  <2>3. PICK x : x = [p |-> distributor.p, live |-> TRUE]
    OBVIOUS
  <2>4. x \in Items /\ ShouldSend(x.p, Caller[k])
    BY <2>1, <2>3 DEF Items, AllAddressed
  <2>5. PICK chan \in {stream[k].chan, Append(stream[k].chan, x)} :
          NewContents(k, chan, stream[k].got)
    BY <1>3, <2>3 DEF Sent
  <2>6. \A h \in distributor'.todo : ShouldSend(distributor'.p, Caller[h])
    BY <2>2 DEF AllAddressed
  <2> QED BY <1>2, <2>4, <2>5, <2>6 DEF AllAddressed, ShouldSend
<1>4. ASSUME NEW k \in Streams, NEW p \in Packets, Replayed(k, p)
      PROVE  AllAddressed'
  <2>1. PICK x : x = [p |-> p, live |-> FALSE]
    OBVIOUS
  <2>2. x \in Items /\ ShouldSend(x.p, Caller[k])
    BY <1>4, <2>1 DEF Items, Replayed
  <2>3. PICK chan \in {stream[k].chan, Append(stream[k].chan, x)} :
          NewContents(k, chan, stream[k].got)
    BY <1>4, <2>1 DEF Replayed
  <2>4. \A h \in distributor'.todo : ShouldSend(distributor'.p, Caller[h])
    BY <1>4 DEF AllAddressed, Replayed
  <2> QED BY <1>2, <2>2, <2>3, <2>4 DEF AllAddressed, ShouldSend
<1>5. ASSUME NEW k \in Streams, Received(k)
      PROVE  AllAddressed'
  <2>1. \A h \in distributor'.todo : ShouldSend(distributor'.p, Caller[h])
    BY <1>5 DEF AllAddressed, Received
  <2>2. ASSUME NEW h \in Streams
        PROVE  /\ \A i \in DOMAIN stream'[h].chan :
                    ShouldSend(stream'[h].chan[i].p, Caller[h])
               /\ \A i \in DOMAIN stream'[h].got :
                    ShouldSend(stream'[h].got[i].p, Caller[h])
    <3>1. CASE stream'[h].chan = stream[h].chan /\ stream'[h].got = stream[h].got
      BY <3>1 DEF AllAddressed
    <3>2. CASE /\ stream[h].chan # <<>> /\ stream'[h].chan = Tail(stream[h].chan)
               /\ stream'[h].got = Append(stream[h].got, Head(stream[h].chan))
      <4>1. \A i \in DOMAIN Tail(stream[h].chan) :
              i + 1 \in DOMAIN stream[h].chan /\ Tail(stream[h].chan)[i] = stream[h].chan[i + 1]
        BY <1>0, <3>2
      <4>2. 1 \in DOMAIN stream[h].chan /\ Head(stream[h].chan) = stream[h].chan[1]
        BY <1>0, <3>2
      <4>3. PICK x : x = Head(stream[h].chan)
        OBVIOUS
      <4>4. x \in Items /\ ShouldSend(x.p, Caller[h])
        BY <1>0, <4>2, <4>3 DEF AllAddressed
      <4>5. \A i \in DOMAIN Append(stream[h].got, x) :
              \/ i \in DOMAIN stream[h].got /\ Append(stream[h].got, x)[i] = stream[h].got[i]
              \/ Append(stream[h].got, x)[i] = x
        BY <1>0, <4>4
      <4>6. \A i \in DOMAIN stream'[h].chan : ShouldSend(stream'[h].chan[i].p, Caller[h])
        BY <3>2, <4>1 DEF AllAddressed
      <4>7. \A i \in DOMAIN stream'[h].got : ShouldSend(stream'[h].got[i].p, Caller[h])
        BY <3>2, <4>3, <4>4, <4>5 DEF AllAddressed
      <4> QED BY <4>6, <4>7
    <3> QED BY <1>5, <3>1, <3>2 DEF Received, NewContents
  <2> QED BY <2>1, <2>2 DEF AllAddressed, ShouldSend
<1>6. CASE SameContents /\ UNCHANGED distributor
  <2>1. ASSUME NEW h \in Streams
        PROVE  stream'[h].chan = stream[h].chan /\ stream'[h].got = stream[h].got
    BY <1>6 DEF SameContents
  <2> QED BY <1>6, <2>1 DEF AllAddressed, ShouldSend
<1> QED BY <1>1, <1>3, <1>4, <1>5, <1>6, StreamCases

\* At first nothing is on its way
LEMMA InitFlow == Init => FlowInv
<1> SUFFICES ASSUME Init PROVE FlowInv
  OBVIOUS
<1>1. \A h \in Streams : stream[h].chan = <<>> /\ stream[h].got = <<>>
  BY DEF Init, NoCall
<1>2. distributor.todo = {} /\ queue = <<>> /\ \A s \in Senders : push[s].pc = "idle"
  BY DEF Init, Idle, NoPush
<1>3. DOMAIN <<>> = {} /\ Live(<<>>) = {}
  BY DEF Live
<1>4. AllAddressed
  BY <1>1, <1>2, <1>3 DEF AllAddressed
<1>5. CallsInOrder
  BY <1>1, <1>3 DEF CallsInOrder, InOrder, InOrderBoth
<1>6. ItemsFirst /\ HeldFirst
  BY <1>1, <1>2, <1>3 DEF ItemsFirst, HeldFirst, LivePackets
<1>7. QueueInOrder /\ PushesOwn
  BY <1>2, <1>3 DEF QueueInOrder, PushesOwn
<1> QED BY <1>4, <1>5, <1>6, <1>7 DEF FlowInv

\* Every step keeps the order and the addresses
LEMMA StepFlow == TypeOK /\ IInv /\ FlowInv /\ [Next]_vars => FlowInv'
  BY AddressedStep, CallsStep, FirstStep, QueueStep, PushesOwnStep DEF FlowInv, IInv

\* A stream carries what is for its connector, and the live packets of a sender in order
LEMMA FlowShows == TypeOK /\ FlowInv => StreamsConsistent
<1> SUFFICES ASSUME TypeOK, FlowInv, NEW h \in Streams
             PROVE  /\ \A i \in DOMAIN stream[h].got : Caller[h] \in Addressed(stream[h].got[i].p)
                    /\ InOrder(stream[h].got \o stream[h].chan)
  BY DEF StreamsConsistent, OnlyAddressees, LiveInOrder, InOrder, Before
<1>1. \A i \in DOMAIN stream[h].got : Caller[h] \in Addressed(stream[h].got[i].p)
  BY DEF FlowInv, AllAddressed, Addressed, ShouldSend
<1>2. InOrder(stream[h].got \o stream[h].chan)
  <2> DEFINE q == stream[h].got
             r == stream[h].chan
  <2>1. q \in Seq(Items) /\ r \in Seq(Items) /\ InOrder(q) /\ InOrder(r) /\ InOrderBoth(q, r)
    BY ContentTypes DEF FlowInv, CallsInOrder
  <2> HIDE DEF q, r
  <2>2. ASSUME NEW i \in DOMAIN (q \o r)
        PROVE  \/ i \in DOMAIN q /\ (q \o r)[i] = q[i]
               \/ i > Len(q) /\ i - Len(q) \in DOMAIN r /\ (q \o r)[i] = r[i - Len(q)]
    BY <2>1
  <2>3. ASSUME NEW i \in DOMAIN (q \o r), NEW j \in DOMAIN (q \o r), i < j,
               (q \o r)[i].live, (q \o r)[j].live
        PROVE  Before((q \o r)[i].p, (q \o r)[j].p)
    <3>1. i \in Nat /\ j \in Nat /\ Len(q) \in Nat /\ DOMAIN q = 1..Len(q)
      BY <2>1
    <3>2. CASE i \in DOMAIN q /\ (q \o r)[i] = q[i] /\ j \in DOMAIN q /\ (q \o r)[j] = q[j]
      BY <2>1, <2>3, <3>2 DEF InOrder
    <3>3. CASE i \in DOMAIN q /\ (q \o r)[i] = q[i] /\ j - Len(q) \in DOMAIN r /\ (q \o r)[j] = r[j - Len(q)]
      BY <2>1, <2>3, <3>3 DEF InOrderBoth
    <3>4. CASE /\ i > Len(q) /\ i - Len(q) \in DOMAIN r /\ (q \o r)[i] = r[i - Len(q)]
               /\ j - Len(q) \in DOMAIN r /\ (q \o r)[j] = r[j - Len(q)]
      <4>1. i - Len(q) < j - Len(q)
        BY <2>3, <3>1
      <4> QED BY <2>1, <2>3, <3>4, <4>1 DEF InOrder
    <3>5. CASE i > Len(q) /\ j \in DOMAIN q
      BY <2>3, <3>1, <3>5
    <3> QED BY <2>2, <3>2, <3>3, <3>4, <3>5
  <2>4. InOrder(q \o r)
    BY <2>3 DEF InOrder
  <2> QED BY <2>4 DEF q, r
<1> QED BY <1>1, <1>2

-----------------------------------------------------------------------------
(* What waits for a receiver that was not there yet *)

\* c has not opened a stream
Absent(c) == \A h \in Streams : Caller[h] = c => stream[h].pc = "free"

\* PushData made p, and has accepted it or still may
Promised(p) == p \in accepted \/ \E s \in Senders : push[s].pc # "idle" /\ push[s].p = p

\* p is in the buffer, or the buffer is full of newer packets
Staged(p, own) ==
  \/ \E i \in DOMAIN own : own[i] = p
  \/ Len(own) = ConnectorCap /\ \A i \in DOMAIN own : own[i].n > p.n

AbsentOffline == \A c \in Connectors : Absent(c) => ~online[c] /\ ~known[c]
OwnInOrder ==
  \A c \in Connectors : \A i \in DOMAIN connectorBuffers[c] :
    /\ connectorBuffers[c][i].n <= pushed
    /\ \A j \in DOMAIN connectorBuffers[c] :
         i < j => connectorBuffers[c][i].n < connectorBuffers[c][j].n
PromisedOld == \A p \in Packets : Promised(p) => p.n <= pushed
PromisedStaged ==
  \A p \in Packets : \A c \in Addressed(p) :
    Promised(p) /\ Absent(c) => Staged(p, connectorBuffers[c])

StagingInv == AbsentOffline /\ OwnInOrder /\ PromisedOld /\ PromisedStaged

\* PushData makes the packet p; whoever is absent and addressed gets it into its own buffer
Routed(p) ==
  /\ p.n = pushed + 1 /\ pushed' = pushed + 1
  /\ \A x \in Packets : Promised(x)' => Promised(x) \/ x = p
  /\ \A c \in Connectors :
       \/ connectorBuffers'[c] = connectorBuffers[c] /\ ~(c \in Addressed(p) /\ Absent(c))
       \/ connectorBuffers'[c] = BufferDataForOfflineConnector(connectorBuffers[c], p)

\* Nothing is promised, and nothing of an absent connector's is taken
Kept ==
  /\ pushed' = pushed
  /\ \A x \in Packets : Promised(x)' => Promised(x)
  /\ \A c \in Connectors :
       \/ connectorBuffers'[c] = connectorBuffers[c]
       \/ connectorBuffers'[c] = <<>> /\ ~Absent(c)

\* A call does not become free again
LEMMA NoneFreedStep ==
  ASSUME TypeOK, [Next]_vars
  PROVE  NoneFreed
<1>1. CASE UNCHANGED stream
  BY <1>1 DEF NoneFreed
<1>2. ASSUME NEW h \in Streams, DistributorSends(h) \/ Replay(h) \/ StreamSend(h) PROVE NoneFreed
  BY <1>2, SendsEffect, ReplayEffect, StreamSendEffect
<1>3. ASSUME NEW h \in Streams, NEW r \in BOOLEAN, SubscribeDataOpens(h, r) PROVE NoneFreed
  BY <1>3, OpensEffect
<1>4. ASSUME NEW h \in Streams, SubscribeWithRecovery(h) \/ Unsubscribe(h) PROVE NoneFreed
  BY <1>4, SubscribeEffect, UnsubscribeEffect
<1>5. ASSUME NEW h \in Streams, SubscribeRefused(h) \/ StreamEnds(h) \/ MarkConnectorOffline(h)
      PROVE  NoneFreed
  <2>1. \/ stream' = [stream EXCEPT ![h].pc = "done"]
        \/ stream' = [stream EXCEPT ![h].pc = "leaving"]
    BY <1>5 DEF SubscribeRefused, StreamEnds, MarkConnectorOffline
  <2> QED BY <2>1, MoveEffect
<1>6. CASE CloseChannel
  BY <1>6, CloseChannelEffect
<1>7. CASE \/ DistributorTakes \/ Panic \/ UNCHANGED vars
           \/ \E c \in Connectors : CleanupExpiredConnectorBuffers(c)
           \/ \E s \in Senders : \/ \E to \in TargetSets : PushRoute(s, to)
                                 \/ PushDecide(s) \/ PushEnqueue(s) \/ PushBuffer(s)
  BY <1>1, <1>7
  DEF DistributorTakes, Panic, vars, CleanupExpiredConnectorBuffers, PushRoute, PushDecide,
      PushEnqueue, PushBuffer
<1> QED
  BY <1>2, <1>3, <1>4, <1>5, <1>6, <1>7
  DEF Next, Distribute, PushPanics, DistributorPanics, ReplayPanics

\* An absent connector has no entry in subscribers
LEMMA AbsentIsNotSubscribed ==
  ASSUME TypeOK, RegisteredIsOpen, NEW c \in Connectors, Absent(c)
  PROVE  ~Subscribed(c)
<1> SUFFICES ASSUME Subscribed(c) PROVE FALSE
  OBVIOUS
<1>1. subscribers[c] \in Streams
  BY DEF TypeOK, Subscribed
<1>2. Caller[subscribers[c]] = c /\ stream[subscribers[c]].pc \in {"streaming", "leaving"}
  BY DEF RegisteredIsOpen
<1> QED BY <1>1, <1>2 DEF Absent

\* All that happens to the promises and the connectors' own buffers
LEMMA BufferCases ==
  ASSUME TypeOK, RegisteredIsOpen, AbsentOffline, [Next]_vars
  PROVE  (\E p \in Packets : Routed(p)) \/ Kept
<1>1. ASSUME NEW s \in Senders, NEW to \in TargetSets, PushRoute(s, to)
      PROVE  \E p \in Packets : Routed(p)
  <2>1. PICK p \in Packets :
           /\ p.n = pushed + 1 /\ pushed' = pushed + 1
           /\ \/ /\ Addressed(p) = {} /\ accepted' = accepted \union {p}
                 /\ PushBecomes(s, NoPush) /\ UNCHANGED connectorBuffers
              \/ /\ UNCHANGED accepted
                 /\ \E r \in Pushes : r.pc = "decide" /\ r.p = p /\ PushBecomes(s, r)
                 /\ connectorBuffers' =
                      [c \in Connectors |->
                         IF c \in Addressed(p) /\ ~Subscribed(c) /\ ~online[c]
                           THEN BufferDataForOfflineConnector(connectorBuffers[c], p)
                           ELSE connectorBuffers[c]]
    BY <1>1, RouteEffect
  <2>2. ASSUME NEW x \in Packets, Promised(x)' PROVE Promised(x) \/ x = p
    BY <2>1, <2>2, IdlePush DEF Promised, PushBecomes
  <2>3. ASSUME NEW c \in Connectors
        PROVE  \/ connectorBuffers'[c] = connectorBuffers[c] /\ ~(c \in Addressed(p) /\ Absent(c))
               \/ connectorBuffers'[c] = BufferDataForOfflineConnector(connectorBuffers[c], p)
    <3>1. Absent(c) => ~Subscribed(c) /\ ~online[c]
      BY AbsentIsNotSubscribed DEF AbsentOffline
    <3> QED BY <2>1, <3>1
  <2> QED BY <2>1, <2>2, <2>3 DEF Routed
<1>2. ASSUME pushed' = pushed, connectorBuffers' = connectorBuffers,
             \A x \in Packets : Promised(x)' => Promised(x)
      PROVE  Kept
  BY <1>2 DEF Kept
<1>3. ASSUME NEW s \in Senders, PushDecide(s) \/ PushEnqueue(s) \/ PushBuffer(s)
      PROVE  Kept
  <2>1. pushed' = pushed /\ connectorBuffers' = connectorBuffers
    BY <1>3 DEF PushDecide, PushEnqueue, PushBuffer, buffers
  <2>2. push[s].pc # "idle"
    BY <1>3, DecideEffect, EnqueueEffect, BufferEffect
  <2>3. accepted' \in {accepted, accepted \union {push[s].p}}
    BY <1>3, BufferEffect DEF PushDecide, PushEnqueue
  <2>4. PICK r \in Pushes : PushBecomes(s, r) /\ (r.pc # "idle" => r.p = push[s].p)
    BY <1>3, DecideEffect, EnqueueEffect, BufferEffect, IdlePush
  <2>5. ASSUME NEW x \in Packets, Promised(x)' PROVE Promised(x)
    BY <2>2, <2>3, <2>4, <2>5 DEF Promised, PushBecomes
  <2> QED BY <1>2, <2>1, <2>5
<1>4. ASSUME UNCHANGED <<pushed, push, accepted>>
      PROVE  pushed' = pushed /\ \A x \in Packets : Promised(x)' => Promised(x)
  BY <1>4 DEF Promised
<1>5. CASE Panic \/ UNCHANGED vars \/ DistributorTakes \/ CloseChannel
  <2>1. UNCHANGED <<pushed, push, accepted, connectorBuffers>>
    BY <1>5 DEF Panic, vars, DistributorTakes, CloseChannel, buffers
  <2> QED BY <1>2, <1>4, <2>1
<1>6. CASE \E h \in Streams : \/ DistributorSends(h) \/ \E r \in BOOLEAN : SubscribeDataOpens(h, r)
                              \/ SubscribeRefused(h) \/ Replay(h) \/ StreamSend(h)
  <2>1. UNCHANGED <<pushed, push, accepted, connectorBuffers>>
    BY <1>6
    DEF DistributorSends, SubscribeDataOpens, SubscribeRefused, Replay, StreamSend, buffers
  <2> QED BY <1>2, <1>4, <2>1
<1>7. CASE \E h \in Streams : StreamEnds(h) \/ Unsubscribe(h) \/ MarkConnectorOffline(h)
  <2>1. UNCHANGED <<pushed, push, accepted, connectorBuffers>>
    BY <1>7 DEF StreamEnds, Unsubscribe, MarkConnectorOffline, buffers
  <2> QED BY <1>2, <1>4, <2>1
<1>8. ASSUME NEW h \in Streams, SubscribeWithRecovery(h)
      PROVE  Kept
  <2>1. UNCHANGED <<pushed, push, accepted>> /\ stream[h].pc = "opened"
    BY <1>8 DEF SubscribeWithRecovery
  <2>2. Caller[h] \in Connectors /\ ~Absent(Caller[h])
    BY <2>1, DeliveryConstants DEF Absent, Connectors
  <2>3. CASE UNCHANGED connectorBuffers
    BY <1>2, <1>4, <2>1, <2>3
  <2>4. CASE connectorBuffers' = [connectorBuffers EXCEPT ![Caller[h]] = <<>>]
    <3>1. ASSUME NEW c \in Connectors
          PROVE  \/ connectorBuffers'[c] = connectorBuffers[c]
                 \/ connectorBuffers'[c] = <<>> /\ ~Absent(c)
      BY <2>2, <2>4 DEF TypeOK
    <3> QED BY <1>4, <2>1, <3>1 DEF Kept
  <2> QED BY <1>8, <2>3, <2>4 DEF SubscribeWithRecovery
<1>9. ASSUME NEW d \in Connectors, CleanupExpiredConnectorBuffers(d)
      PROVE  Kept
  <2>1. /\ UNCHANGED <<pushed, push, accepted>> /\ known[d]
        /\ connectorBuffers' = [connectorBuffers EXCEPT ![d] = <<>>]
    BY <1>9 DEF CleanupExpiredConnectorBuffers
  <2>2. ~Absent(d)
    BY <2>1 DEF AbsentOffline
  <2>3. ASSUME NEW c \in Connectors
        PROVE  \/ connectorBuffers'[c] = connectorBuffers[c]
               \/ connectorBuffers'[c] = <<>> /\ ~Absent(c)
    BY <2>1, <2>2 DEF TypeOK
  <2> QED BY <1>4, <2>1, <2>3 DEF Kept
<1> QED
  BY <1>1, <1>3, <1>5, <1>6, <1>7, <1>8, <1>9
  DEF Next, Distribute, PushPanics, DistributorPanics, ReplayPanics

\* Who stays absent stays offline
LEMMA OfflineStep ==
  ASSUME TypeOK, AbsentOffline, [Next]_vars
  PROVE  AbsentOffline'
<1> SUFFICES ASSUME NEW c \in Connectors, Absent(c)' PROVE ~online'[c] /\ ~known'[c]
  BY DEF AbsentOffline
<1>1. Absent(c)
  BY NoneFreedStep DEF Absent, NoneFreed
<1>2. ~online[c] /\ ~known[c]
  BY <1>1 DEF AbsentOffline
<1>3. ASSUME NEW h \in Streams, NEW r \in BOOLEAN, SubscribeDataOpens(h, r)
      PROVE  ~online'[c] /\ ~known'[c]
  <2>1. Caller[h] # c
    BY <1>3, OpensEffect DEF Absent
  <2>2. /\ online' = [online EXCEPT ![Caller[h]] = TRUE]
        /\ known' = [known EXCEPT ![Caller[h]] = TRUE]
    BY <1>3 DEF SubscribeDataOpens
  <2>3. online'[c] = online[c] /\ known'[c] = known[c]
    BY <2>1, <2>2 DEF TypeOK
  <2> QED BY <1>2, <2>3
<1>4. ASSUME UNCHANGED <<online, known>>
      PROVE  ~online'[c] /\ ~known'[c]
  BY <1>2, <1>4
<1>5. ASSUME NEW d, online' = [online EXCEPT ![d] = FALSE],
             known' = known \/ known' = [known EXCEPT ![d] = FALSE]
      PROVE  ~online'[c] /\ ~known'[c]
  BY <1>2, <1>5 DEF TypeOK
<1>6. CASE \E h \in Streams : SubscribeRefused(h) \/ MarkConnectorOffline(h)
  BY <1>5, <1>6 DEF SubscribeRefused, MarkConnectorOffline
<1>7. CASE \E d \in Connectors : CleanupExpiredConnectorBuffers(d)
  BY <1>5, <1>7 DEF CleanupExpiredConnectorBuffers
<1>8. CASE Panic \/ UNCHANGED vars \/ DistributorTakes \/ CloseChannel
  BY <1>4, <1>8 DEF Panic, vars, DistributorTakes, CloseChannel, status
<1>9. CASE \E h \in Streams : \/ DistributorSends(h) \/ SubscribeWithRecovery(h) \/ Replay(h)
                              \/ StreamSend(h) \/ StreamEnds(h) \/ Unsubscribe(h)
  BY <1>4, <1>9
  DEF DistributorSends, SubscribeWithRecovery, Replay, StreamSend, StreamEnds, Unsubscribe, status
<1>10. CASE \E s \in Senders : \/ \E to \in TargetSets : PushRoute(s, to)
                               \/ PushDecide(s) \/ PushEnqueue(s) \/ PushBuffer(s)
  BY <1>4, <1>10 DEF PushRoute, PushDecide, PushEnqueue, PushBuffer, status
<1> QED
  BY <1>3, <1>6, <1>7, <1>8, <1>9, <1>10
  DEF Next, Distribute, PushPanics, DistributorPanics, ReplayPanics

\* A buffer in order
Rising(b, m) ==
  \A i \in DOMAIN b : b[i].n <= m /\ \A j \in DOMAIN b : i < j => b[i].n < b[j].n

\* One more packet, for which the oldest may have to go, is behind all the others
LEMMA BufferAfter ==
  ASSUME NEW b \in Seq(Packets), Len(b) <= ConnectorCap, NEW p \in Packets, NEW m \in Nat,
         p.n = m + 1, Rising(b, m),
         NEW a, a = BufferDataForOfflineConnector(b, p)
  PROVE  /\ Rising(a, m + 1)
         /\ Staged(p, a)
         /\ \A x \in Packets : x.n <= m /\ Staged(x, b) => Staged(x, a)
<1>0. ConnectorCap \in Nat \ {0} /\ Len(b) \in Nat /\ DOMAIN b = 1..Len(b)
      /\ \A i \in DOMAIN b : b[i] \in Packets /\ b[i].n \in Nat
  <2>1. ConnectorCap \in Nat \ {0}
    BY DeliveryConstants
  <2>2. Len(b) \in Nat /\ DOMAIN b = 1..Len(b) /\ \A i \in DOMAIN b : b[i] \in Packets
    OBVIOUS
  <2>3. \A x \in Packets : x.n \in Nat
    BY DEF Packets
  <2> QED BY <2>1, <2>2, <2>3
<1>1. CASE ~(Len(b) >= ConnectorCap)
  <2>1. a = Append(b, p)
    BY <1>1 DEF BufferDataForOfflineConnector
  <2>2. /\ Len(a) = Len(b) + 1 /\ DOMAIN a = 1..Len(b) + 1 /\ a[Len(b) + 1] = p
        /\ \A i \in DOMAIN b : a[i] = b[i]
    BY <2>1, <1>0
  <2>3. Rising(a, m + 1)
    <3> SUFFICES ASSUME NEW i \in DOMAIN a
                 PROVE  a[i].n <= m + 1 /\ \A j \in DOMAIN a : i < j => a[i].n < a[j].n
      BY DEF Rising
    <3>1. CASE i = Len(b) + 1
      BY <1>0, <2>2, <3>1
    <3>2. CASE i \in DOMAIN b
      <4>1. a[i] = b[i] /\ b[i].n <= m /\ b[i].n \in Nat
        BY <1>0, <2>2, <3>2 DEF Rising
      <4>2. ASSUME NEW j \in DOMAIN a, i < j PROVE a[i].n < a[j].n
        <5>1. CASE j \in DOMAIN b
          BY <2>2, <3>2, <4>2, <5>1 DEF Rising
        <5>2. CASE j = Len(b) + 1
          BY <2>2, <4>1, <5>2
        <5> QED BY <1>0, <2>2, <5>1, <5>2
      <4>3. a[i].n <= m + 1
        BY <4>1
      <4> QED BY <4>2, <4>3
    <3> QED BY <1>0, <2>2, <3>1, <3>2
  <2>4. Staged(p, a)
    BY <1>0, <2>2 DEF Staged
  <2>5. ASSUME NEW x \in Packets, x.n <= m, Staged(x, b) PROVE Staged(x, a)
    <3>1. PICK i \in DOMAIN b : b[i] = x
      BY <1>0, <1>1, <2>5 DEF Staged
    <3> QED BY <1>0, <2>2, <3>1 DEF Staged
  <2> QED BY <2>3, <2>4, <2>5
<1>2. CASE Len(b) >= ConnectorCap
  <2>1. a = Append(Tail(b), p) /\ Len(b) = ConnectorCap /\ b # <<>>
    <3>1. a = Append(Tail(b), p)
      BY <1>2 DEF BufferDataForOfflineConnector
    <3>2. Len(b) = ConnectorCap /\ Len(b) # 0
      <4>1. PICK n, k : n = Len(b) /\ k = ConnectorCap
        OBVIOUS
      <4>2. n \in Nat /\ k \in Nat \ {0} /\ n <= k /\ n >= k
        BY <1>0, <1>2, <4>1
      <4>3. n = k /\ n # 0
        BY <4>2
      <4> QED BY <4>1, <4>3
    <3>3. b # <<>>
      BY <3>2
    <3> QED BY <3>1, <3>2, <3>3
  <2>2. /\ Len(a) = ConnectorCap /\ DOMAIN a = 1..ConnectorCap /\ a[ConnectorCap] = p
        /\ \A i \in 1..ConnectorCap - 1 : a[i] = b[i + 1]
    BY <2>1, <1>0
  <2>3. \A i \in 1..ConnectorCap - 1 :
          /\ i + 1 \in DOMAIN b /\ a[i] = b[i + 1] /\ b[i + 1].n <= m /\ b[i + 1].n \in Nat
    BY <1>0, <2>1, <2>2 DEF Rising
  <2>4. \A i \in DOMAIN a : i = ConnectorCap \/ i \in 1..ConnectorCap - 1
    BY <1>0, <2>2
  <2>5. Rising(a, m + 1)
    <3> SUFFICES ASSUME NEW i \in DOMAIN a
                 PROVE  a[i].n <= m + 1 /\ \A j \in DOMAIN a : i < j => a[i].n < a[j].n
      BY DEF Rising
    <3>1. CASE i = ConnectorCap
      <4>1. a[i].n = m + 1
        BY <2>2, <3>1
      <4>2. \A j \in DOMAIN a : ~(i < j)
        BY <1>0, <2>2, <3>1
      <4> QED BY <4>1, <4>2
    <3>2. CASE i \in 1..ConnectorCap - 1
      <4>1. a[i] = b[i + 1] /\ b[i + 1].n <= m /\ b[i + 1].n \in Nat /\ i + 1 \in DOMAIN b
        BY <2>3, <3>2
      <4>2. ASSUME NEW j \in DOMAIN a, i < j PROVE a[i].n < a[j].n
        <5>1. CASE j = ConnectorCap
          BY <2>2, <4>1, <5>1
        <5>2. CASE j \in 1..ConnectorCap - 1
          <6>1. j + 1 \in DOMAIN b /\ a[j] = b[j + 1] /\ i + 1 < j + 1
            BY <2>3, <3>2, <4>2, <5>2
          <6> QED BY <4>1, <6>1 DEF Rising
        <5> QED BY <2>4, <5>1, <5>2
      <4>3. a[i].n <= m + 1
        BY <4>1
      <4> QED BY <4>2, <4>3
    <3> QED BY <2>4, <3>1, <3>2
  <2>6. Staged(p, a)
    BY <1>0, <2>2 DEF Staged
  <2>7. ASSUME NEW x \in Packets, x.n <= m, Staged(x, b) PROVE Staged(x, a)
    <3>0. x.n \in Nat
      BY DEF Packets
    <3>1. ASSUME \A i \in 1..ConnectorCap - 1 : a[i].n > x.n PROVE Staged(x, a)
      <4>1. a[ConnectorCap].n > x.n
        BY <2>2, <2>7, <3>0
      <4>2. \A i \in DOMAIN a : a[i].n > x.n
        BY <2>4, <3>1, <4>1
      <4> QED BY <2>2, <4>2 DEF Staged
    <3>2. CASE \E i \in DOMAIN b : b[i] = x
      <4>1. PICK i \in DOMAIN b : b[i] = x
        BY <3>2
      <4>2. CASE i = 1
        <5>1. \A j \in 1..ConnectorCap - 1 : a[j].n > x.n
          <6> SUFFICES ASSUME NEW j \in 1..ConnectorCap - 1 PROVE a[j].n > x.n
            OBVIOUS
          <6>1. j + 1 \in DOMAIN b /\ a[j] = b[j + 1] /\ i < j + 1 /\ b[j + 1].n \in Nat
            BY <2>3, <4>2
          <6>2. b[i].n < b[j + 1].n
            BY <6>1 DEF Rising
          <6> QED BY <3>0, <4>1, <6>1, <6>2
        <5> QED BY <3>1, <5>1
      <4>3. CASE i # 1
        <5>1. i - 1 \in 1..ConnectorCap - 1 /\ i - 1 \in DOMAIN a /\ a[i - 1] = b[i - 1 + 1] /\ i - 1 + 1 = i
          BY <1>0, <2>1, <2>2, <4>3
        <5> QED BY <4>1, <5>1 DEF Staged
      <4> QED BY <4>2, <4>3
    <3>3. CASE \A i \in DOMAIN b : b[i].n > x.n
      BY <2>3, <3>1, <3>3
    <3> QED BY <2>7, <3>2, <3>3 DEF Staged
  <2> QED BY <2>5, <2>6, <2>7
<1> QED BY <1>1, <1>2

\* What is promised to an absent connector stays in its buffer, or gives way to newer packets
LEMMA StagingStep ==
  ASSUME TypeOK, RegisteredIsOpen, StagingInv, [Next]_vars
  PROVE  StagingInv'
<1>0. /\ pushed \in Nat
      /\ \A c \in Connectors : /\ connectorBuffers[c] \in Seq(Packets)
                               /\ Len(connectorBuffers[c]) <= ConnectorCap
                               /\ Rising(connectorBuffers[c], pushed)
      /\ \A p \in Packets : p.n \in Nat
      /\ \A p \in Packets : \A c \in Addressed(p) : c \in Connectors
  <2>1. pushed \in Nat
    BY DeliveryConstants DEF TypeOK
  <2>2. ASSUME NEW c \in Connectors
        PROVE  /\ connectorBuffers[c] \in Seq(Packets)
               /\ Len(connectorBuffers[c]) <= ConnectorCap
               /\ Rising(connectorBuffers[c], pushed)
    BY DEF TypeOK, StagingInv, OwnInOrder, Rising
  <2>3. \A p \in Packets : p.n \in Nat
    BY DEF Packets
  <2>4. \A p \in Packets : \A c \in Addressed(p) : c \in Connectors
    BY DEF Addressed, Connectors
  <2> QED BY <2>1, <2>2, <2>3, <2>4
<1>1. AbsentOffline'
  BY OfflineStep DEF StagingInv
<1>2. ASSUME NEW c, Absent(c)' PROVE Absent(c)
  BY <1>2, NoneFreedStep DEF Absent, NoneFreed
<1>3. ASSUME NEW p \in Packets, Routed(p)
      PROVE  OwnInOrder' /\ PromisedOld' /\ PromisedStaged'
  <2>1. ASSUME NEW c \in Connectors
        PROVE  /\ Rising(connectorBuffers'[c], pushed')
               /\ c \in Addressed(p) /\ Absent(c) => Staged(p, connectorBuffers'[c])
               /\ \A x \in Packets :
                    x.n <= pushed /\ Staged(x, connectorBuffers[c]) => Staged(x, connectorBuffers'[c])
    <3>1. p.n = pushed + 1 /\ pushed' = pushed + 1
      BY <1>3 DEF Routed
    <3>2. CASE connectorBuffers'[c] = connectorBuffers[c] /\ ~(c \in Addressed(p) /\ Absent(c))
      <4>1. Rising(connectorBuffers[c], pushed + 1)
        <5> SUFFICES ASSUME NEW i \in DOMAIN connectorBuffers[c]
                     PROVE  connectorBuffers[c][i].n <= pushed + 1
          BY <1>0 DEF Rising
        <5>1. connectorBuffers[c][i] \in Packets
          BY <1>0
        <5>2. connectorBuffers[c][i].n \in Nat /\ connectorBuffers[c][i].n <= pushed
          BY <1>0, <5>1 DEF Rising
        <5> QED BY <1>0, <5>2
      <4> QED BY <3>1, <3>2, <4>1
    <3>3. CASE connectorBuffers'[c] = BufferDataForOfflineConnector(connectorBuffers[c], p)
      <4>1. PICK b, a : b = connectorBuffers[c] /\ a = BufferDataForOfflineConnector(b, p)
        OBVIOUS
      <4>2. PICK m \in Nat : m = pushed
        BY <1>0
      <4>3. /\ Rising(a, m + 1) /\ Staged(p, a)
            /\ \A x \in Packets : x.n <= m /\ Staged(x, b) => Staged(x, a)
        BY <1>0, <3>1, <4>1, <4>2, BufferAfter
      <4> QED BY <3>1, <3>3, <4>1, <4>2, <4>3
    <3> QED BY <1>3, <3>2, <3>3 DEF Routed
  <2>2. PromisedOld'
    <3> SUFFICES ASSUME NEW x \in Packets, Promised(x)' PROVE x.n <= pushed'
      BY DEF PromisedOld
    <3>1. (Promised(x) \/ x = p) /\ p.n = pushed + 1 /\ pushed' = pushed + 1
      BY <1>3 DEF Routed
    <3>2. Promised(x) => x.n <= pushed
      BY DEF StagingInv, PromisedOld
    <3> QED BY <1>0, <3>1, <3>2
  <2>3. PromisedStaged'
    <3> SUFFICES ASSUME NEW x \in Packets, NEW c \in Addressed(x), Promised(x)', Absent(c)'
                 PROVE  Staged(x, connectorBuffers'[c])
      BY DEF PromisedStaged, Addressed, ShouldSend, Staged
    <3>1. Absent(c) /\ c \in Connectors /\ (Promised(x) \/ x = p)
      BY <1>0, <1>2, <1>3 DEF Routed
    <3>2. Promised(x) => x.n <= pushed /\ Staged(x, connectorBuffers[c])
      BY <3>1 DEF StagingInv, PromisedOld, PromisedStaged
    <3> QED BY <2>1, <3>1, <3>2
  <2> QED BY <2>1, <2>2, <2>3 DEF OwnInOrder, Rising
<1>4. ASSUME Kept
      PROVE  OwnInOrder' /\ PromisedOld' /\ PromisedStaged'
  <2>1. OwnInOrder'
    <3> SUFFICES ASSUME NEW c \in Connectors
                 PROVE  Rising(connectorBuffers'[c], pushed')
      BY DEF OwnInOrder, Rising
    <3>1. CASE connectorBuffers'[c] = connectorBuffers[c]
      BY <1>0, <1>4, <3>1 DEF Kept
    <3>2. CASE connectorBuffers'[c] = <<>>
      BY <3>2 DEF Rising
    <3> QED BY <1>4, <3>1, <3>2 DEF Kept
  <2>2. PromisedOld'
    BY <1>4 DEF Kept, StagingInv, PromisedOld
  <2>3. PromisedStaged'
    <3> SUFFICES ASSUME NEW x \in Packets, NEW c \in Addressed(x), Promised(x)', Absent(c)'
                 PROVE  Staged(x, connectorBuffers'[c])
      BY DEF PromisedStaged, Addressed, ShouldSend, Staged
    <3>1. Absent(c) /\ c \in Connectors /\ Promised(x)
      BY <1>0, <1>2, <1>4 DEF Kept
    <3>2. connectorBuffers'[c] = connectorBuffers[c]
      BY <1>4, <3>1 DEF Kept
    <3>3. Staged(x, connectorBuffers[c])
      BY <3>1 DEF StagingInv, PromisedStaged
    <3> QED BY <3>2, <3>3
  <2> QED BY <2>1, <2>2, <2>3
<1>5. AbsentOffline
  BY DEF StagingInv
<1> QED BY <1>1, <1>3, <1>4, <1>5, BufferCases DEF StagingInv

\* At first nothing is promised
LEMMA InitStaging == Init => StagingInv
<1> SUFFICES ASSUME Init PROVE StagingInv
  OBVIOUS
<1>1. AbsentOffline
  BY DEF Init, AbsentOffline
<1>2. OwnInOrder
  BY DEF Init, OwnInOrder
<1>3. \A p \in Packets : ~Promised(p)
  BY DEF Init, Promised, NoPush
<1> QED BY <1>1, <1>2, <1>3 DEF StagingInv, PromisedOld, PromisedStaged

LEMMA StagingShows == TypeOK /\ StagingInv => BuffersConsistent
<1> SUFFICES ASSUME TypeOK, StagingInv, NEW p \in accepted, NEW c \in Addressed(p), Absent(c)
             PROVE  Staged(p, connectorBuffers[c])
  BY DEF BuffersConsistent, StagedForOffline, Absent, Staged
<1>1. p \in Packets /\ Promised(p)
  BY DEF TypeOK, Promised
<1> QED BY <1>1 DEF StagingInv, PromisedStaged

-----------------------------------------------------------------------------
(* The results *)

\* subscribers only ever holds open channels of the connector they are registered for, so that no
\* channel is closed twice; after CloseChannel nobody is or gets subscribed
THEOREM SubscribersStayConsistent == SafetySpec => []SubscribersConsistent
<1>1. IInv => SubscribersConsistent
  BY DEF IInv, SubscribersConsistent
<1> QED BY InitIInv, StepIInv, <1>1, PTL DEF SafetySpec

\* Queues and buffers keep to their capacities, and what PushData accepts for a receiver that has
\* not opened a stream waits in its buffer, or that buffer is full of newer packets
THEOREM BuffersStayConsistent == SafetySpec => []BuffersConsistent
<1>1. IInv => RegisteredIsOpen
  BY DEF IInv
<1>2. TypeOK /\ IInv /\ StagingInv /\ [Next]_vars => StagingInv'
  BY <1>1, StagingStep
<1> QED
  BY InitIInv, StepIInv, InitTypes, StepTypes, InitStaging, <1>2, StagingShows, PTL DEF SafetySpec

\* A stream carries what is addressed to its connector only, and the live packets of a sender in
\* the order in which they were pushed, although the replay writes into the same channel
THEOREM StreamsStayConsistent == SafetySpec => []StreamsConsistent
  BY InitIInv, StepIInv, InitTypes, StepTypes, InitFlow, StepFlow, FlowShows, PTL DEF SafetySpec
=============================================================================
