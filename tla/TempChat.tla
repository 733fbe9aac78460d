------------------------------ MODULE TempChat ------------------------------
(***************************************************************************)
(* Temporary chat between connectors of one kernel                         *)
(* (kernel/tempchat/manager.go and service.go, connector/tempchat/         *)
(* client.go).                                                             *)
(*                                                                         *)
(* A connector registers a session, keeps it alive by heartbeats and reads *)
(* its messages from a stream; the kernel removes a session that is        *)
(* overdue.  All of the manager's maps are under one sync.RWMutex: a       *)
(* writer that waits keeps new readers out, and SendMessage takes the read *)
(* lock and then, in GetSessionByConnector, takes it again.  The send on   *)
(* the session's Go channel comes after the lock was released, so the      *)
(* channel may be closed by then, which ends the process (panicked).       *)
(***************************************************************************)
EXTENDS Naturals, Sequences, SequencesExt

CONSTANTS
  Connectors,
  Exposed,             \* the connectors that register with ExposeToOthers
  Receivers,           \* the receiver ids messages are sent to
  Handlers,            \* the calls of ReceiveTempMessage
  NoHandler,
  ChanCap,             \* capacity of MessageChan
  MaxSessions,         \* bound: sessions registered
  MaxMessages,         \* bound: messages sent
  Breaking,            \* bound: the connectors whose stream may fail, once each
  MayClose             \* whether clients unregister

ASSUME ChatConstants ==
  /\ Connectors # {} /\ Exposed \subseteq Connectors
  /\ NoHandler \notin Handlers
  /\ {ChanCap, MaxSessions, MaxMessages} \subseteq Nat \ {0}
  /\ Breaking \subseteq Connectors /\ MayClose \in BOOLEAN

VARIABLES
  session,             \* every session ever made, by its uuid: 1, 2, ...
  byConnector,         \* byConnector, with 0 for no entry
  readers,             \* the senders that hold the read lock of mu
  writer,              \* the call that waits in mu.Lock, or NoWriter
  call,                \* SendTempMessage, one per sender
  client,              \* TempChatClient
  handler,             \* ReceiveTempMessage
  got,                 \* what the message handler of each client was given
  sent,                \* messages sent so far
  accepted,            \* messages put into a channel, in this order
  hungUp,              \* the connectors whose stream has failed or was given up
  panicked

manager == <<session, byConnector>>
lock == <<readers, writer>>
reports == <<got, accepted>>
vars == <<session, byConnector, readers, writer, call, client, handler, got, sent, accepted,
          hungUp, panicked>>

SessionIds == 1..MaxSessions
Messages == [n : 1..MaxMessages, from : Connectors, to : Receivers]

NoWriter == [op |-> "none"]
NoCall == [pc |-> "idle"]
NoSession == [pc |-> "unused", of |-> CHOOSE c \in Connectors : TRUE, overdue |-> FALSE,
              chan |-> <<>>]
NoStream == [pc |-> "free", s |-> 0, up |-> FALSE, hold |-> <<>>]

\* a session is in sessions exactly while its channel is open
Live(s) == session[s].pc = "open"
Unused == {s \in SessionIds : session[s].pc = "unused"}
NewSession == CHOOSE s \in Unused : \A u \in Unused : s <= u

\* GetSessionByConnector finds a session
Registered(c) ==
  /\ c \in Connectors
  /\ byConnector[c] # 0
  /\ Live(byConnector[c])

\* GetLocalConnectors: who is listed as online
GetLocalConnectors ==
  {c \in Exposed : \E s \in SessionIds : Live(s) /\ session[s].of = c /\ ~session[s].overdue}

Init ==
  /\ session = [s \in SessionIds |-> NoSession]
  /\ byConnector = [c \in Connectors |-> 0]
  /\ readers = {} /\ writer = NoWriter
  /\ call = [c \in Connectors |-> NoCall]
  /\ client = [c \in Connectors |-> [pc |-> "off", sessionID |-> 0, stream |-> NoHandler]]
  /\ handler = [h \in Handlers |-> NoStream]
  /\ got = [c \in Connectors |-> <<>>]
  /\ sent = 0 /\ accepted = <<>> /\ hungUp = {} /\ panicked = FALSE

Alive == panicked = FALSE /\ panicked' = FALSE

-----------------------------------------------------------------------------
(* sync.RWMutex: who may enter *)

\* mu.RLock returns unless a writer waits
CanRead == writer = NoWriter

\* mu.Lock: announce oneself, keep new readers out
Announce(w) == writer = NoWriter /\ writer' = w
\* ... and go on when the readers are gone; the deferred Unlock follows
Locked(op) ==
  /\ Alive
  /\ writer.op = op
  /\ readers = {}
  /\ writer' = NoWriter /\ readers' = {}

-----------------------------------------------------------------------------
(* Sessions *)

\* TempChatClient.Connect up to the call of RegisterTempSession
Connect(c) ==
  /\ Alive
  /\ client[c].pc = "off" /\ Unused # {}
  /\ Announce([op |-> "register", of |-> c])
  /\ client' = [client EXCEPT ![c].pc = "joining"]
  /\ UNCHANGED <<manager, readers, call, handler, reports, sent, hungUp>>

\* RegisterSession: refresh the connector's session, or make one; Connect remembers its id
RegisterSession ==
  LET c == writer.of
      s == IF Registered(c) THEN byConnector[c] ELSE NewSession
  IN  /\ Locked("register")
      /\ session' = [session EXCEPT ![s] = [pc |-> "open", of |-> c, overdue |-> FALSE,
                                            chan |-> @.chan]]
      /\ byConnector' = [byConnector EXCEPT ![c] = s]
      /\ client' = [client EXCEPT ![c] = [pc |-> "on", sessionID |-> s, stream |-> NoHandler]]
      /\ UNCHANGED <<call, handler, reports, sent, hungUp>>

\* startHeartbeat, while the client is connected; the answer is not looked at
HeartbeatCall(c) ==
  /\ Alive
  /\ client[c].pc = "on"
  /\ Announce([op |-> "heartbeat", s |-> client[c].sessionID, of |-> c])
  /\ UNCHANGED <<manager, readers, call, client, handler, reports, sent, hungUp>>

Heartbeat ==
  /\ Locked("heartbeat")
  /\ session' = IF Live(writer.s) /\ session[writer.s].of = writer.of
                  THEN [session EXCEPT ![writer.s].overdue = FALSE]
                  ELSE session
  /\ UNCHANGED <<byConnector, call, client, handler, reports, sent, hungUp>>

\* SessionTimeout has passed since LastHeartbeat
TimeoutPasses(s) ==
  /\ Alive
  /\ Live(s) /\ ~session[s].overdue
  /\ session' = [session EXCEPT ![s].overdue = TRUE]
  /\ UNCHANGED <<byConnector, lock, call, client, handler, reports, sent, hungUp>>

\* The tick of cleanupLoop
CleanupTick ==
  /\ Alive
  /\ \E s \in SessionIds : Live(s) /\ session[s].overdue
  /\ Announce([op |-> "cleanup"])
  /\ UNCHANGED <<manager, readers, call, client, handler, reports, sent, hungUp>>

Overdue == {s \in SessionIds : Live(s) /\ session[s].overdue}
Owners(S) == {session[s].of : s \in S}

\* mutant: the index keeps its entry
CleanupKeepsIndex ==
  /\ Locked("cleanup")
  /\ session' = [s \in SessionIds |->
                   IF s \in Overdue THEN [session[s] EXCEPT !.pc = "closed"] ELSE session[s]]
  /\ UNCHANGED <<byConnector, call, client, handler, reports, sent, hungUp>>

\* cleanupExpiredSessions: both entries go and the channel is closed
CleanupExpiredSessions ==
  /\ Locked("cleanup")
  /\ session' = [s \in SessionIds |->
                   IF s \in Overdue THEN [session[s] EXCEPT !.pc = "closed"] ELSE session[s]]
  /\ byConnector' = [c \in Connectors |-> IF c \in Owners(Overdue) THEN 0 ELSE byConnector[c]]
  /\ UNCHANGED <<call, client, handler, reports, sent, hungUp>>

\* TempChatClient.Close: no more sends, then UnregisterTempSession
Close(c) ==
  /\ Alive /\ MayClose
  /\ client[c].pc = "on" /\ call[c] = NoCall
  /\ Announce([op |-> "unregister", s |-> client[c].sessionID, of |-> c])
  /\ client' = [client EXCEPT ![c].pc = "leaving"]
  /\ UNCHANGED <<manager, readers, call, handler, reports, sent, hungUp>>

\* The stream of c ends on the client's side
HangUp(c) ==
  handler' = [h \in Handlers |-> IF h = client[c].stream THEN [handler[h] EXCEPT !.up = FALSE]
                                                         ELSE handler[h]]

\* UnregisterSession, after which the client closes its connection and with it its stream
UnregisterSession ==
  LET s == writer.s  c == writer.of
  IN  /\ Locked("unregister")
      /\ IF Live(s) /\ session[s].of = c
           THEN /\ session' = [session EXCEPT ![s].pc = "closed"]
                /\ byConnector' = [byConnector EXCEPT ![c] = 0]
           ELSE UNCHANGED manager
      /\ client' = [client EXCEPT ![c] = [pc |-> "off", sessionID |-> 0, stream |-> NoHandler]]
      /\ HangUp(c)
      /\ hungUp' = hungUp \union {c}
      /\ UNCHANGED <<call, reports, sent>>

\* The connector's process ends, or loses its connection and is started again
ClientStops(c) ==
  /\ Alive
  /\ client[c].pc = "on" /\ call[c] = NoCall /\ c \in Breaking \ hungUp
  /\ client' = [client EXCEPT ![c] = [pc |-> "off", sessionID |-> 0, stream |-> NoHandler]]
  /\ HangUp(c)
  /\ hungUp' = hungUp \union {c}
  /\ UNCHANGED <<manager, lock, call, reports, sent>>

-----------------------------------------------------------------------------
(* Sending *)

\* SendTempMessage is called; a client that is not connected does not call
SendTempMessage(c, to) ==
  /\ Alive
  /\ client[c].pc = "on" /\ call[c] = NoCall /\ sent < MaxMessages
  /\ sent' = sent + 1
  /\ call' = [call EXCEPT ![c] = [pc |-> "route", m |-> [n |-> sent + 1, from |-> c, to |-> to]]]
  /\ UNCHANGED <<manager, lock, client, handler, reports, hungUp>>

\* RouteMessage looks the receiver up.  One without a session is taken for a connector of
\* another kernel: relayHandler is called, and what it answers is the answer.
RouteMessage(c) ==
  /\ Alive
  /\ call[c].pc = "route" /\ CanRead
  /\ call' = [call EXCEPT ![c] = IF Registered(@.m.to) THEN [pc |-> "lock", m |-> @.m] ELSE NoCall]
  /\ UNCHANGED <<manager, lock, client, handler, reports, sent, hungUp>>

\* SendMessage takes the read lock ...
SendMessageLock(c) ==
  /\ Alive
  /\ call[c].pc = "lock" /\ CanRead
  /\ readers' = readers \union {c}
  /\ call' = [call EXCEPT ![c].pc = "lookup"]
  /\ UNCHANGED <<manager, writer, client, handler, reports, sent, hungUp>>

\* ... and GetSessionByConnector takes it once more, which a waiting writer prevents; both
\* are released, and the call ends here when the session is gone
SendMessageLookup(c) ==
  /\ Alive
  /\ call[c].pc = "lookup" /\ CanRead
  /\ readers' = readers \ {c}
  /\ call' = [call EXCEPT ![c] = IF Registered(@.m.to)
                                   THEN [pc |-> "send", m |-> @.m, s |-> byConnector[@.m.to]]
                                   ELSE NoCall]
  /\ UNCHANGED <<manager, writer, client, handler, reports, sent, hungUp>>

Room(s) == Len(session[s].chan) < ChanCap

\* mutant: a send that times out is reported as done
SendReportsAnyway(c) ==
  /\ Alive
  /\ call[c].pc = "send" /\ Live(call[c].s)
  /\ accepted' = Append(accepted, call[c].m)
  /\ session' = [session EXCEPT ![call[c].s].chan = IF Room(call[c].s) THEN Append(@, call[c].m) ELSE @]
  /\ call' = [call EXCEPT ![c] = NoCall]
  /\ UNCHANGED <<byConnector, lock, client, handler, got, sent, hungUp>>

\* The send on MessageChan, without the lock
SendMessage(c) ==
  /\ Alive
  /\ call[c].pc = "send" /\ Live(call[c].s) /\ Room(call[c].s)
  /\ session' = [session EXCEPT ![call[c].s].chan = Append(@, call[c].m)]
  /\ accepted' = Append(accepted, call[c].m)
  /\ call' = [call EXCEPT ![c] = NoCall]
  /\ UNCHANGED <<byConnector, lock, client, handler, got, sent, hungUp>>

\* ... which gives up after 5 s
SendTimesOut(c) ==
  /\ Alive
  /\ call[c].pc = "send" /\ Live(call[c].s) /\ ~Room(call[c].s)
  /\ call' = [call EXCEPT ![c] = NoCall]
  /\ UNCHANGED <<manager, lock, client, handler, reports, sent, hungUp>>

\* ... and panics when the channel was closed meanwhile
SendPanics(c) ==
  /\ ~panicked /\ panicked' = TRUE
  /\ call[c].pc = "send" /\ ~Live(call[c].s)
  /\ UNCHANGED <<manager, lock, call, client, handler, reports, sent, hungUp>>

-----------------------------------------------------------------------------
(* Receiving *)

\* receiveMessages opens a stream, and ReceiveTempMessage gets the channel of the session (a
\* session that is gone is an error, and the client asks again with the same id)
ReceiveTempMessage(c, h) ==
  /\ Alive
  /\ client[c].pc = "on" /\ client[c].stream = NoHandler
  /\ handler[h].pc = "free" /\ CanRead
  /\ Live(client[c].sessionID) /\ session[client[c].sessionID].of = c
  /\ handler' = [handler EXCEPT ![h] = [pc |-> "on", s |-> client[c].sessionID, up |-> TRUE,
                                        hold |-> <<>>]]
  /\ client' = [client EXCEPT ![c].stream = h]
  /\ UNCHANGED <<manager, lock, call, reports, sent, hungUp>>

\* mutant: the message stays in the channel until it is sent
HandlerPeeks(h) ==
  /\ Alive
  /\ handler[h].pc = "on" /\ handler[h].hold = <<>>
  /\ session[handler[h].s].chan # <<>>
  /\ handler' = [handler EXCEPT ![h].hold = <<Head(session[handler[h].s].chan)>>]
  /\ UNCHANGED <<manager, lock, call, client, reports, sent, hungUp>>

\* The handler takes a message from its channel, closed or not
HandlerTakes(h) ==
  /\ Alive
  /\ handler[h].pc = "on" /\ handler[h].hold = <<>>
  /\ session[handler[h].s].chan # <<>>
  /\ handler' = [handler EXCEPT ![h].hold = <<Head(session[handler[h].s].chan)>>]
  /\ session' = [session EXCEPT ![handler[h].s].chan = Tail(@)]
  /\ UNCHANGED <<byConnector, lock, call, client, reports, sent, hungUp>>

\* ... and sends it on the stream; on one that is down it returns, and the message is lost
HandlerSends(h) ==
  LET c == session[handler[h].s].of
  IN  /\ Alive
      /\ handler[h].hold # <<>>
      /\ got' = IF handler[h].up THEN [got EXCEPT ![c] = @ \o handler[h].hold] ELSE got
      /\ handler' = [handler EXCEPT ![h] = IF @.up THEN [@ EXCEPT !.hold = <<>>] ELSE NoStream]
      /\ UNCHANGED <<manager, lock, call, client, sent, accepted, hungUp>>

\* mutant: a closed channel ends the stream before it is drained
HandlerEndsOnClose(h) ==
  /\ Alive
  /\ handler[h].pc = "on" /\ handler[h].hold = <<>>
  /\ ~handler[h].up \/ ~Live(handler[h].s)
  /\ handler' = [handler EXCEPT ![h] = NoStream]
  /\ client' = [c \in Connectors |-> IF client[c].stream = h
                                       THEN [client[c] EXCEPT !.stream = NoHandler]
                                       ELSE client[c]]
  /\ UNCHANGED <<manager, lock, call, reports, sent, hungUp>>

\* The handler ends when its context is done, or when its channel is closed and empty
HandlerEnds(h) ==
  /\ Alive
  /\ handler[h].pc = "on" /\ handler[h].hold = <<>>
  /\ ~handler[h].up \/ (~Live(handler[h].s) /\ session[handler[h].s].chan = <<>>)
  /\ handler' = [handler EXCEPT ![h] = NoStream]
  /\ client' = [c \in Connectors |-> IF client[c].stream = h
                                       THEN [client[c] EXCEPT !.stream = NoHandler]
                                       ELSE client[c]]
  /\ UNCHANGED <<manager, lock, call, reports, sent, hungUp>>

\* The stream fails: the client's Recv returns an error and startMessageReceiver opens
\* another one, while the kernel's handler may not know yet
StreamBreaks(c) ==
  /\ Alive
  /\ client[c].stream # NoHandler /\ c \in Breaking \ hungUp
  /\ HangUp(c)
  /\ client' = [client EXCEPT ![c].stream = NoHandler]
  /\ hungUp' = hungUp \union {c}
  /\ UNCHANGED <<manager, lock, call, reports, sent>>

-----------------------------------------------------------------------------
Next ==
  \/ RegisterSession \/ Heartbeat \/ CleanupTick \/ CleanupExpiredSessions \/ UnregisterSession
  \/ \E s \in SessionIds : TimeoutPasses(s)
  \/ \E c \in Connectors :
       \/ Connect(c) \/ HeartbeatCall(c) \/ Close(c) \/ ClientStops(c) \/ StreamBreaks(c)
       \/ RouteMessage(c) \/ SendMessageLock(c) \/ SendMessageLookup(c)
       \/ SendMessage(c) \/ SendTimesOut(c) \/ SendPanics(c)
       \/ \E to \in Receivers : SendTempMessage(c, to)
       \/ \E h \in Handlers : ReceiveTempMessage(c, h)
  \/ \E h \in Handlers : HandlerTakes(h) \/ HandlerSends(h) \/ HandlerEnds(h)

\* Handlers that have something to send go on; no client has to do anything
HandlersRun == \A h \in Handlers : WF_vars(HandlerTakes(h)) /\ WF_vars(HandlerSends(h))

Spec == Init /\ [][Next]_vars /\ HandlersRun

-----------------------------------------------------------------------------
Sessions == [pc : {"unused", "open", "closed"}, of : Connectors, overdue : BOOLEAN,
             chan : Seq(Messages)]
Writers == [op : {"none", "cleanup"}] \union [op : {"register"}, of : Connectors]
           \union [op : {"heartbeat", "unregister"}, s : SessionIds, of : Connectors]
Calls == [pc : {"idle"}] \union [pc : {"route", "lock", "lookup"}, m : Messages]
         \union [pc : {"send"}, m : Messages, s : SessionIds]
Clients == [pc : {"off", "joining", "on", "leaving"}, sessionID : 0..MaxSessions,
            stream : Handlers \union {NoHandler}]
Streams == [pc : {"free", "on"}, s : 0..MaxSessions, up : BOOLEAN, hold : Seq(Messages)]

\* Every variable has its type, and no session's channel is over its capacity
TypeOK ==
  /\ session \in [SessionIds -> Sessions]
  /\ \A s \in SessionIds : Len(session[s].chan) <= ChanCap
  /\ byConnector \in [Connectors -> 0..MaxSessions]
  /\ readers \subseteq Connectors /\ writer \in Writers
  /\ call \in [Connectors -> Calls]
  /\ client \in [Connectors -> Clients]
  /\ handler \in [Handlers -> Streams]
  /\ got \in [Connectors -> Seq(Messages)] /\ accepted \in Seq(Messages)
  /\ sent \in 0..MaxMessages /\ hungUp \subseteq Connectors /\ panicked \in BOOLEAN

\* The two maps agree whatever registers, expires and unregisters: every connector has at most
\* one session, byConnector names it, and no entry is left over (RegisterSession,
\* UnregisterSession, cleanupExpiredSessions).  Hence who is listed can be written to.
MapsAgree ==
  /\ \A s \in SessionIds : Live(s) => byConnector[session[s].of] = s
  /\ \A c \in Connectors : byConnector[c] # 0 =>
       Live(byConnector[c]) /\ session[byConnector[c]].of = c
  /\ \A c \in GetLocalConnectors : Registered(c)

\* Where a message that was put into a channel can be
Underway(m) ==
  \/ \E s \in SessionIds : m \in ToSet(session[s].chan)
  \/ \E h \in Handlers : m \in ToSet(handler[h].hold)

\* A message SendTempMessage put into a channel is not lost unless its receiver's stream failed
\* or was given up: it waits in a channel, is with a handler, or was handed to its receiver,
\* although sessions expire and channels are closed under it.
NothingLostWithoutBreak ==
  \A m \in ToSet(accepted) : m.to \in hungUp \/ Underway(m) \/ m \in ToSet(got[m.to])

\* What a client is given was addressed to its connector, comes once, and comes in the order
\* of acceptance, also when the stream was opened again while the old handler still reads.
InOrderOfAcceptance ==
  \A c \in Connectors :
    \E f \in [DOMAIN got[c] -> DOMAIN accepted] :
      /\ \A i \in DOMAIN got[c] : accepted[f[i]] = got[c][i] /\ got[c][i].to = c
      /\ \A i, j \in DOMAIN got[c] : i < j => f[i] < f[j]

\* A message in the channel of a session that is being read arrives, unless the receiver's
\* stream fails or the kernel dies; the lock, an expiry and the close of the channel do not stop
\* it (ReceiveTempMessage).
WaitingArrives ==
  \A n \in 1..MaxMessages : \A c \in Connectors \intersect Receivers :
    (\E h \in Handlers :
       /\ handler[h].up
       /\ \E m \in ToSet(session[handler[h].s].chan) : m.n = n /\ m.to = c)
    ~> (c \in hungUp \/ panicked \/ \E m \in ToSet(got[c]) : m.n = n)

\* SAFETY.  Channels keep to their capacity and the two maps of sessions agree (RegisterSession,
\* UnregisterSession, cleanupExpiredSessions)
SessionsConsistent == TypeOK /\ MapsAgree
=============================================================================
