----------------------------- MODULE ChatProofs -----------------------------
(***************************************************************************)
(* Proofs about TempChat (sessions, streams and messages) and about        *)
(* OperatorPeer (the links chat messages are relayed over between          *)
(* kernels), which has its own inductive invariant below.                  *)
(*                                                                         *)
(* None of the results on TempChat is inductive by itself.  That a message *)
(* is not lost needs that the message in the hands of a handler whose      *)
(* stream is down belongs to a connector that hung up; that the order is   *)
(* kept needs to know that nobody but one handler can hand anything to a   *)
(* connector, and only from one channel: a client that registers again     *)
(* keeps its session while it lives, and the handlers whose stream is up   *)
(* are those the clients read from (StreamsAttached).  This in turn rests  *)
(* on the maps (MapsAgree), on the sessions that everybody names having    *)
(* been made (NamesExist) and on every message being sent once             *)
(* (MessagesKept).  OrderKept says of the places a message passes through  *)
(* (channel, handler, client) that what is further on was accepted before  *)
(* what is behind.                                                         *)
(*                                                                         *)
(* A step either moves no message (QuietStep) or is one of the four steps  *)
(* SendTempMessage, SendMessage, HandlerTakes and HandlerSends, and each   *)
(* has its own lemma.                                                      *)
(***************************************************************************)
EXTENDS TempChat, OperatorPeer, WellFoundedInduction, TLAPS

-----------------------------------------------------------------------------
(* The inductive invariant *)

Speaks(c) == client[c].pc \in {"on", "leaving"}
On(h) == handler[h].pc = "on"
Reads(h) == On(h) /\ handler[h].up
Owner(h) == session[handler[h].s].of

\* What is used exists: sessions that clients, calls and handlers name were made, and a session
\* that was not made yet is empty and left for whoever is about to register
NamesExist ==
  /\ \A s \in SessionIds : session[s].pc = "unused" => session[s].chan = <<>>
  /\ writer.op = "register" => Unused # {} /\ client[writer.of].pc = "joining"
  /\ \A c \in Connectors : Speaks(c) =>
       client[c].sessionID # 0 /\ session[client[c].sessionID].pc # "unused"
  /\ \A c \in Connectors : call[c].pc = "send" =>
       session[call[c].s].pc # "unused" /\ session[call[c].s].of = call[c].m.to
  /\ \A h \in Handlers : On(h) => handler[h].s # 0 /\ session[handler[h].s].pc # "unused"
  /\ \A h \in Handlers : ~On(h) => handler[h].hold = <<>>

\* A client speaks for the live session of its connector, and the handlers whose stream is up
\* are those the clients read from, one for each at most
StreamsAttached ==
  /\ \A c \in Connectors, s \in SessionIds :
       Speaks(c) /\ Live(s) /\ session[s].of = c => client[c].sessionID = s
  /\ \A c \in Connectors : client[c].stream # NoHandler =>
       /\ Speaks(c) /\ Reads(client[c].stream) /\ Owner(client[c].stream) = c
       /\ handler[client[c].stream].s = client[c].sessionID
  /\ \A h \in Handlers : Reads(h) => client[Owner(h)].stream = h
  /\ \A h \in Handlers : On(h) /\ ~handler[h].up => Owner(h) \in hungUp

\* A message that was accepted, under way and given is one that was sent, once, to the owner
\* of the session
MessagesKept ==
  /\ \A c \in Connectors : call[c].pc # "idle" => call[c].m.n <= sent
  /\ \A c, d \in Connectors : call[c].pc # "idle" /\ call[d].pc # "idle" /\ c # d =>
       call[c].m.n # call[d].m.n
  /\ \A i \in DOMAIN accepted :
       /\ accepted[i].n <= sent /\ accepted[i].to \in Connectors
       /\ \A c \in Connectors : call[c].pc # "idle" => call[c].m.n # accepted[i].n
  /\ \A i, j \in DOMAIN accepted : accepted[i] = accepted[j] => i = j
  /\ \A s \in SessionIds : \A m \in ToSet(session[s].chan) :
       m \in ToSet(accepted) /\ m.to = session[s].of
  /\ \A h \in Handlers : \A m \in ToSet(handler[h].hold) : m \in ToSet(accepted) /\ m.to = Owner(h)
  /\ \A c \in Connectors : \A m \in ToSet(got[c]) : m \in ToSet(accepted) /\ m.to = c

\* The pairs of messages of which the first was accepted before the second
Prior ==
  {p \in Messages \X Messages :
     \E i, j \in DOMAIN accepted : i < j /\ accepted[i] = p[1] /\ accepted[j] = p[2]}

InOrder(q) == \A i, j \in DOMAIN q : i < j => <<q[i], q[j]>> \in Prior
Precede(M, K) == \A m \in M, k \in K : <<m, k>> \in Prior

\* A session from which its owner may still be given messages
Open(s) == Live(s) \/ \E h \in Handlers : Reads(h) /\ handler[h].s = s

\* Everything is kept in the order of acceptance: what was given, then what a handler holds,
\* then what is in the channel
OrderKept ==
  /\ \A s \in SessionIds : InOrder(session[s].chan)
  /\ \A c \in Connectors : InOrder(got[c])
  /\ \A s \in SessionIds : Open(s) => Precede(ToSet(got[session[s].of]), ToSet(session[s].chan))
  /\ \A h \in Handlers : Reads(h) =>
       /\ Len(handler[h].hold) <= 1
       /\ Precede(ToSet(got[Owner(h)]), ToSet(handler[h].hold))
       /\ Precede(ToSet(handler[h].hold), ToSet(session[handler[h].s].chan))

ChatInv == TypeOK /\ MapsAgree /\ NamesExist /\ StreamsAttached /\ MessagesKept /\ OrderKept
           /\ NothingLostWithoutBreak

-----------------------------------------------------------------------------
(* Types *)

\* The records the variables hold
LEMMA Fields ==
  ASSUME TypeOK
  PROVE  /\ \A s \in SessionIds :
              /\ session[s].pc \in {"unused", "open", "closed"} /\ session[s].of \in Connectors
              /\ session[s].overdue \in BOOLEAN /\ session[s].chan \in Seq(Messages)
         /\ \A c \in Connectors :
              /\ client[c].pc \in {"off", "joining", "on", "leaving"}
              /\ client[c].sessionID \in 0..MaxSessions
              /\ client[c].stream \in Handlers \union {NoHandler}
              /\ byConnector[c] \in 0..MaxSessions /\ got[c] \in Seq(Messages)
              /\ call[c].pc # "idle" => call[c].m \in Messages
              /\ call[c].pc = "send" => call[c].s \in SessionIds
         /\ \A h \in Handlers :
              /\ handler[h].pc \in {"free", "on"} /\ handler[h].s \in 0..MaxSessions
              /\ handler[h].up \in BOOLEAN /\ handler[h].hold \in Seq(Messages)
<1>1. \A s \in SessionIds :
        /\ session[s].pc \in {"unused", "open", "closed"} /\ session[s].of \in Connectors
        /\ session[s].overdue \in BOOLEAN /\ session[s].chan \in Seq(Messages)
  BY DEF TypeOK, Sessions
<1>2. ASSUME NEW c \in Connectors
      PROVE  /\ client[c].pc \in {"off", "joining", "on", "leaving"}
             /\ client[c].sessionID \in 0..MaxSessions
             /\ client[c].stream \in Handlers \union {NoHandler}
             /\ byConnector[c] \in 0..MaxSessions /\ got[c] \in Seq(Messages)
  BY DEF TypeOK, Clients
<1>3. ASSUME NEW c \in Connectors
      PROVE  /\ call[c].pc # "idle" => call[c].m \in Messages
             /\ call[c].pc = "send" => call[c].s \in SessionIds
  <2>1. call[c] \in Calls
    BY DEF TypeOK
  <2> QED BY <2>1 DEF Calls
<1>4. \A h \in Handlers :
        /\ handler[h].pc \in {"free", "on"} /\ handler[h].s \in 0..MaxSessions
        /\ handler[h].up \in BOOLEAN /\ handler[h].hold \in Seq(Messages)
  BY DEF TypeOK, Streams
<1> QED BY <1>1, <1>2, <1>3, <1>4

\* The call that waits for the lock
LEMMA WriterFields ==
  ASSUME TypeOK
  PROVE  /\ writer.op \in {"register", "heartbeat", "unregister"} => writer.of \in Connectors
         /\ writer.op \in {"heartbeat", "unregister"} => writer.s \in SessionIds
<1>1. writer \in Writers
  BY DEF TypeOK
<1> QED BY <1>1 DEF Writers

\* A session that was not made yet can be made
LEMMA NewSessionUnused ==
  ASSUME Unused # {}
  PROVE  NewSession \in Unused
<1> DEFINE R == OpToRel(<, Nat)
<1>1. IsWellFoundedOn(R, Nat)
  BY NatLessThanWellFounded
<1> HIDE DEF R
<1>2. Unused \subseteq Nat
  BY ChatConstants DEF Unused, SessionIds
<1>3. PICK x \in Unused : \A y \in Unused : ~ (<<y, x>> \in R)
  BY <1>1, <1>2, WFMin
<1>4. ASSUME NEW y \in Unused PROVE x <= y
  <2>1. ~ (<<y, x>> \in R) /\ x \in Nat /\ y \in Nat
    BY <1>2, <1>3
  <2>2. ~ (y < x)
    BY <2>1 DEF R, OpToRel
  <2> QED BY <2>1, <2>2
<1>5. \E s \in Unused : \A u \in Unused : s <= u
  BY <1>3, <1>4
<1> QED BY <1>5 DEF NewSession

\* Another session in its place
LEMMA SessionUpdate ==
  ASSUME TypeOK, NEW s \in SessionIds, NEW r \in Sessions, session' = [session EXCEPT ![s] = r]
  PROVE  /\ session' \in [SessionIds -> Sessions]
         /\ \A u \in SessionIds : session'[u] = IF u = s THEN r ELSE session[u]
  BY DEF TypeOK

\* A heartbeat or its absence
LEMMA OverdueUpdate ==
  ASSUME TypeOK, NEW s \in SessionIds, NEW b \in BOOLEAN,
         session' = [session EXCEPT ![s].overdue = b]
  PROVE  /\ session' \in [SessionIds -> Sessions]
         /\ \A u \in SessionIds : /\ session'[u].pc = session[u].pc
                                  /\ session'[u].of = session[u].of
                                  /\ session'[u].chan = session[u].chan
<1> DEFINE r == [session[s] EXCEPT !.overdue = b]
<1>1. /\ r \in Sessions
      /\ r.pc = session[s].pc /\ r.of = session[s].of /\ r.chan = session[s].chan
  BY DEF TypeOK, Sessions
<1>2. session' = [session EXCEPT ![s] = r]
  BY DEF TypeOK
<1> HIDE DEF r
<1> QED BY <1>1, <1>2, SessionUpdate

\* A session is closed
LEMMA CloseUpdate ==
  ASSUME TypeOK, NEW s \in SessionIds, session' = [session EXCEPT ![s].pc = "closed"]
  PROVE  /\ session' \in [SessionIds -> Sessions]
         /\ \A u \in SessionIds : /\ session'[u].pc = IF u = s THEN "closed" ELSE session[u].pc
                                  /\ session'[u].of = session[u].of
                                  /\ session'[u].chan = session[u].chan
<1> DEFINE r == [session[s] EXCEPT !.pc = "closed"]
<1>1. /\ r \in Sessions
      /\ r.pc = "closed" /\ r.of = session[s].of /\ r.chan = session[s].chan
  BY DEF TypeOK, Sessions
<1>2. session' = [session EXCEPT ![s] = r]
  BY DEF TypeOK
<1> HIDE DEF r
<1> QED BY <1>1, <1>2, SessionUpdate

\* A message is put into a channel or taken from it
LEMMA ChanUpdate ==
  ASSUME TypeOK, NEW s \in SessionIds, NEW q \in Seq(Messages),
         session' = [session EXCEPT ![s].chan = q]
  PROVE  /\ session' \in [SessionIds -> Sessions]
         /\ \A u \in SessionIds : /\ session'[u].pc = session[u].pc
                                  /\ session'[u].of = session[u].of
                                  /\ session'[u].chan = IF u = s THEN q ELSE session[u].chan
<1> DEFINE r == [session[s] EXCEPT !.chan = q]
<1>1. /\ r \in Sessions
      /\ r.pc = session[s].pc /\ r.of = session[s].of /\ r.chan = q
  BY DEF TypeOK, Sessions
<1>2. session' = [session EXCEPT ![s] = r]
  BY DEF TypeOK
<1> HIDE DEF r
<1> QED BY <1>1, <1>2, SessionUpdate

\* The initial state has its types
LEMMA InitType == Init => TypeOK
<1> SUFFICES ASSUME Init PROVE TypeOK
  OBVIOUS
<1>1. NoSession \in Sessions /\ NoSession.chan = <<>>
  BY ChatConstants DEF NoSession, Sessions
<1>2. session \in [SessionIds -> Sessions] /\ \A s \in SessionIds : Len(session[s].chan) <= ChanCap
  BY <1>1, ChatConstants DEF Init
<1>3. NoStream \in Streams /\ NoCall \in Calls /\ NoWriter \in Writers
  BY ChatConstants DEF NoStream, Streams, NoCall, Calls, NoWriter, Writers
<1>4. [pc |-> "off", sessionID |-> 0, stream |-> NoHandler] \in Clients
  BY ChatConstants DEF Clients
<1>5. byConnector \in [Connectors -> 0..MaxSessions] /\ sent \in 0..MaxMessages
  BY ChatConstants DEF Init
<1>6. got \in [Connectors -> Seq(Messages)] /\ accepted \in Seq(Messages)
  BY DEF Init
<1>7. /\ call \in [Connectors -> Calls] /\ client \in [Connectors -> Clients]
      /\ handler \in [Handlers -> Streams]
  BY <1>3, <1>4 DEF Init
<1>8. readers \subseteq Connectors /\ writer \in Writers /\ hungUp \subseteq Connectors
  BY <1>3 DEF Init
<1>9. panicked \in BOOLEAN
  BY DEF Init
<1> QED BY <1>2, <1>5, <1>6, <1>7, <1>8, <1>9 DEF TypeOK

\* The session RegisterSession refreshes or makes
Registering(c, s) ==
  /\ s = IF Registered(c) THEN byConnector[c] ELSE NewSession
  /\ s \in SessionIds
  /\ session' = [session EXCEPT ![s] = [pc |-> "open", of |-> c, overdue |-> FALSE, chan |-> @.chan]]
  /\ byConnector' = [byConnector EXCEPT ![c] = s]
  /\ client' = [client EXCEPT ![c] = [pc |-> "on", sessionID |-> s, stream |-> NoHandler]]
  /\ writer.op = "register" /\ writer.of = c /\ writer' = NoWriter
  /\ readers' = {} /\ UNCHANGED <<call, handler, got, accepted, sent, hungUp, panicked>>

\* RegisterSession is that
LEMMA RegisterIsRegistering ==
  ASSUME TypeOK, NamesExist, RegisterSession
  PROVE  \E c \in Connectors, s \in SessionIds : Registering(c, s)
<1> DEFINE c == writer.of
           s == IF Registered(c) THEN byConnector[c] ELSE NewSession
<1>1. writer.op = "register" /\ c \in Connectors
  BY WriterFields DEF RegisterSession, Locked
<1>2. s \in SessionIds
  <2>1. CASE Registered(c)
    BY <1>1, <2>1, Fields, ChatConstants DEF Registered, SessionIds
  <2>2. CASE ~Registered(c)
    BY <1>1, <2>2, NewSessionUnused DEF NamesExist, Unused
  <2> QED BY <2>1, <2>2
<1>3. Registering(c, s)
  BY <1>1, <1>2 DEF Registering, RegisterSession, Locked, Alive, reports
<1> QED BY <1>1, <1>2, <1>3

\* HangUp keeps the handlers' types
LEMMA HangUpType ==
  ASSUME TypeOK, NEW c, HangUp(c)
  PROVE  handler' \in [Handlers -> Streams]
<1>1. ASSUME NEW h \in Handlers PROVE handler[h] \in Streams /\ [handler[h] EXCEPT !.up = FALSE] \in Streams
  BY DEF TypeOK, Streams
<1> QED BY <1>1 DEF HangUp

\* Registration, heartbeats, timeouts
LEMMA SessionType ==
  ASSUME TypeOK, NamesExist,
         \/ RegisterSession \/ Heartbeat \/ CleanupTick \/ CleanupExpiredSessions
         \/ UnregisterSession \/ \E s \in SessionIds : TimeoutPasses(s)
  PROVE  TypeOK'
<1>0. NoWriter \in Writers /\ [op |-> "cleanup"] \in Writers /\ 0 \in 0..MaxSessions
  BY ChatConstants DEF NoWriter, Writers
<1>1. CASE RegisterSession
  <2>1. PICK c \in Connectors, s \in SessionIds : Registering(c, s)
    BY <1>1, RegisterIsRegistering
  <2>2. session[s] \in Sessions /\ session[s].chan \in Seq(Messages)
    BY DEF TypeOK, Sessions
  <2> DEFINE r == [pc |-> "open", of |-> c, overdue |-> FALSE, chan |-> session[s].chan]
  <2>3. r \in Sessions /\ r.chan = session[s].chan
    BY <2>2 DEF Sessions
  <2>4. [pc |-> "on", sessionID |-> s, stream |-> NoHandler] \in Clients
    BY ChatConstants DEF Clients, SessionIds
  <2>5. session' = [session EXCEPT ![s] = r]
    BY <2>1 DEF Registering, TypeOK
  <2> HIDE DEF r
  <2>6. session' \in [SessionIds -> Sessions] /\ \A u \in SessionIds : session'[u].chan = session[u].chan
    BY <2>3, <2>5 DEF TypeOK
  <2>7. byConnector' \in [Connectors -> 0..MaxSessions] /\ client' \in [Connectors -> Clients]
    BY <2>1, <2>4, ChatConstants DEF Registering, TypeOK, SessionIds
  <2> QED BY <1>0, <2>1, <2>6, <2>7 DEF Registering, TypeOK
<1>2. CASE Heartbeat
  <2>1. \/ session' = session
        \/ writer.s \in SessionIds /\ session' = [session EXCEPT ![writer.s].overdue = FALSE]
    BY <1>2, WriterFields DEF Heartbeat, Locked
  <2>2. session' \in [SessionIds -> Sessions] /\ \A u \in SessionIds : session'[u].chan = session[u].chan
    BY <2>1, OverdueUpdate DEF TypeOK
  <2> QED BY <1>0, <1>2, <2>2 DEF Heartbeat, Locked, Alive, TypeOK, reports
<1>3. CASE CleanupTick
  BY <1>0, <1>3 DEF CleanupTick, Announce, Alive, TypeOK, reports, manager
<1>4. CASE CleanupExpiredSessions
  <2> DEFINE F(u) == IF u \in Overdue THEN [session[u] EXCEPT !.pc = "closed"] ELSE session[u]
             O == Owners(Overdue)
  <2>1. ASSUME NEW u \in SessionIds PROVE F(u) \in Sessions /\ F(u).chan = session[u].chan
    BY DEF TypeOK, Sessions
  <2>2. session' \in [SessionIds -> Sessions] /\ \A u \in SessionIds : session'[u].chan = session[u].chan
    <3>1. session' = [u \in SessionIds |-> F(u)]
      BY <1>4 DEF CleanupExpiredSessions
    <3> HIDE DEF F
    <3> QED BY <2>1, <3>1
  <2>3. byConnector' \in [Connectors -> 0..MaxSessions]
    <3>1. byConnector' = [c \in Connectors |-> IF c \in O THEN 0 ELSE byConnector[c]]
      BY <1>4 DEF CleanupExpiredSessions
    <3> HIDE DEF O
    <3> QED BY <1>0, <3>1 DEF TypeOK
  <2> QED BY <1>0, <1>4, <2>2, <2>3 DEF CleanupExpiredSessions, Locked, Alive, TypeOK, reports
<1>5. CASE UnregisterSession
  <2>0. writer.s \in SessionIds /\ writer.of \in Connectors
    BY <1>5, WriterFields DEF UnregisterSession, Locked
  <2>1. \/ session' = session /\ byConnector' = byConnector
        \/ /\ session' = [session EXCEPT ![writer.s].pc = "closed"]
           /\ byConnector' = [byConnector EXCEPT ![writer.of] = 0]
    BY <1>5 DEF UnregisterSession, manager
  <2>2. session' \in [SessionIds -> Sessions] /\ \A u \in SessionIds : session'[u].chan = session[u].chan
    BY <2>0, <2>1, CloseUpdate DEF TypeOK
  <2>3. byConnector' \in [Connectors -> 0..MaxSessions]
    BY <1>0, <2>0, <2>1 DEF TypeOK
  <2>4. [pc |-> "off", sessionID |-> 0, stream |-> NoHandler] \in Clients
    BY ChatConstants DEF Clients
  <2>5. client' \in [Connectors -> Clients] /\ hungUp' \subseteq Connectors
    BY <1>5, <2>0, <2>4 DEF UnregisterSession, TypeOK
  <2>6. handler' \in [Handlers -> Streams]
    BY <1>5, HangUpType DEF UnregisterSession
  <2> QED BY <1>0, <1>5, <2>2, <2>3, <2>5, <2>6 DEF UnregisterSession, Locked, Alive, TypeOK, reports
<1>6. ASSUME NEW s \in SessionIds, TimeoutPasses(s) PROVE TypeOK'
  <2>1. session' \in [SessionIds -> Sessions] /\ \A u \in SessionIds : session'[u].chan = session[u].chan
    BY <1>6, OverdueUpdate DEF TimeoutPasses
  <2> QED BY <1>6, <2>1 DEF TimeoutPasses, Alive, TypeOK, reports, lock
<1> QED BY <1>1, <1>2, <1>3, <1>4, <1>5, <1>6

\* What clients do
LEMMA ClientType ==
  ASSUME TypeOK, NamesExist, NEW c \in Connectors,
         Connect(c) \/ HeartbeatCall(c) \/ Close(c) \/ ClientStops(c) \/ StreamBreaks(c)
  PROVE  TypeOK'
<1>1. /\ client[c] \in Clients
      /\ \A pc \in {"joining", "leaving"} : [client[c] EXCEPT !.pc = pc] \in Clients
      /\ [client[c] EXCEPT !.stream = NoHandler] \in Clients
  BY DEF TypeOK, Clients
<1>2. [pc |-> "off", sessionID |-> 0, stream |-> NoHandler] \in Clients
  BY ChatConstants DEF Clients
<1>3. CASE Connect(c)
  <2>1. [op |-> "register", of |-> c] \in Writers
    BY DEF Writers
  <2>2. client' \in [Connectors -> Clients]
    BY <1>1, <1>3 DEF Connect, TypeOK
  <2> QED BY <1>3, <2>1, <2>2 DEF Connect, Announce, Alive, TypeOK, reports, manager
<1>4. ASSUME client[c].pc = "on" PROVE client[c].sessionID \in SessionIds
  BY <1>4, Fields, ChatConstants DEF NamesExist, Speaks, SessionIds
<1>5. CASE HeartbeatCall(c)
  <2>1. [op |-> "heartbeat", s |-> client[c].sessionID, of |-> c] \in Writers
    BY <1>4, <1>5 DEF HeartbeatCall, Writers
  <2> QED BY <1>5, <2>1 DEF HeartbeatCall, Announce, Alive, TypeOK, reports, manager
<1>6. CASE Close(c)
  <2>1. [op |-> "unregister", s |-> client[c].sessionID, of |-> c] \in Writers
    BY <1>4, <1>6 DEF Close, Writers
  <2>2. client' \in [Connectors -> Clients]
    BY <1>1, <1>6 DEF Close, TypeOK
  <2> QED BY <1>6, <2>1, <2>2 DEF Close, Announce, Alive, TypeOK, reports, manager
<1>7. CASE ClientStops(c)
  <2>1. handler' \in [Handlers -> Streams]
    BY <1>7, HangUpType DEF ClientStops
  <2>2. client' \in [Connectors -> Clients] /\ hungUp' \subseteq Connectors
    BY <1>2, <1>7 DEF ClientStops, TypeOK
  <2> QED BY <1>7, <2>1, <2>2 DEF ClientStops, Alive, TypeOK, reports, manager, lock
<1>8. CASE StreamBreaks(c)
  <2>1. handler' \in [Handlers -> Streams]
    BY <1>8, HangUpType DEF StreamBreaks
  <2>2. client' \in [Connectors -> Clients] /\ hungUp' \subseteq Connectors
    BY <1>1, <1>8 DEF StreamBreaks, TypeOK
  <2> QED BY <1>8, <2>1, <2>2 DEF StreamBreaks, Alive, TypeOK, reports, manager, lock
<1> QED BY <1>3, <1>5, <1>6, <1>7, <1>8

\* A call goes on: what it carries stays
LEMMA CallUpdate ==
  ASSUME TypeOK, NEW c \in Connectors, NEW r \in Calls, call' = [call EXCEPT ![c] = r]
  PROVE  /\ call' \in [Connectors -> Calls]
         /\ \A d \in Connectors : call'[d] = IF d = c THEN r ELSE call[d]
  BY DEF TypeOK

\* The steps of SendTempMessage, as one: the call of c becomes r
Sending(c, r) ==
  \/ /\ RouteMessage(c)
     /\ r = IF Registered(call[c].m.to) THEN [pc |-> "lock", m |-> call[c].m] ELSE NoCall
  \/ SendMessageLock(c) /\ r = [pc |-> "lookup", m |-> call[c].m]
  \/ /\ SendMessageLookup(c)
     /\ r = IF Registered(call[c].m.to)
              THEN [pc |-> "send", m |-> call[c].m, s |-> byConnector[call[c].m.to]] ELSE NoCall
  \/ (SendMessage(c) \/ SendTimesOut(c)) /\ r = NoCall

\* ... and that is well formed, with the same message
LEMMA SendingCall ==
  ASSUME TypeOK, NEW c \in Connectors,
         \/ RouteMessage(c) \/ SendMessageLock(c) \/ SendMessageLookup(c)
         \/ SendMessage(c) \/ SendTimesOut(c)
  PROVE  \E r \in Calls : /\ Sending(c, r) /\ call[c].pc # "idle" /\ call' = [call EXCEPT ![c] = r]
                          /\ r.pc # "idle" => r.m = call[c].m
                          /\ r.pc = "send" => call[c].pc = "lookup"
<1>0. call[c] \in Calls /\ NoCall \in Calls /\ NoCall.pc = "idle"
  BY DEF TypeOK, NoCall, Calls
<1>1. CASE RouteMessage(c)
  <2> DEFINE r == IF Registered(call[c].m.to) THEN [pc |-> "lock", m |-> call[c].m] ELSE NoCall
  <2>1. call[c].pc = "route" /\ call' = [call EXCEPT ![c] = r] /\ Sending(c, r)
    BY <1>1 DEF RouteMessage, Sending, TypeOK
  <2>2. call[c].m \in Messages
    BY <2>1, Fields
  <2>3. r \in Calls /\ (r.pc # "idle" => r.m = call[c].m) /\ r.pc # "send"
    BY <1>0, <2>2 DEF Calls
  <2> QED BY <2>1, <2>3
<1>2. CASE SendMessageLock(c)
  <2> DEFINE r == [pc |-> "lookup", m |-> call[c].m]
  <2>1. call[c].pc = "lock" /\ call' = [call EXCEPT ![c].pc = "lookup"] /\ Sending(c, r)
    BY <1>2 DEF SendMessageLock, Sending
  <2>2. call[c] \in [pc : {"lock"}, m : Messages]
    BY <1>0, <2>1 DEF Calls
  <2>3. [call[c] EXCEPT !.pc = "lookup"] = r /\ r \in Calls
    BY <2>2 DEF Calls
  <2>4. call' = [call EXCEPT ![c] = r]
    BY <2>1, <2>3 DEF TypeOK
  <2> QED BY <2>1, <2>3, <2>4
<1>3. CASE SendMessageLookup(c)
  <2> DEFINE r == IF Registered(call[c].m.to)
                    THEN [pc |-> "send", m |-> call[c].m, s |-> byConnector[call[c].m.to]]
                    ELSE NoCall
  <2>1. call[c].pc = "lookup" /\ call' = [call EXCEPT ![c] = r] /\ Sending(c, r)
    BY <1>3 DEF SendMessageLookup, Sending, TypeOK
  <2>2. call[c].m \in Messages
    BY <2>1, Fields
  <2>3. Registered(call[c].m.to) => byConnector[call[c].m.to] \in SessionIds
    BY Fields, ChatConstants DEF Registered, SessionIds
  <2>4. r \in Calls /\ (r.pc # "idle" => r.m = call[c].m)
    BY <1>0, <2>2, <2>3 DEF Calls
  <2> QED BY <2>1, <2>4
<1>4. CASE SendMessage(c) \/ SendTimesOut(c)
  BY <1>0, <1>4 DEF SendMessage, SendTimesOut, Sending
<1> QED BY <1>1, <1>2, <1>3, <1>4

\* SendTempMessage and what follows it
LEMMA SendingType ==
  ASSUME TypeOK, NEW c \in Connectors,
         \/ RouteMessage(c) \/ SendMessageLock(c) \/ SendMessageLookup(c)
         \/ SendMessage(c) \/ SendTimesOut(c) \/ SendPanics(c)
         \/ \E to \in Receivers : SendTempMessage(c, to)
  PROVE  TypeOK'
<1>1. CASE \/ RouteMessage(c) \/ SendMessageLock(c) \/ SendMessageLookup(c) \/ SendTimesOut(c)
  <2>1. call' \in [Connectors -> Calls]
    BY <1>1, SendingCall, CallUpdate
  <2>2. /\ readers' \subseteq Connectors /\ panicked' \in BOOLEAN
        /\ UNCHANGED <<session, byConnector, writer, client, handler, got, sent, accepted, hungUp>>
    BY <1>1 DEF RouteMessage, SendMessageLock, SendMessageLookup, SendTimesOut, Alive, TypeOK,
                lock, reports, manager
  <2> QED BY <2>1, <2>2 DEF TypeOK
<1>2. CASE SendMessage(c)
  <2>1. call' \in [Connectors -> Calls]
    BY <1>2, SendingCall, CallUpdate
  <2>2. call[c].pc = "send" /\ Room(call[c].s)
    BY <1>2 DEF SendMessage
  <2>3. call[c].s \in SessionIds /\ call[c].m \in Messages /\ session[call[c].s].chan \in Seq(Messages)
    BY <2>2, Fields
  <2> DEFINE q == Append(session[call[c].s].chan, call[c].m)
  <2>4. q \in Seq(Messages) /\ Len(q) <= ChanCap
    BY <2>2, <2>3, ChatConstants DEF Room
  <2>5. session' = [session EXCEPT ![call[c].s].chan = q]
    BY <1>2, <2>3 DEF SendMessage, TypeOK
  <2> HIDE DEF q
  <2>6. session' \in [SessionIds -> Sessions] /\ \A s \in SessionIds : Len(session'[s].chan) <= ChanCap
    <3>1. /\ session' \in [SessionIds -> Sessions]
          /\ \A s \in SessionIds : session'[s].chan = IF s = call[c].s THEN q ELSE session[s].chan
      BY <2>3, <2>4, <2>5, ChanUpdate
    <3> QED BY <2>4, <3>1 DEF TypeOK
  <2>7. accepted' \in Seq(Messages)
    BY <1>2, <2>3 DEF SendMessage, TypeOK
  <2> QED BY <1>2, <2>1, <2>6, <2>7 DEF SendMessage, Alive, TypeOK, lock
<1>3. CASE SendPanics(c)
  BY <1>3 DEF SendPanics, TypeOK, lock, reports, manager
<1>4. ASSUME NEW to \in Receivers, SendTempMessage(c, to) PROVE TypeOK'
  <2> DEFINE r == [pc |-> "route", m |-> [n |-> sent + 1, from |-> c, to |-> to]]
  <2>1. sent' = sent + 1 /\ sent + 1 \in 1..MaxMessages /\ sent + 1 \in 0..MaxMessages
    BY <1>4, ChatConstants DEF SendTempMessage, TypeOK
  <2>2. r \in Calls
    BY <2>1 DEF Calls, Messages
  <2>3. call' = [call EXCEPT ![c] = r]
    BY <1>4 DEF SendTempMessage
  <2> HIDE DEF r
  <2>4. call' \in [Connectors -> Calls]
    BY <2>2, <2>3, CallUpdate
  <2> QED BY <1>4, <2>1, <2>4 DEF SendTempMessage, Alive, TypeOK, lock, reports, manager
<1> QED BY <1>1, <1>2, <1>3, <1>4

\* Handlers and their streams
LEMMA HandlerType ==
  ASSUME TypeOK, NamesExist, NEW h \in Handlers,
         \/ \E c \in Connectors : ReceiveTempMessage(c, h)
         \/ HandlerTakes(h) \/ HandlerSends(h) \/ HandlerEnds(h)
  PROVE  TypeOK'
<1>0. /\ handler[h] \in Streams /\ NoStream \in Streams
      /\ \A q \in Seq(Messages) : [handler[h] EXCEPT !.hold = q] \in Streams
  <2>1. handler[h] \in Streams
    BY DEF TypeOK
  <2>2. NoStream \in Streams
    BY ChatConstants DEF NoStream, Streams
  <2>3. ASSUME NEW q \in Seq(Messages) PROVE [handler[h] EXCEPT !.hold = q] \in Streams
    BY <2>1 DEF Streams
  <2> QED BY <2>1, <2>2, <2>3
<1>1. handler[h].s \in 0..MaxSessions /\ handler[h].hold \in Seq(Messages)
  BY Fields
<1>2. On(h) => handler[h].s \in SessionIds
  BY <1>1, ChatConstants DEF NamesExist, SessionIds
<1>3. ASSUME NEW c \in Connectors, ReceiveTempMessage(c, h) PROVE TypeOK'
  <2>1. [pc |-> "on", s |-> client[c].sessionID, up |-> TRUE, hold |-> <<>>] \in Streams
    BY Fields DEF Streams
  <2>2. [client[c] EXCEPT !.stream = h] \in Clients
    BY DEF TypeOK, Clients
  <2>3. handler' \in [Handlers -> Streams] /\ client' \in [Connectors -> Clients]
    BY <1>3, <2>1, <2>2 DEF ReceiveTempMessage, TypeOK
  <2> QED BY <1>3, <2>3 DEF ReceiveTempMessage, Alive, TypeOK, lock, reports, manager
<1>4. CASE HandlerTakes(h)
  <2> DEFINE q == session[handler[h].s].chan
  <2>1. handler[h].s \in SessionIds /\ q \in Seq(Messages) /\ q # <<>> /\ Len(q) <= ChanCap
    BY <1>2, <1>4, Fields DEF HandlerTakes, On, TypeOK
  <2>2. Tail(q) \in Seq(Messages) /\ Len(Tail(q)) <= ChanCap /\ <<Head(q)>> \in Seq(Messages)
    BY <2>1, ChatConstants
  <2>3. /\ session' = [session EXCEPT ![handler[h].s].chan = Tail(q)]
        /\ handler' = [handler EXCEPT ![h] = [handler[h] EXCEPT !.hold = <<Head(q)>>]]
    BY <1>4, <2>1 DEF HandlerTakes, TypeOK
  <2> HIDE DEF q
  <2>4. /\ session' \in [SessionIds -> Sessions]
        /\ \A s \in SessionIds : session'[s].chan = IF s = handler[h].s THEN Tail(q) ELSE session[s].chan
    BY <2>1, <2>2, <2>3, ChanUpdate
  <2>5. \A s \in SessionIds : Len(session'[s].chan) <= ChanCap
    BY <2>2, <2>4 DEF TypeOK
  <2>6. [handler[h] EXCEPT !.hold = <<Head(q)>>] \in Streams
    BY <1>0, <2>2
  <2>7. handler' \in [Handlers -> Streams]
    BY <2>3, <2>6 DEF TypeOK
  <2> QED BY <1>4, <2>4, <2>5, <2>7 DEF HandlerTakes, Alive, TypeOK, lock, reports
<1>5. CASE HandlerSends(h)
  <2>1. On(h) /\ handler[h].s \in SessionIds
    BY <1>2, <1>5 DEF HandlerSends, NamesExist
  <2>2. session[handler[h].s].of \in Connectors
    BY <2>1, Fields
  <2>3. got' \in [Connectors -> Seq(Messages)]
    BY <1>1, <1>5, <2>2 DEF HandlerSends, TypeOK
  <2> DEFINE r == IF handler[h].up THEN [handler[h] EXCEPT !.hold = <<>>] ELSE NoStream
  <2>4. r \in Streams /\ handler' = [handler EXCEPT ![h] = r]
    <3>0. <<>> \in Seq(Messages)
      OBVIOUS
    <3>1. [handler[h] EXCEPT !.hold = <<>>] \in Streams
      BY <1>0, <3>0, Zenon
    <3>2. r \in Streams
      BY <1>0, <3>1
    <3>3. handler' = [handler EXCEPT ![h] = r]
      BY <1>5 DEF HandlerSends
    <3> QED BY <3>2, <3>3
  <2> HIDE DEF r
  <2>5. handler' \in [Handlers -> Streams]
    BY <2>4 DEF TypeOK
  <2> QED BY <1>5, <2>3, <2>5 DEF HandlerSends, Alive, TypeOK, lock, manager
<1>6. CASE HandlerEnds(h)
  <2>1. handler' \in [Handlers -> Streams]
    BY <1>0, <1>6 DEF HandlerEnds, TypeOK
  <2>2. ASSUME NEW c \in Connectors
        PROVE  client[c] \in Clients /\ [client[c] EXCEPT !.stream = NoHandler] \in Clients
    BY DEF TypeOK, Clients
  <2>3. client' \in [Connectors -> Clients]
    BY <1>6, <2>2 DEF HandlerEnds
  <2> QED BY <1>6, <2>1, <2>3 DEF HandlerEnds, Alive, TypeOK, lock, reports, manager
<1> QED BY <1>3, <1>4, <1>5, <1>6

\* Every step keeps the types
LEMMA StepType == TypeOK /\ NamesExist /\ [Next]_vars => TypeOK'
<1>1. TypeOK /\ UNCHANGED vars => TypeOK'
  BY DEF TypeOK, vars
<1> QED BY <1>1, SessionType, ClientType, SendingType, HandlerType DEF Next

-----------------------------------------------------------------------------
(* What the steps do, field by field *)

\* A connector's session is refreshed or made
LEMMA RegisteringEffect ==
  ASSUME TypeOK, NamesExist, NEW c \in Connectors, NEW s \in SessionIds, Registering(c, s)
  PROVE  /\ \/ Registered(c) /\ s = byConnector[c] /\ Live(s)
            \/ ~Registered(c) /\ session[s].pc = "unused"
         /\ \A u \in SessionIds : /\ session'[u].pc = IF u = s THEN "open" ELSE session[u].pc
                                  /\ session'[u].of = IF u = s THEN c ELSE session[u].of
                                  /\ session'[u].chan = session[u].chan
         /\ \A d \in Connectors : byConnector'[d] = IF d = c THEN s ELSE byConnector[d]
         /\ \A d \in Connectors :
              /\ client'[d].pc = IF d = c THEN "on" ELSE client[d].pc
              /\ client'[d].sessionID = IF d = c THEN s ELSE client[d].sessionID
              /\ client'[d].stream = IF d = c THEN NoHandler ELSE client[d].stream
<1>1. \/ Registered(c) /\ s = byConnector[c] /\ Live(s)
      \/ ~Registered(c) /\ session[s].pc = "unused"
  <2>1. CASE Registered(c)
    BY <2>1 DEF Registering, Registered
  <2>2. CASE ~Registered(c)
    BY <2>2, NewSessionUnused DEF Registering, NamesExist, Unused
  <2> QED BY <2>1, <2>2
<1> DEFINE r == [pc |-> "open", of |-> c, overdue |-> FALSE, chan |-> session[s].chan]
           k == [pc |-> "on", sessionID |-> s, stream |-> NoHandler]
<1>2. session' = [session EXCEPT ![s] = r] /\ client' = [client EXCEPT ![c] = k]
  BY DEF Registering, TypeOK
<1>3. /\ r.pc = "open" /\ r.of = c /\ r.chan = session[s].chan
      /\ k.pc = "on" /\ k.sessionID = s /\ k.stream = NoHandler
  OBVIOUS
<1> HIDE DEF r, k
<1>4. \A u \in SessionIds : /\ session'[u].pc = IF u = s THEN "open" ELSE session[u].pc
                            /\ session'[u].of = IF u = s THEN c ELSE session[u].of
                            /\ session'[u].chan = session[u].chan
  BY <1>2, <1>3 DEF TypeOK
<1>5. \A d \in Connectors :
              /\ client'[d].pc = IF d = c THEN "on" ELSE client[d].pc
              /\ client'[d].sessionID = IF d = c THEN s ELSE client[d].sessionID
              /\ client'[d].stream = IF d = c THEN NoHandler ELSE client[d].stream
  BY <1>2, <1>3 DEF TypeOK
<1>6. \A d \in Connectors : byConnector'[d] = IF d = c THEN s ELSE byConnector[d]
  BY DEF Registering, TypeOK
<1> QED BY <1>1, <1>4, <1>5, <1>6

\* A stream ends on the client's side
LEMMA HangUpEffect ==
  ASSUME TypeOK, NEW c \in Connectors, HangUp(c)
  PROVE  \A h \in Handlers :
           /\ handler'[h].pc = handler[h].pc /\ handler'[h].s = handler[h].s
           /\ handler'[h].hold = handler[h].hold
           /\ handler'[h].up = IF h = client[c].stream THEN FALSE ELSE handler[h].up
<1> TAKE h \in Handlers
<1> DEFINE r == [handler[h] EXCEPT !.up = FALSE]
<1>1. /\ r.pc = handler[h].pc /\ r.s = handler[h].s /\ r.hold = handler[h].hold /\ r.up = FALSE
  BY DEF TypeOK, Streams
<1>2. handler'[h] = IF h = client[c].stream THEN r ELSE handler[h]
  BY DEF HangUp
<1> HIDE DEF r
<1> QED BY <1>1, <1>2

\* A client leaves, by itself or with its process
LEMMA OffEffect ==
  ASSUME TypeOK, NEW c \in Connectors,
         client' = [client EXCEPT ![c] = [pc |-> "off", sessionID |-> 0, stream |-> NoHandler]]
  PROVE  \A d \in Connectors :
           /\ client'[d].pc = IF d = c THEN "off" ELSE client[d].pc
           /\ client'[d].sessionID = IF d = c THEN 0 ELSE client[d].sessionID
           /\ client'[d].stream = IF d = c THEN NoHandler ELSE client[d].stream
<1> DEFINE k == [pc |-> "off", sessionID |-> 0, stream |-> NoHandler]
<1>1. k.pc = "off" /\ k.sessionID = 0 /\ k.stream = NoHandler /\ client' = [client EXCEPT ![c] = k]
  OBVIOUS
<1> HIDE DEF k
<1> QED BY <1>1 DEF TypeOK

\* A client goes on
LEMMA PcEffect ==
  ASSUME TypeOK, NEW c \in Connectors, NEW p, client' = [client EXCEPT ![c].pc = p]
  PROVE  \A d \in Connectors :
           /\ client'[d].pc = IF d = c THEN p ELSE client[d].pc
           /\ client'[d].sessionID = client[d].sessionID
           /\ client'[d].stream = client[d].stream
<1> DEFINE k == [client[c] EXCEPT !.pc = p]
<1>1. /\ k.pc = p /\ k.sessionID = client[c].sessionID /\ k.stream = client[c].stream
      /\ client' = [client EXCEPT ![c] = k]
  BY DEF TypeOK, Clients
<1> HIDE DEF k
<1> QED BY <1>1 DEF TypeOK

\* A client has another stream
LEMMA StreamEffect ==
  ASSUME TypeOK, NEW c \in Connectors, NEW p \in Handlers \union {NoHandler},
         client' = [client EXCEPT ![c].stream = p]
  PROVE  \A d \in Connectors :
           /\ client'[d].pc = client[d].pc
           /\ client'[d].sessionID = client[d].sessionID
           /\ client'[d].stream = IF d = c THEN p ELSE client[d].stream
<1> DEFINE k == [client[c] EXCEPT !.stream = p]
<1>1. /\ k.pc = client[c].pc /\ k.sessionID = client[c].sessionID /\ k.stream = p
      /\ client' = [client EXCEPT ![c] = k]
  BY DEF TypeOK, Clients
<1> HIDE DEF k
<1> QED BY <1>1 DEF TypeOK

\* The overdue sessions are removed
LEMMA CleanupEffect ==
  ASSUME TypeOK, CleanupExpiredSessions
  PROVE  /\ \A u \in SessionIds : /\ session'[u].pc = IF u \in Overdue THEN "closed" ELSE session[u].pc
                                  /\ session'[u].of = session[u].of
                                  /\ session'[u].chan = session[u].chan
         /\ \A c \in Connectors :
              byConnector'[c] = IF \E u \in Overdue : session[u].of = c THEN 0 ELSE byConnector[c]
<1>1. ASSUME NEW u \in SessionIds
      PROVE  /\ session'[u].pc = IF u \in Overdue THEN "closed" ELSE session[u].pc
             /\ session'[u].of = session[u].of
             /\ session'[u].chan = session[u].chan
  <2> DEFINE r == [session[u] EXCEPT !.pc = "closed"]
  <2>1. r.pc = "closed" /\ r.of = session[u].of /\ r.chan = session[u].chan
    BY DEF TypeOK, Sessions
  <2>2. session'[u] = IF u \in Overdue THEN r ELSE session[u]
    BY DEF CleanupExpiredSessions
  <2> HIDE DEF r
  <2> QED BY <2>1, <2>2
<1>2. ASSUME NEW c \in Connectors
      PROVE byConnector'[c] = IF \E u \in Overdue : session[u].of = c THEN 0 ELSE byConnector[c]
  <2>1. c \in Owners(Overdue) <=> \E u \in Overdue : session[u].of = c
    BY DEF Owners
  <2>2. byConnector'[c] = IF c \in Owners(Overdue) THEN 0 ELSE byConnector[c]
    BY DEF CleanupExpiredSessions
  <2> QED BY <2>1, <2>2
<1> QED BY <1>1, <1>2

\* What a handler does to its own state
LEMMA HandlerEffect ==
  ASSUME TypeOK, NEW h \in Handlers, NEW r, handler' = [handler EXCEPT ![h] = r]
  PROVE  \A g \in Handlers : handler'[g] = IF g = h THEN r ELSE handler[g]
  BY DEF TypeOK

\* A handler ends
LEMMA HandlerEndsEffect ==
  ASSUME TypeOK, NEW h \in Handlers, HandlerEnds(h)
  PROVE  /\ \A g \in Handlers : handler'[g] = IF g = h THEN NoStream ELSE handler[g]
         /\ NoStream.pc = "free" /\ NoStream.s = 0 /\ NoStream.up = FALSE /\ NoStream.hold = <<>>
         /\ \A c \in Connectors :
              /\ client'[c].pc = client[c].pc /\ client'[c].sessionID = client[c].sessionID
              /\ client'[c].stream = IF client[c].stream = h THEN NoHandler ELSE client[c].stream
<1>1. ASSUME NEW c \in Connectors
      PROVE  /\ client'[c].pc = client[c].pc /\ client'[c].sessionID = client[c].sessionID
             /\ client'[c].stream = IF client[c].stream = h THEN NoHandler ELSE client[c].stream
  <2> DEFINE k == [client[c] EXCEPT !.stream = NoHandler]
  <2>1. k.pc = client[c].pc /\ k.sessionID = client[c].sessionID /\ k.stream = NoHandler
    BY DEF TypeOK, Clients
  <2>2. client'[c] = IF client[c].stream = h THEN k ELSE client[c]
    BY DEF HandlerEnds
  <2> HIDE DEF k
  <2> QED BY <2>1, <2>2
<1>2. NoStream.pc = "free" /\ NoStream.s = 0 /\ NoStream.up = FALSE /\ NoStream.hold = <<>>
  BY DEF NoStream
<1>3. \A g \in Handlers : handler'[g] = IF g = h THEN NoStream ELSE handler[g]
  BY DEF HandlerEnds, TypeOK
<1> QED BY <1>1, <1>2, <1>3

-----------------------------------------------------------------------------
(* The two maps *)

\* The connectors that are listed are those the maps agree on
LEMMA ListedAreRegistered ==
  ASSUME TypeOK', ChatConstants,
         \A s \in SessionIds : Live(s)' => byConnector'[session'[s].of] = s
  PROVE  (\A c \in GetLocalConnectors : Registered(c))'
<1> SUFFICES ASSUME NEW c \in GetLocalConnectors' PROVE Registered(c)'
  OBVIOUS
<1>1. PICK s \in SessionIds : c \in Exposed /\ Live(s)' /\ session'[s].of = c
  BY DEF GetLocalConnectors
<1>2. byConnector'[c] = s /\ c \in Connectors /\ s # 0
  BY <1>1, ChatConstants DEF SessionIds
<1> QED BY <1>1, <1>2 DEF Registered, Live

\* A step that leaves the maps alone
LEMMA SameMaps ==
  ASSUME TypeOK, TypeOK', MapsAgree, byConnector' = byConnector,
         \A s \in SessionIds : session'[s].pc = session[s].pc /\ session'[s].of = session[s].of
  PROVE  MapsAgree'
<1>1. \A s \in SessionIds : Live(s)' => byConnector'[session'[s].of] = s
  BY DEF MapsAgree, Live
<1>2. \A c \in Connectors : byConnector[c] # 0 => byConnector[c] \in SessionIds
  BY Fields, ChatConstants DEF SessionIds
<1>3. \A c \in Connectors : byConnector'[c] # 0 =>
        session'[byConnector'[c]].pc = "open" /\ session'[byConnector'[c]].of = c
  BY <1>2 DEF MapsAgree, Live
<1> QED BY <1>1, <1>3, ListedAreRegistered, ChatConstants DEF MapsAgree, Live

\* Messages apart, the sessions are as they were, and only the ones that were made have messages
SameSessions ==
  /\ byConnector' = byConnector
  /\ \A s \in SessionIds : session'[s].pc = session[s].pc /\ session'[s].of = session[s].of
  /\ \A s \in SessionIds : session[s].pc = "unused" => session'[s].chan = session[s].chan

\* The steps that make and remove no session
LEMMA StepsOfOthers ==
  ASSUME TypeOK, NamesExist, [Next]_vars
  PROVE  \/ SameSessions
         \/ RegisterSession \/ CleanupExpiredSessions \/ UnregisterSession
<1>1. CASE Heartbeat
  <2>1. \/ session' = session
        \/ writer.s \in SessionIds /\ session' = [session EXCEPT ![writer.s].overdue = FALSE]
    BY <1>1, WriterFields DEF Heartbeat, Locked
  <2> QED BY <1>1, <2>1, OverdueUpdate DEF Heartbeat, SameSessions
<1>2. ASSUME NEW s \in SessionIds, TimeoutPasses(s) PROVE SameSessions
  BY <1>2, OverdueUpdate DEF TimeoutPasses, SameSessions
<1>3. ASSUME NEW c \in Connectors, SendMessage(c) PROVE SameSessions
  <2>1. call[c].s \in SessionIds /\ call[c].m \in Messages /\ session[call[c].s].chan \in Seq(Messages)
    BY <1>3, Fields DEF SendMessage
  <2> DEFINE q == Append(session[call[c].s].chan, call[c].m)
  <2>2. q \in Seq(Messages)
    BY <2>1
  <2>3. session' = [session EXCEPT ![call[c].s].chan = q]
    BY <1>3, <2>1 DEF SendMessage, TypeOK
  <2> HIDE DEF q
  <2>4. session[call[c].s].pc # "unused"
    BY <1>3 DEF SendMessage, Live
  <2> QED BY <1>3, <2>1, <2>2, <2>3, <2>4, ChanUpdate DEF SendMessage, SameSessions
<1>4. ASSUME NEW h \in Handlers, HandlerTakes(h) PROVE SameSessions
  <2> DEFINE q == Tail(session[handler[h].s].chan)
  <2>1. handler[h].s \in SessionIds
    BY <1>4, Fields, ChatConstants DEF HandlerTakes, NamesExist, On, SessionIds
  <2>2. q \in Seq(Messages)
    BY <1>4, <2>1, Fields DEF HandlerTakes
  <2>3. session' = [session EXCEPT ![handler[h].s].chan = q]
    BY <1>4, <2>1 DEF HandlerTakes, TypeOK
  <2> HIDE DEF q
  <2>4. session[handler[h].s].pc # "unused"
    BY <1>4 DEF HandlerTakes, NamesExist, On
  <2> QED BY <1>4, <2>1, <2>2, <2>3, <2>4, ChanUpdate DEF HandlerTakes, SameSessions
<1>5. ASSUME UNCHANGED manager PROVE SameSessions
  BY <1>5 DEF manager, SameSessions
<1>6. CASE CleanupTick
  BY <1>5, <1>6 DEF CleanupTick
<1>7. ASSUME NEW c \in Connectors,
             \/ Connect(c) \/ HeartbeatCall(c) \/ Close(c) \/ ClientStops(c) \/ StreamBreaks(c)
             \/ RouteMessage(c) \/ SendMessageLock(c) \/ SendMessageLookup(c)
             \/ SendTimesOut(c) \/ SendPanics(c)
             \/ \E to \in Receivers : SendTempMessage(c, to)
             \/ \E h \in Handlers : ReceiveTempMessage(c, h)
      PROVE  SameSessions
  BY <1>5, <1>7 DEF Connect, HeartbeatCall, Close, ClientStops, StreamBreaks, RouteMessage,
       SendMessageLock, SendMessageLookup, SendTimesOut, SendPanics, SendTempMessage, ReceiveTempMessage
<1>8. ASSUME NEW h \in Handlers, HandlerSends(h) \/ HandlerEnds(h) PROVE SameSessions
  BY <1>5, <1>8 DEF HandlerSends, HandlerEnds
<1>9. CASE UNCHANGED vars
  BY <1>5, <1>9 DEF vars, manager
<1> QED BY <1>1, <1>2, <1>3, <1>4, <1>6, <1>7, <1>8, <1>9 DEF Next

\* The maps agree after every step
LEMMA StepMaps ==
  ASSUME TypeOK, TypeOK', NamesExist, MapsAgree, [Next]_vars
  PROVE  MapsAgree'
<1>0. /\ \A s \in SessionIds : session[s].of \in Connectors /\ s # 0
      /\ \A c \in Connectors : byConnector[c] # 0 => byConnector[c] \in SessionIds
      /\ \A s \in SessionIds : session[s].pc = "open" => byConnector[session[s].of] = s
      /\ \A c \in Connectors : byConnector[c] # 0 =>
           session[byConnector[c]].pc = "open" /\ session[byConnector[c]].of = c
  BY Fields, ChatConstants DEF SessionIds, MapsAgree, Live
<1>1. SUFFICES /\ \A s \in SessionIds : session'[s].pc = "open" => byConnector'[session'[s].of] = s
               /\ \A c \in Connectors : byConnector'[c] # 0 =>
                    session'[byConnector'[c]].pc = "open" /\ session'[byConnector'[c]].of = c
  BY ListedAreRegistered, ChatConstants DEF MapsAgree, Live
<1>2. CASE SameSessions
  BY <1>0, <1>2 DEF SameSessions
<1>3. CASE RegisterSession
  <2>1. PICK c \in Connectors, s \in SessionIds : Registering(c, s)
    BY <1>3, RegisterIsRegistering
  <2>2. \/ byConnector[c] = s
        \/ byConnector[c] = 0 /\ session[s].pc = "unused"
    BY <1>0, <2>1, RegisteringEffect DEF Registered, Live
  <2>3. /\ \A u \in SessionIds : /\ session'[u].pc = IF u = s THEN "open" ELSE session[u].pc
                                 /\ session'[u].of = IF u = s THEN c ELSE session[u].of
        /\ \A d \in Connectors : byConnector'[d] = IF d = c THEN s ELSE byConnector[d]
    BY <2>1, RegisteringEffect
  <2>4. ASSUME NEW u \in SessionIds, session'[u].pc = "open" PROVE byConnector'[session'[u].of] = u
    BY <1>0, <2>2, <2>3, <2>4
  <2>5. ASSUME NEW d \in Connectors, byConnector'[d] # 0
        PROVE  session'[byConnector'[d]].pc = "open" /\ session'[byConnector'[d]].of = d
    BY <1>0, <2>2, <2>3, <2>5
  <2> QED BY <2>4, <2>5
<1>4. CASE CleanupExpiredSessions
  <2>1. \A u \in SessionIds : u \in Overdue => session[u].pc = "open"
    BY DEF Overdue, Live
  <2>2. Overdue \subseteq SessionIds
    BY DEF Overdue
  <2> QED BY <1>0, <1>4, <2>1, <2>2, CleanupEffect
<1>5. CASE UnregisterSession
  <2>1. \/ session' = session /\ byConnector' = byConnector
        \/ /\ writer.s \in SessionIds /\ writer.of \in Connectors
           /\ Live(writer.s) /\ session[writer.s].of = writer.of
           /\ session' = [session EXCEPT ![writer.s].pc = "closed"]
           /\ byConnector' = [byConnector EXCEPT ![writer.of] = 0]
    BY <1>5, WriterFields DEF UnregisterSession, manager, Locked
  <2>2. CASE session' = session /\ byConnector' = byConnector
    BY <1>0, <2>2
  <2>3. CASE /\ writer.s \in SessionIds /\ writer.of \in Connectors
             /\ Live(writer.s) /\ session[writer.s].of = writer.of
             /\ session' = [session EXCEPT ![writer.s].pc = "closed"]
             /\ byConnector' = [byConnector EXCEPT ![writer.of] = 0]
    <3>1. /\ \A u \in SessionIds : /\ session'[u].pc = IF u = writer.s THEN "closed" ELSE session[u].pc
                                   /\ session'[u].of = session[u].of
          /\ \A d \in Connectors : byConnector'[d] = IF d = writer.of THEN 0 ELSE byConnector[d]
      BY <2>3, CloseUpdate DEF TypeOK
    <3> QED BY <1>0, <2>3, <3>1 DEF Live
  <2> QED BY <2>1, <2>2, <2>3
<1> QED BY <1>2, <1>3, <1>4, <1>5, StepsOfOthers

-----------------------------------------------------------------------------
(* What is used exists *)

\* A session is made once and for one connector
LEMMA StepSession ==
  ASSUME TypeOK, NamesExist, MapsAgree, [Next]_vars
  PROVE  \A s \in SessionIds :
           /\ session[s].pc # "unused" => session'[s].pc # "unused" /\ session'[s].of = session[s].of
           /\ session'[s].pc = "unused" =>
                session[s].pc = "unused" /\ session'[s].chan = session[s].chan
<1>1. CASE SameSessions
  BY <1>1 DEF SameSessions
<1>2. CASE RegisterSession
  <2>1. PICK c \in Connectors, s \in SessionIds : Registering(c, s)
    BY <1>2, RegisterIsRegistering
  <2>2. session[s].pc = "unused" \/ session[s].of = c
    BY <2>1, RegisteringEffect DEF Registered, MapsAgree
  <2> QED BY <2>1, <2>2, RegisteringEffect
<1>3. CASE CleanupExpiredSessions
  BY <1>3, CleanupEffect
<1>4. CASE UnregisterSession
  <2>1. \/ session' = session
        \/ writer.s \in SessionIds /\ session' = [session EXCEPT ![writer.s].pc = "closed"]
    BY <1>4, WriterFields DEF UnregisterSession, manager, Locked
  <2> QED BY <2>1, CloseUpdate
<1> QED BY <1>1, <1>2, <1>3, <1>4, StepsOfOthers

\* A client that speaks did so before, or has just registered
LEMMA StepClient ==
  ASSUME TypeOK, NamesExist, [Next]_vars
  PROVE  \A c \in Connectors :
           /\ Speaks(c)' => \/ Speaks(c) /\ client'[c].sessionID = client[c].sessionID
                            \/ RegisterSession /\ writer.of = c
           /\ client[c].pc = "joining" => \/ client'[c].pc = "joining"
                                          \/ writer' = NoWriter
<1> TAKE c \in Connectors
<1>0. ASSUME client'[c].pc = client[c].pc, client'[c].sessionID = client[c].sessionID
      PROVE  /\ Speaks(c)' => Speaks(c) /\ client'[c].sessionID = client[c].sessionID
             /\ client[c].pc = "joining" => client'[c].pc = "joining"
  BY <1>0 DEF Speaks
<1>1. CASE RegisterSession
  <2>1. PICK d \in Connectors, s \in SessionIds : Registering(d, s)
    BY <1>1, RegisterIsRegistering
  <2>2. CASE c = d
    BY <1>1, <2>1, <2>2 DEF Registering
  <2>3. CASE c # d
    BY <1>0, <2>1, <2>3, RegisteringEffect
  <2> QED BY <2>2, <2>3
<1>2. CASE UnregisterSession
  <2>1. writer.of \in Connectors /\ writer' = NoWriter
    BY <1>2, WriterFields DEF UnregisterSession, Locked
  <2>2. \A d \in Connectors :
           /\ client'[d].pc = IF d = writer.of THEN "off" ELSE client[d].pc
           /\ client'[d].sessionID = IF d = writer.of THEN 0 ELSE client[d].sessionID
    BY <1>2, <2>1, OffEffect DEF UnregisterSession
  <2> QED BY <1>0, <2>1, <2>2 DEF Speaks
<1>3. ASSUME NEW d \in Connectors, Connect(d) \/ Close(d)
      PROVE  /\ Speaks(c)' => Speaks(c) /\ client'[c].sessionID = client[c].sessionID
             /\ client[c].pc = "joining" => client'[c].pc = "joining"
  <2>1. CASE Connect(d)
    <3>1. client' = [client EXCEPT ![d].pc = "joining"]
      BY <2>1 DEF Connect
    <3>2. /\ client'[c].pc = IF c = d THEN "joining" ELSE client[c].pc
          /\ client'[c].sessionID = client[c].sessionID
      BY <3>1, PcEffect
    <3> QED BY <3>2 DEF Speaks
  <2>2. CASE Close(d)
    <3>1. /\ client'[c].pc = IF c = d THEN "leaving" ELSE client[c].pc
          /\ client'[c].sessionID = client[c].sessionID
          /\ client[d].pc = "on"
      BY <2>2, PcEffect DEF Close
    <3> QED BY <3>1 DEF Speaks
  <2> QED BY <1>3, <2>1, <2>2
<1>4. ASSUME NEW d \in Connectors, ClientStops(d)
      PROVE  /\ Speaks(c)' => Speaks(c) /\ client'[c].sessionID = client[c].sessionID
             /\ client[c].pc = "joining" => client'[c].pc = "joining"
  <2>1. /\ client'[c].pc = IF c = d THEN "off" ELSE client[c].pc
        /\ client'[c].sessionID = IF c = d THEN 0 ELSE client[c].sessionID
        /\ client[d].pc = "on"
    BY <1>4, OffEffect DEF ClientStops
  <2> QED BY <2>1 DEF Speaks
<1>5. ASSUME NEW d \in Connectors, StreamBreaks(d)
      PROVE  client'[c].pc = client[c].pc /\ client'[c].sessionID = client[c].sessionID
  BY <1>5, StreamEffect DEF StreamBreaks
<1>6. ASSUME NEW d \in Connectors, NEW h \in Handlers, ReceiveTempMessage(d, h)
      PROVE  client'[c].pc = client[c].pc /\ client'[c].sessionID = client[c].sessionID
  BY <1>6, StreamEffect DEF ReceiveTempMessage
<1>7. ASSUME NEW h \in Handlers, HandlerEnds(h)
      PROVE  client'[c].pc = client[c].pc /\ client'[c].sessionID = client[c].sessionID
  BY <1>7, HandlerEndsEffect
<1>8. ASSUME client' = client
      PROVE  /\ Speaks(c)' => Speaks(c) /\ client'[c].sessionID = client[c].sessionID
             /\ client[c].pc = "joining" => client'[c].pc = "joining"
  BY <1>0, <1>8
<1>9. CASE \/ Heartbeat \/ CleanupTick \/ CleanupExpiredSessions \/ UNCHANGED vars
           \/ \E s \in SessionIds : TimeoutPasses(s)
  BY <1>8, <1>9 DEF Heartbeat, CleanupTick, CleanupExpiredSessions, vars, TimeoutPasses
<1>10. ASSUME NEW d \in Connectors,
             \/ HeartbeatCall(d)
             \/ RouteMessage(d) \/ SendMessageLock(d) \/ SendMessageLookup(d)
             \/ SendMessage(d) \/ SendTimesOut(d) \/ SendPanics(d)
             \/ \E to \in Receivers : SendTempMessage(d, to)
      PROVE  client' = client
  BY <1>10 DEF HeartbeatCall, RouteMessage, SendMessage,
       SendMessageLock, SendMessageLookup, SendTimesOut, SendPanics, SendTempMessage
<1>11. ASSUME NEW h \in Handlers, HandlerTakes(h) \/ HandlerSends(h) PROVE client' = client
  BY <1>11 DEF HandlerTakes, HandlerSends
<1> QED BY <1>0, <1>1, <1>2, <1>3, <1>4, <1>5, <1>6, <1>7, <1>8, <1>9, <1>10, <1>11 DEF Next

\* A call that is about to send found the session of its receiver
LEMMA StepCall ==
  ASSUME TypeOK, NamesExist, MapsAgree, [Next]_vars
  PROVE  \A c \in Connectors :
           call'[c].pc = "send" =>
             \/ call'[c] = call[c]
             \/ /\ call'[c].s \in SessionIds /\ Live(call'[c].s)
                /\ session[call'[c].s].of = call'[c].m.to
<1> SUFFICES ASSUME NEW c \in Connectors, call'[c].pc = "send", call'[c] # call[c]
             PROVE  /\ call'[c].s \in SessionIds /\ Live(call'[c].s)
                    /\ session[call'[c].s].of = call'[c].m.to
  OBVIOUS
<1>1. ASSUME NEW d \in Connectors,
             \/ RouteMessage(d) \/ SendMessageLock(d) \/ SendMessageLookup(d)
             \/ SendMessage(d) \/ SendTimesOut(d)
      PROVE  /\ call'[c].s \in SessionIds /\ Live(call'[c].s)
             /\ session[call'[c].s].of = call'[c].m.to
  <2>1. PICK r \in Calls : Sending(d, r) /\ call' = [call EXCEPT ![d] = r]
                           /\ (r.pc = "send" => call[d].pc = "lookup")
    BY <1>1, SendingCall
  <2>2. d = c /\ r = call'[c] /\ call[c].pc = "lookup"
    BY <2>1, CallUpdate
  <2>3. NoCall.pc = "idle"
    BY DEF NoCall
  <2>4. Registered(call[c].m.to) /\ r = [pc |-> "send", m |-> call[c].m, s |-> byConnector[call[c].m.to]]
    BY <2>1, <2>2, <2>3 DEF Sending, RouteMessage, SendMessageLock, SendMessage, SendTimesOut
  <2>5. r.s = byConnector[r.m.to] /\ Registered(r.m.to)
    BY <2>4
  <2> QED BY <2>2, <2>5, Fields, ChatConstants DEF Registered, MapsAgree, SessionIds
<1>2. ASSUME NEW d \in Connectors, NEW to \in Receivers, SendTempMessage(d, to) PROVE FALSE
  <2> DEFINE r == [pc |-> "route", m |-> [n |-> sent + 1, from |-> d, to |-> to]]
  <2>1. call' = [call EXCEPT ![d] = r] /\ r.pc # "send"
    BY <1>2 DEF SendTempMessage
  <2> HIDE DEF r
  <2> QED BY <2>1 DEF TypeOK
<1>3. ASSUME call' = call PROVE FALSE
  BY <1>3
<1>4. CASE \/ RegisterSession \/ Heartbeat \/ CleanupTick \/ CleanupExpiredSessions
           \/ UnregisterSession \/ UNCHANGED vars \/ \E s \in SessionIds : TimeoutPasses(s)
  BY <1>3, <1>4 DEF RegisterSession, Heartbeat, CleanupTick, CleanupExpiredSessions,
       UnregisterSession, vars, TimeoutPasses
<1>5. ASSUME NEW d \in Connectors,
             \/ Connect(d) \/ HeartbeatCall(d) \/ Close(d) \/ ClientStops(d) \/ StreamBreaks(d)
             \/ SendPanics(d) \/ \E h \in Handlers : ReceiveTempMessage(d, h)
      PROVE  FALSE
  BY <1>3, <1>5 DEF Connect, HeartbeatCall, Close, ClientStops, StreamBreaks, SendPanics,
       ReceiveTempMessage
<1>6. ASSUME NEW h \in Handlers, HandlerTakes(h) \/ HandlerSends(h) \/ HandlerEnds(h) PROVE FALSE
  BY <1>3, <1>6 DEF HandlerTakes, HandlerSends, HandlerEnds
<1> QED BY <1>1, <1>2, <1>4, <1>5, <1>6 DEF Next

\* A handler reads the session it was opened for, and holds something only while it runs
LEMMA StepHandler ==
  ASSUME TypeOK, NamesExist, [Next]_vars
  PROVE  \A h \in Handlers :
           \/ /\ handler'[h].pc = handler[h].pc /\ handler'[h].s = handler[h].s
              /\ handler'[h].hold = handler[h].hold \/ On(h)
           \/ ~On(h)' /\ handler'[h].hold = <<>>
           \/ On(h)' /\ handler'[h].s \in SessionIds /\ Live(handler'[h].s)
<1> TAKE h \in Handlers
<1> DEFINE G == \/ /\ handler'[h].pc = handler[h].pc /\ handler'[h].s = handler[h].s
                   /\ handler'[h].hold = handler[h].hold \/ On(h)
                \/ ~On(h)' /\ handler'[h].hold = <<>>
                \/ On(h)' /\ handler'[h].s \in SessionIds /\ Live(handler'[h].s)
<1> SUFFICES G
  OBVIOUS
<1>0. handler[h] \in Streams /\ NoStream.pc = "free" /\ NoStream.hold = <<>>
  BY DEF TypeOK, NoStream
<1>1. ASSUME NEW c \in Connectors, HangUp(c) PROVE G
  BY <1>1, HangUpEffect
<1>2. CASE UnregisterSession
  BY <1>1, <1>2, WriterFields DEF UnregisterSession, Locked
<1>3. ASSUME NEW c \in Connectors, ClientStops(c) \/ StreamBreaks(c) PROVE G
  BY <1>1, <1>3 DEF ClientStops, StreamBreaks
<1>4. ASSUME NEW c \in Connectors, NEW g \in Handlers, ReceiveTempMessage(c, g) PROVE G
  <2> DEFINE r == [pc |-> "on", s |-> client[c].sessionID, up |-> TRUE, hold |-> <<>>]
  <2>1. handler'[h] = IF h = g THEN r ELSE handler[h]
    BY <1>4 DEF ReceiveTempMessage, TypeOK
  <2>2. r.pc = "on" /\ r.s = client[c].sessionID
    OBVIOUS
  <2>3. client[c].sessionID \in SessionIds
    BY <1>4, Fields, ChatConstants DEF ReceiveTempMessage, NamesExist, Speaks, SessionIds
  <2>4. Live(client[c].sessionID)
    BY <1>4 DEF ReceiveTempMessage
  <2> HIDE DEF r
  <2> QED BY <2>1, <2>2, <2>3, <2>4 DEF On
<1>5. ASSUME NEW g \in Handlers, HandlerTakes(g) PROVE G
  <2> DEFINE r == [handler[g] EXCEPT !.hold = <<Head(session[handler[g].s].chan)>>]
  <2>1. r.pc = handler[g].pc /\ r.s = handler[g].s
    BY DEF TypeOK, Streams
  <2>2. handler' = [handler EXCEPT ![g] = r] /\ On(g)
    BY <1>5 DEF HandlerTakes, TypeOK, On
  <2> HIDE DEF r
  <2> QED BY <2>1, <2>2, HandlerEffect
<1>6. ASSUME NEW g \in Handlers, HandlerSends(g) PROVE G
  <2> DEFINE k == [handler[g] EXCEPT !.hold = <<>>]
             r == IF handler[g].up THEN k ELSE NoStream
  <2>1. k.pc = handler[g].pc /\ k.s = handler[g].s /\ On(g)
    BY <1>6 DEF TypeOK, Streams, HandlerSends, NamesExist
  <2>2. handler' = [handler EXCEPT ![g] = r]
    BY <1>6 DEF HandlerSends
  <2> HIDE DEF k
  <2>3. (r.pc = handler[g].pc /\ r.s = handler[g].s) \/ r = NoStream
    BY <2>1
  <2> HIDE DEF r
  <2> QED BY <1>0, <2>1, <2>2, <2>3, HandlerEffect DEF On
<1>7. ASSUME NEW g \in Handlers, HandlerEnds(g) PROVE G
  BY <1>7, HandlerEndsEffect DEF On
<1>8. ASSUME handler' = handler PROVE G
  BY <1>8
<1> HIDE DEF G
<1>9. CASE \/ RegisterSession \/ Heartbeat \/ CleanupTick \/ CleanupExpiredSessions
           \/ UNCHANGED vars \/ \E s \in SessionIds : TimeoutPasses(s)
  BY <1>8, <1>9 DEF RegisterSession, Heartbeat, CleanupTick, CleanupExpiredSessions, vars, TimeoutPasses
<1>10. ASSUME NEW d \in Connectors,
             \/ Connect(d) \/ HeartbeatCall(d) \/ Close(d)
             \/ RouteMessage(d) \/ SendMessageLock(d) \/ SendMessageLookup(d)
             \/ SendMessage(d) \/ SendTimesOut(d) \/ SendPanics(d)
             \/ \E to \in Receivers : SendTempMessage(d, to)
      PROVE  G
  BY <1>8, <1>10 DEF Connect, Close, HeartbeatCall, RouteMessage, SendMessage,
       SendMessageLock, SendMessageLookup, SendTimesOut, SendPanics, SendTempMessage
<1> QED BY <1>2, <1>3, <1>4, <1>5, <1>6, <1>7, <1>9, <1>10 DEF Next

\* Who waits to register is about to join, with a session left for it
LEMMA StepWriter ==
  ASSUME TypeOK, NamesExist, [Next]_vars, writer'.op = "register"
  PROVE  Unused' # {} /\ client'[writer'.of].pc = "joining"
<1>0. NoWriter.op # "register"
  BY DEF NoWriter
<1>1. ASSUME NEW c \in Connectors, Connect(c)
      PROVE  Unused' # {} /\ client'[writer'.of].pc = "joining"
  <2>1. /\ client' = [client EXCEPT ![c].pc = "joining"] /\ writer' = [op |-> "register", of |-> c]
        /\ Unused # {} /\ session' = session
    BY <1>1 DEF Connect, Announce, manager
  <2>2. writer'.of = c /\ Unused' = Unused
    BY <2>1 DEF Unused
  <2>3. client'[c].pc = IF c = c THEN "joining" ELSE client[c].pc
    BY <2>1, PcEffect
  <2> QED BY <2>1, <2>2, <2>3
<1>2. CASE writer' = writer
  <2>1. SameSessions
    BY <1>0, <1>2, StepsOfOthers DEF RegisterSession, CleanupExpiredSessions, UnregisterSession, Locked
  <2>2. Unused' # {}
    BY <1>2, <2>1 DEF NamesExist, Unused, SameSessions
  <2>3. writer.of \in Connectors /\ client[writer.of].pc = "joining"
    BY <1>2, WriterFields DEF NamesExist
  <2> QED BY <1>0, <1>2, <2>2, <2>3, StepClient
<1>3. ASSUME Next, \A c \in Connectors : ~Connect(c), writer' # writer PROVE FALSE
  <2>1. ASSUME NEW c \in Connectors, HeartbeatCall(c) \/ Close(c) PROVE FALSE
    BY <2>1 DEF HeartbeatCall, Close, Announce
  <2>2. ASSUME NEW c \in Connectors,
               \/ ClientStops(c) \/ StreamBreaks(c)
               \/ RouteMessage(c) \/ SendMessageLock(c) \/ SendMessageLookup(c)
               \/ SendMessage(c) \/ SendTimesOut(c) \/ SendPanics(c)
               \/ \E to \in Receivers : SendTempMessage(c, to)
               \/ \E h \in Handlers : ReceiveTempMessage(c, h)
        PROVE  FALSE
    BY <1>3, <2>2 DEF ClientStops, StreamBreaks, RouteMessage, SendMessageLock, SendMessageLookup,
         SendMessage, SendTimesOut, SendPanics, SendTempMessage, ReceiveTempMessage, lock
  <2>3. ASSUME NEW h \in Handlers, HandlerTakes(h) \/ HandlerSends(h) \/ HandlerEnds(h) PROVE FALSE
    BY <1>3, <2>3 DEF HandlerTakes, HandlerSends, HandlerEnds, lock
  <2>4. CASE \/ RegisterSession \/ Heartbeat \/ CleanupExpiredSessions \/ UnregisterSession
    BY <1>0, <2>4 DEF RegisterSession, Heartbeat, CleanupExpiredSessions, UnregisterSession, Locked
  <2>5. CASE CleanupTick \/ \E s \in SessionIds : TimeoutPasses(s)
    BY <1>3, <2>5 DEF CleanupTick, Announce, TimeoutPasses, lock
  <2> QED BY <1>3, <2>1, <2>2, <2>3, <2>4, <2>5 DEF Next
<1> QED BY <1>1, <1>2, <1>3 DEF vars

\* ... after every step
LEMMA StepNames ==
  ASSUME TypeOK, NamesExist, MapsAgree, [Next]_vars
  PROVE  NamesExist'
<1>1. \A s \in SessionIds : session'[s].pc = "unused" => session'[s].chan = <<>>
  BY StepSession DEF NamesExist
<1>2. writer'.op = "register" => Unused' # {} /\ client'[writer'.of].pc = "joining"
  BY StepWriter
<1>3. ASSUME NEW c \in Connectors, Speaks(c)'
      PROVE  client'[c].sessionID # 0 /\ session'[client'[c].sessionID].pc # "unused"
  <2>1. CASE Speaks(c) /\ client'[c].sessionID = client[c].sessionID
    <3>1. /\ client[c].sessionID \in SessionIds /\ session[client[c].sessionID].pc # "unused"
          /\ client[c].sessionID # 0
      BY <2>1, Fields, ChatConstants DEF NamesExist, SessionIds
    <3> QED BY <2>1, <3>1, StepSession
  <2>2. CASE RegisterSession /\ writer.of = c
    <3>1. PICK d \in Connectors, s \in SessionIds : Registering(d, s)
      BY <2>2, RegisterIsRegistering
    <3>2. d = c
      BY <2>2, <3>1 DEF Registering
    <3>3. client'[c].sessionID = s /\ session'[s].pc = "open" /\ s # 0
      BY <3>1, <3>2, RegisteringEffect DEF SessionIds
    <3> QED BY <3>3
  <2> QED BY <1>3, <2>1, <2>2, StepClient
<1>4. ASSUME NEW c \in Connectors, call'[c].pc = "send"
      PROVE  session'[call'[c].s].pc # "unused" /\ session'[call'[c].s].of = call'[c].m.to
  <2>1. CASE call'[c] = call[c]
    <3>1. /\ call[c].s \in SessionIds /\ session[call[c].s].pc # "unused"
          /\ session[call[c].s].of = call[c].m.to
      BY <1>4, <2>1, Fields DEF NamesExist
    <3> QED BY <2>1, <3>1, StepSession
  <2>2. CASE /\ call'[c].s \in SessionIds /\ Live(call'[c].s)
             /\ session[call'[c].s].of = call'[c].m.to
    BY <2>2, StepSession DEF Live
  <2> QED BY <1>4, <2>1, <2>2, StepCall
<1>5. ASSUME NEW h \in Handlers, On(h)'
      PROVE  handler'[h].s # 0 /\ session'[handler'[h].s].pc # "unused"
  <2>1. CASE On(h) /\ handler'[h].s = handler[h].s
    <3>1. /\ handler[h].s \in SessionIds /\ session[handler[h].s].pc # "unused"
          /\ handler[h].s # 0
      BY <2>1, Fields, ChatConstants DEF NamesExist, SessionIds
    <3> QED BY <2>1, <3>1, StepSession
  <2>2. CASE handler'[h].s \in SessionIds /\ Live(handler'[h].s)
    BY <2>2, StepSession DEF Live, SessionIds
  <2> QED BY <1>5, <2>1, <2>2, StepHandler DEF On
<1>6. ASSUME NEW h \in Handlers, ~On(h)' PROVE handler'[h].hold = <<>>
  BY <1>6, StepHandler DEF NamesExist, On
<1> QED BY <1>1, <1>2, <1>3, <1>4, <1>5, <1>6 DEF NamesExist

-----------------------------------------------------------------------------
(* Streams *)

\* The clients and handlers as they were, sessions closed at most
StreamsStay ==
  /\ \A c \in Connectors :
       /\ Speaks(c)' = Speaks(c) /\ client'[c].sessionID = client[c].sessionID
       /\ client'[c].stream = client[c].stream
  /\ \A h \in Handlers : /\ handler'[h].pc = handler[h].pc /\ handler'[h].s = handler[h].s
                         /\ handler'[h].up = handler[h].up
  /\ \A s \in SessionIds :
       /\ session'[s].pc = "open" => session[s].pc = "open"
       /\ session'[s].of = session[s].of
  /\ hungUp' = hungUp

\* StreamsAttached for a handler that runs, with its definitions expanded
LEMMA HandlerAttached ==
  ASSUME TypeOK, NamesExist, StreamsAttached
  PROVE  \A h \in Handlers : handler[h].pc = "on" =>
           /\ handler[h].s \in SessionIds /\ session[handler[h].s].of \in Connectors
           /\ session[handler[h].s].pc # "unused"
           /\ handler[h].up => client[session[handler[h].s].of].stream = h
           /\ ~handler[h].up => session[handler[h].s].of \in hungUp
<1>1. \A h \in Handlers : handler[h].pc = "on" =>
        /\ handler[h].s \in SessionIds /\ session[handler[h].s].of \in Connectors
        /\ session[handler[h].s].pc # "unused"
  BY Fields, ChatConstants DEF NamesExist, On, SessionIds
<1> QED BY <1>1 DEF StreamsAttached, Reads, On, Owner

\* ... and for a client
LEMMA ClientAttached ==
  ASSUME TypeOK, NamesExist, StreamsAttached
  PROVE  \A c \in Connectors :
           /\ \A s \in SessionIds :
                Speaks(c) /\ session[s].pc = "open" /\ session[s].of = c => client[c].sessionID = s
           /\ client[c].stream # NoHandler =>
                /\ Speaks(c) /\ handler[client[c].stream].pc = "on" /\ handler[client[c].stream].up
                /\ session[handler[client[c].stream].s].of = c
                /\ handler[client[c].stream].s = client[c].sessionID
                /\ client[c].stream \in Handlers /\ client[c].sessionID \in SessionIds
                /\ session[client[c].sessionID].pc # "unused"
<1> TAKE c \in Connectors
<1>1. \A s \in SessionIds :
        Speaks(c) /\ session[s].pc = "open" /\ session[s].of = c => client[c].sessionID = s
  BY DEF StreamsAttached, Live
<1>2. ASSUME client[c].stream # NoHandler
      PROVE  /\ Speaks(c) /\ handler[client[c].stream].pc = "on" /\ handler[client[c].stream].up
             /\ session[handler[client[c].stream].s].of = c
             /\ handler[client[c].stream].s = client[c].sessionID
             /\ client[c].stream \in Handlers
  BY <1>2, Fields DEF StreamsAttached, Reads, On, Owner
<1>3. Speaks(c) => client[c].sessionID \in SessionIds /\ session[client[c].sessionID].pc # "unused"
  BY Fields, ChatConstants DEF NamesExist, SessionIds
<1> QED BY <1>1, <1>2, <1>3

\* When nothing changes but messages and closed sessions
LEMMA StayAttached ==
  ASSUME TypeOK, NamesExist, StreamsAttached, StreamsStay
  PROVE  StreamsAttached'
<1>2. \A c \in Connectors, s \in SessionIds :
        Speaks(c)' /\ session'[s].pc = "open" /\ session'[s].of = c => client'[c].sessionID = s
  BY ClientAttached DEF StreamsStay
<1>3. ASSUME NEW c \in Connectors, client'[c].stream # NoHandler
      PROVE  /\ Speaks(c)' /\ handler'[client'[c].stream].pc = "on" /\ handler'[client'[c].stream].up
             /\ session'[handler'[client'[c].stream].s].of = c
             /\ handler'[client'[c].stream].s = client'[c].sessionID
  BY ClientAttached, <1>3 DEF StreamsStay
<1>4. ASSUME NEW h \in Handlers, handler'[h].pc = "on"
      PROVE  /\ handler'[h].up => client'[session'[handler'[h].s].of].stream = h
             /\ ~handler'[h].up => session'[handler'[h].s].of \in hungUp'
  BY HandlerAttached, <1>4 DEF StreamsStay
<1> QED BY <1>2, <1>3, <1>4 DEF StreamsAttached, Reads, On, Owner, Live

\* A connector registers: it has no stream yet
LEMMA RegisterAttached ==
  ASSUME TypeOK, NamesExist, MapsAgree, StreamsAttached, RegisterSession
  PROVE  StreamsAttached'
<1>1. PICK c \in Connectors, s \in SessionIds : Registering(c, s)
  BY RegisterIsRegistering
<1>2. ~Speaks(c) /\ client[c].stream = NoHandler /\ UNCHANGED <<handler, hungUp>>
  <2>1. client[c].pc = "joining"
    BY <1>1 DEF Registering, NamesExist
  <2>2. ~Speaks(c)
    BY <2>1 DEF Speaks
  <2> QED BY <1>1, <2>2, ClientAttached DEF Registering
<1>3. /\ \/ s = byConnector[c] /\ session[s].pc = "open" /\ session[s].of = c
         \/ byConnector[c] = 0 /\ session[s].pc = "unused"
      /\ \A u \in SessionIds : session[u].pc = "open" /\ session[u].of = c => u = byConnector[c] /\ u # 0
  BY <1>1, RegisteringEffect DEF Registered, MapsAgree, Live, SessionIds
<1>4. /\ \A u \in SessionIds : /\ session'[u].pc = IF u = s THEN "open" ELSE session[u].pc
                               /\ session'[u].of = IF u = s THEN c ELSE session[u].of
      /\ \A d \in Connectors :
           /\ client'[d].pc = IF d = c THEN "on" ELSE client[d].pc
           /\ client'[d].sessionID = IF d = c THEN s ELSE client[d].sessionID
           /\ client'[d].stream = IF d = c THEN NoHandler ELSE client[d].stream
  BY <1>1, RegisteringEffect
<1>5. \A u \in SessionIds : session[u].pc # "unused" => session'[u].of = session[u].of
  BY <1>3, <1>4
<1>6. ASSUME NEW d \in Connectors, NEW u \in SessionIds,
             Speaks(d)', session'[u].pc = "open", session'[u].of = d
      PROVE  client'[d].sessionID = u
  <2>1. CASE d = c
    BY <1>3, <1>4, <1>6, <2>1
  <2>2. CASE d # c
    <3>1. Speaks(d) /\ u # s
      BY <1>4, <1>6, <2>2 DEF Speaks
    <3> QED BY <1>4, <1>6, <2>2, <3>1, ClientAttached
  <2> QED BY <2>1, <2>2
<1>7. ASSUME NEW d \in Connectors, client'[d].stream # NoHandler
      PROVE  /\ Speaks(d)' /\ handler'[client'[d].stream].pc = "on" /\ handler'[client'[d].stream].up
             /\ session'[handler'[client'[d].stream].s].of = d
             /\ handler'[client'[d].stream].s = client'[d].sessionID
  <2>1. d # c /\ client[d].stream # NoHandler /\ client'[d].stream = client[d].stream
    BY <1>4, <1>7
  <2>2. Speaks(d)'
    BY <1>4, <2>1, ClientAttached DEF Speaks
  <2>3. PICK h \in Handlers :
          /\ h = client[d].stream /\ handler[h].pc = "on" /\ handler[h].up
          /\ session[handler[h].s].of = d /\ handler[h].s = client[d].sessionID
          /\ handler[h].s \in SessionIds /\ session[handler[h].s].pc # "unused"
    BY <2>1, ClientAttached
  <2> QED BY <1>2, <1>4, <1>5, <2>1, <2>2, <2>3
<1>8. ASSUME NEW h \in Handlers, handler'[h].pc = "on"
      PROVE  /\ handler'[h].up => client'[session'[handler'[h].s].of].stream = h
             /\ ~handler'[h].up => session'[handler'[h].s].of \in hungUp'
  <2>1. h # NoHandler
    BY ChatConstants
  <2>2. handler[h].s \in SessionIds /\ session'[handler[h].s].of = session[handler[h].s].of
        /\ session[handler[h].s].of \in Connectors
    BY <1>2, <1>5, <1>8, HandlerAttached
  <2> QED BY <1>2, <1>4, <1>8, <2>1, <2>2, HandlerAttached
<1> QED BY <1>6, <1>7, <1>8 DEF StreamsAttached, Reads, On, Owner, Live

\* A client gives up its stream, and with it possibly more
GivesUp(c) ==
  /\ HangUp(c) /\ hungUp' = hungUp \union {c}
  /\ \A d \in Connectors :
       /\ Speaks(d)' => Speaks(d) /\ client'[d].sessionID = client[d].sessionID
       /\ d # c => Speaks(d)' = Speaks(d) /\ client'[d].stream = client[d].stream
  /\ client'[c].stream = NoHandler
  /\ \A s \in SessionIds :
       /\ session'[s].pc = "open" => session[s].pc = "open"
       /\ session'[s].of = session[s].of

\* ... which was the only one
LEMMA GivesUpAttached ==
  ASSUME TypeOK, NamesExist, StreamsAttached, NEW c \in Connectors, GivesUp(c)
  PROVE  StreamsAttached'
<1>0. \A h \in Handlers :
        /\ handler'[h].pc = handler[h].pc /\ handler'[h].s = handler[h].s
        /\ handler'[h].up = IF h = client[c].stream THEN FALSE ELSE handler[h].up
  BY HangUpEffect DEF GivesUp
<1>1. /\ \A s \in SessionIds : session'[s].of = session[s].of
      /\ hungUp' = hungUp \union {c} /\ client'[c].stream = NoHandler
      /\ \A d \in Connectors : d # c => client'[d].stream = client[d].stream
  BY DEF GivesUp
<1>2. \A d \in Connectors, s \in SessionIds :
        Speaks(d)' /\ session'[s].pc = "open" /\ session'[s].of = d => client'[d].sessionID = s
  BY ClientAttached DEF GivesUp
<1>3. ASSUME NEW d \in Connectors, client'[d].stream # NoHandler
      PROVE  /\ Speaks(d)' /\ handler'[client'[d].stream].pc = "on" /\ handler'[client'[d].stream].up
             /\ session'[handler'[client'[d].stream].s].of = d
             /\ handler'[client'[d].stream].s = client'[d].sessionID
  <2>1. d # c /\ client'[d].stream = client[d].stream /\ Speaks(d)'
    BY <1>3, ClientAttached DEF GivesUp
  <2>3. client'[d].sessionID = client[d].sessionID
    BY <2>1 DEF GivesUp
  <2>2. client[d].stream # client[c].stream
    BY <1>3, <2>1, ClientAttached
  <2>4. PICK h \in Handlers :
          /\ h = client[d].stream /\ handler[h].pc = "on" /\ handler[h].up
          /\ session[handler[h].s].of = d /\ handler[h].s = client[d].sessionID
          /\ handler[h].s \in SessionIds /\ session[handler[h].s].pc # "unused"
    BY <1>3, <2>1, ClientAttached
  <2>5. handler'[h].pc = "on" /\ handler'[h].up /\ handler'[h].s = handler[h].s
    BY <1>0, <2>2, <2>4
  <2>6. session'[handler'[h].s].of = d
    BY <1>1, <2>4, <2>5
  <2> QED BY <2>1, <2>3, <2>4, <2>5, <2>6
<1>4. ASSUME NEW h \in Handlers, handler'[h].pc = "on"
      PROVE  /\ handler'[h].up => client'[session'[handler'[h].s].of].stream = h
             /\ ~handler'[h].up => session'[handler'[h].s].of \in hungUp'
  <2>1. /\ handler[h].s \in SessionIds /\ session[handler[h].s].of \in Connectors
        /\ handler'[h].s = handler[h].s /\ session'[handler[h].s].of = session[handler[h].s].of
    BY <1>0, <1>1, <1>4, HandlerAttached
  <2>2. CASE handler'[h].up
    <3>1. h # client[c].stream /\ handler[h].up /\ h # NoHandler
      BY <1>0, <2>2, ChatConstants
    <3>2. client[session[handler[h].s].of].stream = h
      BY <1>0, <1>4, <3>1, HandlerAttached
    <3> QED BY <1>1, <2>1, <2>2, <3>1, <3>2
  <2>3. CASE ~handler'[h].up
    <3>1. CASE h = client[c].stream
      <4>1. client[c].stream # NoHandler
        BY <3>1, ChatConstants
      <4>2. session[handler[h].s].of = c
        BY <3>1, <4>1, ClientAttached
      <4> QED BY <1>1, <2>1, <2>3, <4>2
    <3>2. CASE h # client[c].stream
      <4>1. ~handler[h].up /\ handler[h].pc = "on"
        BY <1>0, <1>4, <2>3, <3>2
      <4> QED BY <1>1, <2>1, <2>3, <4>1, HandlerAttached
    <3> QED BY <3>1, <3>2
  <2> QED BY <2>2, <2>3
<1> QED BY <1>2, <1>3, <1>4 DEF StreamsAttached, Reads, On, Owner, Live

\* A client opens a stream: it had none
LEMMA ReceiveAttached ==
  ASSUME TypeOK, NamesExist, StreamsAttached, NEW c \in Connectors, NEW h \in Handlers,
         ReceiveTempMessage(c, h)
  PROVE  StreamsAttached'
<1> DEFINE r == [pc |-> "on", s |-> client[c].sessionID, up |-> TRUE, hold |-> <<>>]
<1>1. \A g \in Handlers : handler'[g] = IF g = h THEN r ELSE handler[g]
  BY DEF ReceiveTempMessage, TypeOK
<1>2. r.pc = "on" /\ r.s = client[c].sessionID /\ r.up = TRUE
  OBVIOUS
<1> HIDE DEF r
<1>3. /\ Speaks(c) /\ client[c].stream = NoHandler /\ handler[h].pc # "on"
      /\ client[c].sessionID \in SessionIds /\ session[client[c].sessionID].of = c
      /\ session' = session /\ hungUp' = hungUp /\ h # NoHandler
  BY Fields, ChatConstants DEF ReceiveTempMessage, NamesExist, Speaks, SessionIds, manager
<1>4. \A d \in Connectors :
        /\ client'[d].pc = client[d].pc /\ client'[d].sessionID = client[d].sessionID
        /\ client'[d].stream = IF d = c THEN h ELSE client[d].stream
  <2>1. client' = [client EXCEPT ![c].stream = h]
    BY DEF ReceiveTempMessage
  <2>2. h \in Handlers \union {NoHandler}
    OBVIOUS
  <2> QED BY <2>1, <2>2, StreamEffect
<1>5. \A d \in Connectors : Speaks(d)' = Speaks(d)
  BY <1>4 DEF Speaks
<1>6. \A d \in Connectors, s \in SessionIds :
        Speaks(d)' /\ session'[s].pc = "open" /\ session'[s].of = d => client'[d].sessionID = s
  BY <1>3, <1>4, <1>5, ClientAttached
<1>7. ASSUME NEW d \in Connectors, client'[d].stream # NoHandler
      PROVE  /\ Speaks(d)' /\ handler'[client'[d].stream].pc = "on" /\ handler'[client'[d].stream].up
             /\ session'[handler'[client'[d].stream].s].of = d
             /\ handler'[client'[d].stream].s = client'[d].sessionID
  <2>1. CASE d = c
    BY <1>1, <1>2, <1>3, <1>4, <1>5, <2>1
  <2>2. CASE d # c
    <3>1. client'[d].stream = client[d].stream /\ client[d].stream # h /\ client[d].stream \in Handlers
      BY <1>3, <1>4, <1>7, <2>2, ClientAttached
    <3> QED BY <1>1, <1>3, <1>4, <1>5, <1>7, <2>2, <3>1, ClientAttached
  <2> QED BY <2>1, <2>2
<1>8. ASSUME NEW g \in Handlers, handler'[g].pc = "on"
      PROVE  /\ handler'[g].up => client'[session'[handler'[g].s].of].stream = g
             /\ ~handler'[g].up => session'[handler'[g].s].of \in hungUp'
  <2>1. CASE g = h
    BY <1>1, <1>2, <1>3, <1>4, <2>1
  <2>2. CASE g # h
    <3>1. g # NoHandler /\ handler'[g] = handler[g]
      BY <1>1, <2>2, ChatConstants
    <3> QED BY <1>3, <1>4, <1>8, <3>1, HandlerAttached
  <2> QED BY <2>1, <2>2
<1> QED BY <1>6, <1>7, <1>8 DEF StreamsAttached, Reads, On, Owner, Live

\* A handler ends, and its client, if it still has one, knows
LEMMA EndAttached ==
  ASSUME TypeOK, NamesExist, StreamsAttached, NEW h \in Handlers,
         \A g \in Handlers : handler'[g] = IF g = h THEN NoStream ELSE handler[g],
         \A c \in Connectors :
           /\ client'[c].pc = client[c].pc /\ client'[c].sessionID = client[c].sessionID
           /\ client'[c].stream = IF client[c].stream = h THEN NoHandler ELSE client[c].stream,
         session' = session, hungUp' = hungUp
  PROVE  StreamsAttached'
<1>1. NoStream.pc = "free"
  BY DEF NoStream
<1>2. \A d \in Connectors : Speaks(d)' = Speaks(d)
  BY DEF Speaks
<1>3. \A d \in Connectors, s \in SessionIds :
        Speaks(d)' /\ session'[s].pc = "open" /\ session'[s].of = d => client'[d].sessionID = s
  BY <1>2, ClientAttached
<1>4. ASSUME NEW d \in Connectors, client'[d].stream # NoHandler
      PROVE  /\ Speaks(d)' /\ handler'[client'[d].stream].pc = "on" /\ handler'[client'[d].stream].up
             /\ session'[handler'[client'[d].stream].s].of = d
             /\ handler'[client'[d].stream].s = client'[d].sessionID
  BY <1>2, <1>4, ClientAttached
<1>5. ASSUME NEW g \in Handlers, handler'[g].pc = "on"
      PROVE  /\ handler'[g].up => client'[session'[handler'[g].s].of].stream = g
             /\ ~handler'[g].up => session'[handler'[g].s].of \in hungUp'
  BY <1>1, <1>5, HandlerAttached
<1> QED BY <1>3, <1>4, <1>5 DEF StreamsAttached, Reads, On, Owner, Live

\* ... after every step
LEMMA StepStreams ==
  ASSUME TypeOK, NamesExist, MapsAgree, StreamsAttached, [Next]_vars
  PROVE  StreamsAttached'
<1>0. ASSUME client' = client, hungUp' = hungUp,
             \A h \in Handlers : /\ handler'[h].pc = handler[h].pc /\ handler'[h].s = handler[h].s
                                 /\ handler'[h].up = handler[h].up,
             SameSessions
      PROVE  StreamsAttached'
  <2>1. StreamsStay
    BY <1>0 DEF StreamsStay, Speaks, SameSessions
  <2> QED BY <2>1, StayAttached
<1>1. CASE RegisterSession
  BY <1>1, RegisterAttached
<1>2. CASE CleanupExpiredSessions
  <2>1. StreamsStay
    BY <1>2, CleanupEffect DEF StreamsStay, Speaks, CleanupExpiredSessions, Overdue
  <2> QED BY <2>1, StayAttached
<1>3. CASE UnregisterSession
  <2>1. PICK c \in Connectors : c = writer.of
    BY <1>3, WriterFields DEF UnregisterSession, Locked
  <2>2. \/ session' = session
        \/ writer.s \in SessionIds /\ session' = [session EXCEPT ![writer.s].pc = "closed"]
    BY <1>3, WriterFields DEF UnregisterSession, manager, Locked
  <2>3. \A s \in SessionIds :
          /\ session'[s].pc = "open" => session[s].pc = "open"
          /\ session'[s].of = session[s].of
    BY <2>2, CloseUpdate
  <2>4. \A d \in Connectors :
           /\ client'[d].pc = IF d = c THEN "off" ELSE client[d].pc
           /\ client'[d].sessionID = IF d = c THEN 0 ELSE client[d].sessionID
           /\ client'[d].stream = IF d = c THEN NoHandler ELSE client[d].stream
    BY <1>3, <2>1, OffEffect DEF UnregisterSession
  <2>5. HangUp(c) /\ hungUp' = hungUp \union {c}
    BY <1>3, <2>1 DEF UnregisterSession
  <2>6. GivesUp(c)
    BY <2>3, <2>4, <2>5 DEF GivesUp, Speaks
  <2> QED BY <2>6, GivesUpAttached
<1>4. ASSUME NEW c \in Connectors, ClientStops(c) PROVE StreamsAttached'
  <2>1. \A d \in Connectors :
           /\ client'[d].pc = IF d = c THEN "off" ELSE client[d].pc
           /\ client'[d].sessionID = IF d = c THEN 0 ELSE client[d].sessionID
           /\ client'[d].stream = IF d = c THEN NoHandler ELSE client[d].stream
    BY <1>4, OffEffect DEF ClientStops
  <2>2. HangUp(c) /\ hungUp' = hungUp \union {c} /\ session' = session
    BY <1>4 DEF ClientStops, manager
  <2>3. GivesUp(c)
    BY <2>1, <2>2 DEF GivesUp, Speaks
  <2> QED BY <2>3, GivesUpAttached
<1>5. ASSUME NEW c \in Connectors, StreamBreaks(c) PROVE StreamsAttached'
  <2>1. HangUp(c) /\ hungUp' = hungUp \union {c} /\ session' = session
        /\ client' = [client EXCEPT ![c].stream = NoHandler] /\ NoHandler \in Handlers \union {NoHandler}
    BY <1>5 DEF StreamBreaks, manager
  <2>2. \A d \in Connectors :
           /\ client'[d].pc = client[d].pc /\ client'[d].sessionID = client[d].sessionID
           /\ client'[d].stream = IF d = c THEN NoHandler ELSE client[d].stream
    BY <2>1, StreamEffect
  <2>3. GivesUp(c)
    BY <2>1, <2>2 DEF GivesUp, Speaks
  <2> QED BY <2>3, GivesUpAttached
<1>6. ASSUME NEW c \in Connectors, NEW h \in Handlers, ReceiveTempMessage(c, h) PROVE StreamsAttached'
  BY <1>6, ReceiveAttached
<1>7. ASSUME NEW h \in Handlers, HandlerEnds(h) PROVE StreamsAttached'
  <2>1. session' = session /\ hungUp' = hungUp
    BY <1>7 DEF HandlerEnds, manager
  <2> QED BY <1>7, <2>1, HandlerEndsEffect, EndAttached
<1>8. ASSUME NEW h \in Handlers, HandlerSends(h) PROVE StreamsAttached'
  <2>0. client' = client /\ session' = session /\ hungUp' = hungUp /\ byConnector' = byConnector
    BY <1>8 DEF HandlerSends, manager
  <2>1. CASE handler[h].up
    <3> DEFINE k == [handler[h] EXCEPT !.hold = <<>>]
    <3>1. k.pc = handler[h].pc /\ k.s = handler[h].s /\ k.up = handler[h].up
      BY DEF TypeOK, Streams
    <3>2. handler' = [handler EXCEPT ![h] = k]
      BY <1>8, <2>1 DEF HandlerSends
    <3> HIDE DEF k
    <3> QED BY <1>0, <2>0, <3>1, <3>2, HandlerEffect DEF SameSessions
  <2>2. CASE ~handler[h].up
    <3>1. \A g \in Handlers : handler'[g] = IF g = h THEN NoStream ELSE handler[g]
      BY <1>8, <2>2 DEF HandlerSends, TypeOK
    <3>2. \A c \in Connectors : client[c].stream = h => client[c].stream = NoHandler
      BY <2>2, ClientAttached
    <3>3. \A c \in Connectors :
            /\ client'[c].pc = client[c].pc /\ client'[c].sessionID = client[c].sessionID
            /\ client'[c].stream = IF client[c].stream = h THEN NoHandler ELSE client[c].stream
      BY <2>0, <3>2
    <3> QED BY <2>0, <3>1, <3>3, EndAttached
  <2> QED BY <2>1, <2>2
<1>9. ASSUME NEW h \in Handlers, HandlerTakes(h) PROVE StreamsAttached'
  <2> DEFINE k == [handler[h] EXCEPT !.hold = <<Head(session[handler[h].s].chan)>>]
  <2>1. k.pc = handler[h].pc /\ k.s = handler[h].s /\ k.up = handler[h].up
    BY DEF TypeOK, Streams
  <2>2. handler' = [handler EXCEPT ![h] = k] /\ client' = client /\ hungUp' = hungUp
    BY <1>9 DEF HandlerTakes, TypeOK
  <2>3. SameSessions
    BY <1>9, StepsOfOthers DEF HandlerTakes, RegisterSession, CleanupExpiredSessions, UnregisterSession,
         lock, Locked, NoWriter
  <2> HIDE DEF k
  <2> QED BY <1>0, <2>1, <2>2, <2>3, HandlerEffect
<1>10. ASSUME NEW c \in Connectors, Connect(c) \/ Close(c) PROVE StreamsAttached'
  <2>1. session' = session /\ handler' = handler /\ hungUp' = hungUp
    BY <1>10 DEF Connect, Close, manager
  <2>2. \A d \in Connectors : /\ Speaks(d)' = Speaks(d) /\ client'[d].sessionID = client[d].sessionID
                              /\ client'[d].stream = client[d].stream
    <3>1. CASE Connect(c)
      <4>1. client' = [client EXCEPT ![c].pc = "joining"] /\ client[c].pc = "off"
        BY <3>1 DEF Connect
      <4>2. \A d \in Connectors : /\ client'[d].pc = IF d = c THEN "joining" ELSE client[d].pc
                                  /\ client'[d].sessionID = client[d].sessionID
                                  /\ client'[d].stream = client[d].stream
        BY <4>1, PcEffect
      <4> QED BY <4>1, <4>2 DEF Speaks
    <3>2. CASE Close(c)
      <4>1. client' = [client EXCEPT ![c].pc = "leaving"] /\ client[c].pc = "on"
        BY <3>2 DEF Close
      <4>2. \A d \in Connectors : /\ client'[d].pc = IF d = c THEN "leaving" ELSE client[d].pc
                                  /\ client'[d].sessionID = client[d].sessionID
                                  /\ client'[d].stream = client[d].stream
        BY <4>1, PcEffect
      <4> QED BY <4>1, <4>2 DEF Speaks
    <3> QED BY <1>10, <3>1, <3>2
  <2>3. StreamsStay
    BY <2>1, <2>2 DEF StreamsStay
  <2> QED BY <2>3, StayAttached
<1>11. ASSUME client' = client, hungUp' = hungUp, handler' = handler, SameSessions PROVE StreamsAttached'
  BY <1>0, <1>11
<1>12. CASE \/ Heartbeat \/ CleanupTick \/ \E s \in SessionIds : TimeoutPasses(s)
            \/ \E c \in Connectors :
                 \/ HeartbeatCall(c)
                 \/ RouteMessage(c) \/ SendMessageLock(c) \/ SendMessageLookup(c)
                 \/ SendMessage(c) \/ SendTimesOut(c) \/ SendPanics(c)
                 \/ \E to \in Receivers : SendTempMessage(c, to)
            \/ UNCHANGED vars
  <2>1. client' = client /\ hungUp' = hungUp /\ handler' = handler
    BY <1>12 DEF Heartbeat, CleanupTick, TimeoutPasses, HeartbeatCall, RouteMessage, SendMessageLock,
         SendMessageLookup, SendMessage, SendTimesOut, SendPanics, SendTempMessage, vars
  <2> QED BY <1>1, <1>2, <1>3, <1>11, <2>1, StepsOfOthers
<1> QED BY <1>1, <1>2, <1>3, <1>4, <1>5, <1>6, <1>7, <1>8, <1>9, <1>10, <1>12 DEF Next

-----------------------------------------------------------------------------
(* Steps that move no message *)

QuietStep ==
  \/ RegisterSession \/ Heartbeat \/ CleanupTick \/ CleanupExpiredSessions \/ UnregisterSession
  \/ \E s \in SessionIds : TimeoutPasses(s)
  \/ \E c \in Connectors :
       \/ Connect(c) \/ HeartbeatCall(c) \/ Close(c) \/ ClientStops(c) \/ StreamBreaks(c)
       \/ RouteMessage(c) \/ SendMessageLock(c) \/ SendMessageLookup(c)
       \/ SendTimesOut(c) \/ SendPanics(c)
       \/ \E h \in Handlers : ReceiveTempMessage(c, h)
  \/ \E h \in Handlers : HandlerEnds(h)
  \/ UNCHANGED vars

\* Nothing is put into a channel
LEMMA QuietSessions ==
  ASSUME TypeOK, NamesExist, QuietStep
  PROVE  \A s \in SessionIds :
           /\ session'[s].chan = session[s].chan
           /\ session'[s].pc = "open" => session[s].pc = "open" \/ session[s].pc = "unused"
<1>1. CASE RegisterSession
  <2>1. PICK c \in Connectors, s \in SessionIds : Registering(c, s)
    BY <1>1, RegisterIsRegistering
  <2> QED BY <2>1, RegisteringEffect DEF Live
<1>2. CASE CleanupExpiredSessions
  BY <1>2, CleanupEffect
<1>3. CASE UnregisterSession
  <2>1. \/ session' = session
        \/ writer.s \in SessionIds /\ session' = [session EXCEPT ![writer.s].pc = "closed"]
    BY <1>3, WriterFields DEF UnregisterSession, manager, Locked
  <2> QED BY <2>1, CloseUpdate
<1>4. CASE Heartbeat
  <2>1. \/ session' = session
        \/ writer.s \in SessionIds /\ session' = [session EXCEPT ![writer.s].overdue = FALSE]
    BY <1>4, WriterFields DEF Heartbeat, Locked
  <2> QED BY <2>1, OverdueUpdate
<1>5. ASSUME NEW u \in SessionIds, TimeoutPasses(u)
      PROVE  \A s \in SessionIds :
               session'[s].chan = session[s].chan /\ session'[s].pc = session[s].pc
  BY <1>5, OverdueUpdate DEF TimeoutPasses
<1>6. CASE \/ CleanupTick \/ UNCHANGED vars
           \/ \E c \in Connectors :
                \/ Connect(c) \/ HeartbeatCall(c) \/ Close(c) \/ ClientStops(c) \/ StreamBreaks(c)
                \/ RouteMessage(c) \/ SendMessageLock(c) \/ SendMessageLookup(c)
                \/ SendTimesOut(c) \/ SendPanics(c)
                \/ \E h \in Handlers : ReceiveTempMessage(c, h)
           \/ \E h \in Handlers : HandlerEnds(h)
  <2>1. session' = session
    BY <1>6 DEF CleanupTick, vars, Connect, HeartbeatCall, Close, ClientStops, StreamBreaks, RouteMessage,
         SendMessageLock, SendMessageLookup, SendTimesOut, SendPanics, ReceiveTempMessage, HandlerEnds,
         manager
  <2> QED BY <2>1
<1> QED BY <1>1, <1>2, <1>3, <1>4, <1>5, <1>6 DEF QuietStep

\* The handlers hold what they held; one that has just opened its stream holds nothing
LEMMA QuietHandlers ==
  ASSUME TypeOK, NamesExist, QuietStep
  PROVE  \A h \in Handlers :
           /\ handler'[h].hold = handler[h].hold
           /\ handler[h].hold # <<>> => handler'[h].s = handler[h].s
           /\ Reads(h)' => \/ Reads(h) /\ handler'[h].s = handler[h].s
                           \/ /\ handler[h].hold = <<>>
                              /\ handler'[h].s \in SessionIds /\ Live(handler'[h].s)
<1> TAKE h \in Handlers
<1> DEFINE G == /\ handler'[h].hold = handler[h].hold
                /\ handler[h].hold # <<>> => handler'[h].s = handler[h].s
                /\ Reads(h)' => \/ Reads(h) /\ handler'[h].s = handler[h].s
                                \/ /\ handler[h].hold = <<>>
                                   /\ handler'[h].s \in SessionIds /\ Live(handler'[h].s)
<1> SUFFICES G
  OBVIOUS
<1>1. ASSUME NEW c \in Connectors, HangUp(c) PROVE G
  BY <1>1, HangUpEffect DEF Reads, On
<1>2. CASE UnregisterSession
  BY <1>1, <1>2, WriterFields DEF UnregisterSession, Locked
<1>3. ASSUME NEW c \in Connectors, ClientStops(c) \/ StreamBreaks(c) PROVE G
  BY <1>1, <1>3 DEF ClientStops, StreamBreaks
<1>4. ASSUME NEW c \in Connectors, NEW g \in Handlers, ReceiveTempMessage(c, g) PROVE G
  <2> DEFINE r == [pc |-> "on", s |-> client[c].sessionID, up |-> TRUE, hold |-> <<>>]
  <2>1. handler'[h] = IF h = g THEN r ELSE handler[h]
    BY <1>4 DEF ReceiveTempMessage, TypeOK
  <2>2. r.pc = "on" /\ r.s = client[c].sessionID /\ r.hold = <<>>
    OBVIOUS
  <2>3. client[c].sessionID \in SessionIds /\ Live(client[c].sessionID)
    BY <1>4, Fields, ChatConstants DEF ReceiveTempMessage, NamesExist, Speaks, SessionIds
  <2>4. handler[g].hold = <<>>
    BY <1>4 DEF ReceiveTempMessage, NamesExist, On
  <2> HIDE DEF r
  <2>5. CASE h = g
    BY <2>1, <2>2, <2>3, <2>4, <2>5
  <2>6. CASE h # g
    BY <2>1, <2>6 DEF Reads, On
  <2> QED BY <2>5, <2>6
<1>5. ASSUME NEW g \in Handlers, HandlerEnds(g) PROVE G
  <2>1. handler[g].hold = <<>>
    BY <1>5 DEF HandlerEnds
  <2>2. CASE h = g
    BY <1>5, <2>1, <2>2, HandlerEndsEffect DEF Reads, On
  <2>3. CASE h # g
    BY <1>5, <2>3, HandlerEndsEffect DEF Reads, On
  <2> QED BY <2>2, <2>3
<1>6. ASSUME handler' = handler PROVE G
  BY <1>6 DEF Reads, On
<1> HIDE DEF G
<1>7. CASE \/ RegisterSession \/ Heartbeat \/ CleanupTick \/ CleanupExpiredSessions
           \/ UNCHANGED vars \/ \E s \in SessionIds : TimeoutPasses(s)
           \/ \E c \in Connectors :
                \/ Connect(c) \/ HeartbeatCall(c) \/ Close(c)
                \/ RouteMessage(c) \/ SendMessageLock(c) \/ SendMessageLookup(c)
                \/ SendTimesOut(c) \/ SendPanics(c)
  <2>1. handler' = handler
    BY <1>7 DEF RegisterSession, Heartbeat, CleanupTick, CleanupExpiredSessions, TimeoutPasses, vars,
         Connect, HeartbeatCall, Close, RouteMessage, SendMessageLock, SendMessageLookup, SendTimesOut,
         SendPanics
  <2> QED BY <1>6, <2>1
<1> QED BY <1>2, <1>3, <1>4, <1>5, <1>7 DEF QuietStep

\* A call goes on with its message or ends
LEMMA QuietCalls ==
  ASSUME TypeOK, QuietStep
  PROVE  \A c \in Connectors : call'[c].pc # "idle" => call[c].pc # "idle" /\ call'[c].m = call[c].m
<1> TAKE c \in Connectors
<1>1. ASSUME NEW d \in Connectors,
             RouteMessage(d) \/ SendMessageLock(d) \/ SendMessageLookup(d) \/ SendTimesOut(d)
      PROVE  call'[c].pc # "idle" => call[c].pc # "idle" /\ call'[c].m = call[c].m
  <2>1. PICK r \in Calls : call[d].pc # "idle" /\ call' = [call EXCEPT ![d] = r]
                           /\ (r.pc # "idle" => r.m = call[d].m)
    BY <1>1, SendingCall
  <2> QED BY <2>1, CallUpdate
<1>2. CASE \/ RegisterSession \/ Heartbeat \/ CleanupTick \/ CleanupExpiredSessions
           \/ UnregisterSession \/ UNCHANGED vars \/ \E s \in SessionIds : TimeoutPasses(s)
           \/ \E d \in Connectors :
                \/ Connect(d) \/ HeartbeatCall(d) \/ Close(d) \/ ClientStops(d) \/ StreamBreaks(d)
                \/ SendPanics(d) \/ \E h \in Handlers : ReceiveTempMessage(d, h)
           \/ \E h \in Handlers : HandlerEnds(h)
  <2>1. call' = call
    BY <1>2 DEF RegisterSession, Heartbeat, CleanupTick, CleanupExpiredSessions, UnregisterSession, vars,
         TimeoutPasses, Connect, HeartbeatCall, Close, ClientStops, StreamBreaks, SendPanics,
         ReceiveTempMessage, HandlerEnds
  <2> QED BY <2>1
<1> QED BY <1>1, <1>2 DEF QuietStep

\* Nothing is accepted or given
LEMMA QuietReports ==
  ASSUME QuietStep
  PROVE  UNCHANGED <<got, accepted, sent>> /\ hungUp \subseteq hungUp'
<1>1. ASSUME NEW c \in Connectors,
             \/ Connect(c) \/ HeartbeatCall(c) \/ Close(c) \/ ClientStops(c) \/ StreamBreaks(c)
             \/ RouteMessage(c) \/ SendMessageLock(c) \/ SendMessageLookup(c)
             \/ SendTimesOut(c) \/ SendPanics(c)
             \/ \E h \in Handlers : ReceiveTempMessage(c, h)
      PROVE  UNCHANGED <<got, accepted, sent>> /\ hungUp \subseteq hungUp'
  BY <1>1 DEF Connect, HeartbeatCall, Close, ClientStops, StreamBreaks, RouteMessage, SendMessageLock,
       SendMessageLookup, SendTimesOut, SendPanics, ReceiveTempMessage, reports
<1>2. CASE \/ RegisterSession \/ Heartbeat \/ CleanupTick \/ CleanupExpiredSessions
           \/ UnregisterSession \/ UNCHANGED vars \/ \E s \in SessionIds : TimeoutPasses(s)
           \/ \E h \in Handlers : HandlerEnds(h)
  BY <1>2 DEF RegisterSession, Heartbeat, CleanupTick, CleanupExpiredSessions, UnregisterSession, vars,
       TimeoutPasses, HandlerEnds, reports
<1> QED BY <1>1, <1>2 DEF QuietStep

\* Who is at the end of a channel, and of a handler that holds something, stays
LEMMA QuietOwners ==
  ASSUME TypeOK, NamesExist, MapsAgree, [Next]_vars, QuietStep
  PROVE  /\ \A s \in SessionIds : session[s].chan # <<>> => session'[s].of = session[s].of
         /\ \A h \in Handlers : handler[h].hold # <<>> =>
              handler[h].s \in SessionIds /\ Owner(h)' = Owner(h)
<1>1. \A s \in SessionIds : session[s].chan # <<>> => session'[s].of = session[s].of
  BY StepSession DEF NamesExist
<1>2. ASSUME NEW h \in Handlers, handler[h].hold # <<>>
      PROVE  handler[h].s \in SessionIds /\ session'[handler'[h].s].of = session[handler[h].s].of
  <2>1. handler[h].s \in SessionIds /\ session[handler[h].s].pc # "unused"
    BY <1>2, Fields, ChatConstants DEF NamesExist, On, SessionIds
  <2>2. handler'[h].s = handler[h].s
    BY <1>2, QuietHandlers
  <2> QED BY <2>1, <2>2, StepSession
<1> QED BY <1>1, <1>2 DEF Owner

\* Every message has its place as before
LEMMA QuietMessages ==
  ASSUME TypeOK, NamesExist, MapsAgree, MessagesKept, [Next]_vars, QuietStep
  PROVE  MessagesKept'
<1>0. UNCHANGED <<got, accepted, sent>>
  BY QuietReports
<1>1. \A c \in Connectors : call'[c].pc # "idle" => call[c].pc # "idle" /\ call'[c].m = call[c].m
  BY QuietCalls
<1>2. ASSUME NEW s \in SessionIds, NEW m \in ToSet(session'[s].chan)
      PROVE  m \in ToSet(accepted') /\ m.to = session'[s].of
  <2>1. session'[s].chan = session[s].chan /\ m \in ToSet(session[s].chan)
    BY QuietSessions
  <2>2. session[s].chan # <<>>
    BY <2>1 DEF ToSet
  <2> QED BY <1>0, <2>1, <2>2, QuietOwners DEF MessagesKept
<1>3. ASSUME NEW h \in Handlers, NEW m \in ToSet(handler'[h].hold)
      PROVE  m \in ToSet(accepted') /\ m.to = Owner(h)'
  <2>1. handler'[h].hold = handler[h].hold /\ m \in ToSet(handler[h].hold)
    BY QuietHandlers
  <2>2. handler[h].hold # <<>>
    BY <2>1 DEF ToSet
  <2> QED BY <1>0, <2>1, <2>2, QuietOwners DEF MessagesKept
<1>4. \A c, d \in Connectors : call'[c].pc # "idle" /\ call'[d].pc # "idle" /\ c # d =>
        call'[c].m.n # call'[d].m.n
  BY <1>1 DEF MessagesKept
<1>5. \A c \in Connectors : call'[c].pc # "idle" => call'[c].m.n <= sent'
  BY <1>0, <1>1 DEF MessagesKept
<1>6. \A i \in DOMAIN accepted' :
        /\ accepted'[i].n <= sent' /\ accepted'[i].to \in Connectors
        /\ \A c \in Connectors : call'[c].pc # "idle" => call'[c].m.n # accepted'[i].n
  BY <1>0, <1>1 DEF MessagesKept
<1>7. /\ \A i, j \in DOMAIN accepted' : accepted'[i] = accepted'[j] => i = j
      /\ \A c \in Connectors : \A m \in ToSet(got'[c]) : m \in ToSet(accepted') /\ m.to = c
  BY <1>0 DEF MessagesKept
<1> QED BY <1>2, <1>3, <1>4, <1>5, <1>6, <1>7 DEF MessagesKept

\* ... and is not lost
LEMMA QuietLost ==
  ASSUME TypeOK, NamesExist, NothingLostWithoutBreak, QuietStep
  PROVE  NothingLostWithoutBreak'
<1> SUFFICES ASSUME NEW m \in ToSet(accepted'), ~(m.to \in hungUp'), ~(m \in ToSet(got'[m.to]))
             PROVE  Underway(m)'
  BY DEF NothingLostWithoutBreak
<1>1. Underway(m)
  BY QuietReports DEF NothingLostWithoutBreak
<1>2. CASE \E s \in SessionIds : m \in ToSet(session[s].chan)
  BY <1>2, QuietSessions DEF Underway
<1>3. CASE \E h \in Handlers : m \in ToSet(handler[h].hold)
  BY <1>3, QuietHandlers DEF Underway
<1> QED BY <1>1, <1>2, <1>3 DEF Underway

\* ... and the order is the same
LEMMA QuietOrder ==
  ASSUME TypeOK, NamesExist, MapsAgree, OrderKept, [Next]_vars, QuietStep
  PROVE  OrderKept'
<1>0. got' = got /\ accepted' = accepted
  BY QuietReports
<1>1. Prior' = Prior
  BY <1>0 DEF Prior
<1>2. \A s \in SessionIds : InOrder(session[s].chan)'
  BY <1>1, QuietSessions DEF OrderKept, InOrder
<1>3. \A c \in Connectors : InOrder(got[c])'
  BY <1>0, <1>1 DEF OrderKept, InOrder
<1>4. ASSUME NEW s \in SessionIds, Open(s)'
      PROVE  Precede(ToSet(got[session[s].of]), ToSet(session[s].chan))'
  <2>1. session'[s].chan = session[s].chan
    BY QuietSessions
  <2>2. CASE session[s].chan = <<>>
    BY <2>1, <2>2 DEF Precede, ToSet
  <2>3. CASE session[s].chan # <<>>
    <3>1. session[s].pc # "unused" /\ session'[s].of = session[s].of
      BY <2>3, QuietOwners DEF NamesExist
    <3>2. Open(s)
      <4>1. CASE Live(s)'
        BY <3>1, <4>1, QuietSessions DEF Open, Live
      <4>2. CASE \E h \in Handlers : Reads(h)' /\ handler'[h].s = s
        <5>1. PICK h \in Handlers : Reads(h)' /\ handler'[h].s = s
          BY <4>2
        <5> QED BY <5>1, QuietHandlers DEF Open
      <4> QED BY <1>4, <4>1, <4>2 DEF Open
    <3> QED BY <1>0, <1>1, <2>1, <3>1, <3>2 DEF OrderKept, Precede
  <2> QED BY <2>2, <2>3
<1>5. ASSUME NEW h \in Handlers, Reads(h)'
      PROVE  /\ Len(handler'[h].hold) <= 1
             /\ Precede(ToSet(got[Owner(h)]), ToSet(handler[h].hold))'
             /\ Precede(ToSet(handler[h].hold), ToSet(session[handler[h].s].chan))'
  <2>1. handler'[h].hold = handler[h].hold
    BY QuietHandlers
  <2>2. CASE handler[h].hold = <<>>
    BY <2>1, <2>2 DEF Precede, ToSet
  <2>3. CASE handler[h].hold # <<>>
    <3>1. Reads(h) /\ handler'[h].s = handler[h].s /\ handler[h].s \in SessionIds /\ Owner(h)' = Owner(h)
      BY <1>5, <2>3, QuietHandlers, QuietOwners
    <3>2. session'[handler'[h].s].chan = session[handler[h].s].chan
      BY <3>1, QuietSessions
    <3> QED BY <1>0, <1>1, <2>1, <3>1, <3>2 DEF OrderKept, Precede
  <2> QED BY <2>2, <2>3
<1> QED BY <1>2, <1>3, <1>4, <1>5 DEF OrderKept

-----------------------------------------------------------------------------
(* Steps that move a message *)

\* The members of a longer and of a shorter sequence
LEMMA AppendSet ==
  ASSUME NEW S, NEW q \in Seq(S), NEW m \in S
  PROVE  /\ ToSet(Append(q, m)) = ToSet(q) \union {m}
         /\ DOMAIN Append(q, m) = 1..Len(q) + 1 /\ DOMAIN q = 1..Len(q) /\ Len(q) \in Nat
         /\ \A i \in 1..Len(q) : Append(q, m)[i] = q[i]
         /\ Append(q, m)[Len(q) + 1] = m
<1>1. /\ DOMAIN Append(q, m) = 1..Len(q) + 1 /\ DOMAIN q = 1..Len(q) /\ Len(q) \in Nat
      /\ \A i \in 1..Len(q) : Append(q, m)[i] = q[i]
      /\ Append(q, m)[Len(q) + 1] = m
  OBVIOUS
<1>2. ASSUME NEW x \in ToSet(Append(q, m)) PROVE x \in ToSet(q) \union {m}
  <2>1. PICK i \in 1..Len(q) + 1 : x = Append(q, m)[i]
    BY <1>1 DEF ToSet
  <2>2. i \in 1..Len(q) \/ i = Len(q) + 1
    BY <1>1
  <2> QED BY <1>1, <2>1, <2>2 DEF ToSet
<1>3. ASSUME NEW x \in ToSet(q) PROVE x \in ToSet(Append(q, m))
  <2>1. PICK i \in 1..Len(q) : x = q[i]
    BY <1>1 DEF ToSet
  <2>2. i \in 1..Len(q) + 1
    BY <1>1
  <2> QED BY <1>1, <2>1, <2>2 DEF ToSet
<1>4. m \in ToSet(Append(q, m))
  <2>1. Len(q) + 1 \in 1..Len(q) + 1
    BY <1>1
  <2> QED BY <1>1, <2>1 DEF ToSet
<1> QED BY <1>1, <1>2, <1>3, <1>4

LEMMA TailSet ==
  ASSUME NEW S, NEW q \in Seq(S), q # <<>>
  PROVE  /\ ToSet(q) = {Head(q)} \union ToSet(Tail(q)) /\ ToSet(<<Head(q)>>) = {Head(q)}
         /\ DOMAIN q = 1..Len(q) /\ Len(q) \in Nat /\ Len(q) >= 1 /\ Head(q) = q[1]
         /\ DOMAIN Tail(q) = 1..Len(q) - 1
         /\ \A i \in 1..Len(q) - 1 : Tail(q)[i] = q[i + 1]
<1>1. /\ DOMAIN q = 1..Len(q) /\ Len(q) \in Nat /\ Len(q) >= 1 /\ Head(q) = q[1]
      /\ DOMAIN Tail(q) = 1..Len(q) - 1
      /\ \A i \in 1..Len(q) - 1 : Tail(q)[i] = q[i + 1]
  OBVIOUS
<1>2. ASSUME NEW x \in ToSet(q) PROVE x \in {Head(q)} \union ToSet(Tail(q))
  <2>1. PICK i \in 1..Len(q) : x = q[i]
    BY <1>1 DEF ToSet
  <2>2. CASE i = 1
    BY <1>1, <2>1, <2>2
  <2>3. CASE i # 1
    <3>1. i - 1 \in 1..Len(q) - 1 /\ (i - 1) + 1 = i
      BY <1>1, <2>3
    <3> QED BY <1>1, <2>1, <3>1 DEF ToSet
  <2> QED BY <2>2, <2>3
<1>3. ASSUME NEW x \in ToSet(Tail(q)) PROVE x \in ToSet(q)
  <2>1. PICK i \in 1..Len(q) - 1 : x = q[i + 1]
    BY <1>1 DEF ToSet
  <2>2. i + 1 \in 1..Len(q)
    BY <1>1
  <2> QED BY <1>1, <2>1, <2>2 DEF ToSet
<1>4. Head(q) \in ToSet(q)
  BY <1>1 DEF ToSet
<1>5. ToSet(<<Head(q)>>) = {Head(q)}
  BY DEF ToSet
<1> QED BY <1>1, <1>2, <1>3, <1>4, <1>5

\* The number of a message
LEMMA Numbers ==
  ASSUME TypeOK
  PROVE  /\ sent \in Nat
         /\ \A c \in Connectors : call[c].pc # "idle" => call[c].m.n \in Nat /\ call[c].m \in Messages
         /\ \A i \in DOMAIN accepted : accepted[i].n \in Nat /\ accepted[i] \in Messages
<1>1. \A m \in Messages : m.n \in Nat
  BY ChatConstants DEF Messages
<1>2. \A i \in DOMAIN accepted : accepted[i] \in Messages
  BY DEF TypeOK
<1> QED BY <1>1, <1>2, Fields, ChatConstants DEF TypeOK

\* What is about order and loss depends on where the messages are
LEMMA SameMessages ==
  ASSUME OrderKept, NothingLostWithoutBreak, UNCHANGED <<session, handler, got, accepted, hungUp>>
  PROVE  OrderKept' /\ NothingLostWithoutBreak'
<1>1. Prior' = Prior
  BY DEF Prior
<1>2. \A s \in SessionIds : Open(s)' = Open(s)
  BY DEF Open, Live, Reads, On
<1>3. OrderKept'
  BY <1>1, <1>2 DEF OrderKept, InOrder, Precede, Reads, On, Owner
<1>4. NothingLostWithoutBreak'
  BY DEF NothingLostWithoutBreak, Underway
<1> QED BY <1>3, <1>4

\* SendTempMessage: a number of its own
LEMMA NewMessage ==
  ASSUME TypeOK, MessagesKept, OrderKept, NothingLostWithoutBreak,
         NEW c \in Connectors, NEW to \in Receivers, SendTempMessage(c, to)
  PROVE  MessagesKept' /\ OrderKept' /\ NothingLostWithoutBreak'
<1>0. UNCHANGED <<session, handler, got, accepted, hungUp>> /\ sent' = sent + 1 /\ call[c] = NoCall
  BY DEF SendTempMessage, manager, reports
<1>1. OrderKept' /\ NothingLostWithoutBreak'
  BY <1>0, SameMessages
<1> DEFINE r == [pc |-> "route", m |-> [n |-> sent + 1, from |-> c, to |-> to]]
<1>2. call' = [call EXCEPT ![c] = r] /\ r.pc # "idle" /\ r.m.n = sent + 1
  BY DEF SendTempMessage
<1> HIDE DEF r
<1>3. \A d \in Connectors : call'[d] = IF d = c THEN r ELSE call[d]
  BY <1>2 DEF TypeOK
<1>4. \A d \in Connectors : call[d].pc # "idle" => call[d].m.n \in Nat /\ call[d].m.n <= sent
  BY Numbers DEF MessagesKept
<1>5. \A i \in DOMAIN accepted : accepted[i].n \in Nat /\ accepted[i].n <= sent
  BY Numbers DEF MessagesKept
<1>6. sent \in Nat
  BY Numbers
<1>7. \A d \in Connectors : call'[d].pc # "idle" => call'[d].m.n <= sent'
  BY <1>0, <1>2, <1>3, <1>4, <1>6
<1>8. ASSUME NEW d \in Connectors, NEW e \in Connectors,
             call'[d].pc # "idle", call'[e].pc # "idle", d # e
      PROVE  call'[d].m.n # call'[e].m.n
  <2>1. CASE d = c
    BY <1>2, <1>3, <1>4, <1>6, <1>8, <2>1
  <2>2. CASE e = c
    BY <1>2, <1>3, <1>4, <1>6, <1>8, <2>2
  <2>3. CASE d # c /\ e # c
    BY <1>3, <1>8, <2>3 DEF MessagesKept
  <2> QED BY <2>1, <2>2, <2>3
<1>9. ASSUME NEW i \in DOMAIN accepted'
      PROVE  /\ accepted'[i].n <= sent' /\ accepted'[i].to \in Connectors
             /\ \A d \in Connectors : call'[d].pc # "idle" => call'[d].m.n # accepted'[i].n
  <2>1. i \in DOMAIN accepted /\ accepted'[i] = accepted[i]
    BY <1>0
  <2>2. accepted[i].n <= sent' /\ accepted[i].n # sent + 1
    BY <1>0, <1>5, <1>6, <2>1
  <2>3. /\ accepted[i].to \in Connectors
        /\ \A d \in Connectors : call[d].pc # "idle" => call[d].m.n # accepted[i].n
    BY <2>1 DEF MessagesKept
  <2> QED BY <1>2, <1>3, <2>1, <2>2, <2>3
<1>10. MessagesKept'
  BY <1>0, <1>7, <1>8, <1>9 DEF MessagesKept, Owner
<1> QED BY <1>1, <1>10

\* What was accepted before stays before, and comes before what is accepted now
LEMMA PriorGrows ==
  ASSUME accepted \in Seq(Messages), NEW m \in Messages, accepted' = Append(accepted, m)
  PROVE  Prior \subseteq Prior' /\ \A a \in ToSet(accepted) : <<a, m>> \in Prior'
<1>0. /\ DOMAIN accepted' = 1..Len(accepted) + 1 /\ DOMAIN accepted = 1..Len(accepted)
      /\ Len(accepted) \in Nat
      /\ \A i \in 1..Len(accepted) : accepted'[i] = accepted[i] /\ accepted[i] \in Messages
      /\ accepted'[Len(accepted) + 1] = m
  BY AppendSet
<1>1. ASSUME NEW p \in Prior PROVE p \in Prior'
  <2>1. PICK i, j \in DOMAIN accepted : i < j /\ accepted[i] = p[1] /\ accepted[j] = p[2]
    BY DEF Prior
  <2>2. i \in DOMAIN accepted' /\ j \in DOMAIN accepted'
    BY <1>0, <2>1
  <2>3. accepted'[i] = p[1] /\ accepted'[j] = p[2]
    BY <1>0, <2>1
  <2>4. p \in Messages \X Messages
    BY DEF Prior
  <2> QED BY <2>1, <2>2, <2>3, <2>4 DEF Prior
<1>2. ASSUME NEW a \in ToSet(accepted) PROVE <<a, m>> \in Prior'
  <2>1. PICK i \in 1..Len(accepted) : a = accepted[i]
    BY <1>0 DEF ToSet
  <2> DEFINE j == Len(accepted) + 1
  <2>2. i \in DOMAIN accepted' /\ j \in DOMAIN accepted' /\ i < j
    BY <1>0, <2>1
  <2>3. accepted'[i] = a /\ accepted'[j] = m /\ a \in Messages
    BY <1>0, <2>1
  <2> HIDE DEF j
  <2>4. <<a, m>> \in Messages \X Messages /\ <<a, m>>[1] = a /\ <<a, m>>[2] = m
    BY <2>3
  <2> QED BY <2>2, <2>3, <2>4 DEF Prior
<1> QED BY <1>1, <1>2

\* What SendMessage changes
LEMMA SendEffect ==
  ASSUME TypeOK, NamesExist, NEW c \in Connectors, SendMessage(c)
  PROVE  \E s \in SessionIds, m \in Messages :
           /\ call[c].pc = "send" /\ call[c].s = s /\ call[c].m = m
           /\ session[s].pc = "open" /\ session[s].of = m.to
           /\ \A u \in SessionIds :
                /\ session'[u].pc = session[u].pc /\ session'[u].of = session[u].of
                /\ session'[u].chan = IF u = s THEN Append(session[u].chan, m) ELSE session[u].chan
           /\ accepted' = Append(accepted, m)
           /\ \A d \in Connectors : call'[d] = IF d = c THEN NoCall ELSE call[d]
           /\ UNCHANGED <<handler, got, sent, hungUp>>
<1>1. call[c].pc = "send" /\ Live(call[c].s)
  BY DEF SendMessage
<1>2. PICK s \in SessionIds, m \in Messages : call[c].s = s /\ call[c].m = m
  BY <1>1, Fields
<1> DEFINE q == Append(session[s].chan, m)
<1>3. q \in Seq(Messages)
  BY Fields
<1>4. session' = [session EXCEPT ![s].chan = q]
  BY <1>2 DEF SendMessage, TypeOK
<1> HIDE DEF q
<1>5. \A u \in SessionIds :
        /\ session'[u].pc = session[u].pc /\ session'[u].of = session[u].of
        /\ session'[u].chan = IF u = s THEN q ELSE session[u].chan
  BY <1>3, <1>4, ChanUpdate
<1>6. \A u \in SessionIds :
        /\ session'[u].pc = session[u].pc /\ session'[u].of = session[u].of
        /\ session'[u].chan = IF u = s THEN Append(session[u].chan, m) ELSE session[u].chan
  BY <1>5 DEF q
<1>7. session[s].pc = "open" /\ session[s].of = m.to
  BY <1>1, <1>2 DEF NamesExist, Live
<1>8. accepted' = Append(accepted, m) /\ UNCHANGED <<handler, got, sent, hungUp>>
  BY <1>2 DEF SendMessage
<1>9. \A d \in Connectors : call'[d] = IF d = c THEN NoCall ELSE call[d]
  BY DEF SendMessage, TypeOK
<1> QED BY <1>1, <1>2, <1>6, <1>7, <1>8, <1>9

\* SendMessage: the message is the last of its channel and of those accepted
LEMMA SendKeeps ==
  ASSUME TypeOK, NamesExist, MessagesKept, OrderKept, NothingLostWithoutBreak,
         NEW c \in Connectors, SendMessage(c)
  PROVE  MessagesKept' /\ OrderKept' /\ NothingLostWithoutBreak'
<1>0. PICK s \in SessionIds, m \in Messages :
           /\ call[c].pc = "send" /\ call[c].s = s /\ call[c].m = m
           /\ session[s].pc = "open" /\ session[s].of = m.to
           /\ \A u \in SessionIds :
                /\ session'[u].pc = session[u].pc /\ session'[u].of = session[u].of
                /\ session'[u].chan = IF u = s THEN Append(session[u].chan, m) ELSE session[u].chan
           /\ accepted' = Append(accepted, m)
           /\ \A d \in Connectors : call'[d] = IF d = c THEN NoCall ELSE call[d]
           /\ UNCHANGED <<handler, got, sent, hungUp>>
  BY SendEffect
<1>1. /\ accepted \in Seq(Messages) /\ session[s].chan \in Seq(Messages)
      /\ \A u \in SessionIds : session[u].chan \in Seq(Messages)
  BY Fields DEF TypeOK
<1>2. ToSet(accepted') = ToSet(accepted) \union {m}
  BY <1>0, <1>1, AppendSet
<1>3. /\ ToSet(session'[s].chan) = ToSet(session[s].chan) \union {m}
      /\ session'[s].chan = Append(session[s].chan, m)
  <2>1. session'[s].chan = Append(session[s].chan, m)
    BY <1>0
  <2> QED BY <1>1, <2>1, AppendSet
<1>4. \A u \in SessionIds : u # s => session'[u].chan = session[u].chan
  BY <1>0
<1>5. \A h \in Handlers : On(h) => handler[h].s \in SessionIds
  BY Fields, ChatConstants DEF NamesExist, SessionIds
<1>6. \A h \in Handlers : handler[h].hold # <<>> => On(h)
  BY DEF NamesExist
<1>7. MessagesKept'
  <2>1. \A d \in Connectors : call'[d].pc # "idle" => d # c /\ call'[d] = call[d]
    BY <1>0 DEF NoCall
  <2>2. /\ \A d \in Connectors : call'[d].pc # "idle" => call'[d].m.n <= sent'
        /\ \A d, e \in Connectors : call'[d].pc # "idle" /\ call'[e].pc # "idle" /\ d # e =>
             call'[d].m.n # call'[e].m.n
    BY <1>0, <2>1 DEF MessagesKept
  <2>3. /\ DOMAIN accepted' = 1..Len(accepted) + 1 /\ DOMAIN accepted = 1..Len(accepted)
        /\ Len(accepted) \in Nat /\ accepted'[Len(accepted) + 1] = m
        /\ \A i \in 1..Len(accepted) : accepted'[i] = accepted[i]
    BY <1>0, <1>1, AppendSet
  <2>4. \A i \in DOMAIN accepted' : i \in DOMAIN accepted \/ i = Len(accepted) + 1
    BY <2>3
  <2>5. /\ m.n <= sent /\ m.to \in Connectors
        /\ \A d \in Connectors : call'[d].pc # "idle" => call'[d].m.n # m.n
    BY <1>0, <2>1, Fields DEF MessagesKept
  <2>6. ASSUME NEW i \in DOMAIN accepted'
        PROVE  /\ accepted'[i].n <= sent' /\ accepted'[i].to \in Connectors
               /\ \A d \in Connectors : call'[d].pc # "idle" => call'[d].m.n # accepted'[i].n
    <3>1. CASE i \in DOMAIN accepted
      <4>1. accepted'[i] = accepted[i]
        BY <2>3, <3>1
      <4> QED BY <1>0, <2>1, <3>1, <4>1 DEF MessagesKept
    <3>2. CASE i = Len(accepted) + 1
      BY <1>0, <2>3, <2>5, <3>2
    <3> QED BY <2>4, <3>1, <3>2
  <2>7. \A i \in DOMAIN accepted : accepted[i] # m
    BY <1>0 DEF MessagesKept
  <2>8. ASSUME NEW i \in DOMAIN accepted', NEW j \in DOMAIN accepted', accepted'[i] = accepted'[j]
        PROVE  i = j
    <3>1. CASE i \in DOMAIN accepted /\ j \in DOMAIN accepted
      <4>1. accepted[i] = accepted[j]
        BY <2>3, <2>8, <3>1
      <4> QED BY <3>1, <4>1 DEF MessagesKept
    <3>2. CASE i = Len(accepted) + 1 \/ j = Len(accepted) + 1
      BY <2>3, <2>4, <2>7, <2>8, <3>2
    <3> QED BY <2>4, <3>1, <3>2
  <2>9. ASSUME NEW u \in SessionIds, NEW x \in ToSet(session'[u].chan)
        PROVE  x \in ToSet(accepted') /\ x.to = session'[u].of
    BY <1>0, <1>2, <1>3, <1>4 DEF MessagesKept
  <2>10. ASSUME NEW h \in Handlers, NEW x \in ToSet(handler'[h].hold)
         PROVE  x \in ToSet(accepted') /\ x.to = Owner(h)'
    <3>1. handler' = handler /\ x \in ToSet(handler[h].hold)
      BY <1>0
    <3>2. handler[h].hold # <<>>
      BY <3>1 DEF ToSet
    <3>3. Owner(h)' = Owner(h)
      BY <1>0, <1>5, <1>6, <3>1, <3>2 DEF Owner
    <3> QED BY <1>2, <3>1, <3>3 DEF MessagesKept
  <2>11. \A d \in Connectors : \A x \in ToSet(got'[d]) : x \in ToSet(accepted') /\ x.to = d
    BY <1>0, <1>2 DEF MessagesKept
  <2> QED BY <2>2, <2>6, <2>8, <2>9, <2>10, <2>11 DEF MessagesKept
<1>8. Prior \subseteq Prior' /\ \A a \in ToSet(accepted) : <<a, m>> \in Prior'
  BY <1>0, <1>1, PriorGrows
<1>9. OrderKept'
  <2>1. ASSUME NEW u \in SessionIds PROVE InOrder(session[u].chan)'
    <3>1. CASE u # s
      BY <1>4, <1>8, <3>1 DEF OrderKept, InOrder
    <3>2. CASE u = s
      <4> SUFFICES ASSUME NEW i \in DOMAIN session'[s].chan, NEW j \in DOMAIN session'[s].chan, i < j
                   PROVE  <<session'[s].chan[i], session'[s].chan[j]>> \in Prior'
        BY <3>2 DEF InOrder
      <4> DEFINE q == session[s].chan
      <4>1. /\ DOMAIN session'[s].chan = 1..Len(q) + 1 /\ DOMAIN q = 1..Len(q) /\ Len(q) \in Nat
            /\ \A k \in 1..Len(q) : session'[s].chan[k] = q[k]
            /\ session'[s].chan[Len(q) + 1] = m
        BY <1>1, <1>3, AppendSet
      <4>2. i \in 1..Len(q) + 1 /\ j \in 1..Len(q) + 1 /\ InOrder(q)
        BY <4>1 DEF OrderKept
      <4>3. \A k \in DOMAIN q : q[k] \in ToSet(accepted)
        <5>1. \A x \in ToSet(q) : x \in ToSet(accepted)
          BY DEF MessagesKept
        <5> HIDE DEF q
        <5> QED BY <5>1 DEF ToSet
      <4> HIDE DEF q
      <4>4. i \in 1..Len(q) /\ session'[s].chan[i] = q[i]
        BY <4>2, <4>1
      <4>5. q[i] \in ToSet(accepted)
        BY <4>1, <4>4, <4>3
      <4>6. CASE j = Len(q) + 1
        BY <1>8, <4>1, <4>4, <4>5, <4>6
      <4>7. CASE j # Len(q) + 1
        <5>1. j \in 1..Len(q) /\ session'[s].chan[j] = q[j]
          BY <4>2, <4>1, <4>7
        <5> QED BY <1>8, <4>2, <4>1, <4>4, <5>1 DEF InOrder
      <4> QED BY <4>6, <4>7
    <3> QED BY <3>1, <3>2
  <2>2. \A d \in Connectors : InOrder(got[d])'
    BY <1>0, <1>8 DEF OrderKept, InOrder
  <2>3. \A u \in SessionIds : Open(u)' = Open(u)
    BY <1>0 DEF Open, Live, Reads, On
  <2>4. ASSUME NEW u \in SessionIds, Open(u)
        PROVE  Precede(ToSet(got[session[u].of]), ToSet(session[u].chan))'
    <3>1. Precede(ToSet(got[session[u].of]), ToSet(session[u].chan)) /\ session'[u].of = session[u].of
      BY <1>0, <2>4 DEF OrderKept
    <3>2. \A x \in ToSet(got[session[u].of]) : x \in ToSet(accepted)
      BY Fields DEF MessagesKept
    <3> QED BY <1>0, <1>3, <1>4, <1>8, <3>1, <3>2 DEF Precede
  <2>5. ASSUME NEW h \in Handlers, Reads(h)
        PROVE  /\ Len(handler'[h].hold) <= 1
               /\ Precede(ToSet(got[Owner(h)]), ToSet(handler[h].hold))'
               /\ Precede(ToSet(handler[h].hold), ToSet(session[handler[h].s].chan))'
    <3>1. handler[h].s \in SessionIds /\ Owner(h)' = Owner(h)
      BY <1>0, <1>5, <2>5 DEF Owner, Reads
    <3>2. /\ Len(handler[h].hold) <= 1
          /\ Precede(ToSet(got[Owner(h)]), ToSet(handler[h].hold))
          /\ Precede(ToSet(handler[h].hold), ToSet(session[handler[h].s].chan))
      BY <2>5 DEF OrderKept
    <3>3. \A x \in ToSet(handler[h].hold) : x \in ToSet(accepted)
      BY DEF MessagesKept
    <3>4. Precede(ToSet(got[Owner(h)]), ToSet(handler[h].hold))'
      BY <1>0, <1>8, <3>1, <3>2 DEF Precede
    <3>5. Precede(ToSet(handler[h].hold), ToSet(session[handler[h].s].chan))'
      BY <1>0, <1>3, <1>4, <1>8, <3>1, <3>2, <3>3 DEF Precede
    <3> QED BY <1>0, <3>2, <3>4, <3>5
  <2>6. \A h \in Handlers : Reads(h)' = Reads(h)
    BY <1>0 DEF Reads, On
  <2> QED BY <2>1, <2>2, <2>3, <2>4, <2>5, <2>6 DEF OrderKept
<1>10. NothingLostWithoutBreak'
  <2>1. \A x : Underway(x) => Underway(x)'
    BY <1>0, <1>3, <1>4 DEF Underway
  <2>2. Underway(m)'
    BY <1>3 DEF Underway
  <2> QED BY <1>0, <1>2, <2>1, <2>2 DEF NothingLostWithoutBreak
<1> QED BY <1>7, <1>9, <1>10

\* What HandlerTakes changes
LEMMA TakeEffect ==
  ASSUME TypeOK, NamesExist, NEW h \in Handlers, HandlerTakes(h)
  PROVE  \E s \in SessionIds, q \in Seq(Messages) :
           /\ On(h) /\ handler[h].hold = <<>> /\ s = handler[h].s /\ q = session[s].chan /\ q # <<>>
           /\ \A u \in SessionIds :
                /\ session'[u].pc = session[u].pc /\ session'[u].of = session[u].of
                /\ session'[u].chan = IF u = s THEN Tail(q) ELSE session[u].chan
           /\ \A g \in Handlers :
                /\ handler'[g].pc = handler[g].pc /\ handler'[g].s = handler[g].s
                /\ handler'[g].up = handler[g].up
                /\ handler'[g].hold = IF g = h THEN <<Head(q)>> ELSE handler[g].hold
           /\ UNCHANGED <<call, got, sent, accepted, hungUp>>
<1>1. On(h) /\ handler[h].hold = <<>> /\ handler[h].s \in SessionIds
  BY Fields, ChatConstants DEF HandlerTakes, On, NamesExist, SessionIds
<1>2. PICK s \in SessionIds, q \in Seq(Messages) : s = handler[h].s /\ q = session[s].chan /\ q # <<>>
  BY <1>1, Fields DEF HandlerTakes
<1>3. Tail(q) \in Seq(Messages) /\ session' = [session EXCEPT ![s].chan = Tail(q)]
  BY <1>2 DEF HandlerTakes, TypeOK
<1>4. \A u \in SessionIds :
        /\ session'[u].pc = session[u].pc /\ session'[u].of = session[u].of
        /\ session'[u].chan = IF u = s THEN Tail(q) ELSE session[u].chan
  BY <1>3, ChanUpdate
<1> DEFINE r == [handler[h] EXCEPT !.hold = <<Head(q)>>]
<1>5. r.pc = handler[h].pc /\ r.s = handler[h].s /\ r.up = handler[h].up /\ r.hold = <<Head(q)>>
  BY DEF TypeOK, Streams
<1>6. handler' = [handler EXCEPT ![h] = r]
  BY <1>2 DEF HandlerTakes, TypeOK
<1> HIDE DEF r
<1>7. \A g \in Handlers :
        /\ handler'[g].pc = handler[g].pc /\ handler'[g].s = handler[g].s
        /\ handler'[g].up = handler[g].up
        /\ handler'[g].hold = IF g = h THEN <<Head(q)>> ELSE handler[g].hold
  <2>1. \A g \in Handlers : handler'[g] = IF g = h THEN r ELSE handler[g]
    BY <1>6 DEF TypeOK
  <2> QED BY <1>5, <2>1
<1>8. UNCHANGED <<call, got, sent, accepted, hungUp>>
  BY DEF HandlerTakes, reports
<1> QED BY <1>1, <1>2, <1>4, <1>7, <1>8

\* HandlerTakes: the first message of the channel is in the handler's hands
LEMMA TakeKeeps ==
  ASSUME TypeOK, NamesExist, MessagesKept, OrderKept, NothingLostWithoutBreak,
         NEW h \in Handlers, HandlerTakes(h)
  PROVE  MessagesKept' /\ OrderKept' /\ NothingLostWithoutBreak'
<1>0. PICK s \in SessionIds, q \in Seq(Messages) :
           /\ On(h) /\ handler[h].hold = <<>> /\ s = handler[h].s /\ q = session[s].chan /\ q # <<>>
           /\ \A u \in SessionIds :
                /\ session'[u].pc = session[u].pc /\ session'[u].of = session[u].of
                /\ session'[u].chan = IF u = s THEN Tail(q) ELSE session[u].chan
           /\ \A g \in Handlers :
                /\ handler'[g].pc = handler[g].pc /\ handler'[g].s = handler[g].s
                /\ handler'[g].up = handler[g].up
                /\ handler'[g].hold = IF g = h THEN <<Head(q)>> ELSE handler[g].hold
           /\ UNCHANGED <<call, got, sent, accepted, hungUp>>
  BY TakeEffect
<1>1. /\ ToSet(q) = {Head(q)} \union ToSet(Tail(q)) /\ ToSet(<<Head(q)>>) = {Head(q)}
      /\ DOMAIN q = 1..Len(q) /\ Len(q) \in Nat /\ Len(q) >= 1 /\ Head(q) = q[1]
      /\ DOMAIN Tail(q) = 1..Len(q) - 1
      /\ \A i \in 1..Len(q) - 1 : Tail(q)[i] = q[i + 1]
  BY <1>0, TailSet
<1>2. /\ session'[s].chan = Tail(q) /\ ToSet(session[s].chan) = {Head(q)} \union ToSet(Tail(q))
      /\ \A u \in SessionIds : u # s => session'[u].chan = session[u].chan
      /\ \A u \in SessionIds : ToSet(session'[u].chan) \subseteq ToSet(session[u].chan)
  BY <1>0, <1>1
<1>3. /\ ToSet(handler'[h].hold) = {Head(q)} /\ Len(handler'[h].hold) = 1
      /\ \A g \in Handlers : g # h => handler'[g].hold = handler[g].hold
  BY <1>0, <1>1
<1>4. \A g \in Handlers : handler[g].hold # <<>> \/ On(g) => handler[g].s \in SessionIds
  BY Fields, ChatConstants DEF NamesExist, SessionIds
<1>5. \A g \in Handlers : handler[g].s \in SessionIds => Owner(g)' = Owner(g)
  BY <1>0 DEF Owner
<1>6. MessagesKept'
  <2>1. ASSUME NEW u \in SessionIds, NEW x \in ToSet(session'[u].chan)
        PROVE  x \in ToSet(accepted') /\ x.to = session'[u].of
    BY <1>0, <1>2 DEF MessagesKept
  <2>2. ASSUME NEW g \in Handlers, NEW x \in ToSet(handler'[g].hold)
        PROVE  x \in ToSet(accepted') /\ x.to = Owner(g)'
    <3>1. CASE g = h
      <4>1. x = Head(q) /\ x \in ToSet(session[s].chan)
        BY <1>2, <1>3, <3>1
      <4>2. Owner(h)' = session[s].of
        BY <1>0 DEF Owner
      <4> QED BY <1>0, <3>1, <4>1, <4>2 DEF MessagesKept
    <3>2. CASE g # h
      <4>1. x \in ToSet(handler[g].hold)
        BY <1>3, <3>2
      <4>2. handler[g].hold # <<>>
        BY <4>1 DEF ToSet
      <4> QED BY <1>0, <1>4, <1>5, <4>1, <4>2 DEF MessagesKept
    <3> QED BY <3>1, <3>2
  <2>3. /\ \A d \in Connectors : call'[d].pc # "idle" => call'[d].m.n <= sent'
        /\ \A d, e \in Connectors : call'[d].pc # "idle" /\ call'[e].pc # "idle" /\ d # e =>
             call'[d].m.n # call'[e].m.n
        /\ \A i \in DOMAIN accepted' :
             /\ accepted'[i].n <= sent' /\ accepted'[i].to \in Connectors
             /\ \A d \in Connectors : call'[d].pc # "idle" => call'[d].m.n # accepted'[i].n
        /\ \A i, j \in DOMAIN accepted' : accepted'[i] = accepted'[j] => i = j
        /\ \A d \in Connectors : \A x \in ToSet(got'[d]) : x \in ToSet(accepted') /\ x.to = d
    BY <1>0 DEF MessagesKept
  <2> QED BY <2>1, <2>2, <2>3 DEF MessagesKept
<1>7. Prior' = Prior
  BY <1>0 DEF Prior
<1>8. OrderKept'
  <2>0. InOrder(q)
    BY <1>0 DEF OrderKept
  <2>1. ASSUME NEW u \in SessionIds PROVE InOrder(session[u].chan)'
    <3>1. CASE u # s
      BY <1>2, <1>7, <3>1 DEF OrderKept, InOrder
    <3>2. CASE u = s
      <4> SUFFICES ASSUME NEW i \in 1..Len(q) - 1, NEW j \in 1..Len(q) - 1, i < j
                   PROVE  <<Tail(q)[i], Tail(q)[j]>> \in Prior'
        BY <1>1, <1>2, <3>2 DEF InOrder
      <4>1. i + 1 \in DOMAIN q /\ j + 1 \in DOMAIN q /\ i + 1 < j + 1
        BY <1>1
      <4>2. Tail(q)[i] = q[i + 1] /\ Tail(q)[j] = q[j + 1]
        BY <1>1
      <4> QED BY <1>7, <2>0, <4>1, <4>2 DEF InOrder
    <3> QED BY <3>1, <3>2
  <2>2. \A d \in Connectors : InOrder(got[d])'
    BY <1>0, <1>7 DEF OrderKept, InOrder
  <2>3. /\ \A g \in Handlers : Reads(g)' = Reads(g)
        /\ \A u \in SessionIds : Open(u)' = Open(u)
    BY <1>0 DEF Open, Live, Reads, On
  <2>4. ASSUME NEW u \in SessionIds, Open(u)
        PROVE  Precede(ToSet(got[session[u].of]), ToSet(session[u].chan))'
    <3>1. Precede(ToSet(got[session[u].of]), ToSet(session[u].chan)) /\ session'[u].of = session[u].of
      BY <1>0, <2>4 DEF OrderKept
    <3> QED BY <1>0, <1>2, <1>7, <3>1 DEF Precede
  <2>5. ASSUME NEW g \in Handlers, Reads(g)
        PROVE  /\ Len(handler'[g].hold) <= 1
               /\ Precede(ToSet(got[Owner(g)]), ToSet(handler[g].hold))'
               /\ Precede(ToSet(handler[g].hold), ToSet(session[handler[g].s].chan))'
    <3>1. handler[g].s \in SessionIds /\ Owner(g)' = Owner(g) /\ handler'[g].s = handler[g].s
      BY <1>0, <1>4, <1>5, <2>5 DEF Reads
    <3>2. CASE g # h
      <4>1. /\ Len(handler[g].hold) <= 1
            /\ Precede(ToSet(got[Owner(g)]), ToSet(handler[g].hold))
            /\ Precede(ToSet(handler[g].hold), ToSet(session[handler[g].s].chan))
        BY <2>5 DEF OrderKept
      <4>2. Precede(ToSet(got[Owner(g)]), ToSet(handler[g].hold))'
        BY <1>0, <1>3, <1>7, <3>1, <3>2, <4>1 DEF Precede
      <4>3. Precede(ToSet(handler[g].hold), ToSet(session[handler[g].s].chan))'
        BY <1>2, <1>3, <1>7, <3>1, <3>2, <4>1 DEF Precede
      <4> QED BY <1>3, <3>2, <4>1, <4>2, <4>3
    <3>3. CASE g = h
      <4>1. Open(s) /\ Owner(h) = session[s].of
        BY <1>0, <2>5, <3>3 DEF Open, Owner
      <4>2. Precede(ToSet(got[Owner(h)]), ToSet(q))
        BY <1>0, <4>1 DEF OrderKept
      <4>3. Precede(ToSet(got[Owner(g)]), ToSet(handler[g].hold))'
        BY <1>0, <1>1, <1>3, <1>7, <3>1, <3>3, <4>2 DEF Precede
      <4>4. ASSUME NEW x \in ToSet(Tail(q)) PROVE <<Head(q), x>> \in Prior
        <5>1. PICK i \in 1..Len(q) - 1 : x = q[i + 1]
          BY <1>1 DEF ToSet
        <5>2. 1 \in DOMAIN q /\ i + 1 \in DOMAIN q /\ 1 < i + 1
          BY <1>1
        <5> QED BY <1>1, <2>0, <5>1, <5>2 DEF InOrder
      <4>5. Precede(ToSet(handler[g].hold), ToSet(session[handler[g].s].chan))'
        BY <1>0, <1>2, <1>3, <1>7, <3>1, <3>3, <4>4 DEF Precede
      <4>6. Len(handler'[g].hold) <= 1
        <5>1. Len(handler'[g].hold) = 1
          BY <1>3, <3>3
        <5>2. 1 <= 1
          OBVIOUS
        <5> QED BY <5>1, <5>2, Zenon
      <4> QED BY <4>3, <4>5, <4>6
    <3> QED BY <3>2, <3>3
  <2> QED BY <2>1, <2>2, <2>3, <2>4, <2>5 DEF OrderKept
<1>9. NothingLostWithoutBreak'
  <2>1. ASSUME NEW x, Underway(x) PROVE Underway(x)'
    <3>1. CASE \E u \in SessionIds : x \in ToSet(session[u].chan)
      <4>1. PICK u \in SessionIds : x \in ToSet(session[u].chan)
        BY <3>1
      <4>2. CASE u = s
        BY <1>2, <1>3, <4>1, <4>2 DEF Underway
      <4>3. CASE u # s
        BY <1>2, <4>1, <4>3 DEF Underway
      <4> QED BY <4>2, <4>3
    <3>2. CASE \E g \in Handlers : x \in ToSet(handler[g].hold)
      <4>1. PICK g \in Handlers : x \in ToSet(handler[g].hold)
        BY <3>2
      <4>2. g # h
        BY <1>0, <4>1 DEF ToSet
      <4> QED BY <1>3, <4>1, <4>2 DEF Underway
    <3> QED BY <2>1, <3>1, <3>2 DEF Underway
  <2> QED BY <1>0, <2>1 DEF NothingLostWithoutBreak
<1> QED BY <1>6, <1>8, <1>9

\* What HandlerSends changes
LEMMA HandlerSendsEffect ==
  ASSUME TypeOK, NamesExist, NEW h \in Handlers, HandlerSends(h)
  PROVE  /\ On(h) /\ handler[h].hold # <<>> /\ handler[h].s \in SessionIds /\ Owner(h) \in Connectors
         /\ UNCHANGED <<session, call, sent, accepted, hungUp>>
         /\ \A g \in Handlers : g # h => handler'[g] = handler[g]
         /\ handler'[h].hold = <<>>
         /\ handler[h].up =>
              /\ handler'[h].pc = handler[h].pc /\ handler'[h].s = handler[h].s /\ handler'[h].up
              /\ \A c \in Connectors :
                   got'[c] = IF c = Owner(h) THEN got[c] \o handler[h].hold ELSE got[c]
         /\ ~handler[h].up => ~On(h)' /\ got' = got
<1>1. On(h) /\ handler[h].hold # <<>>
  BY DEF HandlerSends, NamesExist
<1>2. handler[h].s \in SessionIds
  BY <1>1, Fields, ChatConstants DEF NamesExist, SessionIds
<1>3. Owner(h) \in Connectors
  BY <1>2, Fields DEF Owner
<1>4. UNCHANGED <<session, call, sent, accepted, hungUp>>
  BY DEF HandlerSends, manager
<1> DEFINE k == [handler[h] EXCEPT !.hold = <<>>]
           r == IF handler[h].up THEN k ELSE NoStream
<1>5. /\ k.pc = handler[h].pc /\ k.s = handler[h].s /\ k.up = handler[h].up /\ k.hold = <<>>
      /\ NoStream.pc = "free" /\ NoStream.hold = <<>>
  BY DEF TypeOK, Streams, NoStream
<1>6. handler' = [handler EXCEPT ![h] = r]
  BY DEF HandlerSends
<1> HIDE DEF k
<1>7. /\ r.hold = <<>>
      /\ handler[h].up => r.pc = handler[h].pc /\ r.s = handler[h].s /\ r.up
      /\ ~handler[h].up => r.pc = "free"
  BY <1>5
<1> HIDE DEF r
<1>8. \A g \in Handlers : handler'[g] = IF g = h THEN r ELSE handler[g]
  BY <1>6 DEF TypeOK
<1>9. /\ \A g \in Handlers : g # h => handler'[g] = handler[g]
      /\ handler'[h] = r
  BY <1>8
<1>10. ASSUME handler[h].up, NEW c \in Connectors
       PROVE  got'[c] = IF c = Owner(h) THEN got[c] \o handler[h].hold ELSE got[c]
  BY <1>3, <1>10 DEF HandlerSends, TypeOK, Owner
<1>11. ~handler[h].up => got' = got
  BY DEF HandlerSends
<1>12. ~handler[h].up => ~On(h)'
  BY <1>7, <1>9 DEF On
<1> QED BY <1>1, <1>2, <1>3, <1>4, <1>7, <1>9, <1>10, <1>11, <1>12

\* Nothing more can be handed to the owner of a handler but by that handler, from its channel
LEMMA OneReader ==
  ASSUME TypeOK, NamesExist, StreamsAttached, NEW h \in Handlers, Reads(h)
  PROVE  /\ \A g \in Handlers : Reads(g) /\ Owner(g) = Owner(h) => g = h
         /\ \A s \in SessionIds : Open(s) /\ session[s].of = Owner(h) => s = handler[h].s
<1> DEFINE c == Owner(h)
<1>1. c \in Connectors /\ client[c].stream = h /\ h # NoHandler
  BY HandlerAttached, ChatConstants DEF Reads, On, Owner
<1>2. Speaks(c) /\ handler[h].s = client[c].sessionID
  BY <1>1, ClientAttached
<1>3. ASSUME NEW g \in Handlers, Reads(g), Owner(g) = c PROVE g = h
  BY <1>1, <1>3, HandlerAttached DEF Reads, On, Owner
<1>4. ASSUME NEW s \in SessionIds, Open(s), session[s].of = c PROVE s = handler[h].s
  <2>1. CASE Live(s)
    BY <1>1, <1>2, <1>4, <2>1, ClientAttached DEF Live
  <2>2. CASE \E g \in Handlers : Reads(g) /\ handler[g].s = s
    <3>1. PICK g \in Handlers : Reads(g) /\ handler[g].s = s
      BY <2>2
    <3>2. Owner(g) = c
      BY <1>4, <3>1 DEF Owner
    <3> QED BY <1>3, <3>1, <3>2
  <2> QED BY <1>4, <2>1, <2>2 DEF Open
<1> QED BY <1>3, <1>4

\* The stream is up: the message is given
LEMMA GiveKeeps ==
  ASSUME TypeOK, NamesExist, StreamsAttached, MessagesKept, OrderKept, NothingLostWithoutBreak,
         NEW h \in Handlers, HandlerSends(h), handler[h].up
  PROVE  MessagesKept' /\ OrderKept' /\ NothingLostWithoutBreak'
<1>1. PICK c \in Connectors : c = Owner(h)
  BY HandlerSendsEffect
<1>2. Reads(h) /\ handler[h].s \in SessionIds /\ session[handler[h].s].of = c
  BY <1>1, HandlerSendsEffect DEF Reads, Owner
<1>3. PICK x \in Messages : handler[h].hold = <<x>>
  <2>1. /\ handler[h].hold \in Seq(Messages) /\ handler[h].hold # <<>> /\ Len(handler[h].hold) <= 1
    BY <1>2, Fields, HandlerSendsEffect DEF OrderKept
  <2>2. Len(handler[h].hold) = 1 /\ handler[h].hold[1] \in Messages
    <3>1. PICK n \in Nat : n = Len(handler[h].hold)
      BY <2>1
    <3>2. n # 0
      BY <2>1, <3>1
    <3>3. n <= 1
      BY <2>1, <3>1, Zenon
    <3>4. n = 1
      BY <3>2, <3>3
    <3> QED BY <2>1, <3>1, <3>4
  <2>3. handler[h].hold = <<handler[h].hold[1]>>
    BY <2>1, <2>2
  <2> QED BY <2>2, <2>3
<1>4. /\ UNCHANGED <<session, call, sent, accepted, hungUp>>
      /\ \A g \in Handlers : g # h => handler'[g] = handler[g]
      /\ handler'[h].hold = <<>>
      /\ \A g \in Handlers : Reads(g)' = Reads(g) /\ handler'[g].s = handler[g].s
  BY HandlerSendsEffect DEF Reads, On
<1>5. got'[c] = Append(got[c], x) /\ \A d \in Connectors : d # c => got'[d] = got[d]
  <2>1. got'[c] = got[c] \o <<x>> /\ \A d \in Connectors : d # c => got'[d] = got[d]
    BY <1>1, <1>3, HandlerSendsEffect
  <2>2. got[c] \in Seq(Messages)
    BY Fields
  <2>3. got[c] \o <<x>> = Append(got[c], x)
    BY <2>2
  <2> QED BY <2>1, <2>3
<1>6. /\ ToSet(got'[c]) = ToSet(got[c]) \union {x}
      /\ DOMAIN got'[c] = 1..Len(got[c]) + 1 /\ DOMAIN got[c] = 1..Len(got[c]) /\ Len(got[c]) \in Nat
      /\ \A i \in 1..Len(got[c]) : got'[c][i] = got[c][i]
      /\ got'[c][Len(got[c]) + 1] = x
  <2>1. got[c] \in Seq(Messages)
    BY Fields
  <2> QED BY <1>5, <2>1, AppendSet
<1>7. ToSet(handler[h].hold) = {x} /\ x \in ToSet(accepted) /\ x.to = c
  <2>1. ToSet(<<x>>) = {x}
    BY DEF ToSet
  <2> QED BY <1>1, <1>3, <2>1 DEF MessagesKept
<1>8. Prior' = Prior
  BY <1>4 DEF Prior
<1>9. \A g \in Handlers : Owner(g)' = Owner(g)
  BY <1>4 DEF Owner
<1>10. MessagesKept'
  <2>1. ASSUME NEW g \in Handlers, NEW y \in ToSet(handler'[g].hold)
        PROVE  y \in ToSet(accepted') /\ y.to = Owner(g)'
    <3>1. g # h
      BY <1>4 DEF ToSet
    <3> QED BY <1>4, <1>9, <3>1 DEF MessagesKept
  <2>2. ASSUME NEW d \in Connectors, NEW y \in ToSet(got'[d]) PROVE y \in ToSet(accepted') /\ y.to = d
    <3>1. CASE d = c
      BY <1>4, <1>6, <1>7, <3>1 DEF MessagesKept
    <3>2. CASE d # c
      BY <1>4, <1>5, <3>2 DEF MessagesKept
    <3> QED BY <3>1, <3>2
  <2>3. /\ \A d \in Connectors : call'[d].pc # "idle" => call'[d].m.n <= sent'
        /\ \A d, e \in Connectors : call'[d].pc # "idle" /\ call'[e].pc # "idle" /\ d # e =>
             call'[d].m.n # call'[e].m.n
        /\ \A i \in DOMAIN accepted' :
             /\ accepted'[i].n <= sent' /\ accepted'[i].to \in Connectors
             /\ \A d \in Connectors : call'[d].pc # "idle" => call'[d].m.n # accepted'[i].n
        /\ \A i, j \in DOMAIN accepted' : accepted'[i] = accepted'[j] => i = j
        /\ \A s \in SessionIds : \A y \in ToSet(session'[s].chan) :
             y \in ToSet(accepted') /\ y.to = session'[s].of
    BY <1>4 DEF MessagesKept
  <2> QED BY <2>1, <2>2, <2>3 DEF MessagesKept
<1>11. OrderKept'
  <2>1. \A s \in SessionIds : InOrder(session[s].chan)'
    BY <1>4, <1>8 DEF OrderKept, InOrder
  <2>2. Precede(ToSet(got[c]), {x}) /\ Precede({x}, ToSet(session[handler[h].s].chan))
    BY <1>1, <1>2, <1>7 DEF OrderKept
  <2>3. ASSUME NEW d \in Connectors PROVE InOrder(got[d])'
    <3>1. CASE d # c
      BY <1>5, <1>8, <3>1 DEF OrderKept, InOrder
    <3>2. CASE d = c
      <4> SUFFICES ASSUME NEW i \in 1..Len(got[c]) + 1, NEW j \in 1..Len(got[c]) + 1, i < j
                   PROVE  <<got'[c][i], got'[c][j]>> \in Prior'
        BY <1>6, <3>2 DEF InOrder
      <4>1. i \in 1..Len(got[c])
        BY <1>6
      <4>2. got'[c][i] = got[c][i] /\ got[c][i] \in ToSet(got[c])
        BY <1>6, <4>1 DEF ToSet
      <4>3. CASE j = Len(got[c]) + 1
        BY <1>6, <1>8, <2>2, <4>2, <4>3 DEF Precede
      <4>4. CASE j # Len(got[c]) + 1
        <5>1. j \in 1..Len(got[c]) /\ InOrder(got[c])
          BY <1>6, <4>4 DEF OrderKept
        <5> QED BY <1>6, <1>8, <4>1, <5>1 DEF InOrder
      <4> QED BY <4>3, <4>4
    <3> QED BY <3>1, <3>2
  <2>4. \A s \in SessionIds : Open(s)' = Open(s)
    BY <1>4 DEF Open, Live
  <2>5. ASSUME NEW s \in SessionIds, Open(s)
        PROVE  Precede(ToSet(got[session[s].of]), ToSet(session[s].chan))'
    <3>1. Precede(ToSet(got[session[s].of]), ToSet(session[s].chan)) /\ session[s].of \in Connectors
      BY <2>5, Fields DEF OrderKept
    <3>2. CASE session[s].of = c
      <4>1. s = handler[h].s
        BY <1>1, <1>2, <2>5, <3>2, OneReader
      <4> QED BY <1>4, <1>6, <1>8, <2>2, <3>1, <3>2, <4>1 DEF Precede
    <3>3. CASE session[s].of # c
      BY <1>4, <1>5, <1>8, <3>1, <3>3 DEF Precede
    <3> QED BY <3>2, <3>3
  <2>6. ASSUME NEW g \in Handlers, Reads(g)
        PROVE  /\ Len(handler'[g].hold) <= 1
               /\ Precede(ToSet(got[Owner(g)]), ToSet(handler[g].hold))'
               /\ Precede(ToSet(handler[g].hold), ToSet(session[handler[g].s].chan))'
    <3>1. CASE g = h
      <4>1. handler'[g].hold = <<>>
        BY <1>4, <3>1
      <4> QED BY <4>1 DEF Precede, ToSet
    <3>2. CASE g # h
      <4>1. handler'[g] = handler[g] /\ Owner(g) # c /\ Owner(g) \in Connectors
        <5>1. Owner(g) \in Connectors
          BY <2>6, HandlerAttached DEF Reads, On, Owner
        <5>2. Owner(g) # c
          BY <1>1, <1>2, <2>6, <3>2, OneReader
        <5> QED BY <1>4, <3>2, <5>1, <5>2
      <4>2. /\ Len(handler[g].hold) <= 1
            /\ Precede(ToSet(got[Owner(g)]), ToSet(handler[g].hold))
            /\ Precede(ToSet(handler[g].hold), ToSet(session[handler[g].s].chan))
        BY <2>6 DEF OrderKept
      <4>3. Precede(ToSet(got[Owner(g)]), ToSet(handler[g].hold))'
        BY <1>5, <1>8, <1>9, <4>1, <4>2 DEF Precede
      <4>4. Precede(ToSet(handler[g].hold), ToSet(session[handler[g].s].chan))'
        BY <1>4, <1>8, <4>1, <4>2 DEF Precede
      <4> QED BY <4>1, <4>2, <4>3, <4>4
    <3> QED BY <3>1, <3>2
  <2> QED BY <1>4, <2>1, <2>3, <2>4, <2>5, <2>6 DEF OrderKept
<1>12. NothingLostWithoutBreak'
  <2> SUFFICES ASSUME NEW m \in ToSet(accepted), ~(m.to \in hungUp), ~(m \in ToSet(got'[m.to]))
               PROVE  Underway(m)'
    BY <1>4 DEF NothingLostWithoutBreak
  <2>1. m # x
    BY <1>6, <1>7
  <2>2. m.to \in Connectors
    BY DEF MessagesKept, ToSet
  <2>3. Underway(m)
    BY <1>5, <1>6, <2>2 DEF NothingLostWithoutBreak
  <2>4. ASSUME Underway(m) PROVE Underway(m)'
    <3>1. CASE \E s \in SessionIds : m \in ToSet(session[s].chan)
      BY <1>4, <3>1 DEF Underway
    <3>2. CASE \E g \in Handlers : m \in ToSet(handler[g].hold)
      <4>1. PICK g \in Handlers : m \in ToSet(handler[g].hold)
        BY <3>2
      <4>2. g # h
        BY <1>7, <2>1, <4>1
      <4> QED BY <1>4, <4>1, <4>2 DEF Underway
    <3> QED BY <2>4, <3>1, <3>2 DEF Underway
  <2> QED BY <2>3, <2>4
<1> QED BY <1>10, <1>11, <1>12

\* The stream is down: the handler returns, and its message is lost to a receiver that hung up
LEMMA LoseKeeps ==
  ASSUME TypeOK, NamesExist, StreamsAttached, MessagesKept, OrderKept, NothingLostWithoutBreak,
         NEW h \in Handlers, HandlerSends(h), ~handler[h].up
  PROVE  MessagesKept' /\ OrderKept' /\ NothingLostWithoutBreak'
<1>1. /\ UNCHANGED <<session, call, sent, accepted, hungUp, got>>
      /\ \A g \in Handlers : g # h => handler'[g] = handler[g]
      /\ handler'[h].hold = <<>> /\ ~On(h)' /\ On(h)
  BY HandlerSendsEffect
<1>2. Prior' = Prior
  BY <1>1 DEF Prior
<1>3. \A g \in Handlers : Reads(g)' => g # h /\ Reads(g) /\ handler'[g] = handler[g] /\ Owner(g)' = Owner(g)
  BY <1>1 DEF Reads, On, Owner
<1>4. MessagesKept'
  <2>1. ASSUME NEW g \in Handlers, NEW y \in ToSet(handler'[g].hold)
        PROVE  y \in ToSet(accepted') /\ y.to = Owner(g)'
    <3>1. g # h
      BY <1>1 DEF ToSet
    <3>2. handler'[g] = handler[g] /\ Owner(g)' = Owner(g)
      BY <1>1, <3>1 DEF Owner
    <3> QED BY <1>1, <3>2 DEF MessagesKept
  <2> QED BY <1>1, <2>1 DEF MessagesKept
<1>5. OrderKept'
  <2>1. \A s \in SessionIds : InOrder(session[s].chan)'
    BY <1>1, <1>2 DEF OrderKept, InOrder
  <2>2. \A c \in Connectors : InOrder(got[c])'
    BY <1>1, <1>2 DEF OrderKept, InOrder
  <2>3. ASSUME NEW s \in SessionIds, Open(s)'
        PROVE  Precede(ToSet(got[session[s].of]), ToSet(session[s].chan))'
    <3>1. Open(s)
      BY <1>1, <1>3, <2>3 DEF Open, Live
    <3> QED BY <1>1, <1>2, <3>1 DEF OrderKept, Precede
  <2>4. ASSUME NEW g \in Handlers, Reads(g)'
        PROVE  /\ Len(handler'[g].hold) <= 1
               /\ Precede(ToSet(got[Owner(g)]), ToSet(handler[g].hold))'
               /\ Precede(ToSet(handler[g].hold), ToSet(session[handler[g].s].chan))'
    <3>1. Reads(g) /\ handler'[g] = handler[g] /\ Owner(g)' = Owner(g)
      BY <1>3, <2>4
    <3>2. /\ Len(handler[g].hold) <= 1
          /\ Precede(ToSet(got[Owner(g)]), ToSet(handler[g].hold))
          /\ Precede(ToSet(handler[g].hold), ToSet(session[handler[g].s].chan))
      BY <3>1 DEF OrderKept
    <3>3. Precede(ToSet(got[Owner(g)]), ToSet(handler[g].hold))'
      BY <1>1, <1>2, <3>1, <3>2 DEF Precede
    <3>4. Precede(ToSet(handler[g].hold), ToSet(session[handler[g].s].chan))'
      BY <1>1, <1>2, <3>1, <3>2 DEF Precede
    <3> QED BY <3>1, <3>2, <3>3, <3>4
  <2> QED BY <2>1, <2>2, <2>3, <2>4 DEF OrderKept
<1>6. NothingLostWithoutBreak'
  <2> SUFFICES ASSUME NEW m \in ToSet(accepted), ~(m.to \in hungUp), ~(m \in ToSet(got[m.to]))
               PROVE  Underway(m)'
    BY <1>1 DEF NothingLostWithoutBreak
  <2>1. Underway(m)
    BY DEF NothingLostWithoutBreak
  <2>2. CASE \E s \in SessionIds : m \in ToSet(session[s].chan)
    BY <1>1, <2>2 DEF Underway
  <2>3. CASE \E g \in Handlers : m \in ToSet(handler[g].hold)
    <3>1. PICK g \in Handlers : m \in ToSet(handler[g].hold)
      BY <2>3
    <3>2. g # h
      <4>1. Owner(h) \in hungUp
        BY <1>1 DEF StreamsAttached
      <4>2. m \in ToSet(handler[h].hold) => m.to = Owner(h)
        BY DEF MessagesKept
      <4> QED BY <3>1, <4>1, <4>2
    <3> QED BY <1>1, <3>1, <3>2 DEF Underway
  <2> QED BY <2>1, <2>2, <2>3 DEF Underway
<1> QED BY <1>4, <1>5, <1>6

-----------------------------------------------------------------------------
(* The invariant *)

\* It holds when the kernel starts
LEMMA InitChat == Init => ChatInv
<1> SUFFICES ASSUME Init PROVE ChatInv
  OBVIOUS
<1>1. TypeOK
  BY InitType
<1>2. /\ \A s \in SessionIds : session[s].pc = "unused" /\ session[s].chan = <<>>
      /\ \A c \in Connectors : /\ byConnector[c] = 0 /\ call[c].pc = "idle" /\ got[c] = <<>>
                               /\ client[c].pc = "off" /\ client[c].stream = NoHandler
      /\ \A h \in Handlers : handler[h].pc = "free" /\ handler[h].hold = <<>>
      /\ writer.op = "none" /\ accepted = <<>>
  BY DEF Init, NoSession, NoCall, NoStream, NoWriter
<1>3. ToSet(<<>>) = {} /\ DOMAIN <<>> = {}
  BY DEF ToSet
<1>4. MapsAgree
  BY <1>2 DEF MapsAgree, Live, GetLocalConnectors
<1>5. NamesExist
  BY <1>2 DEF NamesExist, Speaks, On
<1>6. StreamsAttached
  BY <1>2 DEF StreamsAttached, Speaks, Reads, On, Live
<1>7. MessagesKept
  BY <1>2, <1>3 DEF MessagesKept
<1>8. OrderKept
  BY <1>2, <1>3 DEF OrderKept, InOrder, Precede, Reads, On
<1>9. NothingLostWithoutBreak
  BY <1>2, <1>3 DEF NothingLostWithoutBreak
<1> QED BY <1>1, <1>4, <1>5, <1>6, <1>7, <1>8, <1>9 DEF ChatInv

\* ... and every step keeps it
LEMMA ChatStep == ChatInv /\ [Next]_vars => ChatInv'
<1> SUFFICES ASSUME TypeOK, MapsAgree, NamesExist, StreamsAttached, MessagesKept, OrderKept,
                    NothingLostWithoutBreak, [Next]_vars
             PROVE  ChatInv'
  BY DEF ChatInv
<1>1. TypeOK' /\ NamesExist' /\ StreamsAttached'
  BY StepType, StepNames, StepStreams
<1>2. MapsAgree'
  BY <1>1, StepMaps
<1>3. CASE QuietStep
  BY <1>1, <1>2, <1>3, QuietMessages, QuietOrder, QuietLost DEF ChatInv
<1>4. ASSUME NEW c \in Connectors, NEW to \in Receivers, SendTempMessage(c, to) PROVE ChatInv'
  BY <1>1, <1>2, <1>4, NewMessage DEF ChatInv
<1>5. ASSUME NEW c \in Connectors, SendMessage(c) PROVE ChatInv'
  BY <1>1, <1>2, <1>5, SendKeeps DEF ChatInv
<1>6. ASSUME NEW h \in Handlers, HandlerTakes(h) PROVE ChatInv'
  BY <1>1, <1>2, <1>6, TakeKeeps DEF ChatInv
<1>7. ASSUME NEW h \in Handlers, HandlerSends(h) PROVE ChatInv'
  <2>1. CASE handler[h].up
    BY <1>1, <1>2, <1>7, <2>1, GiveKeeps DEF ChatInv
  <2>2. CASE ~handler[h].up
    BY <1>1, <1>2, <1>7, <2>2, LoseKeeps DEF ChatInv
  <2> QED BY <2>1, <2>2
<1> QED BY <1>3, <1>4, <1>5, <1>6, <1>7 DEF Next, QuietStep

LEMMA ChatInvariant == Spec => []ChatInv
<1> QED BY InitChat, ChatStep, PTL DEF Spec

-----------------------------------------------------------------------------
(* What follows *)

\* Whatever registers, expires and unregisters, channels keep to their capacity and the maps of
\* sessions agree: a connector has at most one session, byConnector names it, and who is listed
\* can be written to (RegisterSession, UnregisterSession, cleanupExpiredSessions).
THEOREM SessionsStayConsistent == Spec => []SessionsConsistent
<1>1. ChatInv => SessionsConsistent
  BY DEF ChatInv, SessionsConsistent
<1> QED BY <1>1, ChatInvariant, PTL

\* A message that was put into a channel is not lost unless its receiver hung up, although
\* sessions expire and channels are closed with messages in them (SendMessage,
\* ReceiveTempMessage).
THEOREM NothingIsLost == Spec => []NothingLostWithoutBreak
<1>1. ChatInv => NothingLostWithoutBreak
  BY DEF ChatInv
<1> QED BY <1>1, ChatInvariant, PTL

\* What was given is a subsequence of what was accepted
LEMMA OrderIsAcceptance ==
  ASSUME TypeOK, MessagesKept, OrderKept
  PROVE  InOrderOfAcceptance
<1> SUFFICES ASSUME NEW c \in Connectors
             PROVE  \E f \in [DOMAIN got[c] -> DOMAIN accepted] :
                      /\ \A i \in DOMAIN got[c] : accepted[f[i]] = got[c][i] /\ got[c][i].to = c
                      /\ \A i, j \in DOMAIN got[c] : i < j => f[i] < f[j]
  BY DEF InOrderOfAcceptance
<1> DEFINE f == [i \in DOMAIN got[c] |-> CHOOSE p \in DOMAIN accepted : accepted[p] = got[c][i]]
<1>1. ASSUME NEW i \in DOMAIN got[c]
      PROVE  f[i] \in DOMAIN accepted /\ accepted[f[i]] = got[c][i] /\ got[c][i].to = c
  <2>1. got[c][i] \in ToSet(got[c])
    BY DEF ToSet
  <2>2. got[c][i] \in ToSet(accepted) /\ got[c][i].to = c
    BY <2>1 DEF MessagesKept
  <2>3. \E p \in DOMAIN accepted : accepted[p] = got[c][i]
    BY <2>2 DEF ToSet
  <2> QED BY <2>2, <2>3
<1>2. f \in [DOMAIN got[c] -> DOMAIN accepted]
  BY <1>1
<1> HIDE DEF f
<1>3. ASSUME NEW i \in DOMAIN got[c], NEW j \in DOMAIN got[c], i < j PROVE f[i] < f[j]
  <2>1. <<got[c][i], got[c][j]>> \in Prior
    BY <1>3 DEF OrderKept, InOrder
  <2>2. PICK k, l \in DOMAIN accepted : k < l /\ accepted[k] = got[c][i] /\ accepted[l] = got[c][j]
    BY <2>1 DEF Prior
  <2>3. f[i] = k /\ f[j] = l
    BY <1>1, <2>2 DEF MessagesKept
  <2> QED BY <2>2, <2>3
<1> QED BY <1>1, <1>2, <1>3

\* What a client is given was addressed to its connector, comes once, and comes in the order of
\* acceptance, also across streams and sessions of the same connector.
THEOREM GivenInOrder == Spec => []InOrderOfAcceptance
<1>1. ChatInv => InOrderOfAcceptance
  BY OrderIsAcceptance DEF ChatInv
<1> QED BY <1>1, ChatInvariant, PTL

-----------------------------------------------------------------------------
(***************************************************************************)
(* OperatorPeer, for any number of kernels, connections, messages, faults  *)
(* and changes.                                                            *)
(*                                                                         *)
(* PeerInv relates the two ends of a connection (ConnOK), the messages     *)
(* written on it to its queues (Kept) and the entries to the connections   *)
(* they refer to (EntryOK).  CleanInv is about the behaviours without a    *)
(* fault: there the server of a connection follows its client, the Client  *)
(* of an entry is an end of a connection between the two kernels, and no   *)
(* kernel that has dialled or served a connection is left without a Client *)
(* (Untouched).  Every step is about one connection and at most one entry  *)
(* (ConnectionStep, CleanStep).                                            *)
(***************************************************************************)

\* What is written on the connections, and what the connections and the entries are
RelayMessages == [n : 1 .. MaxRelays, to : Kernels]

Packets ==
  {Packet(type, 0) : type \in {"handshake", "ack", "disconnect"}}
    \cup {Packet(type, list) : type \in {"sync", "syncack"}, list \in SUBSET OnlineConnectors}
    \cup {Packet("relay", m) : m \in RelayMessages}

Connections ==
  [from : Kernels \cup {NoConn.from}, to : Kernels \cup {NoConn.to},
   client : {"unused", "dial", "shake", "loops", "connected", "caught", "off"},
   stopped : BOOLEAN, reading : BOOLEAN,
   server : {"none", "open", "acked", "serving", "ended"}, wrap : BOOLEAN, up : BOOLEAN,
   out : Seq(Packets), back : Seq(Packets), sent : SUBSET RelayMessages]

Entries ==
  [status : {"none", "connecting", "connected", "disconnected"}, conn : 0 .. MaxConns,
   passive : BOOLEAN]

\* What fits together at the two ends of a connection: a read loop comes with a client that is set
\* up; before the dial there is nothing on the other side; while the client waits for the answer to
\* its handshake, the answer is the first thing on the way to it
ConnOK(c) ==
  /\ c \in Connections
  /\ c.reading => c.client \in {"loops", "connected"}
  /\ c.client \in {"unused", "dial"} =>
       ~c.up /\ ~c.wrap /\ c.server = "none" /\ c.sent = {} /\ c.back = <<>>
  /\ c.client # "unused" => <<c.from, c.to>> \in Pairs
  /\ c.wrap => c.server \in {"serving", "ended"}
  /\ c.up /\ c.client = "shake" =>
       IF c.server = "open" THEN c.back = <<>> ELSE c.back # <<>> /\ Head(c.back).type = "ack"

\* A message that was written is in a queue or in D, as long as the connection works
Kept(c, D) ==
  c.up /\ ~c.stopped => \A m \in c.sent :
    \/ m \in D
    \/ \E n \in DOMAIN c.out : c.out[n] = Packet("relay", m)
    \/ \E n \in DOMAIN c.back : c.back[n] = Packet("relay", m)

\* An entry refers to a connection in use, and to an accepted one only when it is being served
EntryOK(e, c) ==
  c.client # "unused" /\ (e.passive => c.server \in {"serving", "ended"})

ListShape ==
  /\ local \in [Kernels -> SUBSET OnlineConnectors]
  /\ remoteConnectors \in [Kernels -> [Kernels -> SUBSET OnlineConnectors]]
  /\ relayed \in 0 .. MaxRelays
  /\ used \in [faults : 0 .. MaxFaults, changes : 0 .. MaxChanges]

PeerInv ==
  /\ conn \in [ConnIds -> Connections]
  /\ peers \in [Kernels -> [Kernels -> Entries]]
  /\ ListShape
  /\ \A i \in ConnIds : ConnOK(conn[i]) /\ Kept(conn[i], delivered)
  /\ \A p \in Pairs : LET e == peers[p[1]][p[2]]
                      IN  (e.passive => e.conn # 0) /\ (e.conn # 0 => EntryOK(e, conn[e.conn]))

\* A connection nothing has happened to: it works from the dial on, and the server follows the client
Clean(c) ==
  /\ ~c.stopped /\ c.client \notin {"caught", "off"} /\ c.server # "ended"
  /\ c.client = "shake" => c.up /\ c.server \in {"open", "acked", "serving"}
  /\ c.client \in {"loops", "connected"} => c.up /\ c.server \in {"acked", "serving"}
  /\ c.server = "serving" => c.wrap
  /\ \A n \in DOMAIN c.out : c.out[n].type # "disconnect"

\* The Client of the entry of k for q is one end of a connection between the two, and the entry says so
CleanEntry(k, q, e, c) ==
  /\ IF e.passive THEN c.from = q /\ c.to = k ELSE c.from = k /\ c.to = q
  /\ (IF e.passive THEN c.wrap ELSE c.client = "connected") => e.status = "connected"

\* No fault has happened: every connection is clean, every entry that refers to a connection fits it,
\* and the two kernels of a connection have an entry that refers to one
Untouched ==
  /\ \A i \in ConnIds : Clean(conn[i])
  /\ \A p \in Pairs : LET e == peers[p[1]][p[2]]
                      IN  e.conn # 0 => CleanEntry(p[1], p[2], e, conn[e.conn])
  /\ \A i \in ConnIds :
       /\ conn[i].client # "unused" => peers[conn[i].from][conn[i].to].conn # 0
       /\ conn[i].server = "serving" => peers[conn[i].to][conn[i].from].conn # 0

CleanInv == used.faults = 0 => Untouched

\* What stays true of a connection an entry refers to
Advances(c, d) ==
  /\ c.client # "unused" => d.client # "unused"
  /\ c.server \in {"serving", "ended"} => d.server \in {"serving", "ended"}

\* When connection i becomes d, at most one entry changes: it is cleared, or refers to i, or gets
\* another status
EntriesFollow(i, d) ==
  /\ Advances(conn[i], d) \/ \A p \in Pairs : peers[p[1]][p[2]].conn # i
  /\ \/ UNCHANGED peers
     \/ \E k \in Kernels, q \in Kernels, e \in Entries :
          /\ peers' = [peers EXCEPT ![k][q] = e]
          /\ \/ e.conn = 0 /\ ~e.passive
             \/ e.conn = i /\ EntryOK(e, d)
             \/ e.conn = peers[k][q].conn /\ e.passive = peers[k][q].passive

-----------------------------------------------------------------------------
(* Queues and packets *)

LEMMA AppendHolds ==
  ASSUME NEW queue \in Seq(Packets), NEW x \in Packets, NEW a, a = Append(queue, x)
  PROVE  /\ a \in Seq(Packets) /\ a # <<>>
         /\ queue # <<>> => Head(a) = Head(queue)
         /\ queue = <<>> => Head(a) = x
         /\ \E n \in DOMAIN a : a[n] = x
         /\ \A n \in DOMAIN queue : n \in DOMAIN a /\ a[n] = queue[n]
         /\ \A n \in DOMAIN a : (n \in DOMAIN queue /\ a[n] = queue[n]) \/ a[n] = x
<1>2. PICK l \in Nat : l = Len(queue) /\ DOMAIN queue = 1 .. l
  OBVIOUS
<1>3. /\ a \in Seq(Packets) /\ Len(a) = l + 1 /\ DOMAIN a = 1 .. l + 1 /\ a[l + 1] = x
      /\ \A n \in 1 .. l : a[n] = queue[n]
  BY <1>2
<1>4. a # <<>> /\ Head(a) = a[1]
  BY <1>3
<1>5. queue # <<>> => Head(a) = Head(queue)
  BY <1>2, <1>3, <1>4
<1>6. queue = <<>> => Head(a) = x
  BY <1>2, <1>3, <1>4
<1>7. \E n \in DOMAIN a : a[n] = x
  BY <1>3
<1>8. \A n \in DOMAIN queue : n \in DOMAIN a /\ a[n] = queue[n]
  BY <1>2, <1>3
<1>9. \A n \in DOMAIN a : (n \in DOMAIN queue /\ a[n] = queue[n]) \/ a[n] = x
  BY <1>2, <1>3
<1> QED BY <1>3, <1>4, <1>5, <1>6, <1>7, <1>8, <1>9

LEMMA TailHolds ==
  ASSUME NEW queue \in Seq(Packets), queue # <<>>
  PROVE  \E t \in Seq(Packets) :
           /\ t = Tail(queue) /\ Head(queue) \in Packets
           /\ \A n \in DOMAIN queue : queue[n] = Head(queue) \/ \E m \in DOMAIN t : t[m] = queue[n]
           /\ \A m \in DOMAIN t : \E n \in DOMAIN queue : queue[n] = t[m]
<1>1. Tail(queue) \in Seq(Packets) /\ Head(queue) \in Packets
  OBVIOUS
<1>2. ASSUME NEW n \in DOMAIN queue
      PROVE  queue[n] = Head(queue) \/ \E m \in DOMAIN Tail(queue) : Tail(queue)[m] = queue[n]
  <2>1. CASE n = 1
    BY <2>1
  <2>2. CASE n # 1
    <3>1. n - 1 \in DOMAIN Tail(queue) /\ Tail(queue)[n - 1] = queue[n]
      BY <2>2
    <3> QED BY <3>1
  <2> QED BY <2>1, <2>2
<1>3. ASSUME NEW m \in DOMAIN Tail(queue) PROVE \E n \in DOMAIN queue : queue[n] = Tail(queue)[m]
  <2>1. m + 1 \in DOMAIN queue /\ queue[m + 1] = Tail(queue)[m]
    OBVIOUS
  <2> QED BY <2>1
<1> QED BY <1>1, <1>2, <1>3

LEMMA PacketsAre ==
  /\ \A type \in {"handshake", "ack", "disconnect"} : Packet(type, 0) \in Packets
  /\ \A type \in {"sync", "syncack"}, list \in SUBSET OnlineConnectors : Packet(type, list) \in Packets
  /\ \A m \in RelayMessages : Packet("relay", m) \in Packets
BY DEF Packets

LEMMA PacketFields == \A type, body : Packet(type, body).type = type /\ Packet(type, body).body = body
BY DEF Packet

LEMMA ListsInPackets ==
  ASSUME NEW x \in Packets, x.type \in {"sync", "syncack"}
  PROVE  x.body \in SUBSET OnlineConnectors
<1>1. CASE \E type \in {"handshake", "ack", "disconnect"} : x = Packet(type, 0)
  BY <1>1 DEF Packet
<1>2. CASE \E type \in {"sync", "syncack"}, list \in SUBSET OnlineConnectors : x = Packet(type, list)
  BY <1>2 DEF Packet
<1>3. CASE \E m \in RelayMessages : x = Packet("relay", m)
  BY <1>3 DEF Packet
<1> QED BY <1>1, <1>2, <1>3 DEF Packets

LEMMA RelaysInPackets ==
  ASSUME NEW x \in Packets, x.type = "relay"
  PROVE  x = Packet("relay", x.body)
<1>1. CASE \E type \in {"handshake", "ack", "disconnect"} : x = Packet(type, 0)
  BY <1>1 DEF Packet
<1>2. CASE \E type \in {"sync", "syncack"}, list \in SUBSET OnlineConnectors : x = Packet(type, list)
  BY <1>2 DEF Packet
<1>3. CASE \E m \in RelayMessages : x = Packet("relay", m)
  BY <1>3 DEF Packet
<1> QED BY <1>1, <1>2, <1>3 DEF Packets

-----------------------------------------------------------------------------
(* What every step on one connection has to show *)

LEMMA ConnectionStep ==
  ASSUME PeerInv, ListShape', NEW i \in ConnIds, NEW d,
         conn' = [conn EXCEPT ![i] = d], ConnOK(d), Kept(d, delivered'),
         delivered \subseteq delivered', EntriesFollow(i, d)
  PROVE  PeerInv'
<1> USE DEF PeerInv
<1>1. conn \in [ConnIds -> Connections] /\ conn' \in [ConnIds -> Connections]
  BY DEF ConnOK
<1>2. \A j \in ConnIds : conn'[j] = IF j = i THEN d ELSE conn[j]
  BY <1>1
<1>3. ASSUME NEW j \in ConnIds PROVE ConnOK(conn'[j]) /\ Kept(conn'[j], delivered')
  <2>1. CASE j = i
    BY <2>1, <1>2
  <2>2. CASE j # i
    BY <2>2, <1>2 DEF Kept
  <2> QED BY <2>1, <2>2
<1>4. peers \in [Kernels -> [Kernels -> Entries]] /\ peers' \in [Kernels -> [Kernels -> Entries]]
  <2>1. peers \in [Kernels -> [Kernels -> Entries]]
    OBVIOUS
  <2>2. ASSUME NEW k \in Kernels, NEW q \in Kernels, NEW e \in Entries,
               peers' = [peers EXCEPT ![k][q] = e]
        PROVE  peers' \in [Kernels -> [Kernels -> Entries]]
    BY <2>1, <2>2
  <2> QED BY <2>1, <2>2 DEF EntriesFollow
<1>5. ASSUME NEW p \in Pairs
      PROVE  LET e == peers'[p[1]][p[2]]
             IN  (e.passive => e.conn # 0) /\ (e.conn # 0 => EntryOK(e, conn'[e.conn]))
  <2>1. p[1] \in Kernels /\ p[2] \in Kernels
    BY DEF Pairs
  <2>2. PICK e : e = peers'[p[1]][p[2]]
    OBVIOUS
  <2>3. PICK f : f = peers[p[1]][p[2]]
    OBVIOUS
  <2> SUFFICES (e.passive => e.conn # 0) /\ (e.conn # 0 => EntryOK(e, conn'[e.conn]))
    BY <2>2
  <2>4. e \in Entries /\ f \in Entries /\ e.conn \in 0 .. MaxConns /\ e.passive \in BOOLEAN
    BY <1>4, <2>1, <2>2, <2>3 DEF Entries
  <2>5. (f.passive => f.conn # 0) /\ (f.conn # 0 => EntryOK(f, conn[f.conn]))
    BY <2>3
  <2>6. \/ e.conn = f.conn /\ e.passive = f.passive
        \/ e.conn = 0 /\ ~e.passive
        \/ e.conn = i /\ EntryOK(e, d)
    <3>1. CASE UNCHANGED peers
      BY <3>1, <2>2, <2>3
    <3>2. ASSUME NEW k \in Kernels, NEW q \in Kernels, NEW g \in Entries,
                 peers' = [peers EXCEPT ![k][q] = g],
                 \/ g.conn = 0 /\ ~g.passive
                 \/ g.conn = i /\ EntryOK(g, d)
                 \/ g.conn = peers[k][q].conn /\ g.passive = peers[k][q].passive
          PROVE  \/ e.conn = f.conn /\ e.passive = f.passive
                 \/ e.conn = 0 /\ ~e.passive
                 \/ e.conn = i /\ EntryOK(e, d)
      <4>1. CASE k = p[1] /\ q = p[2]
        <5>1. e = g
          BY <4>1, <3>2, <1>4, <2>1, <2>2
        <5> QED BY <4>1, <5>1, <3>2, <2>3
      <4>2. CASE ~(k = p[1] /\ q = p[2])
        <5>1. e = f
          BY <4>2, <3>2, <1>4, <2>1, <2>2, <2>3
        <5> QED BY <5>1
      <4> QED BY <4>1, <4>2
    <3> QED BY <3>1, <3>2 DEF EntriesFollow
  <2>7. i \in Nat \ {0}
    BY PeerConstants DEF ConnIds
  <2>8. CASE e.conn = f.conn /\ e.passive = f.passive
    <3>1. CASE e.conn = 0
      BY <3>1, <2>5, <2>8
    <3>2. CASE e.conn = i
      <4>1. Advances(conn[i], d)
        BY <2>3, <2>8, <3>2 DEF EntriesFollow
      <4>2. EntryOK(e, d)
        BY <4>1, <2>5, <2>7, <2>8, <3>2 DEF Advances, EntryOK
      <4> QED BY <4>2, <3>2, <2>7, <1>2
    <3>3. CASE e.conn # 0 /\ e.conn # i
      <4>1. e.conn \in ConnIds
        BY <2>4, <3>3, PeerConstants DEF ConnIds
      <4>2. conn'[e.conn] = conn[e.conn]
        BY <4>1, <3>3, <1>2
      <4> QED BY <4>2, <2>5, <2>8, <3>3 DEF EntryOK
    <3> QED BY <3>1, <3>2, <3>3
  <2>9. CASE e.conn = 0 /\ ~e.passive
    BY <2>9
  <2>10. CASE e.conn = i /\ EntryOK(e, d)
    BY <2>10, <2>7, <1>2
  <2> QED BY <2>6, <2>8, <2>9, <2>10
<1> QED BY <1>1, <1>3, <1>4, <1>5

\* The connection a step is about
LEMMA ConnectionNow ==
  ASSUME PeerInv, NEW i \in ConnIds
  PROVE  /\ ConnOK(conn[i]) /\ Kept(conn[i], delivered) /\ conn[i] \in Connections
         /\ conn[i].client # "unused" => conn[i].from \in Kernels /\ conn[i].to \in Kernels
         /\ conn[i].client = "unused" => conn[i].server = "none" /\ ~conn[i].up
BY DEF PeerInv, ConnOK, Pairs

\* Clearing an entry, and changing its status
LEMMA EntryCleared ==
  ASSUME NEW i \in ConnIds, NEW d, Advances(conn[i], d), NEW k \in Kernels, NEW q \in Kernels,
         SetPeer(k, q, NoPeer)
  PROVE  EntriesFollow(i, d)
<1>1. NoPeer \in Entries /\ NoPeer.conn = 0 /\ ~NoPeer.passive
  BY PeerConstants DEF NoPeer, Entries
<1> QED BY <1>1 DEF SetPeer, EntriesFollow

LEMMA StatusGiven ==
  ASSUME PeerInv, NEW i \in ConnIds, NEW d, Advances(conn[i], d),
         NEW k \in Kernels, NEW q \in Kernels,
         NEW s \in {"none", "connecting", "connected", "disconnected"},
         peers' = [peers EXCEPT ![k][q].status = s] \/ SetStatus(k, q, s)
  PROVE  EntriesFollow(i, d)
<1>1. CASE UNCHANGED peers
  BY <1>1 DEF EntriesFollow
<1>2. CASE peers' = [peers EXCEPT ![k][q].status = s]
  <2>1. PICK f \in Entries : f = peers[k][q]
    BY DEF PeerInv
  <2>2. PICK e : e = [f EXCEPT !.status = s]
    OBVIOUS
  <2>3. e \in Entries /\ e.conn = f.conn /\ e.passive = f.passive
    BY <2>1, <2>2 DEF Entries
  <2>4. peers' = [peers EXCEPT ![k][q] = e]
    BY <1>2, <2>1, <2>2
  <2> QED BY <2>1, <2>3, <2>4 DEF EntriesFollow
<1> QED BY <1>1, <1>2 DEF SetStatus

LEMMA ListsUnchanged ==
  ASSUME ListShape, UNCHANGED <<chat, relays, used>>
  PROVE  ListShape' /\ delivered' = delivered
BY DEF ListShape, chat, relays

\* A fault is counted
LEMMA FaultCounted ==
  ASSUME ListShape, UNCHANGED <<chat, relays>>, used.faults < MaxFaults, Count("faults")
  PROVE  ListShape' /\ delivered' = delivered /\ used'.faults # 0
<1>1. MaxFaults \in Nat
  BY PeerConstants
<1>2. used \in [faults : 0 .. MaxFaults, changes : 0 .. MaxChanges]
  BY DEF ListShape
<1>3. used' = [used EXCEPT !.faults = used.faults + 1]
  BY DEF Count
<1>4. used' \in [faults : 0 .. MaxFaults, changes : 0 .. MaxChanges] /\ used'.faults = used.faults + 1
  BY <1>1, <1>2, <1>3
<1>5. used'.faults # 0
  BY <1>2, <1>4
<1>6. UNCHANGED <<local, remoteConnectors, relayed, delivered>>
  BY DEF chat, relays
<1> QED BY <1>4, <1>5, <1>6 DEF ListShape

-----------------------------------------------------------------------------
(* What every step without a fault has to show *)

\* After a fault there is nothing to show
LEMMA CleanBroken ==
  ASSUME CleanInv, NEW i \in ConnIds, ~Clean(conn[i]), used' = used
  PROVE  CleanInv'
BY DEF CleanInv, Untouched

LEMMA CleanStep ==
  ASSUME PeerInv, Untouched, NEW i \in ConnIds, NEW d, conn' = [conn EXCEPT ![i] = d], Clean(d),
         \A k \in Kernels, q \in Kernels : <<k, q>> \in Pairs =>
           \/ /\ peers'[k][q].conn = i /\ CleanEntry(k, q, peers'[k][q], d)
           \/ /\ peers'[k][q].conn = peers[k][q].conn /\ peers'[k][q].passive = peers[k][q].passive
              /\ peers'[k][q].status \in {peers[k][q].status, "connected"} /\ peers[k][q].conn # i,
         d.client # "unused" => peers'[d.from][d.to].conn # 0,
         d.server = "serving" => peers'[d.to][d.from].conn # 0
  PROVE  Untouched'
<1>1. conn \in [ConnIds -> Connections] /\ i \in Nat \ {0}
  BY PeerConstants DEF PeerInv, ConnIds
<1>2. \A j \in ConnIds : conn'[j] = IF j = i THEN d ELSE conn[j]
  BY <1>1
<1>3. \A j \in ConnIds : Clean(conn'[j])
  BY <1>2 DEF Untouched
<1>4. ASSUME NEW p \in Pairs, peers'[p[1]][p[2]].conn # 0
      PROVE  CleanEntry(p[1], p[2], peers'[p[1]][p[2]], conn'[peers'[p[1]][p[2]].conn])
  <2>1. PICK k \in Kernels, q \in Kernels : k = p[1] /\ q = p[2] /\ <<k, q>> \in Pairs /\ p = <<k, q>>
    BY DEF Pairs
  <2>2. PICK f, e : f = peers'[k][q] /\ e = peers[k][q]
    OBVIOUS
  <2>3. CASE f.conn = i /\ CleanEntry(k, q, f, d)
    BY <2>1, <2>2, <2>3, <1>2
  <2>4. CASE f.conn = e.conn /\ f.passive = e.passive /\ f.status \in {e.status, "connected"} /\ e.conn # i
    <3>1. e \in Entries /\ e.conn # 0
      BY <2>1, <2>2, <2>4, <1>4 DEF PeerInv
    <3>2. e.conn \in ConnIds
      BY <3>1, PeerConstants DEF Entries, ConnIds
    <3>3. conn'[f.conn] = conn[e.conn]
      BY <3>2, <2>4, <1>2
    <3>4. CleanEntry(k, q, e, conn[e.conn])
      BY <3>1, <2>1, <2>2 DEF Untouched
    <3>5. CleanEntry(k, q, f, conn[e.conn])
      BY <3>4, <2>4 DEF CleanEntry
    <3> QED BY <3>3, <3>5, <2>1, <2>2
  <2> QED BY <2>1, <2>2, <2>3, <2>4
<1>5. ASSUME NEW j \in ConnIds
      PROVE  /\ conn'[j].client # "unused" => peers'[conn'[j].from][conn'[j].to].conn # 0
             /\ conn'[j].server = "serving" => peers'[conn'[j].to][conn'[j].from].conn # 0
  <2>1. CASE j = i
    BY <2>1, <1>2
  <2>2. CASE j # i
    <3>1. PICK c \in Connections : c = conn[j] /\ ConnOK(c) /\ c = conn'[j]
      BY <2>2, <1>2, ConnectionNow
    <3>2. ASSUME c.client # "unused" \/ c.server = "serving"
          PROVE  /\ c.from \in Kernels /\ c.to \in Kernels /\ <<c.from, c.to>> \in Pairs
                 /\ <<c.to, c.from>> \in Pairs
      BY <3>1, <3>2 DEF ConnOK, Pairs
    <3>3. ASSUME c.client # "unused" PROVE peers'[c.from][c.to].conn # 0
      <4>1. peers[c.from][c.to].conn # 0
        BY <3>1, <3>3 DEF Untouched
      <4> QED BY <4>1, <3>2, <3>3, <1>1
    <3>4. ASSUME c.server = "serving" PROVE peers'[c.to][c.from].conn # 0
      <4>1. peers[c.to][c.from].conn # 0
        BY <3>1, <3>4 DEF Untouched
      <4> QED BY <4>1, <3>2, <3>4, <1>1
    <3> QED BY <3>1, <3>3, <3>4
  <2> QED BY <2>1, <2>2
<1> QED BY <1>3, <1>4, <1>5 DEF Untouched

\* A step that changes no entry
LEMMA CleanSame ==
  ASSUME PeerInv, CleanInv, used' = used, UNCHANGED peers, NEW i \in ConnIds, NEW d,
         conn' = [conn EXCEPT ![i] = d], Clean(conn[i]) => Clean(d),
         d.from = conn[i].from, d.to = conn[i].to, d.wrap = conn[i].wrap,
         d.client = "connected" => conn[i].client = "connected",
         conn[i].client = "unused" => d.client = "unused",
         d.server = "serving" => conn[i].server = "serving"
  PROVE  CleanInv'
<1> SUFFICES ASSUME used.faults = 0, Untouched PROVE Untouched'
  BY DEF CleanInv
<1>1. Clean(d)
  BY DEF Untouched
<1>2. i \in Nat \ {0}
  BY PeerConstants DEF ConnIds
<1>3. ASSUME NEW k \in Kernels, NEW q \in Kernels, <<k, q>> \in Pairs, peers[k][q].conn = i
      PROVE  CleanEntry(k, q, peers[k][q], d)
  <2>1. PICK p \in Pairs : p = <<k, q>>
    BY <1>3
  <2>2. CleanEntry(k, q, peers[k][q], conn[i])
    BY <1>2, <1>3, <2>1 DEF Untouched
  <2> QED BY <2>2 DEF CleanEntry
<1>4. d.client # "unused" => peers'[d.from][d.to].conn # 0
  BY DEF Untouched
<1>5. d.server = "serving" => peers'[d.to][d.from].conn # 0
  BY DEF Untouched
<1>6. \A k \in Kernels, q \in Kernels : <<k, q>> \in Pairs =>
        \/ /\ peers'[k][q].conn = i /\ CleanEntry(k, q, peers'[k][q], d)
        \/ /\ peers'[k][q].conn = peers[k][q].conn /\ peers'[k][q].passive = peers[k][q].passive
           /\ peers'[k][q].status \in {peers[k][q].status, "connected"} /\ peers[k][q].conn # i
  BY <1>3
<1> QED BY <1>1, <1>4, <1>5, <1>6, CleanStep

-----------------------------------------------------------------------------
(* Connecting *)

LEMMA ConnectToPeerStep ==
  ASSUME PeerInv, CleanInv, NEW p \in Pairs, ConnectToPeer(p[1], p[2])
  PROVE  PeerInv' /\ CleanInv'
<1>1. PICK k \in Kernels, q \in Kernels : k = p[1] /\ q = p[2] /\ <<k, q>> \in Pairs
  BY DEF Pairs
<1>2. PICK i \in ConnIds :
        /\ Forgotten(i)
        /\ conn' = [conn EXCEPT ![i] = [NoConn EXCEPT !.from = k, !.to = q, !.client = "dial"]]
        /\ SetPeer(k, q, [status |-> "connecting", conn |-> i, passive |-> FALSE])
        /\ UNCHANGED <<chat, relays, used>>
  BY <1>1 DEF ConnectToPeer
<1>3. PICK d : d = [NoConn EXCEPT !.from = k, !.to = q, !.client = "dial"]
  OBVIOUS
<1>4. d = [from |-> k, to |-> q, client |-> "dial", stopped |-> FALSE, reading |-> FALSE,
           server |-> "none", wrap |-> FALSE, up |-> FALSE, out |-> <<>>, back |-> <<>>, sent |-> {}]
  BY <1>3 DEF NoConn
<1>5. d \in Connections
  <2>1. <<>> \in Seq(Packets) /\ {} \in SUBSET RelayMessages /\ FALSE \in BOOLEAN
    OBVIOUS
  <2>2. k \in Kernels \cup {NoConn.from} /\ q \in Kernels \cup {NoConn.to}
    BY <1>1
  <2> QED BY <1>4, <2>1, <2>2 DEF Connections
<1>6. ConnOK(d) /\ Kept(d, delivered')
  BY <1>1, <1>4, <1>5 DEF ConnOK, Kept
<1>7. i \in Nat \ {0} /\ i \in 0 .. MaxConns
  BY PeerConstants DEF ConnIds
<1>8. \A r \in Pairs : peers[r[1]][r[2]].conn # i
  <2> SUFFICES ASSUME NEW r \in Pairs, peers[r[1]][r[2]].conn = i PROVE FALSE
    OBVIOUS
  <2>1. peers[r[1]][r[2]].conn # 0
    BY <1>7
  <2>2. EntryOK(peers[r[1]][r[2]], conn[peers[r[1]][r[2]].conn])
    BY <2>1 DEF PeerInv
  <2>3. conn[i].client # "unused"
    BY <2>2 DEF EntryOK
  <2> QED BY <1>2, <2>3 DEF Forgotten
<1>9. PICK e : e = [status |-> "connecting", conn |-> i, passive |-> FALSE]
  OBVIOUS
<1>10. e \in Entries /\ e.conn = i /\ EntryOK(e, d)
  BY <1>4, <1>7, <1>9 DEF Entries, EntryOK
<1>11. EntriesFollow(i, d)
  <2>1. peers' = [peers EXCEPT ![k][q] = e]
    BY <1>2, <1>9 DEF SetPeer
  <2> QED BY <1>8, <1>10, <2>1 DEF EntriesFollow
<1>12. ListShape' /\ delivered' = delivered
  BY <1>2, ListsUnchanged DEF PeerInv
<1>13. conn' = [conn EXCEPT ![i] = d]
  BY <1>2, <1>3
<1>14. PeerInv'
  BY <1>6, <1>11, <1>12, <1>13, ConnectionStep
<1>15. CleanInv'
  <2> SUFFICES ASSUME used.faults = 0, Untouched PROVE Untouched'
    BY <1>2 DEF CleanInv
  <2>1. Clean(d)
    BY <1>4 DEF Clean
  <2>2. peers' = [peers EXCEPT ![k][q] = e] /\ peers \in [Kernels -> [Kernels -> Entries]]
    BY <1>2, <1>9 DEF SetPeer, PeerInv
  <2>3. peers'[k][q] = e
    BY <2>2
  <2>4. d.from = k /\ d.to = q /\ d.server # "serving" /\ CleanEntry(k, q, e, d)
    BY <1>4, <1>9 DEF CleanEntry
  <2>5. \A m \in Kernels, r \in Kernels : <<m, r>> \in Pairs =>
          \/ /\ peers'[m][r].conn = i /\ CleanEntry(m, r, peers'[m][r], d)
          \/ /\ peers'[m][r].conn = peers[m][r].conn /\ peers'[m][r].passive = peers[m][r].passive
             /\ peers'[m][r].status \in {peers[m][r].status, "connected"} /\ peers[m][r].conn # i
    <3> TAKE m \in Kernels, r \in Kernels
    <3> HAVE <<m, r>> \in Pairs
    <3>1. CASE m = k /\ r = q
      BY <3>1, <2>3, <2>4, <1>10
    <3>2. CASE ~(m = k /\ r = q)
      <4>1. peers'[m][r] = peers[m][r]
        BY <3>2, <2>2
      <4>2. PICK p2 \in Pairs : p2 = <<m, r>>
        OBVIOUS
      <4> QED BY <4>1, <4>2, <1>8
    <3> QED BY <3>1, <3>2
  <2> QED BY <1>7, <1>10, <1>13, <2>1, <2>3, <2>4, <2>5, CleanStep
<1> QED BY <1>14, <1>15

LEMMA DialStep ==
  ASSUME PeerInv, CleanInv, NEW i \in ConnIds, Dial(i)
  PROVE  PeerInv' /\ CleanInv'
<1>1. PICK c \in Connections : c = conn[i] /\ ConnOK(c)
  BY ConnectionNow
<1>2. PICK d : d = [c EXCEPT !.client = "shake", !.up = TRUE, !.server = "open",
                             !.out = <<Packet("handshake", 0)>>]
  OBVIOUS
<1>3. conn' = [conn EXCEPT ![i] = d] /\ UNCHANGED peers
  BY <1>1, <1>2 DEF Dial
<1>4. /\ c.client = "dial" /\ ~c.up /\ ~c.wrap /\ c.server = "none" /\ c.sent = {} /\ c.back = <<>>
      /\ <<c.from, c.to>> \in Pairs /\ ~c.reading
  BY <1>1 DEF Dial, ConnOK, Connections
<1>5. <<Packet("handshake", 0)>> \in Seq(Packets)
  BY PacketsAre
<1>6. d \in Connections
  BY <1>2, <1>5 DEF Connections
<1>7. /\ d.client = "shake" /\ d.server = "open" /\ d.back = <<>> /\ d.sent = {} /\ ~d.reading
      /\ ~d.wrap /\ d.from = c.from /\ d.to = c.to
  BY <1>2, <1>4 DEF Connections
<1>8. ConnOK(d) /\ Kept(d, delivered')
  BY <1>4, <1>6, <1>7 DEF ConnOK, Kept
<1>9. EntriesFollow(i, d)
  BY <1>1, <1>3, <1>4, <1>7 DEF EntriesFollow, Advances
<1>10. ListShape' /\ delivered' = delivered
  BY ListsUnchanged DEF Dial, PeerInv
<1>11. PeerInv'
  BY <1>3, <1>8, <1>9, <1>10, ConnectionStep
<1>12. CleanInv'
  <2>1. used' = used /\ d.up /\ d.stopped = c.stopped /\ d.wrap = c.wrap
        /\ d.out = <<Packet("handshake", 0)>>
    BY <1>2 DEF Dial, Connections
  <2>2. \A n \in DOMAIN d.out : d.out[n].type # "disconnect"
    BY <2>1, PacketFields
  <2>3. Clean(c) => Clean(d)
    BY <1>7, <2>1, <2>2 DEF Clean
  <2> QED BY <1>1, <1>3, <1>4, <1>7, <2>1, <2>3, CleanSame
<1> QED BY <1>11, <1>12

\* A step that leaves both queues alone, or takes the connection down, loses nothing
LEMMA KeptStays ==
  ASSUME NEW c, NEW d, NEW D, Kept(c, D),
         \/ d.up = FALSE
         \/ d.up = c.up /\ d.stopped = c.stopped /\ d.sent = c.sent /\ d.out = c.out /\ d.back = c.back
  PROVE  Kept(d, D)
BY DEF Kept

LEMMA FailStep ==
  ASSUME PeerInv, NEW i \in ConnIds, conn[i].client \in {"dial", "shake"}, Fail(i),
         ListShape', delivered' = delivered
  PROVE  PeerInv'
<1>1. PICK c \in Connections : c = conn[i] /\ ConnOK(c) /\ Kept(c, delivered)
  BY ConnectionNow
<1>2. PICK d : d = [c EXCEPT !.client = "off", !.up = FALSE]
  OBVIOUS
<1>3. conn' = [conn EXCEPT ![i] = d] /\ SetPeer(c.from, c.to, NoPeer)
  BY <1>1, <1>2 DEF Fail
<1>4. d \in Connections /\ d.client = "off" /\ d.up = FALSE /\ d.server = c.server /\ ~d.reading
      /\ d.wrap = c.wrap /\ d.from = c.from /\ d.to = c.to
  BY <1>1, <1>2 DEF Connections, ConnOK
<1>5. ConnOK(d)
  BY <1>1, <1>4 DEF ConnOK
<1>6. Kept(d, delivered')
  BY <1>1, <1>4, KeptStays
<1>7. Advances(conn[i], d) /\ c.from \in Kernels /\ c.to \in Kernels
  BY <1>1, <1>4 DEF Advances, ConnOK, Pairs
<1>8. EntriesFollow(i, d)
  BY <1>3, <1>7, EntryCleared
<1> QED BY <1>3, <1>5, <1>6, <1>8, ConnectionStep

LEMMA DialFailsStep ==
  ASSUME PeerInv, CleanInv, NEW i \in ConnIds, DialFails(i)
  PROVE  PeerInv' /\ CleanInv'
<1>1. ListShape' /\ delivered' = delivered /\ used'.faults # 0
  BY FaultCounted DEF DialFails, Fail, PeerInv
<1> QED BY <1>1, FailStep DEF DialFails, CleanInv

LEMMA HandshakeFailsStep ==
  ASSUME PeerInv, CleanInv, NEW i \in ConnIds, HandshakeFails(i)
  PROVE  PeerInv' /\ CleanInv'
<1>1. UNCHANGED <<chat, relays, used>>
  BY DEF HandshakeFails, Fail
<1>2. ListShape' /\ delivered' = delivered
  BY <1>1, ListsUnchanged DEF PeerInv
<1>3. PeerInv'
  BY <1>2, FailStep DEF HandshakeFails
<1>4. CleanInv'
  <2>1. ~Clean(conn[i])
    BY DEF HandshakeFails, Clean
  <2> QED BY <1>1, <2>1, CleanBroken
<1> QED BY <1>3, <1>4

LEMMA HandleHandshakeStep ==
  ASSUME PeerInv, CleanInv, NEW i \in ConnIds, HandleHandshake(i)
  PROVE  PeerInv' /\ CleanInv'
<1>1. PICK c \in Connections : c = conn[i] /\ ConnOK(c) /\ Kept(c, delivered)
  BY ConnectionNow
<1>2. PICK d : d = [c EXCEPT !.server = IF c.up THEN "acked" ELSE "serving", !.out = Tail(c.out),
                             !.back = IF c.up THEN Append(c.back, Packet("ack", 0)) ELSE c.back]
  OBVIOUS
<1>3. conn' = [conn EXCEPT ![i] = d] /\ c.server = "open" /\ c.out # <<>>
      /\ Head(c.out).type = "handshake"
  BY <1>1, <1>2 DEF HandleHandshake
<1>4. c.client \notin {"unused", "dial"} /\ ~c.wrap /\ <<c.from, c.to>> \in Pairs
  BY <1>1, <1>3 DEF ConnOK
<1>5. PICK out \in Seq(Packets), back \in Seq(Packets), x \in Packets :
        out = c.out /\ back = c.back /\ x = Packet("ack", 0)
  BY PacketsAre DEF Connections
<1>15. PICK a : a = Append(back, x)
  OBVIOUS
<1>6. /\ a \in Seq(Packets) /\ a # <<>>
      /\ back = <<>> => Head(a) = x
      /\ \A n \in DOMAIN back : n \in DOMAIN a /\ a[n] = back[n]
  BY <1>15, AppendHolds
<1>7. PICK t \in Seq(Packets) :
        /\ t = Tail(out)
        /\ \A n \in DOMAIN out : out[n] = Head(out) \/ \E m \in DOMAIN t : t[m] = out[n]
  <2>1. out # <<>>
    BY <1>3, <1>5
  <2> QED BY <2>1, TailHolds
<1>8. d = [c EXCEPT !.server = IF c.up THEN "acked" ELSE "serving", !.out = t,
                    !.back = IF c.up THEN a ELSE c.back]
  BY <1>2, <1>5, <1>15, <1>7
<1>9. d \in Connections
  BY <1>5, <1>6, <1>8 DEF Connections
<1>10. /\ d.client = c.client /\ d.reading = c.reading /\ d.wrap = c.wrap /\ d.up = c.up
       /\ d.from = c.from /\ d.to = c.to /\ d.sent = c.sent /\ d.stopped = c.stopped
       /\ d.server = (IF c.up THEN "acked" ELSE "serving") /\ d.out = t
       /\ d.back = (IF c.up THEN a ELSE c.back)
  BY <1>8 DEF Connections
<1>11. ConnOK(d)
  <2>1. d.up /\ d.client = "shake" => d.back # <<>> /\ Head(d.back).type = "ack" /\ d.server = "acked"
    <3> SUFFICES ASSUME d.up, d.client = "shake"
                 PROVE  d.back # <<>> /\ Head(d.back).type = "ack" /\ d.server = "acked"
      OBVIOUS
    <3>1. c.back = <<>>
      BY <1>1, <1>3, <1>10 DEF ConnOK
    <3> QED BY <3>1, <1>5, <1>6, <1>10, PacketFields
  <2>2. d.reading => d.client \in {"loops", "connected"}
    BY <1>1, <1>10 DEF ConnOK
  <2> QED BY <2>1, <2>2, <1>4, <1>9, <1>10 DEF ConnOK
<1>12. Kept(d, delivered)
  <2> SUFFICES ASSUME d.up, ~d.stopped, NEW m \in d.sent, m \notin delivered
               PROVE  \/ \E n \in DOMAIN t : t[n] = Packet("relay", m)
                      \/ \E n \in DOMAIN a : a[n] = Packet("relay", m)
    BY <1>10 DEF Kept
  <2>1. \/ \E n \in DOMAIN out : out[n] = Packet("relay", m)
        \/ \E n \in DOMAIN back : back[n] = Packet("relay", m)
    BY <1>1, <1>5, <1>10 DEF Kept
  <2>2. Head(out) # Packet("relay", m)
    BY <1>3, <1>5, PacketFields
  <2> QED BY <2>1, <2>2, <1>6, <1>7
<1>13. EntriesFollow(i, d)
  <2>1. Advances(conn[i], d)
    BY <1>1, <1>3, <1>10 DEF Advances
  <2>2. peers' = [peers EXCEPT ![c.to][c.from].status = "connected"]
    BY <1>1 DEF HandleHandshake
  <2>3. c.from \in Kernels /\ c.to \in Kernels
    BY <1>4 DEF Pairs
  <2> QED BY <2>1, <2>2, <2>3, StatusGiven
<1>14. ListShape' /\ delivered' = delivered
  BY ListsUnchanged DEF HandleHandshake, PeerInv
<1>16. PeerInv'
  BY <1>3, <1>11, <1>12, <1>13, <1>14, ConnectionStep
<1>17. CleanInv'
  <2>1. used' = used
    BY DEF HandleHandshake
  <2> SUFFICES ASSUME used.faults = 0, Untouched PROVE Untouched'
    BY <2>1 DEF CleanInv
  <2>2. Clean(c)
    BY <1>1 DEF Untouched
  <2>3. c.client = "shake" /\ c.up
    BY <1>3, <1>4, <2>2 DEF Clean, Connections
  <2>4. \A n \in DOMAIN t : t[n].type # "disconnect"
    BY <1>5, <1>7, <2>2 DEF Clean
  <2>5. Clean(d)
    BY <1>10, <2>2, <2>3, <2>4 DEF Clean
  <2>6. PICK k \in Kernels, q \in Kernels :
          k = c.to /\ q = c.from /\ <<k, q>> \in Pairs /\ <<q, k>> \in Pairs
    BY <1>4 DEF Pairs
  <2>7. peers' = [peers EXCEPT ![k][q].status = "connected"] /\ peers \in [Kernels -> [Kernels -> Entries]]
    BY <1>1, <2>6 DEF HandleHandshake, PeerInv
  <2>8. ASSUME NEW m \in Kernels, NEW r \in Kernels
        PROVE  /\ peers'[m][r].conn = peers[m][r].conn /\ peers'[m][r].passive = peers[m][r].passive
               /\ peers'[m][r].status \in {peers[m][r].status, "connected"}
    <3>1. peers[m][r] \in Entries
      BY <2>7
    <3> QED BY <2>7, <3>1 DEF Entries
  <2>9. \A m \in Kernels, r \in Kernels : <<m, r>> \in Pairs =>
          \/ /\ peers'[m][r].conn = i /\ CleanEntry(m, r, peers'[m][r], d)
          \/ /\ peers'[m][r].conn = peers[m][r].conn /\ peers'[m][r].passive = peers[m][r].passive
             /\ peers'[m][r].status \in {peers[m][r].status, "connected"} /\ peers[m][r].conn # i
    <3> TAKE m \in Kernels, r \in Kernels
    <3> HAVE <<m, r>> \in Pairs
    <3>1. CASE peers[m][r].conn = i
      <4>1. PICK p \in Pairs : p = <<m, r>>
        OBVIOUS
      <4>2. i # 0
        BY PeerConstants DEF ConnIds
      <4>3. CleanEntry(m, r, peers[m][r], c)
        BY <3>1, <4>1, <4>2, <1>1 DEF Untouched
      <4>4. CleanEntry(m, r, peers'[m][r], d)
        BY <4>3, <2>8, <1>10 DEF CleanEntry
      <4> QED BY <3>1, <4>4, <2>8
    <3>2. CASE peers[m][r].conn # i
      BY <3>2, <2>8
    <3> QED BY <3>1, <3>2
  <2>10. peers[c.from][c.to].conn # 0
    BY <1>1, <1>4 DEF Untouched
  <2>11. peers'[d.from][d.to].conn # 0 /\ d.server # "serving"
    BY <2>3, <2>6, <2>8, <2>10, <1>10
  <2> QED BY <1>3, <2>5, <2>9, <2>11, CleanStep
<1> QED BY <1>16, <1>17

LEMMA OnPeerConnectedStep ==
  ASSUME PeerInv, CleanInv, NEW i \in ConnIds, OnPeerConnected(i)
  PROVE  PeerInv' /\ CleanInv'
<1>1. PICK c \in Connections : c = conn[i] /\ ConnOK(c) /\ Kept(c, delivered)
  BY ConnectionNow
<1>2. PICK d : d = [c EXCEPT !.server = "serving", !.wrap = TRUE]
  OBVIOUS
<1>3. conn' = [conn EXCEPT ![i] = d] /\ c.server = "acked"
  BY <1>1, <1>2 DEF OnPeerConnected
<1>4. c.client \notin {"unused", "dial"} /\ <<c.from, c.to>> \in Pairs
  BY <1>1, <1>3 DEF ConnOK
<1>5. d \in Connections
  BY <1>2 DEF Connections
<1>6. /\ d.client = c.client /\ d.reading = c.reading /\ d.wrap = TRUE /\ d.up = c.up
      /\ d.from = c.from /\ d.to = c.to /\ d.sent = c.sent /\ d.stopped = c.stopped
      /\ d.server = "serving" /\ d.out = c.out /\ d.back = c.back
  BY <1>2 DEF Connections
<1>7. ConnOK(d)
  BY <1>1, <1>3, <1>4, <1>5, <1>6 DEF ConnOK
<1>8. Kept(d, delivered)
  BY <1>1, <1>6, KeptStays
<1>9. EntriesFollow(i, d)
  <2>1. PICK e : e = [status |-> "connected", conn |-> i, passive |-> TRUE]
    OBVIOUS
  <2>2. i \in 0 .. MaxConns
    BY PeerConstants DEF ConnIds
  <2>3. e \in Entries /\ e.conn = i /\ EntryOK(e, d)
    BY <2>1, <2>2, <1>4, <1>6 DEF Entries, EntryOK
  <2>4. peers' = [peers EXCEPT ![c.to][c.from] = e]
    BY <1>1, <2>1 DEF OnPeerConnected, SetPeer
  <2>5. c.from \in Kernels /\ c.to \in Kernels
    BY <1>4 DEF Pairs
  <2>6. Advances(conn[i], d)
    BY <1>1, <1>4, <1>6 DEF Advances
  <2> QED BY <2>3, <2>4, <2>5, <2>6 DEF EntriesFollow
<1>10. ListShape' /\ delivered' = delivered
  BY ListsUnchanged DEF OnPeerConnected, PeerInv
<1>11. PeerInv'
  BY <1>3, <1>7, <1>8, <1>9, <1>10, ConnectionStep
<1>12. CleanInv'
  <2>1. used' = used
    BY DEF OnPeerConnected
  <2> SUFFICES ASSUME used.faults = 0, Untouched PROVE Untouched'
    BY <2>1 DEF CleanInv
  <2>2. Clean(c)
    BY <1>1 DEF Untouched
  <2>3. Clean(d)
    BY <1>3, <1>6, <2>2 DEF Clean
  <2>4. PICK k \in Kernels, q \in Kernels :
          k = c.to /\ q = c.from /\ <<k, q>> \in Pairs /\ <<q, k>> \in Pairs /\ k # q
    BY <1>4 DEF Pairs
  <2>5. PICK e : e = [status |-> "connected", conn |-> i, passive |-> TRUE]
    OBVIOUS
  <2>6. peers' = [peers EXCEPT ![k][q] = e] /\ peers \in [Kernels -> [Kernels -> Entries]]
    BY <1>1, <2>4, <2>5 DEF OnPeerConnected, SetPeer, PeerInv
  <2>7. peers'[k][q] = e /\ e.conn = i /\ CleanEntry(k, q, e, d)
    BY <2>4, <2>5, <2>6, <1>6 DEF CleanEntry
  <2>8. i # 0
    BY PeerConstants DEF ConnIds
  <2>9. \A m \in Kernels, r \in Kernels : <<m, r>> \in Pairs =>
          \/ /\ peers'[m][r].conn = i /\ CleanEntry(m, r, peers'[m][r], d)
          \/ /\ peers'[m][r].conn = peers[m][r].conn /\ peers'[m][r].passive = peers[m][r].passive
             /\ peers'[m][r].status \in {peers[m][r].status, "connected"} /\ peers[m][r].conn # i
    <3> TAKE m \in Kernels, r \in Kernels
    <3> HAVE <<m, r>> \in Pairs
    <3>1. CASE m = k /\ r = q
      BY <3>1, <2>7
    <3>2. CASE ~(m = k /\ r = q)
      <4>1. peers'[m][r] = peers[m][r]
        BY <3>2, <2>6
      <4>2. CASE peers[m][r].conn = i
        <5>1. PICK p \in Pairs : p = <<m, r>>
          OBVIOUS
        <5>2. CleanEntry(m, r, peers[m][r], c)
          BY <4>2, <5>1, <2>8, <1>1 DEF Untouched
        <5>3. ~peers[m][r].passive
          BY <5>2, <2>4, <3>2 DEF CleanEntry
        <5>4. CleanEntry(m, r, peers[m][r], d)
          BY <5>2, <5>3, <1>6 DEF CleanEntry
        <5> QED BY <4>1, <4>2, <5>4
      <4> QED BY <4>1, <4>2
    <3> QED BY <3>1, <3>2
  <2>10. peers[c.from][c.to].conn # 0
    BY <1>1, <1>4 DEF Untouched
  <2>11. peers'[d.from][d.to].conn # 0 /\ peers'[d.to][d.from].conn # 0
    <3>1. peers'[q][k] = peers[q][k]
      BY <2>4, <2>6
    <3> QED BY <3>1, <2>4, <2>7, <2>8, <2>10, <1>6
  <2> QED BY <1>3, <2>3, <2>9, <2>11, CleanStep
<1> QED BY <1>11, <1>12

LEMMA HandshakeDoneStep ==
  ASSUME PeerInv, CleanInv, NEW i \in ConnIds, HandshakeDone(i)
  PROVE  PeerInv' /\ CleanInv'
<1>1. PICK c \in Connections : c = conn[i] /\ ConnOK(c) /\ Kept(c, delivered)
  BY ConnectionNow
<1>2. PICK d : d = [c EXCEPT !.client = "loops", !.back = Tail(c.back), !.reading = ~c.stopped]
  OBVIOUS
<1>3. conn' = [conn EXCEPT ![i] = d] /\ c.client = "shake" /\ c.back # <<>> /\ UNCHANGED peers
  BY <1>1, <1>2 DEF HandshakeDone
<1>4. c.back \in Seq(Packets) /\ c.stopped \in BOOLEAN
  BY DEF Connections
<1>5. PICK t \in Seq(Packets) : /\ t = Tail(c.back)
                                /\ \A n \in DOMAIN c.back :
                                     c.back[n] = Head(c.back) \/ \E m \in DOMAIN t : t[m] = c.back[n]
  BY <1>3, <1>4, TailHolds
<1>6. PICK b \in BOOLEAN : b = ~c.stopped
  OBVIOUS
<1>7. d = [c EXCEPT !.client = "loops", !.back = t, !.reading = b]
  BY <1>2, <1>5, <1>6
<1>8. d \in Connections
  BY <1>7 DEF Connections
<1>9. /\ d.client = "loops" /\ d.wrap = c.wrap /\ d.up = c.up
      /\ d.from = c.from /\ d.to = c.to /\ d.sent = c.sent /\ d.stopped = c.stopped
      /\ d.server = c.server /\ d.out = c.out /\ d.back = t
  BY <1>7 DEF Connections
<1>10. ConnOK(d)
  BY <1>1, <1>3, <1>8, <1>9 DEF ConnOK
<1>11. Kept(d, delivered)
  <2> SUFFICES ASSUME d.up, ~d.stopped, NEW m \in d.sent, m \notin delivered
               PROVE  \/ \E n \in DOMAIN c.out : c.out[n] = Packet("relay", m)
                      \/ \E n \in DOMAIN t : t[n] = Packet("relay", m)
    BY <1>9 DEF Kept
  <2>1. \/ \E n \in DOMAIN c.out : c.out[n] = Packet("relay", m)
        \/ \E n \in DOMAIN c.back : c.back[n] = Packet("relay", m)
    BY <1>1, <1>9 DEF Kept
  <2>2. Head(c.back).type = "ack"
    BY <1>1, <1>3, <1>9 DEF ConnOK
  <2>3. Head(c.back) # Packet("relay", m)
    BY <2>2, PacketFields
  <2> QED BY <2>1, <2>3, <1>5
<1>12. EntriesFollow(i, d)
  BY <1>1, <1>3, <1>9 DEF EntriesFollow, Advances
<1>13. ListShape' /\ delivered' = delivered
  BY ListsUnchanged DEF HandshakeDone, PeerInv
<1>14. PeerInv'
  BY <1>3, <1>10, <1>11, <1>12, <1>13, ConnectionStep
<1>15. CleanInv'
  <2>1. used' = used
    BY DEF HandshakeDone
  <2>2. c.up => c.server # "open"
    BY <1>1, <1>3 DEF ConnOK
  <2>3. Clean(c) => Clean(d)
    BY <1>3, <1>9, <2>2 DEF Clean
  <2> QED BY <1>1, <1>3, <1>9, <2>1, <2>3, CleanSame
<1> QED BY <1>14, <1>15

LEMMA ConnectedStep ==
  ASSUME PeerInv, CleanInv, NEW i \in ConnIds, Connected(i)
  PROVE  PeerInv' /\ CleanInv'
<1>1. PICK c \in Connections : c = conn[i] /\ ConnOK(c) /\ Kept(c, delivered)
  BY ConnectionNow
<1>2. PICK d : d = [c EXCEPT !.client = "connected"]
  OBVIOUS
<1>3. conn' = [conn EXCEPT ![i] = d] /\ c.client = "loops" /\ SetStatus(c.from, c.to, "connected")
  BY <1>1, <1>2 DEF Connected
<1>4. d \in Connections
  BY <1>2 DEF Connections
<1>5. /\ d.client = "connected" /\ d.reading = c.reading /\ d.wrap = c.wrap /\ d.up = c.up
      /\ d.from = c.from /\ d.to = c.to /\ d.sent = c.sent /\ d.stopped = c.stopped
      /\ d.server = c.server /\ d.out = c.out /\ d.back = c.back
  BY <1>2 DEF Connections
<1>6. ConnOK(d)
  BY <1>1, <1>3, <1>4, <1>5 DEF ConnOK
<1>7. Kept(d, delivered)
  BY <1>1, <1>5, KeptStays
<1>8. EntriesFollow(i, d)
  <2>1. c.from \in Kernels /\ c.to \in Kernels /\ Advances(conn[i], d)
    BY <1>1, <1>3, <1>5 DEF ConnOK, Pairs, Advances
  <2> QED BY <2>1, <1>3, StatusGiven
<1>9. ListShape' /\ delivered' = delivered
  BY ListsUnchanged DEF Connected, PeerInv
<1>10. PeerInv'
  BY <1>3, <1>6, <1>7, <1>8, <1>9, ConnectionStep
<1>11. CleanInv'
  <2>1. used' = used
    BY DEF Connected
  <2> SUFFICES ASSUME used.faults = 0, Untouched PROVE Untouched'
    BY <2>1 DEF CleanInv
  <2>2. Clean(c)
    BY <1>1 DEF Untouched
  <2>3. Clean(d)
    BY <1>3, <1>5, <2>2 DEF Clean
  <2>4. PICK k \in Kernels, q \in Kernels :
          k = c.from /\ q = c.to /\ <<k, q>> \in Pairs /\ <<q, k>> \in Pairs
    BY <1>1, <1>3 DEF Pairs, ConnOK
  <2>5. i # 0 /\ peers \in [Kernels -> [Kernels -> Entries]]
    BY PeerConstants DEF ConnIds, PeerInv
  <2>6. peers[k][q].conn # 0
    BY <1>1, <1>3, <2>4 DEF Untouched
  <2>7. peers' = [peers EXCEPT ![k][q].status = "connected"]
    <3>1. peers[k][q] # NoPeer
      BY <2>6 DEF NoPeer
    <3> QED BY <1>3, <2>4, <3>1 DEF SetStatus
  <2>8. ASSUME NEW m \in Kernels, NEW r \in Kernels
        PROVE  /\ peers'[m][r].conn = peers[m][r].conn /\ peers'[m][r].passive = peers[m][r].passive
               /\ peers'[m][r].status \in {peers[m][r].status, "connected"}
               /\ m = k /\ r = q => peers'[m][r].status = "connected"
    <3>1. peers[m][r] \in Entries
      BY <2>5
    <3> QED BY <2>5, <2>7, <3>1 DEF Entries
  <2>9. \A m \in Kernels, r \in Kernels : <<m, r>> \in Pairs =>
          \/ /\ peers'[m][r].conn = i /\ CleanEntry(m, r, peers'[m][r], d)
          \/ /\ peers'[m][r].conn = peers[m][r].conn /\ peers'[m][r].passive = peers[m][r].passive
             /\ peers'[m][r].status \in {peers[m][r].status, "connected"} /\ peers[m][r].conn # i
    <3> TAKE m \in Kernels, r \in Kernels
    <3> HAVE <<m, r>> \in Pairs
    <3>1. CASE peers[m][r].conn = i
      <4>1. PICK p \in Pairs : p = <<m, r>>
        OBVIOUS
      <4>2. CleanEntry(m, r, peers[m][r], c)
        BY <3>1, <4>1, <2>5, <1>1 DEF Untouched
      <4>3. CleanEntry(m, r, peers'[m][r], d)
        BY <4>2, <2>4, <2>8, <1>5 DEF CleanEntry
      <4> QED BY <3>1, <4>3, <2>8
    <3>2. CASE peers[m][r].conn # i
      BY <3>2, <2>8
    <3> QED BY <3>1, <3>2
  <2>10. d.server = "serving" => peers[c.to][c.from].conn # 0
    BY <1>1, <1>5 DEF Untouched
  <2>11. /\ peers'[d.from][d.to].conn # 0
         /\ d.server = "serving" => peers'[d.to][d.from].conn # 0
    BY <2>4, <2>6, <2>8, <2>10, <1>5
  <2> QED BY <1>3, <2>3, <2>9, <2>11, CleanStep
<1> QED BY <1>10, <1>11

-----------------------------------------------------------------------------
(* The end of a connection *)

LEMMA ConnBreaksStep ==
  ASSUME PeerInv, CleanInv, NEW i \in ConnIds, ConnBreaks(i)
  PROVE  PeerInv' /\ CleanInv'
<1>1. PICK c \in Connections : c = conn[i] /\ ConnOK(c) /\ Kept(c, delivered)
  BY ConnectionNow
<1>2. PICK d : d = [c EXCEPT !.up = FALSE, !.out = <<>>, !.back = <<>>]
  OBVIOUS
<1>3. conn' = [conn EXCEPT ![i] = d] /\ c.up /\ UNCHANGED peers
  BY <1>1, <1>2 DEF ConnBreaks
<1>4. <<>> \in Seq(Packets)
  OBVIOUS
<1>5. d \in Connections
  BY <1>2, <1>4 DEF Connections
<1>6. /\ d.client = c.client /\ d.reading = c.reading /\ d.wrap = c.wrap /\ d.up = FALSE
      /\ d.from = c.from /\ d.to = c.to /\ d.server = c.server
  BY <1>2 DEF Connections
<1>7. ConnOK(d)
  BY <1>1, <1>3, <1>5, <1>6 DEF ConnOK
<1>8. Kept(d, delivered)
  BY <1>1, <1>6, KeptStays
<1>9. EntriesFollow(i, d)
  BY <1>1, <1>3, <1>6 DEF EntriesFollow, Advances
<1>10. ListShape' /\ delivered' = delivered /\ used'.faults # 0
  BY FaultCounted DEF ConnBreaks, PeerInv
<1> QED BY <1>3, <1>7, <1>8, <1>9, <1>10, ConnectionStep DEF CleanInv

\* readLoop and heartbeatLoop end a client
LEMMA HandleDisconnectStep ==
  ASSUME PeerInv, CleanInv, NEW i \in ConnIds, conn[i].client \in {"loops", "connected"}, ~conn[i].up,
         HandleDisconnect(i), UNCHANGED <<chat, relays, used>>
  PROVE  PeerInv' /\ CleanInv'
<1>1. PICK c \in Connections : c = conn[i] /\ ConnOK(c) /\ Kept(c, delivered)
  BY ConnectionNow
<1>2. ListShape' /\ delivered' = delivered
  BY ListsUnchanged DEF PeerInv
<1>3. c.from \in Kernels /\ c.to \in Kernels
  BY <1>1 DEF ConnOK, Pairs
<1>6. CleanInv'
  <2>1. used' = used /\ ~Clean(conn[i])
    BY DEF Clean
  <2> QED BY <2>1, CleanBroken
<1>4. CASE c.client = "connected"
  <2>1. PICK d : d = [c EXCEPT !.client = "off", !.up = FALSE, !.reading = FALSE]
    OBVIOUS
  <2>2. conn' = [conn EXCEPT ![i] = d] /\ SetStatus(c.from, c.to, "disconnected")
    BY <1>1, <1>4, <2>1 DEF HandleDisconnect
  <2>3. d \in Connections
    BY <2>1 DEF Connections
  <2>4. /\ d.client = "off" /\ d.reading = FALSE /\ d.wrap = c.wrap /\ d.up = FALSE
        /\ d.from = c.from /\ d.to = c.to /\ d.server = c.server
    BY <2>1 DEF Connections
  <2>5. ConnOK(d)
    BY <1>1, <1>4, <2>3, <2>4 DEF ConnOK
  <2>6. Kept(d, delivered)
    BY <1>1, <2>4, KeptStays
  <2>7. Advances(conn[i], d)
    BY <1>1, <2>4 DEF Advances
  <2>8. EntriesFollow(i, d)
    BY <1>3, <2>2, <2>7, StatusGiven
  <2> QED BY <1>2, <1>6, <2>2, <2>5, <2>6, <2>8, ConnectionStep
<1>5. CASE c.client = "loops"
  <2>1. PICK d : d = [c EXCEPT !.reading = FALSE]
    OBVIOUS
  <2>2. conn' = [conn EXCEPT ![i] = d] /\ UNCHANGED peers
    BY <1>1, <1>5, <2>1 DEF HandleDisconnect
  <2>3. d \in Connections
    BY <2>1 DEF Connections
  <2>4. /\ d.client = "loops" /\ d.reading = FALSE /\ d.wrap = c.wrap /\ d.up = c.up
        /\ d.from = c.from /\ d.to = c.to /\ d.server = c.server /\ d.stopped = c.stopped
        /\ d.sent = c.sent /\ d.out = c.out /\ d.back = c.back
    BY <1>5, <2>1 DEF Connections
  <2>5. ConnOK(d)
    BY <1>1, <1>5, <2>3, <2>4 DEF ConnOK
  <2>6. Kept(d, delivered)
    BY <1>1, <2>4, KeptStays
  <2>7. EntriesFollow(i, d)
    BY <1>1, <2>2, <2>4 DEF EntriesFollow, Advances
  <2> QED BY <1>2, <1>6, <2>2, <2>5, <2>6, <2>7, ConnectionStep
<1> QED BY <1>1, <1>4, <1>5

LEMMA ServerReadErrorStep ==
  ASSUME PeerInv, CleanInv, NEW i \in ConnIds, ServerReadError(i)
  PROVE  PeerInv' /\ CleanInv'
<1>1. PICK c \in Connections : c = conn[i] /\ ConnOK(c) /\ Kept(c, delivered)
  BY ConnectionNow
<1>2. PICK d : d = [c EXCEPT !.server = "ended"]
  OBVIOUS
<1>3. conn' = [conn EXCEPT ![i] = d] /\ c.server \in {"open", "serving"} /\ ~c.up /\ UNCHANGED peers
  BY <1>1, <1>2 DEF ServerReadError
<1>4. d \in Connections
  BY <1>2 DEF Connections
<1>5. /\ d.client = c.client /\ d.reading = c.reading /\ d.wrap = c.wrap /\ d.up = c.up
      /\ d.from = c.from /\ d.to = c.to /\ d.server = "ended" /\ d.stopped = c.stopped
      /\ d.sent = c.sent /\ d.out = c.out /\ d.back = c.back
  BY <1>2 DEF Connections
<1>6. ConnOK(d)
  BY <1>1, <1>3, <1>4, <1>5 DEF ConnOK
<1>7. Kept(d, delivered)
  BY <1>1, <1>5, KeptStays
<1>8. EntriesFollow(i, d)
  BY <1>1, <1>3, <1>5 DEF EntriesFollow, Advances
<1>9. ListShape' /\ delivered' = delivered
  BY ListsUnchanged DEF ServerReadError, PeerInv
<1>10. PeerInv'
  BY <1>3, <1>6, <1>7, <1>8, <1>9, ConnectionStep
<1>11. CleanInv'
  <2>1. used' = used
    BY DEF ServerReadError
  <2>2. ~Clean(conn[i])
    BY <1>1, <1>3 DEF Clean, ConnOK, Connections
  <2> QED BY <2>1, <2>2, CleanBroken
<1> QED BY <1>10, <1>11

LEMMA LateOnDisconnectedStep ==
  ASSUME PeerInv, CleanInv, NEW i \in ConnIds, LateOnDisconnected(i)
  PROVE  PeerInv' /\ CleanInv'
<1>1. PICK c \in Connections : c = conn[i] /\ ConnOK(c) /\ Kept(c, delivered)
  BY ConnectionNow
<1>2. PICK d : d = [c EXCEPT !.client = "off"]
  OBVIOUS
<1>3. conn' = [conn EXCEPT ![i] = d] /\ c.client = "caught" /\ SetStatus(c.from, c.to, "disconnected")
  BY <1>1, <1>2 DEF LateOnDisconnected
<1>4. d \in Connections
  BY <1>2 DEF Connections
<1>5. /\ d.client = "off" /\ d.reading = c.reading /\ d.wrap = c.wrap /\ d.up = c.up
      /\ d.from = c.from /\ d.to = c.to /\ d.server = c.server /\ d.stopped = c.stopped
      /\ d.sent = c.sent /\ d.out = c.out /\ d.back = c.back
  BY <1>2 DEF Connections
<1>6. ConnOK(d)
  BY <1>1, <1>3, <1>4, <1>5 DEF ConnOK
<1>7. Kept(d, delivered)
  BY <1>1, <1>5, KeptStays
<1>8. EntriesFollow(i, d)
  <2>1. c.from \in Kernels /\ c.to \in Kernels /\ Advances(conn[i], d)
    BY <1>1, <1>3, <1>5 DEF ConnOK, Pairs, Advances
  <2> QED BY <2>1, <1>3, StatusGiven
<1>9. ListShape' /\ delivered' = delivered
  BY ListsUnchanged DEF LateOnDisconnected, PeerInv
<1>10. PeerInv'
  BY <1>3, <1>6, <1>7, <1>8, <1>9, ConnectionStep
<1>11. CleanInv'
  <2>1. used' = used /\ ~Clean(conn[i])
    BY <1>1, <1>3 DEF LateOnDisconnected, Clean
  <2> QED BY <2>1, CleanBroken
<1> QED BY <1>10, <1>11

\* An entry with a Client refers to a connection in use
LEMMA EntryNow ==
  ASSUME PeerInv, NEW k \in Kernels, NEW q \in Kernels, <<k, q>> \in Pairs, peers[k][q].conn # 0
  PROVE  /\ peers[k][q].conn \in ConnIds /\ peers[k][q].passive \in BOOLEAN
         /\ conn[peers[k][q].conn].client # "unused"
         /\ peers[k][q].passive =>
              /\ conn[peers[k][q].conn].server \in {"serving", "ended"}
              /\ conn[peers[k][q].conn].client # "dial"
<1>1. PICK e \in Entries : e = peers[k][q]
  BY DEF PeerInv
<1>2. e.conn \in 0 .. MaxConns /\ e.passive \in BOOLEAN /\ e.conn # 0
  BY <1>1 DEF Entries
<1>3. e.conn \in ConnIds
  BY <1>2, PeerConstants DEF ConnIds
<1>4. PICK p \in Pairs : p = <<k, q>>
  OBVIOUS
<1>5. EntryOK(e, conn[e.conn])
  BY <1>1, <1>2, <1>4 DEF PeerInv
<1>6. e.passive => conn[e.conn].client # "dial"
  BY <1>3, <1>5, ConnectionNow DEF EntryOK, ConnOK
<1> QED BY <1>1, <1>2, <1>3, <1>5, <1>6 DEF EntryOK

LEMMA DisconnectFromPeerStep ==
  ASSUME PeerInv, CleanInv, NEW p \in Pairs, DisconnectFromPeer(p[1], p[2])
  PROVE  PeerInv' /\ CleanInv'
<1>1. PICK k \in Kernels, q \in Kernels : k = p[1] /\ q = p[2] /\ <<k, q>> \in Pairs
  BY DEF Pairs
<1>2. PICK i, e : e = peers[k][q] /\ i = e.conn
  OBVIOUS
<1>3. i # 0
  BY <1>1, <1>2 DEF DisconnectFromPeer
<1>4. i \in ConnIds /\ conn[i].client # "unused" /\ e.passive \in BOOLEAN
      /\ (e.passive => conn[i].server \in {"serving", "ended"} /\ conn[i].client # "dial")
  BY <1>1, <1>2, <1>3, EntryNow
<1>5. PICK c \in Connections : c = conn[i] /\ ConnOK(c) /\ Kept(c, delivered)
  BY <1>4, ConnectionNow
<1>6. ListShape' /\ delivered' = delivered /\ used'.faults # 0
  BY <1>1, FaultCounted DEF DisconnectFromPeer, PeerInv
<1>7. SetPeer(k, q, NoPeer)
  BY <1>1 DEF DisconnectFromPeer
<1>8. PICK x \in Packets : x = Packet("disconnect", 0)
  BY PacketsAre
<1>9. PICK out \in Seq(Packets), back \in Seq(Packets) : out = c.out /\ back = c.back
  BY DEF Connections
<1>10. <<>> \in Seq(Packets)
  OBVIOUS
<1>13. CleanInv'
  BY <1>6 DEF CleanInv
<1>11. CASE e.passive
  <2>1. PICK b : b = IF c.up THEN Append(back, x) ELSE back
    OBVIOUS
  <2>2. b \in Seq(Packets)
    BY <2>1
  <2>3. PICK d : d = [c EXCEPT !.up = FALSE, !.wrap = FALSE, !.out = <<>>, !.back = b]
    OBVIOUS
  <2>4. conn' = [conn EXCEPT ![i] = d]
    BY <1>1, <1>2, <1>5, <1>8, <1>9, <1>11, <2>1, <2>3 DEF DisconnectFromPeer
  <2>5. d \in Connections
    BY <1>10, <2>2, <2>3 DEF Connections
  <2>6. /\ d.client = c.client /\ d.reading = c.reading /\ d.wrap = FALSE /\ d.up = FALSE
        /\ d.from = c.from /\ d.to = c.to /\ d.server = c.server
    BY <2>3 DEF Connections
  <2>7. ConnOK(d)
    BY <1>4, <1>5, <1>11, <2>5, <2>6 DEF ConnOK
  <2>8. Kept(d, delivered)
    BY <1>5, <2>6, KeptStays
  <2>9. Advances(conn[i], d)
    BY <1>5, <2>6 DEF Advances
  <2>10. EntriesFollow(i, d)
    BY <1>4, <1>7, <2>9, EntryCleared
  <2> QED BY <1>4, <1>6, <1>13, <2>4, <2>7, <2>8, <2>10, ConnectionStep
<1>12. CASE ~e.passive
  <2>1. PICK o : o = IF c.up THEN Append(out, x) ELSE out
    OBVIOUS
  <2>2. o \in Seq(Packets)
    BY <2>1
  <2>3. PICK caught \in BOOLEAN :
          /\ caught => c.client = "connected"
          /\ conn' = [conn EXCEPT ![i] =
               [[c EXCEPT !.up = FALSE, !.reading = FALSE] EXCEPT !.stopped = TRUE, !.back = <<>>,
                            !.client = IF caught THEN "caught" ELSE IF @ = "connected" THEN "off" ELSE @,
                            !.out = IF c.up THEN Append(@, x) ELSE @]]
    <3>1. DisconnectFromPeer(k, q) /\ ~peers[k][q].passive /\ c = conn[peers[k][q].conn]
      BY <1>1, <1>2, <1>5, <1>12
    <3>2. PICK caught \in BOOLEAN :
            /\ caught => conn[peers[k][q].conn].client = "connected"
            /\ conn' = [conn EXCEPT ![peers[k][q].conn] =
                 [[conn[peers[k][q].conn] EXCEPT !.up = FALSE, !.reading = FALSE]
                    EXCEPT !.stopped = TRUE, !.back = <<>>,
                           !.client = IF caught THEN "caught" ELSE IF @ = "connected" THEN "off" ELSE @,
                           !.out = IF conn[peers[k][q].conn].up THEN Append(@, Packet("disconnect", 0))
                                                                ELSE @]]
      BY <3>1, Zenon DEF DisconnectFromPeer
    <3>3. peers[k][q].conn = i /\ conn[peers[k][q].conn] = c /\ Packet("disconnect", 0) = x
      BY <1>2, <1>8, <3>1
    <3>4. /\ caught => c.client = "connected"
          /\ conn' = [conn EXCEPT ![i] =
               [[c EXCEPT !.up = FALSE, !.reading = FALSE] EXCEPT !.stopped = TRUE, !.back = <<>>,
                            !.client = IF caught THEN "caught" ELSE IF @ = "connected" THEN "off" ELSE @,
                            !.out = IF c.up THEN Append(@, x) ELSE @]]
      BY <3>2, <3>3
    <3> QED BY <3>4, Zenon
  <2>4. PICK cl : cl = IF caught THEN "caught" ELSE IF c.client = "connected" THEN "off" ELSE c.client
    OBVIOUS
  <2>5. PICK d : d = [c EXCEPT !.up = FALSE, !.reading = FALSE, !.stopped = TRUE, !.back = <<>>,
                               !.client = cl, !.out = o]
    OBVIOUS
  <2>6. d = [[c EXCEPT !.up = FALSE, !.reading = FALSE] EXCEPT !.stopped = TRUE, !.back = <<>>,
                 !.client = IF caught THEN "caught" ELSE IF @ = "connected" THEN "off" ELSE @,
                 !.out = IF c.up THEN Append(@, x) ELSE @]
    BY <1>9, <2>1, <2>4, <2>5 DEF Connections
  <2>7. conn' = [conn EXCEPT ![i] = d]
    BY <2>3, <2>6
  <2>8. c.client \in {"unused", "dial", "shake", "loops", "connected", "caught", "off"}
    BY DEF Connections
  <2>9. cl \in {"unused", "dial", "shake", "loops", "connected", "caught", "off"}
    BY <2>4, <2>8
  <2>10. d \in Connections
    BY <1>10, <2>2, <2>5, <2>9 DEF Connections
  <2>11. /\ d.client = cl /\ d.reading = FALSE /\ d.wrap = c.wrap /\ d.up = FALSE
         /\ d.from = c.from /\ d.to = c.to /\ d.server = c.server /\ d.sent = c.sent /\ d.back = <<>>
    BY <2>5 DEF Connections
  <2>12. cl # "unused" /\ (cl = "dial" => c.client = "dial")
    BY <1>4, <1>5, <2>4
  <2>13. ConnOK(d)
    BY <1>4, <1>5, <2>10, <2>11, <2>12 DEF ConnOK
  <2>14. Kept(d, delivered)
    BY <1>5, <2>11, KeptStays
  <2>15. Advances(conn[i], d)
    BY <1>5, <2>11, <2>12 DEF Advances
  <2>16. EntriesFollow(i, d)
    BY <1>4, <1>7, <2>15, EntryCleared
  <2> QED BY <1>4, <1>6, <1>13, <2>7, <2>13, <2>14, <2>16, ConnectionStep
<1> QED BY <1>4, <1>11, <1>12

-----------------------------------------------------------------------------
(* Packets *)

\* A packet is written on the Client of an entry; a relayed message counts as sent
LEMMA WriteStep ==
  ASSUME PeerInv, CleanInv, NEW k \in Kernels, NEW q \in Kernels, <<k, q>> \in Pairs, IsConnected(peers[k][q]),
         NEW x \in Packets, NEW new \in SUBSET RelayMessages, \A m \in new : x = Packet("relay", m),
         Write(peers[k][q], x, new), UNCHANGED peers, ListShape', delivered' = delivered,
         x.type # "disconnect", used' = used
  PROVE  PeerInv' /\ CleanInv'
<1>1. PICK i, e : e = peers[k][q] /\ i = e.conn
  OBVIOUS
<1>2. i # 0 /\ i \in ConnIds /\ e.passive \in BOOLEAN /\ conn[i].client # "unused"
      /\ (e.passive => conn[i].server \in {"serving", "ended"} /\ conn[i].client # "dial")
  BY <1>1, EntryNow DEF IsConnected
<1>3. PICK c \in Connections : c = conn[i] /\ ConnOK(c) /\ Kept(c, delivered)
  BY <1>2, ConnectionNow
<1>4. ~e.passive => c.client = "connected"
  BY <1>1, <1>3 DEF IsConnected
<1>5. PICK out \in Seq(Packets), back \in Seq(Packets), msgs \in SUBSET RelayMessages :
        out = c.out /\ back = c.back /\ msgs = c.sent
  BY DEF Connections
<1>6. conn \in [ConnIds -> Connections]
  BY DEF PeerInv
<1>10. conn' = [conn EXCEPT ![i] =
                 IF ~c.up THEN c
                 ELSE IF e.passive THEN [c EXCEPT !.back = Append(c.back, x), !.sent = c.sent \union new]
                 ELSE [c EXCEPT !.out = Append(c.out, x), !.sent = c.sent \union new]]
  BY <1>1, <1>3 DEF Write
<1>7. CASE ~c.up
  <2>1. conn' = [conn EXCEPT ![i] = c]
    BY <1>7, <1>10
  <2>2. EntriesFollow(i, c)
    BY <1>3 DEF EntriesFollow, Advances
  <2>3. PeerInv'
    BY <1>2, <1>3, <2>1, <2>2, ConnectionStep
  <2>4. CleanInv'
    BY <1>2, <1>3, <2>1, CleanSame
  <2> QED BY <2>3, <2>4
<1>8. CASE c.up /\ e.passive
  <2>1. PICK a : a = Append(back, x)
    OBVIOUS
  <2>2. /\ a \in Seq(Packets) /\ a # <<>> /\ (back # <<>> => Head(a) = Head(back))
        /\ \E n \in DOMAIN a : a[n] = x
        /\ \A n \in DOMAIN back : n \in DOMAIN a /\ a[n] = back[n]
    <3>1. a \in Seq(Packets) /\ a # <<>> /\ (back # <<>> => Head(a) = Head(back))
      BY <2>1, AppendHolds
    <3>2. \E n \in DOMAIN a : a[n] = x
      BY <2>1, AppendHolds
    <3>3. \A n \in DOMAIN back : n \in DOMAIN a /\ a[n] = back[n]
      BY <2>1, AppendHolds
    <3> QED BY <3>1, <3>2, <3>3
  <2>12. PICK s \in SUBSET RelayMessages : s = msgs \union new
    OBVIOUS
  <2>3. PICK d : d = [c EXCEPT !.back = a, !.sent = s]
    OBVIOUS
  <2>4. conn' = [conn EXCEPT ![i] = d]
    <3>1. d = [c EXCEPT !.back = Append(c.back, x), !.sent = c.sent \union new]
      BY <1>5, <2>1, <2>12, <2>3
    <3> QED BY <1>8, <1>10, <3>1
  <2>5. d \in Connections
    BY <2>2, <2>3 DEF Connections
  <2>6. /\ d.client = c.client /\ d.reading = c.reading /\ d.wrap = c.wrap /\ d.up = c.up
        /\ d.from = c.from /\ d.to = c.to /\ d.server = c.server /\ d.stopped = c.stopped
        /\ d.sent = s /\ d.out = c.out /\ d.back = a
    BY <2>3 DEF Connections
  <2>7. ConnOK(d)
    <3>1. c.client \notin {"unused", "dial"} /\ c.server # "open"
      BY <1>2, <1>3, <1>8
    <3>2. d.up /\ d.client = "shake" => d.back # <<>> /\ Head(d.back).type = "ack" /\ d.server # "open"
      BY <1>3, <1>5, <1>8, <2>2, <2>6, <3>1 DEF ConnOK
    <3>3. (d.reading => d.client \in {"loops", "connected"}) /\ <<d.from, d.to>> \in Pairs
          /\ (d.wrap => d.server \in {"serving", "ended"})
      BY <1>3, <2>6, <3>1 DEF ConnOK
    <3> QED BY <2>5, <2>6, <3>1, <3>2, <3>3 DEF ConnOK
  <2>8. Kept(d, delivered)
    <3> SUFFICES ASSUME d.up, ~d.stopped, NEW m \in d.sent, m \notin delivered
                 PROVE  \/ \E n \in DOMAIN out : out[n] = Packet("relay", m)
                        \/ \E n \in DOMAIN a : a[n] = Packet("relay", m)
      BY <1>5, <2>6 DEF Kept
    <3>1. CASE m \in new
      BY <3>1, <2>2
    <3>2. CASE m \in msgs
      <4>1. \/ \E n \in DOMAIN out : out[n] = Packet("relay", m)
            \/ \E n \in DOMAIN back : back[n] = Packet("relay", m)
        BY <3>2, <1>3, <1>5, <2>6 DEF Kept
      <4> QED BY <4>1, <2>2
    <3> QED BY <3>1, <3>2, <2>6, <2>12
  <2>9. EntriesFollow(i, d)
    BY <1>3, <2>6 DEF EntriesFollow, Advances
  <2>10. PeerInv'
    BY <1>2, <2>4, <2>7, <2>8, <2>9, ConnectionStep
  <2>11. CleanInv'
    <3>1. Clean(c) => Clean(d)
      BY <2>6 DEF Clean
    <3> QED BY <1>2, <1>3, <2>4, <2>6, <3>1, CleanSame
  <2> QED BY <2>10, <2>11
<1>9. CASE c.up /\ ~e.passive
  <2>1. PICK a : a = Append(out, x)
    OBVIOUS
  <2>2. /\ a \in Seq(Packets)
        /\ \E n \in DOMAIN a : a[n] = x
        /\ \A n \in DOMAIN out : n \in DOMAIN a /\ a[n] = out[n]
    BY <2>1, AppendHolds
  <2>12. PICK s \in SUBSET RelayMessages : s = msgs \union new
    OBVIOUS
  <2>3. PICK d : d = [c EXCEPT !.out = a, !.sent = s]
    OBVIOUS
  <2>4. conn' = [conn EXCEPT ![i] = d]
    <3>1. d = [c EXCEPT !.out = Append(c.out, x), !.sent = c.sent \union new]
      BY <1>5, <2>1, <2>12, <2>3
    <3> QED BY <1>9, <1>10, <3>1
  <2>5. d \in Connections
    BY <2>2, <2>3 DEF Connections
  <2>6. /\ d.client = c.client /\ d.reading = c.reading /\ d.wrap = c.wrap /\ d.up = c.up
        /\ d.from = c.from /\ d.to = c.to /\ d.server = c.server /\ d.stopped = c.stopped
        /\ d.sent = s /\ d.out = a /\ d.back = c.back
    BY <2>3 DEF Connections
  <2>7. ConnOK(d)
    BY <1>3, <1>4, <1>9, <2>5, <2>6 DEF ConnOK
  <2>8. Kept(d, delivered)
    <3> SUFFICES ASSUME d.up, ~d.stopped, NEW m \in d.sent, m \notin delivered
                 PROVE  \/ \E n \in DOMAIN a : a[n] = Packet("relay", m)
                        \/ \E n \in DOMAIN back : back[n] = Packet("relay", m)
      BY <1>5, <2>6 DEF Kept
    <3>1. CASE m \in new
      BY <3>1, <2>2
    <3>2. CASE m \in msgs
      <4>1. \/ \E n \in DOMAIN out : out[n] = Packet("relay", m)
            \/ \E n \in DOMAIN back : back[n] = Packet("relay", m)
        BY <3>2, <1>3, <1>5, <2>6 DEF Kept
      <4> QED BY <4>1, <2>2
    <3> QED BY <3>1, <3>2, <2>6, <2>12
  <2>9. EntriesFollow(i, d)
    BY <1>3, <2>6 DEF EntriesFollow, Advances
  <2>10. PeerInv'
    BY <1>2, <2>4, <2>7, <2>8, <2>9, ConnectionStep
  <2>11. CleanInv'
    <3>1. Clean(c) => Clean(d)
      <4>1. \A n \in DOMAIN a : (n \in DOMAIN out /\ a[n] = out[n]) \/ a[n] = x
        BY <2>1, AppendHolds
      <4> QED BY <4>1, <1>5, <2>6 DEF Clean
    <3> QED BY <1>2, <1>3, <2>4, <2>6, <3>1, CleanSame
  <2> QED BY <2>10, <2>11
<1> QED BY <1>2, <1>7, <1>8, <1>9

LEMMA SyncConnectorsStep ==
  ASSUME PeerInv, CleanInv, NEW p \in Pairs, SyncConnectors(p[1], p[2])
  PROVE  PeerInv' /\ CleanInv'
<1>1. PICK k \in Kernels, q \in Kernels : k = p[1] /\ q = p[2] /\ <<k, q>> \in Pairs
  BY DEF Pairs
<1>2. /\ IsConnected(peers[k][q]) /\ Write(peers[k][q], Packet("sync", local[k]), {})
      /\ UNCHANGED <<peers, chat, relays, used>>
  BY <1>1 DEF SyncConnectors
<1>3. local[k] \in SUBSET OnlineConnectors
  BY DEF PeerInv, ListShape
<1>4. PICK x \in Packets : x = Packet("sync", local[k])
  BY <1>3, PacketsAre
<1>5. ListShape' /\ delivered' = delivered
  BY <1>2, ListsUnchanged DEF PeerInv
<1>6. PICK new \in SUBSET RelayMessages : new = {}
  OBVIOUS
<1>7. (\A m \in new : x = Packet("relay", m)) /\ Write(peers[k][q], x, new) /\ UNCHANGED peers
  BY <1>2, <1>4, <1>6
<1>8. x.type # "disconnect" /\ used' = used
  BY <1>2, <1>4, PacketFields
<1> QED BY <1>1, <1>2, <1>5, <1>7, <1>8, WriteStep

LEMMA RelayMessageStep ==
  ASSUME PeerInv, CleanInv, NEW p \in Pairs, RelayMessage(p[1], p[2])
  PROVE  PeerInv' /\ CleanInv'
<1>1. PICK k \in Kernels, q \in Kernels : k = p[1] /\ q = p[2] /\ <<k, q>> \in Pairs
  BY DEF Pairs
<1>2. PICK m : m = [n |-> relayed + 1, to |-> q]
  OBVIOUS
<1>3. /\ relayed < MaxRelays /\ IsConnected(peers[k][q])
      /\ Write(peers[k][q], Packet("relay", m), {m}) /\ relayed' = relayed + 1
      /\ UNCHANGED <<peers, chat, delivered, used>>
  BY <1>1, <1>2 DEF RelayMessage
<1>4. relayed \in 0 .. MaxRelays /\ MaxRelays \in Nat
  BY PeerConstants DEF PeerInv, ListShape
<1>5. m \in RelayMessages
  BY <1>2, <1>3, <1>4 DEF RelayMessages
<1>6. PICK x \in Packets : x = Packet("relay", m)
  BY <1>5, PacketsAre
<1>7. ListShape'
  <2>1. UNCHANGED <<local, remoteConnectors, used>> /\ relayed' \in 0 .. MaxRelays
    BY <1>3, <1>4 DEF chat
  <2> QED BY <2>1 DEF PeerInv, ListShape
<1>8. PICK new \in SUBSET RelayMessages : new = {m}
  BY <1>5
<1>9. (\A r \in new : x = Packet("relay", r)) /\ Write(peers[k][q], x, new) /\ UNCHANGED peers
      /\ delivered' = delivered
  BY <1>3, <1>6, <1>8
<1>10. x.type # "disconnect" /\ used' = used
  BY <1>3, <1>6, PacketFields
<1> QED BY <1>1, <1>3, <1>7, <1>9, <1>10, WriteStep

LEMMA CacheHolds ==
  ASSUME ListShape, NEW k \in Kernels, NEW q \in Kernels, NEW list \in SUBSET OnlineConnectors,
         Cache(k, q, list)
  PROVE  remoteConnectors' \in [Kernels -> [Kernels -> SUBSET OnlineConnectors]]
<1>1. remoteConnectors \in [Kernels -> [Kernels -> SUBSET OnlineConnectors]]
  BY DEF ListShape
<1> QED BY <1>1 DEF Cache

\* The first packet of a queue is handled, and the rest stays
LEMMA KeptHandled ==
  ASSUME NEW queue \in Seq(Packets), queue # <<>>, NEW t, t = Tail(queue), NEW D, NEW m,
         \E n \in DOMAIN queue : queue[n] = Packet("relay", m),
         Head(queue).type = "relay" => Head(queue).body \in D
  PROVE  m \in D \/ \E n \in DOMAIN t : t[n] = Packet("relay", m)
<1>1. PICK n \in DOMAIN queue : queue[n] = Packet("relay", m)
  OBVIOUS
<1>2. queue[n] = Head(queue) \/ \E r \in DOMAIN t : t[r] = queue[n]
  <2>1. PICK u \in Seq(Packets) :
          /\ u = Tail(queue)
          /\ \A j \in DOMAIN queue : queue[j] = Head(queue) \/ \E r \in DOMAIN u : u[r] = queue[j]
    BY TailHolds
  <2> QED BY <2>1
<1>3. CASE queue[n] = Head(queue)
  BY <1>1, <1>3, PacketFields
<1> QED BY <1>1, <1>2, <1>3

LEMMA ClientHandlePacketStep ==
  ASSUME PeerInv, CleanInv, NEW i \in ConnIds, ClientHandlePacket(i)
  PROVE  PeerInv' /\ CleanInv'
<1>1. PICK c \in Connections : c = conn[i] /\ ConnOK(c) /\ Kept(c, delivered)
  BY ConnectionNow
<1>2. c.reading /\ c.back # <<>> /\ c.back \in Seq(Packets)
  BY <1>1 DEF ClientHandlePacket, Connections
<1>3. PICK t, x : t = Tail(c.back) /\ x = Head(c.back)
  OBVIOUS
<1>4. t \in Seq(Packets) /\ x \in Packets
  BY <1>2, <1>3
<1>5. PICK d : d = [c EXCEPT !.back = t]
  OBVIOUS
<1>6. conn' = [conn EXCEPT ![i] = d] /\ UNCHANGED peers
  BY <1>1, <1>3, <1>5 DEF ClientHandlePacket
<1>7. d \in Connections
  BY <1>4, <1>5 DEF Connections
<1>8. /\ d.client = c.client /\ d.reading = c.reading /\ d.wrap = c.wrap /\ d.up = c.up
      /\ d.from = c.from /\ d.to = c.to /\ d.sent = c.sent /\ d.stopped = c.stopped
      /\ d.server = c.server /\ d.out = c.out /\ d.back = t
  BY <1>5 DEF Connections
<1>9. c.client \in {"loops", "connected"} /\ c.from \in Kernels /\ c.to \in Kernels
  BY <1>1, <1>2 DEF ConnOK, Pairs
<1>10. ConnOK(d)
  BY <1>1, <1>7, <1>8, <1>9 DEF ConnOK
<1>11. delivered \subseteq delivered' /\ (x.type = "relay" => x.body \in delivered')
  BY <1>1, <1>3 DEF ClientHandlePacket
<1>12. Kept(d, delivered')
  <2> SUFFICES ASSUME d.up, ~d.stopped, NEW m \in d.sent, m \notin delivered'
               PROVE  \/ \E n \in DOMAIN c.out : c.out[n] = Packet("relay", m)
                      \/ \E n \in DOMAIN t : t[n] = Packet("relay", m)
    BY <1>8 DEF Kept
  <2>1. \/ \E n \in DOMAIN c.out : c.out[n] = Packet("relay", m)
        \/ \E n \in DOMAIN c.back : c.back[n] = Packet("relay", m)
    BY <1>1, <1>8, <1>11 DEF Kept
  <2>2. CASE \E n \in DOMAIN c.back : c.back[n] = Packet("relay", m)
    <3>1. PICK back \in Seq(Packets) : back = c.back
      BY <1>2
    <3>2. t = Tail(back) /\ (Head(back).type = "relay" => Head(back).body \in delivered') /\ back # <<>>
      BY <1>2, <1>3, <1>11, <3>1
    <3>3. \E n \in DOMAIN back : back[n] = Packet("relay", m)
      BY <2>2, <3>1
    <3>4. m \in delivered' \/ \E n \in DOMAIN t : t[n] = Packet("relay", m)
      BY <3>2, <3>3, KeptHandled
    <3> QED BY <3>4
  <2> QED BY <2>1, <2>2
<1>13. EntriesFollow(i, d)
  BY <1>1, <1>6, <1>8 DEF EntriesFollow, Advances
<1>14. ListShape'
  <2>1. UNCHANGED <<local, relayed, used>>
    BY DEF ClientHandlePacket
  <2>2. x.type = "syncack" => x.body \in SUBSET OnlineConnectors
    BY <1>4, ListsInPackets
  <2>3. UNCHANGED remoteConnectors \/ (x.type = "syncack" /\ Cache(c.from, c.to, x.body))
    BY <1>1, <1>3 DEF ClientHandlePacket
  <2>4. ListShape
    BY DEF PeerInv
  <2>5. remoteConnectors' \in [Kernels -> [Kernels -> SUBSET OnlineConnectors]]
    <3>1. CASE UNCHANGED remoteConnectors
      BY <3>1, <2>4 DEF ListShape
    <3>2. CASE x.type = "syncack" /\ Cache(c.from, c.to, x.body)
      BY <3>2, <2>2, <2>4, <1>9, CacheHolds
    <3> QED BY <2>3, <3>1, <3>2
  <2> QED BY <2>1, <2>4, <2>5 DEF ListShape
<1>15. PeerInv'
  BY <1>6, <1>10, <1>11, <1>12, <1>13, <1>14, ConnectionStep
<1>16. CleanInv'
  <2>1. used' = used
    BY DEF ClientHandlePacket
  <2>2. Clean(c) => Clean(d)
    BY <1>8 DEF Clean
  <2> QED BY <1>1, <1>6, <1>8, <2>1, <2>2, CleanSame
<1> QED BY <1>15, <1>16

LEMMA ServerHandlePacketStep ==
  ASSUME PeerInv, CleanInv, NEW i \in ConnIds, ServerHandlePacket(i)
  PROVE  PeerInv' /\ CleanInv'
<1>1. PICK c \in Connections : c = conn[i] /\ ConnOK(c) /\ Kept(c, delivered)
  BY ConnectionNow
<1>2. c.server = "serving" /\ c.out # <<>> /\ c.out \in Seq(Packets)
  BY <1>1 DEF ServerHandlePacket, Connections
<1>3. PICK t, x, back : t = Tail(c.out) /\ x = Head(c.out) /\ back = c.back
  OBVIOUS
<1>4. t \in Seq(Packets) /\ x \in Packets /\ back \in Seq(Packets)
  BY <1>2, <1>3 DEF Connections
<1>5. c.client \notin {"unused", "dial"} /\ c.from \in Kernels /\ c.to \in Kernels
      /\ <<c.from, c.to>> \in Pairs
  BY <1>1, <1>2 DEF ConnOK, Pairs
<1>6. delivered \subseteq delivered' /\ (x.type = "relay" => x.body \in delivered')
  BY <1>1, <1>3 DEF ServerHandlePacket
<1>7. ListShape'
  <2>1. UNCHANGED <<local, relayed, used>>
    BY DEF ServerHandlePacket
  <2>2. x.type = "sync" => x.body \in SUBSET OnlineConnectors
    BY <1>4, ListsInPackets
  <2>3. UNCHANGED remoteConnectors \/ (x.type = "sync" /\ Cache(c.to, c.from, x.body))
    BY <1>1, <1>3 DEF ServerHandlePacket
  <2>4. ListShape
    BY DEF PeerInv
  <2>5. remoteConnectors' \in [Kernels -> [Kernels -> SUBSET OnlineConnectors]]
    <3>1. CASE UNCHANGED remoteConnectors
      BY <3>1, <2>4 DEF ListShape
    <3>2. CASE x.type = "sync" /\ Cache(c.to, c.from, x.body)
      BY <3>2, <2>2, <2>4, <1>5, CacheHolds
    <3> QED BY <2>3, <3>1, <3>2
  <2> QED BY <2>1, <2>4, <2>5 DEF ListShape
<1>8. local[c.to] \in SUBSET OnlineConnectors
  BY <1>5 DEF PeerInv, ListShape
<1>9. PICK y \in Packets : y = Packet("syncack", local[c.to])
  BY <1>8, PacketsAre
<1>10. ASSUME NEW m \in c.sent, m \notin delivered', c.up, ~c.stopped
       PROVE  \/ \E n \in DOMAIN t : t[n] = Packet("relay", m)
              \/ \E n \in DOMAIN back : back[n] = Packet("relay", m)
  <2>1. \/ \E n \in DOMAIN c.out : c.out[n] = Packet("relay", m)
        \/ \E n \in DOMAIN back : back[n] = Packet("relay", m)
    BY <1>1, <1>3, <1>6, <1>10 DEF Kept
  <2>2. CASE \E n \in DOMAIN c.out : c.out[n] = Packet("relay", m)
    BY <2>2, <1>2, <1>3, <1>6, <1>10, KeptHandled
  <2> QED BY <2>1, <2>2
<1>14. used' = used /\ (Clean(c) => \A n \in DOMAIN t : t[n].type # "disconnect")
  <2>1. PICK u \in Seq(Packets) : u = Tail(c.out) /\ \A m \in DOMAIN u : \E n \in DOMAIN c.out : c.out[n] = u[m]
    BY <1>2, TailHolds
  <2>2. Clean(c) => \A n \in DOMAIN t : t[n].type # "disconnect"
    BY <2>1, <1>3 DEF Clean
  <2> QED BY <2>2 DEF ServerHandlePacket
<1>11. CASE x.type = "sync" /\ c.up
  <2>1. PICK a : a = Append(back, y)
    OBVIOUS
  <2>2. /\ a \in Seq(Packets) /\ a # <<>> /\ (back # <<>> => Head(a) = Head(back))
        /\ \A n \in DOMAIN back : n \in DOMAIN a /\ a[n] = back[n]
    <3>1. a \in Seq(Packets) /\ a # <<>> /\ (back # <<>> => Head(a) = Head(back))
      BY <1>4, <2>1, AppendHolds
    <3>2. \A n \in DOMAIN back : n \in DOMAIN a /\ a[n] = back[n]
      BY <1>4, <2>1, AppendHolds
    <3> QED BY <3>1, <3>2
  <2>3. PICK d : d = [c EXCEPT !.out = t, !.back = a]
    OBVIOUS
  <2>4. conn' = [conn EXCEPT ![i] = d] /\ UNCHANGED peers
    <3>1. conn' = [conn EXCEPT ![i] = [[c EXCEPT !.out = Tail(c.out)] EXCEPT !.back = Append(@, y)]]
          /\ UNCHANGED peers
      BY <1>1, <1>3, <1>9, <1>11 DEF ServerHandlePacket
    <3>2. d = [[c EXCEPT !.out = Tail(c.out)] EXCEPT !.back = Append(@, y)]
      BY <1>3, <2>1, <2>3 DEF Connections
    <3> QED BY <3>1, <3>2
  <2>5. d \in Connections
    BY <1>4, <2>2, <2>3 DEF Connections
  <2>6. /\ d.client = c.client /\ d.reading = c.reading /\ d.wrap = c.wrap /\ d.up = c.up
        /\ d.from = c.from /\ d.to = c.to /\ d.sent = c.sent /\ d.stopped = c.stopped
        /\ d.server = c.server /\ d.out = t /\ d.back = a
    BY <2>3 DEF Connections
  <2>7. ConnOK(d)
    <3>1. d.client = "shake" => Head(d.back).type = "ack"
      BY <1>1, <1>2, <1>3, <1>11, <2>2, <2>6 DEF ConnOK
    <3>2. (d.reading => d.client \in {"loops", "connected"})
          /\ (d.wrap => d.server \in {"serving", "ended"})
      BY <1>1, <2>6 DEF ConnOK
    <3> QED BY <1>2, <1>5, <2>2, <2>5, <2>6, <3>1, <3>2 DEF ConnOK
  <2>8. Kept(d, delivered')
    <3> SUFFICES ASSUME d.up, ~d.stopped, NEW m \in d.sent, m \notin delivered'
                 PROVE  \/ \E n \in DOMAIN t : t[n] = Packet("relay", m)
                        \/ \E n \in DOMAIN a : a[n] = Packet("relay", m)
      BY <2>6 DEF Kept
    <3>1. \/ \E n \in DOMAIN t : t[n] = Packet("relay", m)
          \/ \E n \in DOMAIN back : back[n] = Packet("relay", m)
      BY <1>10, <2>6
    <3> QED BY <3>1, <2>2
  <2>9. EntriesFollow(i, d)
    BY <1>1, <2>4, <2>6 DEF EntriesFollow, Advances
  <2>10. PeerInv'
    BY <1>6, <1>7, <2>4, <2>7, <2>8, <2>9, ConnectionStep
  <2>11. CleanInv'
    <3>1. Clean(c) => Clean(d)
      BY <1>14, <2>6 DEF Clean
    <3> QED BY <1>1, <1>14, <2>4, <2>6, <3>1, CleanSame
  <2> QED BY <2>10, <2>11
<1>12. CASE x.type = "disconnect"
  <2>1. PICK d : d = [c EXCEPT !.out = t, !.server = "ended", !.up = FALSE, !.back = <<>>]
    OBVIOUS
  <2>2. conn' = [conn EXCEPT ![i] = d] /\ SetStatus(c.to, c.from, "disconnected")
    <3>1. conn' = [conn EXCEPT ![i] = [[c EXCEPT !.out = Tail(c.out)]
                                         EXCEPT !.server = "ended", !.up = FALSE, !.back = <<>>]]
          /\ SetStatus(c.to, c.from, "disconnected")
      BY <1>1, <1>3, <1>12 DEF ServerHandlePacket
    <3>2. d = [[c EXCEPT !.out = Tail(c.out)] EXCEPT !.server = "ended", !.up = FALSE, !.back = <<>>]
      BY <1>3, <2>1 DEF Connections
    <3> QED BY <3>1, <3>2
  <2>3. <<>> \in Seq(Packets)
    OBVIOUS
  <2>4. d \in Connections
    BY <1>4, <2>1, <2>3 DEF Connections
  <2>5. /\ d.client = c.client /\ d.reading = c.reading /\ d.wrap = c.wrap /\ d.up = FALSE
        /\ d.from = c.from /\ d.to = c.to /\ d.server = "ended"
    BY <2>1 DEF Connections
  <2>6. ConnOK(d)
    BY <1>1, <1>5, <2>4, <2>5 DEF ConnOK
  <2>7. Kept(d, delivered')
    BY <2>5 DEF Kept
  <2>8. Advances(conn[i], d)
    BY <1>1, <2>5 DEF Advances
  <2>9. EntriesFollow(i, d)
    BY <1>5, <2>2, <2>8, StatusGiven
  <2>10. PeerInv'
    BY <1>6, <1>7, <2>2, <2>6, <2>7, <2>9, ConnectionStep
  <2>11. ~Clean(conn[i])
    <3>1. 1 \in DOMAIN c.out /\ c.out[1] = x
      BY <1>2, <1>3
    <3> QED BY <1>1, <1>12, <3>1 DEF Clean
  <2> QED BY <1>14, <2>10, <2>11, CleanBroken
<1>13. CASE ~(x.type = "sync" /\ c.up) /\ x.type # "disconnect"
  <2>1. PICK d : d = [c EXCEPT !.out = t]
    OBVIOUS
  <2>2. conn' = [conn EXCEPT ![i] = d] /\ UNCHANGED peers
    BY <1>1, <1>3, <1>13, <2>1 DEF ServerHandlePacket
  <2>3. d \in Connections
    BY <1>4, <2>1 DEF Connections
  <2>4. /\ d.client = c.client /\ d.reading = c.reading /\ d.wrap = c.wrap /\ d.up = c.up
        /\ d.from = c.from /\ d.to = c.to /\ d.sent = c.sent /\ d.stopped = c.stopped
        /\ d.server = c.server /\ d.out = t /\ d.back = c.back
    BY <2>1 DEF Connections
  <2>5. ConnOK(d)
    BY <1>1, <1>2, <1>5, <2>3, <2>4 DEF ConnOK
  <2>6. Kept(d, delivered')
    <3> SUFFICES ASSUME d.up, ~d.stopped, NEW m \in d.sent, m \notin delivered'
                 PROVE  \/ \E n \in DOMAIN t : t[n] = Packet("relay", m)
                        \/ \E n \in DOMAIN back : back[n] = Packet("relay", m)
      BY <1>3, <2>4 DEF Kept
    <3> QED BY <1>10, <2>4
  <2>7. EntriesFollow(i, d)
    BY <1>1, <2>2, <2>4 DEF EntriesFollow, Advances
  <2>8. PeerInv'
    BY <1>6, <1>7, <2>2, <2>5, <2>6, <2>7, ConnectionStep
  <2>9. CleanInv'
    <3>1. Clean(c) => Clean(d)
      BY <1>14, <2>4 DEF Clean
    <3> QED BY <1>1, <1>14, <2>2, <2>4, <3>1, CleanSame
  <2> QED BY <2>8, <2>9
<1> QED BY <1>11, <1>12, <1>13

LEMMA LocalChangesStep ==
  ASSUME PeerInv, CleanInv, NEW k \in Kernels, LocalChanges(k)
  PROVE  PeerInv' /\ CleanInv'
<1>1. PICK S \in SUBSET OnlineConnectors : local' = [local EXCEPT ![k] = S]
  BY DEF LocalChanges
<1>2. UNCHANGED <<conn, peers, remoteConnectors, relayed, delivered>> /\ used.changes < MaxChanges
      /\ used' = [used EXCEPT !.changes = used.changes + 1]
  BY DEF LocalChanges, relays, Count
<1>3. ListShape
  BY DEF PeerInv
<1>4. used \in [faults : 0 .. MaxFaults, changes : 0 .. MaxChanges] /\ MaxChanges \in Nat
  BY <1>3, PeerConstants DEF ListShape
<1>5. used' \in [faults : 0 .. MaxFaults, changes : 0 .. MaxChanges] /\ used'.faults = used.faults
  BY <1>2, <1>4
<1>6. ListShape'
  BY <1>1, <1>2, <1>3, <1>5 DEF ListShape
<1>7. PeerInv'
  BY <1>2, <1>6 DEF PeerInv
<1>8. CleanInv'
  BY <1>2, <1>5 DEF CleanInv, Untouched
<1> QED BY <1>7, <1>8

-----------------------------------------------------------------------------
(* The invariant *)

LEMMA PeerInitially == PeerInit => PeerInv /\ CleanInv
<1> SUFFICES ASSUME PeerInit PROVE PeerInv /\ CleanInv
  OBVIOUS
<1>1. \A i \in ConnIds : conn[i] = NoConn
  BY DEF PeerInit
<1>2. \A k \in Kernels, q \in Kernels : peers[k][q] = NoPeer
  BY DEF PeerInit
<1>3. NoConn \in Connections
  <2>1. <<>> \in Seq(Packets) /\ {} \in SUBSET RelayMessages /\ FALSE \in BOOLEAN
    OBVIOUS
  <2>2. PICK f, g : f = NoConn.from /\ g = NoConn.to
    OBVIOUS
  <2>3. NoConn = [from |-> f, to |-> g, client |-> "unused", stopped |-> FALSE, reading |-> FALSE,
                  server |-> "none", wrap |-> FALSE, up |-> FALSE, out |-> <<>>, back |-> <<>>,
                  sent |-> {}]
    BY <2>2 DEF NoConn
  <2>4. f \in Kernels \cup {NoConn.from} /\ g \in Kernels \cup {NoConn.to}
    BY <2>2
  <2> QED BY <2>1, <2>3, <2>4 DEF Connections
<1>4. /\ NoConn.client = "unused" /\ NoConn.server = "none" /\ ~NoConn.up /\ ~NoConn.wrap
      /\ ~NoConn.reading /\ ~NoConn.stopped /\ NoConn.sent = {} /\ NoConn.out = <<>> /\ NoConn.back = <<>>
  BY DEF NoConn
<1>5. ConnOK(NoConn) /\ Kept(NoConn, delivered) /\ Clean(NoConn)
  BY <1>3, <1>4 DEF ConnOK, Kept, Clean
<1>6. NoPeer \in Entries /\ NoPeer.conn = 0 /\ ~NoPeer.passive
  BY PeerConstants DEF NoPeer, Entries
<1>7. conn \in [ConnIds -> Connections] /\ peers \in [Kernels -> [Kernels -> Entries]]
  BY <1>3, <1>6 DEF PeerInit
<1>8. ListShape
  BY PeerConstants DEF PeerInit, ListShape
<1>9. \A p \in Pairs : peers[p[1]][p[2]] = NoPeer
  BY <1>2 DEF Pairs
<1>10. PeerInv
  BY <1>1, <1>5, <1>6, <1>7, <1>8, <1>9 DEF PeerInv
<1>11. Untouched
  BY <1>1, <1>4, <1>5, <1>6, <1>9 DEF Untouched
<1> QED BY <1>10, <1>11 DEF CleanInv

LEMMA PeerStepHolds ==
  ASSUME PeerInv, CleanInv, [PeerNext]_peerVars
  PROVE  PeerInv' /\ CleanInv'
<1>1. CASE UNCHANGED peerVars
  <2>1. PeerInv'
    BY <1>1 DEF peerVars, PeerInv, ListShape
  <2>2. CleanInv'
    BY <1>1 DEF peerVars, CleanInv, Untouched
  <2> QED BY <2>1, <2>2
<1>2. ASSUME NEW p \in Pairs, ConnectToPeer(p[1], p[2]) PROVE PeerInv' /\ CleanInv'
  BY <1>2, ConnectToPeerStep
<1>3. ASSUME NEW p \in Pairs, DisconnectFromPeer(p[1], p[2]) PROVE PeerInv' /\ CleanInv'
  BY <1>3, DisconnectFromPeerStep
<1>4. ASSUME NEW p \in Pairs, SyncConnectors(p[1], p[2]) PROVE PeerInv' /\ CleanInv'
  BY <1>4, SyncConnectorsStep
<1>5. ASSUME NEW p \in Pairs, RelayMessage(p[1], p[2]) PROVE PeerInv' /\ CleanInv'
  BY <1>5, RelayMessageStep
<1>6. ASSUME NEW k \in Busy, LocalChanges(k) PROVE PeerInv' /\ CleanInv'
  <2>1. k \in Kernels
    BY PeerConstants
  <2> QED BY <1>6, <2>1, LocalChangesStep
<1>7. ASSUME NEW i \in ConnIds, Dial(i) \/ DialFails(i) \/ HandshakeFails(i) \/ HandleHandshake(i)
      PROVE  PeerInv' /\ CleanInv'
  <2>1. CASE Dial(i)
    BY <2>1, DialStep
  <2>2. CASE DialFails(i)
    BY <2>2, DialFailsStep
  <2>3. CASE HandshakeFails(i)
    BY <2>3, HandshakeFailsStep
  <2>4. CASE HandleHandshake(i)
    BY <2>4, HandleHandshakeStep
  <2> QED BY <1>7, <2>1, <2>2, <2>3, <2>4
<1>8. ASSUME NEW i \in ConnIds, OnPeerConnected(i) \/ HandshakeDone(i) \/ Connected(i) \/ ConnBreaks(i)
      PROVE  PeerInv' /\ CleanInv'
  <2>1. CASE OnPeerConnected(i)
    BY <2>1, OnPeerConnectedStep
  <2>2. CASE HandshakeDone(i)
    BY <2>2, HandshakeDoneStep
  <2>3. CASE Connected(i)
    BY <2>3, ConnectedStep
  <2>4. CASE ConnBreaks(i)
    BY <2>4, ConnBreaksStep
  <2> QED BY <1>8, <2>1, <2>2, <2>3, <2>4
<1>9. ASSUME NEW i \in ConnIds, ReadError(i) \/ HeartbeatFails(i) PROVE PeerInv' /\ CleanInv'
  <2>1. /\ conn[i].client \in {"loops", "connected"} /\ ~conn[i].up /\ HandleDisconnect(i)
        /\ UNCHANGED <<chat, relays, used>>
    <3>1. ConnOK(conn[i])
      BY ConnectionNow
    <3> QED BY <1>9, <3>1 DEF ReadError, HeartbeatFails, ConnOK
  <2> QED BY <2>1, HandleDisconnectStep
<1>10. ASSUME NEW i \in ConnIds, \/ ServerReadError(i) \/ LateOnDisconnected(i)
                                 \/ ClientHandlePacket(i) \/ ServerHandlePacket(i)
       PROVE  PeerInv' /\ CleanInv'
  <2>1. CASE ServerReadError(i)
    BY <2>1, ServerReadErrorStep
  <2>2. CASE LateOnDisconnected(i)
    BY <2>2, LateOnDisconnectedStep
  <2>3. CASE ClientHandlePacket(i)
    BY <2>3, ClientHandlePacketStep
  <2>4. CASE ServerHandlePacket(i)
    BY <2>4, ServerHandlePacketStep
  <2> QED BY <1>10, <2>1, <2>2, <2>3, <2>4
<1> QED BY <1>1, <1>2, <1>3, <1>4, <1>5, <1>6, <1>7, <1>8, <1>9, <1>10 DEF PeerNext

LEMMA PeerInvariant == PeerSpec => [](PeerInv /\ CleanInv)
<1>1. PeerInit => PeerInv /\ CleanInv
  BY PeerInitially
<1>2. PeerInv /\ CleanInv /\ [PeerNext]_peerVars => PeerInv' /\ CleanInv'
  BY PeerStepHolds
<1> QED BY <1>1, <1>2, PTL DEF PeerSpec

\* OperatorPeer.RelayNotLost: whichever side dialled a connection, and whichever side sent on it, a
\* message that was relayed over it is in one of its queues or was given to the receiving kernel's
\* chat manager, as long as the connection works and its client was not closed (RelayMessage,
\* readLoop, handlePacket).
THEOREM RelayedMessagesAreKept == PeerSpec => []RelayNotLost
<1>1. PeerInv => RelayNotLost
  <2> SUFFICES ASSUME PeerInv, NEW i \in ConnIds, conn[i].up, ~conn[i].stopped, NEW m \in conn[i].sent
               PROVE  \/ m \in delivered
                      \/ \E queue \in {conn[i].out, conn[i].back} :
                           \E n \in DOMAIN queue : queue[n] = Packet("relay", m)
    BY DEF RelayNotLost
  <2>1. Kept(conn[i], delivered)
    BY ConnectionNow
  <2> QED BY <2>1 DEF Kept
<1> QED BY <1>1, PeerInvariant, PTL

LEMMA CleanSettles == PeerInv /\ CleanInv => SettledIsConnected
<1> SUFFICES ASSUME PeerInv, Untouched, Settled, NEW i \in ConnIds, conn[i].client # "unused",
                    NEW p \in {<<conn[i].from, conn[i].to>>, <<conn[i].to, conn[i].from>>}
             PROVE  LET e == peers[p[1]][p[2]]
                    IN  e.status = "connected" /\ IsConnected(e) /\ conn[e.conn].up
  BY DEF SettledIsConnected, CleanInv
<1>1. PICK c \in Connections : c = conn[i] /\ ConnOK(c) /\ Clean(c)
  BY ConnectionNow DEF Untouched
<1>2. <<c.from, c.to>> \in Pairs /\ c.from \in Kernels /\ c.to \in Kernels /\ <<c.to, c.from>> \in Pairs
  BY <1>1 DEF ConnOK, Pairs
<1>3. c.client = "connected" /\ c.server = "serving"
  BY <1>1 DEF Settled, Clean, Connections
<1>4. PICK k \in Kernels, q \in Kernels :
        /\ k = p[1] /\ q = p[2] /\ <<k, q>> \in Pairs /\ p \in Pairs
        /\ <<k, q>> \in {<<c.from, c.to>>, <<c.to, c.from>>}
  BY <1>1, <1>2
<1>5. PICK e : e = peers[k][q]
  OBVIOUS
<1>6. e.conn # 0
  BY <1>1, <1>3, <1>4, <1>5 DEF Untouched
<1>7. e.conn \in ConnIds /\ conn[e.conn].client # "unused"
      /\ (e.passive => conn[e.conn].server \in {"serving", "ended"})
  BY <1>4, <1>5, <1>6, EntryNow
<1>8. PICK d \in Connections : d = conn[e.conn] /\ ConnOK(d) /\ Clean(d)
  BY <1>7, ConnectionNow DEF Untouched
<1>9. d.client = "connected" /\ d.up /\ (e.passive => d.wrap)
  BY <1>7, <1>8 DEF Settled, Clean, Connections
<1>10. CleanEntry(k, q, e, d)
  BY <1>4, <1>5, <1>6, <1>8 DEF Untouched
<1>11. e.status = "connected"
  BY <1>9, <1>10 DEF CleanEntry
<1>12. IsConnected(e)
  BY <1>6, <1>8, <1>9 DEF IsConnected
<1> QED BY <1>4, <1>5, <1>8, <1>9, <1>11, <1>12

\* OperatorPeer.PeersConsistent: connections and entries are well formed; and for any number of
\* kernels and connections, in whatever order the kernels dial and accept each other, once the
\* handshakes are over and as long as nothing failed, both kernels of every connection have the
\* status "connected" and a Client on a working connection (ConnectToPeer, handleHandshake,
\* onPeerConnected, onConnected).
THEOREM CrossingDialsSettle == PeerSpec => []PeersConsistent
<1>1. PeerInv => PeerTypeOK
  <2> SUFFICES ASSUME PeerInv PROVE PeerTypeOK
    OBVIOUS
  <2>1. ASSUME NEW i \in ConnIds
        PROVE  /\ conn[i].client \in {"unused", "dial", "shake", "loops", "connected", "caught", "off"}
               /\ conn[i].server \in {"none", "open", "acked", "serving", "ended"}
               /\ conn[i].reading => conn[i].client \in {"loops", "connected"}
               /\ {conn[i].up, conn[i].wrap, conn[i].reading, conn[i].stopped} \subseteq BOOLEAN
    <3>1. PICK c \in Connections : c = conn[i] /\ ConnOK(c)
      BY ConnectionNow
    <3>2. /\ c.client \in {"unused", "dial", "shake", "loops", "connected", "caught", "off"}
          /\ c.server \in {"none", "open", "acked", "serving", "ended"}
          /\ c.up \in BOOLEAN /\ c.wrap \in BOOLEAN /\ c.reading \in BOOLEAN /\ c.stopped \in BOOLEAN
      BY DEF Connections
    <3>3. c.reading => c.client \in {"loops", "connected"}
      BY <3>1 DEF ConnOK
    <3>4. {c.up, c.wrap, c.reading, c.stopped} \subseteq BOOLEAN
      BY <3>2
    <3> QED BY <3>1, <3>2, <3>3, <3>4
  <2>2. ASSUME NEW p \in Pairs PROVE peers[p[1]][p[2]] \in Entries
    BY DEF Pairs, PeerInv
  <2>3. local \in [Kernels -> SUBSET OnlineConnectors]
        /\ remoteConnectors \in [Kernels -> [Kernels -> SUBSET OnlineConnectors]]
    BY DEF PeerInv, ListShape
  <2> QED BY <2>1, <2>2, <2>3 DEF PeerTypeOK, Entries
<1>2. PeerInv /\ CleanInv => PeersConsistent
  BY <1>1, CleanSettles DEF PeersConsistent
<1> QED BY <1>2, PeerInvariant, PTL
=============================================================================
