---------------------------- MODULE OperatorPeer ----------------------------
(***************************************************************************)
(* The direct TCP links between the operators of kernels                   *)
(* (kernel/operator_peer: client.go, server.go, manager.go), over which    *)
(* they exchange lists of online connectors and relay chat messages.       *)
(*                                                                         *)
(* A kernel has one entry per peer, with a status and a Client.  Two       *)
(* goroutines write it: ConnectToPeer, for a connection this kernel dials, *)
(* and the server, for one it accepts.  A dialled connection has a read    *)
(* loop and a heartbeat loop that notice its end; an accepted one is       *)
(* wrapped as a Client without either, and is connected until somebody     *)
(* closes it.  Both kernels dial each other when they interconnect, so the *)
(* two connections may cross.                                              *)
(*                                                                         *)
(* A connection delivers packets in order.  When it breaks, packets on the *)
(* way are lost; when one end closes it, the other still reads them.       *)
(***************************************************************************)
EXTENDS Naturals, Sequences, FiniteSets, SequencesExt

CONSTANTS
  Kernels,
  Busy,                \* the kernels whose connectors come, go and send
  OnlineConnectors,    \* connectors that may be online at a kernel
  MaxConns,            \* bound: connections in use at a time
  MaxRelays,           \* bound: messages relayed
  MaxFaults,           \* bound: connections that break, dials that fail, disconnect commands
  MaxChanges           \* bound: changes of the lists of online connectors

ASSUME PeerConstants ==
  /\ Busy \subseteq Kernels
  /\ MaxConns \in Nat \ {0}
  /\ {MaxRelays, MaxFaults, MaxChanges} \subseteq Nat

VARIABLES
  conn,                \* connections with both of their ends
  peers,               \* P2PManager.peers of each kernel
  local,               \* GetLocalConnectors of each kernel
  remoteConnectors,    \* TempChatManager.remoteConnectors of each kernel
  relayed,             \* messages relayed so far
  delivered,           \* messages given to the receiving kernel's chat manager
  used                 \* faults and changes so far

peerVars == <<conn, peers, local, remoteConnectors, relayed, delivered, used>>
chat == <<local, remoteConnectors>>
relays == <<relayed, delivered>>

ConnIds == 1..MaxConns
Pairs == {p \in Kernels \X Kernels : p[1] # p[2]}
NoPeer == [status |-> "none", conn |-> 0, passive |-> FALSE]
NoConn == [from |-> CHOOSE k \in Kernels : TRUE, to |-> CHOOSE k \in Kernels : TRUE,
           client |-> "unused", stopped |-> FALSE, reading |-> FALSE,
           server |-> "none", wrap |-> FALSE, up |-> FALSE,
           out |-> <<>>, back |-> <<>>, sent |-> {}]

Packet(type, body) == [type |-> type, body |-> body]

\* PeerClient.IsConnected, of a dialled client or of a wrapped connection
IsConnected(p) ==
  /\ p.conn # 0
  /\ IF p.passive THEN conn[p.conn].wrap ELSE conn[p.conn].client = "connected"

IsPeerConnected(k, q) == peers[k][q].status = "connected"

\* A connection nobody refers to any more is forgotten, and its number used again
Forgotten(i) ==
  \/ conn[i].client = "unused"
  \/ /\ conn[i].client = "off" /\ ~conn[i].reading /\ conn[i].server \in {"none", "ended"}
     /\ \A p \in Pairs : peers[p[1]][p[2]].conn # i

PeerInit ==
  /\ conn = [i \in ConnIds |-> NoConn]
  /\ peers = [k \in Kernels |-> [q \in Kernels |-> NoPeer]]
  /\ local = [k \in Kernels |-> {}]
  /\ remoteConnectors = [k \in Kernels |-> [q \in Kernels |-> {}]]
  /\ relayed = 0 /\ delivered = {}
  /\ used = [faults |-> 0, changes |-> 0]

Count(what) == used' = [used EXCEPT ![what] = @ + 1]
SetPeer(k, q, p) == peers' = [peers EXCEPT ![k][q] = p]
\* the callbacks change the status of whatever entry is there
SetStatus(k, q, s) ==
  peers' = IF peers[k][q] = NoPeer THEN peers ELSE [peers EXCEPT ![k][q].status = s]

-----------------------------------------------------------------------------
(* Connecting *)

\* ConnectToPeer registers an entry with a new client, unless the present one is connected
ConnectToPeer(k, q) ==
  \E i \in ConnIds :
    /\ Forgotten(i) /\ \A j \in 1..(i - 1) : ~Forgotten(j)
    /\ ~IsConnected(peers[k][q])
    /\ conn' = [conn EXCEPT ![i] = [NoConn EXCEPT !.from = k, !.to = q, !.client = "dial"]]
    /\ SetPeer(k, q, [status |-> "connecting", conn |-> i, passive |-> FALSE])
    /\ UNCHANGED <<chat, relays, used>>

\* EnsurePeerConnected and connectP2PToKernel, for a peer whose status is not "connected"
EnsurePeerConnected(k, q) == ~IsPeerConnected(k, q) /\ ConnectToPeer(k, q)

\* The TCP connection is there, and the handshake is sent on it
Dial(i) ==
  /\ conn[i].client = "dial"
  /\ conn' = [conn EXCEPT ![i].client = "shake", ![i].up = TRUE, ![i].server = "open",
                          ![i].out = <<Packet("handshake", 0)>>]
  /\ UNCHANGED <<peers, chat, relays, used>>

\* Connect fails, and ConnectToPeer deletes the entry, whosever it is by now
Fail(i) ==
  /\ conn' = [conn EXCEPT ![i].client = "off", ![i].up = FALSE]
  /\ SetPeer(conn[i].from, conn[i].to, NoPeer)
  /\ UNCHANGED <<chat, relays>>

DialFails(i) ==
  /\ conn[i].client = "dial" /\ used.faults < MaxFaults
  /\ Fail(i) /\ Count("faults")

HandshakeFails(i) ==
  /\ conn[i].client = "shake" /\ ~conn[i].up /\ conn[i].back = <<>>
  /\ Fail(i) /\ UNCHANGED used

\* handleHandshake of server and manager: the entry becomes connected, and the ack is sent
HandleHandshake(i) ==
  LET k == conn[i].to  q == conn[i].from
  IN  /\ conn[i].server = "open" /\ conn[i].out # <<>> /\ Head(conn[i].out).type = "handshake"
      /\ peers' = [peers EXCEPT ![k][q].status = "connected"]
      /\ conn' = [conn EXCEPT ![i].server = IF conn[i].up THEN "acked" ELSE "serving",
                              ![i].out = Tail(@),
                              ![i].back = IF conn[i].up THEN Append(@, Packet("ack", 0)) ELSE @]
      /\ UNCHANGED <<chat, relays, used>>

\* mutant: the entry is marked, and its Client left as it is
OnPeerConnectedOnlyStatus(i) ==
  /\ conn[i].server = "acked"
  /\ peers' = [peers EXCEPT ![conn[i].to][conn[i].from].status = "connected"]
  /\ conn' = [conn EXCEPT ![i].server = "serving"]
  /\ UNCHANGED <<chat, relays, used>>

\* onPeerConnected: the accepted connection becomes the Client of the entry
OnPeerConnected(i) ==
  LET k == conn[i].to  q == conn[i].from
  IN  /\ conn[i].server = "acked"
      /\ SetPeer(k, q, [status |-> "connected", conn |-> i, passive |-> TRUE])
      /\ conn' = [conn EXCEPT ![i].server = "serving", ![i].wrap = TRUE]
      /\ UNCHANGED <<chat, relays, used>>

\* sendHandshake gets the ack, and Connect starts the two loops
HandshakeDone(i) ==
  /\ conn[i].client = "shake" /\ conn[i].back # <<>>
  /\ conn' = [conn EXCEPT ![i].client = "loops", ![i].back = Tail(@),
                          ![i].reading = ~conn[i].stopped]
  /\ UNCHANGED <<peers, chat, relays, used>>

\* Only then is the client connected, and onConnected called
Connected(i) ==
  /\ conn[i].client = "loops"
  /\ conn' = [conn EXCEPT ![i].client = "connected"]
  /\ SetStatus(conn[i].from, conn[i].to, "connected")
  /\ UNCHANGED <<chat, relays, used>>

-----------------------------------------------------------------------------
(* The end of a connection *)

\* The network fails
ConnBreaks(i) ==
  /\ conn[i].up /\ used.faults < MaxFaults
  /\ conn' = [conn EXCEPT ![i].up = FALSE, ![i].out = <<>>, ![i].back = <<>>]
  /\ Count("faults")
  /\ UNCHANGED <<peers, chat, relays>>

\* PeerClient.handleDisconnect, which acts only on a client that is connected
HandleDisconnect(i) ==
  IF conn[i].client = "connected"
    THEN /\ conn' = [conn EXCEPT ![i].client = "off", ![i].up = FALSE, ![i].reading = FALSE]
         /\ SetStatus(conn[i].from, conn[i].to, "disconnected")
    ELSE /\ conn' = [conn EXCEPT ![i].reading = FALSE]
         /\ UNCHANGED peers

\* readLoop gets an error; it may be early, before the client counts as connected
ReadError(i) ==
  /\ conn[i].reading /\ ~conn[i].up /\ conn[i].back = <<>>
  /\ HandleDisconnect(i)
  /\ UNCHANGED <<chat, relays, used>>

\* mutant: the heartbeat loop only logs
HeartbeatLogs(i) ==
  /\ conn[i].client = "connected" /\ ~conn[i].up /\ ~conn[i].stopped
  /\ UNCHANGED peerVars

\* heartbeatLoop cannot write
HeartbeatFails(i) ==
  /\ conn[i].client = "connected" /\ ~conn[i].up /\ ~conn[i].stopped
  /\ HandleDisconnect(i)
  /\ UNCHANGED <<chat, relays, used>>

\* handleConnection gets an error: the connection is closed, and the manager not told
ServerReadError(i) ==
  /\ conn[i].server \in {"open", "serving"} /\ ~conn[i].up /\ conn[i].out = <<>>
  /\ conn' = [conn EXCEPT ![i].server = "ended"]
  /\ UNCHANGED <<peers, chat, relays, used>>

\* DisconnectFromPeer: Client.Close tells the peer and closes the connection, and the entry is
\* deleted.  readLoop may see the close before connected is cleared; then it goes on to
\* onDisconnected ("caught").  A client that is still connecting is stopped, but not told.
DisconnectFromPeer(k, q) ==
  LET p == peers[k][q]
      i == p.conn
      c == conn[i]
      bye == Packet("disconnect", 0)
      down == [c EXCEPT !.up = FALSE, !.reading = FALSE]
  IN  /\ i # 0 /\ used.faults < MaxFaults
      /\ IF p.passive
           THEN conn' = [conn EXCEPT ![i] =
                  [c EXCEPT !.up = FALSE, !.wrap = FALSE, !.out = <<>>,
                            !.back = IF c.up THEN Append(@, bye) ELSE @]]
           ELSE \E caught \in BOOLEAN :
                  /\ caught => c.client = "connected" /\ c.up
                  /\ conn' = [conn EXCEPT ![i] =
                       [down EXCEPT !.stopped = TRUE, !.back = <<>>,
                                    !.client = IF caught THEN "caught"
                                               ELSE IF @ = "connected" THEN "off" ELSE @,
                                    !.out = IF c.up THEN Append(@, bye) ELSE @]]
      /\ SetPeer(k, q, NoPeer)
      /\ Count("faults")
      /\ UNCHANGED <<chat, relays>>

LateOnDisconnected(i) ==
  /\ conn[i].client = "caught"
  /\ conn' = [conn EXCEPT ![i].client = "off"]
  /\ SetStatus(conn[i].from, conn[i].to, "disconnected")
  /\ UNCHANGED <<chat, relays, used>>

-----------------------------------------------------------------------------
(* Packets *)

Holds(queue, type) == \E n \in DOMAIN queue : queue[n].type = type

\* Write a packet on the Client of an entry
Write(p, packet, messages) ==
  LET c == conn[p.conn]
  IN  conn' = [conn EXCEPT ![p.conn] =
        IF ~c.up THEN c
        ELSE IF p.passive THEN [c EXCEPT !.back = Append(@, packet), !.sent = @ \union messages]
        ELSE [c EXCEPT !.out = Append(@, packet), !.sent = @ \union messages]]

\* syncConnectors and syncConnectorsToPeer.  A list is sent again and again; the model sends one
\* when it or its answer would be news, and one at a time in each direction.
SyncConnectors(k, q) ==
  LET p == peers[k][q]
      c == conn[p.conn]
  IN  /\ IsConnected(p) /\ c.up
      /\ local[k] \notin {{}, remoteConnectors[q][k]} \/ local[q] \notin {{}, remoteConnectors[k][q]}
      /\ IF p.passive THEN ~Holds(c.back, "sync") ELSE ~Holds(c.out, "sync") /\ ~Holds(c.back, "syncack")
      /\ Write(p, Packet("sync", local[k]), {})
      /\ UNCHANGED <<peers, chat, relays, used>>

\* RelayMessage, after EnsurePeerConnected found the peer connected; what is written on a
\* connection that is down is lost
RelayMessage(k, q) ==
  LET m == [n |-> relayed + 1, to |-> q]
  IN  /\ k \in Busy /\ relayed < MaxRelays
      /\ IsPeerConnected(k, q) /\ IsConnected(peers[k][q])
      /\ Write(peers[k][q], Packet("relay", m), {m})
      /\ relayed' = relayed + 1
      /\ UNCHANGED <<peers, chat, delivered, used>>

\* SetRemoteConnectors, called for lists that are not empty
Cache(k, q, list) ==
  remoteConnectors' = IF list = {} THEN remoteConnectors
                                   ELSE [remoteConnectors EXCEPT ![k][q] = list]

\* mutant: relayed messages are treated like lists
IncomingIgnored(i) ==
  /\ conn[i].reading /\ conn[i].back # <<>>
  /\ conn' = [conn EXCEPT ![i].back = Tail(@)]
  /\ UNCHANGED <<peers, chat, relays, used>>

\* The dialling side: readLoop and handleIncomingMessage.  A list the other side sends by itself
\* is parsed and dropped; one that answers ours is stored.
ClientHandlePacket(i) ==
  LET k == conn[i].from  q == conn[i].to  packet == Head(conn[i].back)
  IN  /\ conn[i].reading /\ conn[i].back # <<>>
      /\ conn' = [conn EXCEPT ![i].back = Tail(@)]
      /\ IF packet.type = "syncack" /\ peers[k][q] # NoPeer
           THEN Cache(k, q, packet.body) ELSE UNCHANGED remoteConnectors
      /\ delivered' = IF packet.type = "relay" THEN delivered \union {packet.body} ELSE delivered
      /\ UNCHANGED <<peers, local, relayed, used>>

\* mutant: the answer to a list carries none
ServerAnswersNothing(i) ==
  LET k == conn[i].to  q == conn[i].from  packet == Head(conn[i].out)
      rest == [conn[i] EXCEPT !.out = Tail(@)]
  IN  /\ conn[i].server = "serving" /\ conn[i].out # <<>>
      /\ conn' = [conn EXCEPT ![i] =
           CASE packet.type = "sync" /\ conn[i].up ->
                  [rest EXCEPT !.back = Append(@, Packet("syncack", {}))]
             [] packet.type = "disconnect" -> [rest EXCEPT !.server = "ended", !.up = FALSE, !.back = <<>>]
             [] OTHER -> rest]
      /\ IF packet.type = "sync" THEN Cache(k, q, packet.body) ELSE UNCHANGED remoteConnectors
      /\ delivered' = IF packet.type = "relay" THEN delivered \union {packet.body} ELSE delivered
      /\ IF packet.type = "disconnect" THEN SetStatus(k, q, "disconnected") ELSE UNCHANGED peers
      /\ UNCHANGED <<local, relayed, used>>

\* The accepting side: handlePacket of the server.  A list is stored and answered by our own; a
\* Disconnect ends the connection.
ServerHandlePacket(i) ==
  LET k == conn[i].to  q == conn[i].from  packet == Head(conn[i].out)
      rest == [conn[i] EXCEPT !.out = Tail(@)]
  IN  /\ conn[i].server = "serving" /\ conn[i].out # <<>>
      /\ conn' = [conn EXCEPT ![i] =
           CASE packet.type = "sync" /\ conn[i].up ->
                  [rest EXCEPT !.back = Append(@, Packet("syncack", local[k]))]
             [] packet.type = "disconnect" -> [rest EXCEPT !.server = "ended", !.up = FALSE, !.back = <<>>]
             [] OTHER -> rest]
      /\ IF packet.type = "sync" THEN Cache(k, q, packet.body) ELSE UNCHANGED remoteConnectors
      /\ delivered' = IF packet.type = "relay" THEN delivered \union {packet.body} ELSE delivered
      /\ IF packet.type = "disconnect" THEN SetStatus(k, q, "disconnected") ELSE UNCHANGED peers
      /\ UNCHANGED <<local, relayed, used>>

\* Chat sessions of kernel k come and go
LocalChanges(k) ==
  /\ used.changes < MaxChanges
  /\ \E S \in SUBSET OnlineConnectors : S # local[k] /\ local' = [local EXCEPT ![k] = S]
  /\ Count("changes")
  /\ UNCHANGED <<conn, peers, remoteConnectors, relays>>

-----------------------------------------------------------------------------
PeerNext ==
  \/ \E p \in Pairs :
       \/ ConnectToPeer(p[1], p[2]) \/ DisconnectFromPeer(p[1], p[2])
       \/ SyncConnectors(p[1], p[2]) \/ RelayMessage(p[1], p[2])
  \/ \E k \in Busy : LocalChanges(k)
  \/ \E i \in ConnIds :
       \/ Dial(i) \/ DialFails(i) \/ HandshakeFails(i) \/ HandleHandshake(i) \/ OnPeerConnected(i)
       \/ HandshakeDone(i) \/ Connected(i) \/ ConnBreaks(i) \/ ReadError(i) \/ HeartbeatFails(i)
       \/ ServerReadError(i) \/ LateOnDisconnected(i)
       \/ ClientHandlePacket(i) \/ ServerHandlePacket(i)

\* The goroutines of a connection run, and syncLoop ticks
Fairness ==
  /\ \A i \in ConnIds :
       /\ WF_peerVars(Dial(i) \/ HandshakeFails(i) \/ HandshakeDone(i) \/ Connected(i))
       /\ WF_peerVars(HandleHandshake(i) \/ OnPeerConnected(i) \/ ServerReadError(i)
                  \/ ServerHandlePacket(i))
       /\ WF_peerVars(ReadError(i) \/ ClientHandlePacket(i) \/ LateOnDisconnected(i))
       /\ WF_peerVars(HeartbeatFails(i))
  /\ \A p \in Pairs :
       WF_peerVars(SyncConnectors(p[1], p[2])) /\ WF_peerVars(EnsurePeerConnected(p[1], p[2]))

PeerSpec == PeerInit /\ [][PeerNext]_peerVars /\ Fairness

-----------------------------------------------------------------------------
\* Both ends of every connection and every entry have their types; only a dialled end that is being
\* set up or connected has a read loop
PeerTypeOK ==
  /\ \A i \in ConnIds :
       /\ conn[i].client \in {"unused", "dial", "shake", "loops", "connected", "caught", "off"}
       /\ conn[i].server \in {"none", "open", "acked", "serving", "ended"}
       /\ conn[i].reading => conn[i].client \in {"loops", "connected"}
       /\ {conn[i].up, conn[i].wrap, conn[i].reading, conn[i].stopped} \subseteq BOOLEAN
  /\ \A p \in Pairs : peers[p[1]][p[2]] \in
       [status : {"none", "connecting", "connected", "disconnected"}, conn : 0..MaxConns,
        passive : BOOLEAN]
  /\ local \in [Kernels -> SUBSET OnlineConnectors]
  /\ remoteConnectors \in [Kernels -> [Kernels -> SUBSET OnlineConnectors]]

\* nobody is between two steps of setting up a connection
Settled ==
  \A i \in ConnIds : conn[i].client \notin {"dial", "shake", "loops"}
                     /\ conn[i].server \notin {"open", "acked"}

\* Whatever the order in which two kernels dial and accept each other, also twice or crossing:
\* once the handshakes are over, and as long as nothing failed and nobody disconnected, a kernel
\* that has a connection with a peer has the status "connected" and a Client on a working
\* connection (ConnectToPeer, handleHandshake, onPeerConnected, onConnected).
SettledIsConnected ==
  Settled /\ used.faults = 0 =>
    \A i \in ConnIds : conn[i].client # "unused" =>
      \A p \in {<<conn[i].from, conn[i].to>>, <<conn[i].to, conn[i].from>>} :
        LET e == peers[p[1]][p[2]]
        IN  e.status = "connected" /\ IsConnected(e) /\ conn[e.conn].up

\* A message that was relayed over a connection which still works is on its way or delivered,
\* whichever side dialled: the two sides handle it in different code.
RelayNotLost ==
  \A i \in ConnIds : conn[i].up /\ ~conn[i].stopped =>
    \A m \in conn[i].sent :
      \/ m \in delivered
      \/ \E queue \in {conn[i].out, conn[i].back} :
           \E n \in DOMAIN queue : queue[n] = Packet("relay", m)

\* The end of a dialled connection is always noticed, even when the read loop fails before the
\* client counts as connected and so cannot report it (readLoop, heartbeatLoop).  A client that was
\* closed while it was connecting has no loops, and is left alone.
DialledEndIsNoticed ==
  \A i \in ConnIds :
    (conn[i].client = "connected" /\ ~conn[i].up /\ ~conn[i].stopped) ~> conn[i].client # "connected"

\* kernel k uses a connection it dialled to q
Uses(k, q) ==
  LET p == peers[k][q] IN IsConnected(p) /\ ~p.passive /\ conn[p.conn].up

\* When a kernel keeps using a connection it dialled, both sides come to know the other's
\* connectors (an empty list is never stored: syncConnectors, handleSyncConnectors, onSyncAck).
DialledLinkSyncs ==
  \A p \in Pairs :
    <>[]Uses(p[1], p[2]) =>
      <>[](/\ local[p[1]] # {} => remoteConnectors[p[2]][p[1]] = local[p[1]]
           /\ local[p[2]] # {} => remoteConnectors[p[1]][p[2]] = local[p[2]])

\* SAFETY.  Connections and entries are well formed, and crossing dials settle (ConnectToPeer,
\* onPeerConnected)
PeersConsistent == PeerTypeOK /\ SettledIsConnected
=============================================================================
