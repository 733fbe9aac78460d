--------------------------- MODULE MultiHopRoute ----------------------------
(***************************************************************************)
(* A kernel establishes a multi-hop route (ConnectMultiHopRoute and the    *)
(* approvals it waits for, in multi_kernel_manager.go): it asks the        *)
(* kernels of the route one after the other for a link, keeps the requests *)
(* that must be approved there, and is told of every approval, which makes *)
(* it dial again.  Self is that kernel; of the others there is only what   *)
(* their part in an approval needs.  How links come about in general is    *)
(* KernelLink, here a dial is one step, being made under kernelsMu.        *)
(***************************************************************************)
EXTENDS RouteStore

CONSTANTS
  Self,
  Peers,
  MaxFailures          \* bound: calls that fail, links cut, kernels restarted

ASSUME RouteConstants ==
  /\ MaxFailures \in Nat
  /\ Self \notin Peers /\ NoKernel \notin Peers \cup {Self}

VARIABLES
  linked,              \* kernels: the peers with a connection and a client
  knows,               \* the peers that have this kernel among theirs
  agreed,              \* the peers that ever approved a request or were introduced
  requests,            \* pendingRequests of the peers, for requests of this kernel
  approving,           \* ApprovePendingRequest at a peer, and how far it is
  pendingHops,
  table,               \* multiHopSessions: session of every route name, 0 for none
  sessions,            \* every MultiHopSession there was
  shell,               \* the connect-route under way
  retries,             \* goroutines of OnMultiHopApproved
  failures             \* failures so far

netVars == <<linked, knows, agreed, requests, approving>>
routeVars == <<pendingHops, table, sessions, shell, retries>>
setupVars == <<storeVars, netVars, routeVars, failures>>

Ids == Nat \ {0}

\* PendingHopInfo, without the addresses
Hop(id, route, num, peer) == [id |-> id, route |-> route, num |-> num, peer |-> peer]

\* MultiHopSession: Hops by hop number, how often AllDone was closed, and the goroutine of
\* waitForMultiHopApprovals; members are the kernels of the route
Session(c) ==
  [route |-> c.route, hops |-> {}, closed |-> 0, waits |-> FALSE,
   members |-> UNION {{c.hops[i].from, c.hops[i].to} : i \in DOMAIN c.hops} \ {Self}]

Idle == [at |-> "idle", todo |-> <<>>, pending |-> FALSE, hop |-> Hop(0, "", 0, NoKernel)]

\* The kernels dialled for a configuration: the end of every hop, and after that of the first
\* also its beginning
TargetsOf(c) ==
  LET Target(i, k) == [num |-> i, peer |-> k]
  IN  [i \in 1 .. Len(c.hops) + 1 |->
         IF i = 2 THEN Target(1, c.hops[1].from)
         ELSE LET h == IF i = 1 THEN 1 ELSE i - 1 IN Target(h, c.hops[h].to)]

SetupInit ==
  /\ StoreInit
  /\ linked = {} /\ knows = {} /\ agreed = {} /\ requests = {} /\ approving = {}
  /\ pendingHops = {} /\ retries = {} /\ shell = Idle /\ failures = 0
  /\ table = [n \in Names |-> 0] /\ sessions = <<>>

Failure == failures < MaxFailures /\ failures' = failures + 1

\* The id of the next request, a new UUID
Used == {r.id : r \in requests \cup approving \cup pendingHops \cup retries}
NewId == Min((1 .. Cardinality(Used) + 1) \ Used)

-----------------------------------------------------------------------------
(* ConnectMultiHopRoute *)

\* ValidateMultiHopConfig
Contiguous(c) ==
  c.hops # <<>> /\ \A i \in 2 .. Len(c.hops) : c.hops[i - 1].to = c.hops[i].from

\* A new session takes the place of the one of that name
BeginSession(c) ==
  /\ shell.at = "idle" /\ Command
  /\ sessions' = Append(sessions, Session(c))
  /\ table' = [table EXCEPT ![c.route] = Len(sessions')]
  /\ shell' = [Idle EXCEPT !.at = "connect", !.todo = TargetsOf(c)]
  /\ UNCHANGED <<files, objects, cache, writeFailed, netVars, pendingHops, retries, failures>>

\* handleConnectRoute
ConnectRoute(n) == cache[n] # 0 /\ Contiguous(LoadConfig(n)) /\ BeginSession(LoadConfig(n))

\* ConnectToKernelViaRoute, for connect-kernel with a route: nothing is validated
ConnectToKernelViaRoute(n) ==
  cache[n] # 0 /\ LoadConfig(n).hops # <<>> /\ BeginSession(LoadConfig(n))

Now == Len(sessions)
Dials(p) == shell.at = "connect" /\ shell.todo # <<>> /\ Head(shell.todo).peer = p
NextTarget == shell' = [shell EXCEPT !.at = "connect", !.todo = Tail(@)]

\* This kernel itself, and one that is linked, is passed over
SkipTarget(p) ==
  /\ Dials(p) /\ p \in linked \cup {Self}
  /\ NextTarget
  /\ UNCHANGED <<storeVars, netVars, pendingHops, table, sessions, retries, failures>>

\* connectToKernelInternal with a request: a kernel that knows this one answers "already
\* registered", which is as good as a link; another keeps the request; or the call fails,
\* which ends the command and leaves the session in the table
ConnectTarget(p) ==
  /\ Dials(p) /\ p \in Peers \ linked
  /\ \/ /\ p \in knows
        /\ linked' = linked \cup {p}
        /\ NextTarget
        /\ UNCHANGED <<requests, failures>>
     \/ /\ p \notin knows
        /\ requests' = requests \cup {[id |-> NewId, peer |-> p]}
        /\ shell' = [shell EXCEPT !.at = "register",
             !.hop = Hop(NewId, sessions[Now].route, Head(shell.todo).num, p)]
        /\ UNCHANGED <<linked, failures>>
     \/ /\ Failure
        /\ shell' = Idle
        /\ UNCHANGED <<linked, requests>>
  /\ UNCHANGED <<storeVars, knows, agreed, approving, pendingHops, table, sessions, retries>>

\* RegisterPendingHop: first for the notifications
RegisterPendingHop ==
  /\ shell.at = "register"
  /\ pendingHops' = pendingHops \cup {shell.hop}
  /\ shell' = [shell EXCEPT !.at = "add"]
  /\ UNCHANGED <<storeVars, netVars, table, sessions, retries, failures>>

\* mutant: a hop that waits for approval ends the command
AddHopLast ==
  /\ shell.at = "add"
  /\ sessions' = [sessions EXCEPT ![Now].hops = {h \in @ : h.num # shell.hop.num} \cup {shell.hop}]
  /\ shell' = [shell EXCEPT !.at = "connect", !.todo = <<>>, !.pending = TRUE]
  /\ UNCHANGED <<storeVars, netVars, pendingHops, table, retries, failures>>

\* then in the session, where the two hops of number 1 have one place
AddHop ==
  /\ shell.at = "add"
  /\ sessions' = [sessions EXCEPT ![Now].hops = {h \in @ : h.num # shell.hop.num} \cup {shell.hop}]
  /\ shell' = [shell EXCEPT !.at = "connect", !.todo = Tail(@), !.pending = TRUE]
  /\ UNCHANGED <<storeVars, netVars, pendingHops, table, retries, failures>>

\* All kernels have been dialled; a goroutine waits for the approvals, if there are any
ConnectReturns ==
  /\ shell.at = "connect" /\ shell.todo = <<>>
  /\ sessions' = [sessions EXCEPT ![Now].waits = shell.pending]
  /\ shell' = Idle
  /\ UNCHANGED <<storeVars, netVars, pendingHops, table, retries, failures>>

\* waitForMultiHopApprovals: AllDone is closed
WaitEnds(s) ==
  /\ sessions[s].waits /\ sessions[s].closed > 0
  /\ sessions' = [sessions EXCEPT ![s].waits = FALSE]
  /\ UNCHANGED <<storeVars, netVars, pendingHops, table, shell, retries, failures>>

\* Two minutes are over: the session of that name is removed, be it this one or a later one
WaitTimeout(s) ==
  /\ sessions[s].waits
  /\ sessions' = [sessions EXCEPT ![s].waits = FALSE]
  /\ table' = [table EXCEPT ![sessions[s].route] = 0]
  /\ UNCHANGED <<storeVars, netVars, pendingHops, shell, retries, failures>>

-----------------------------------------------------------------------------
(* ApprovePendingRequest at a peer *)

\* The request is removed; to a kernel it knows already the peer sends nothing.  Otherwise
\* sendInterconnectApprove: RegisterKernel here makes the entry and its client, or the call
\* fails and the request is lost
ApprovePendingRequest(r) ==
  /\ r \in requests /\ \A a \in approving : a.peer # r.peer
  /\ requests' = requests \ {r}
  /\ agreed' = agreed \cup {r.peer}
  /\ \/ /\ r.peer \in knows
        /\ UNCHANGED <<linked, approving, failures>>
     \/ /\ r.peer \notin knows
        /\ linked' = linked \cup {r.peer}
        /\ approving' = approving \cup {[id |-> r.id, peer |-> r.peer, at |-> "notify"]}
        /\ UNCHANGED failures
     \/ /\ r.peer \notin knows /\ Failure
        /\ UNCHANGED <<linked, approving>>
  /\ UNCHANGED <<storeVars, knows, routeVars>>

Goes(a, at) == approving' = (approving \ {a}) \cup {[a EXCEPT !.at = at]}

Found(id) == {h \in pendingHops : h.id = id}
Retry(h) == [id |-> h.id, hop |-> h, at |-> "dial"]

\* NotifyMultiHopApproved, and OnMultiHopApproved here: a hop that is not registered (or not
\* yet) is passed over
NotifyMultiHopApproved(a) ==
  /\ a \in approving /\ a.at = "notify"
  /\ retries' = retries \cup {Retry(h) : h \in Found(a.id)}
  /\ Goes(a, "dial")
  /\ UNCHANGED <<storeVars, linked, knows, agreed, requests, pendingHops, table, sessions, shell, failures>>

\* The peer dials this kernel
DialBack(a) ==
  /\ a \in approving /\ a.at = "dial"
  /\ linked' = linked \cup {a.peer} /\ knows' = knows \cup {a.peer}
  /\ approving' = approving \ {a}
  /\ UNCHANGED <<storeVars, agreed, requests, routeVars, failures>>

\* A call of the peer fails: without the notification it goes on
ApproveFails(a) ==
  /\ a \in approving /\ Failure
  /\ IF a.at = "notify" THEN Goes(a, "dial") ELSE approving' = approving \ {a}
  /\ UNCHANGED <<storeVars, linked, knows, agreed, requests, routeVars>>

-----------------------------------------------------------------------------
(* The goroutine of OnMultiHopApproved *)

\* connectToKernelInternal: the kernel is linked already, or lets this one register
RetryDials(r) ==
  /\ r \in retries /\ r.at = "dial"
  /\ linked' = linked \cup {r.hop.peer}
  /\ knows' = IF r.hop.peer \in linked THEN knows ELSE knows \cup {r.hop.peer}
  /\ retries' = (retries \ {r}) \cup {[r EXCEPT !.at = "settle"]}
  /\ UNCHANGED <<storeVars, agreed, requests, approving, pendingHops, table, sessions, shell, failures>>

\* The link has been cut since the approval, and the retry fails: the hop is forgotten
RetryFails(r) ==
  /\ r \in retries /\ r.at = "dial" /\ r.hop.peer \notin linked
  /\ retries' = retries \ {r}
  /\ pendingHops' = pendingHops \ {r.hop}
  /\ UNCHANGED <<storeVars, netVars, table, sessions, shell, failures>>

\* mutant: the session stays in the table
CheckKeeps(route) ==
  LET s == table[route]
  IN  /\ sessions' = IF s # 0 /\ \A h \in sessions[s].hops : h.peer \in linked
                       THEN [sessions EXCEPT ![s].closed = @ + 1] ELSE sessions
      /\ UNCHANGED table

\* checkMultiHopSessionComplete: if the hops of the session are all linked, AllDone is closed
\* and the session removed
Check(route) ==
  LET s == table[route]
  IN  IF s # 0 /\ \A h \in sessions[s].hops : h.peer \in linked
        THEN /\ sessions' = [sessions EXCEPT ![s].closed = @ + 1]
             /\ table' = [table EXCEPT ![route] = 0]
        ELSE UNCHANGED <<table, sessions>>

RetrySettles(r) ==
  /\ r \in retries /\ r.at = "settle"
  /\ retries' = retries \ {r}
  /\ pendingHops' = pendingHops \ {r.hop}
  /\ Check(r.hop.route)
  /\ UNCHANGED <<storeVars, netVars, shell, failures>>

-----------------------------------------------------------------------------
(* What else happens *)

\* A linked kernel introduces a peer to this kernel, or this kernel to it (KernelLink)
Introduced(p) ==
  /\ linked # {} /\ p \in Peers \ linked
  /\ linked' = linked \cup {p} /\ knows' = knows \cup {p} /\ agreed' = agreed \cup {p}
  /\ UNCHANGED <<storeVars, requests, approving, routeVars, failures>>

\* DisconnectFromKernel; the peer keeps its entry
Disconnect(p) ==
  /\ shell.at = "idle" /\ p \in linked /\ Failure
  /\ linked' = linked \ {p}
  /\ UNCHANGED <<storeVars, knows, agreed, requests, approving, routeVars>>

PeerRestarts(p) ==
  /\ Failure
  /\ knows' = knows \ {p}
  /\ requests' = {r \in requests : r.peer # p}
  /\ approving' = {a \in approving : a.peer # p}
  /\ UNCHANGED <<storeVars, linked, agreed, routeVars>>

\* This kernel restarts: the files are all it keeps
RestartSelf ==
  /\ Failure /\ Reload
  /\ linked' = {} /\ pendingHops' = {} /\ retries' = {} /\ shell' = Idle
  /\ table' = [n \in Names |-> 0]
  /\ sessions' = [s \in DOMAIN sessions |-> [sessions[s] EXCEPT !.waits = FALSE]]
  /\ UNCHANGED <<knows, agreed, requests, approving>>

\* What goes on by itself once it has begun
Progress ==
  \/ \E p \in Peers \cup {Self} : SkipTarget(p) \/ ConnectTarget(p)
  \/ RegisterPendingHop \/ AddHop \/ ConnectReturns
  \/ \E s \in DOMAIN sessions : WaitEnds(s)
  \/ \E a \in approving : NotifyMultiHopApproved(a) \/ DialBack(a)
  \/ \E r \in retries : RetryDials(r) \/ RetrySettles(r)

SetupNext ==
  \/ Progress
  \/ shell.at = "idle" /\ StoreNext /\ UNCHANGED <<netVars, routeVars, failures>>
  \/ \E n \in Names : ConnectRoute(n) \/ ConnectToKernelViaRoute(n)
  \/ \E s \in DOMAIN sessions : WaitTimeout(s)
  \/ \E r \in requests : ApprovePendingRequest(r)
  \/ \E a \in approving : ApproveFails(a)
  \/ \E r \in retries : RetryFails(r)
  \/ \E p \in Peers : Introduced(p) \/ Disconnect(p) \/ PeerRestarts(p)
  \/ RestartSelf

SetupSpec == SetupInit /\ [][SetupNext]_setupVars

\* Commands, calls and goroutines go on; nobody needs to approve anything
FairSetupSpec == SetupSpec /\ WF_setupVars(Progress)

-----------------------------------------------------------------------------
(* Properties *)

PendingHopInfo == [id : Ids, route : Names, num : Nat \ {0}, peer : Peers]

\* Every variable has its type, and no hop or retry is recorded for a request that was not made
SetupTypeOK ==
  /\ StoreTypeOK
  /\ linked \subseteq Peers /\ knows \subseteq Peers /\ agreed \subseteq Peers
  /\ requests \subseteq [id : Ids, peer : Peers]
  /\ approving \subseteq [id : Ids, peer : Peers, at : {"notify", "dial"}]
  /\ pendingHops \subseteq PendingHopInfo
  /\ retries \subseteq [id : Ids, hop : PendingHopInfo, at : {"dial", "settle"}]
  /\ table \in [Names -> 0 .. Len(sessions)]
  /\ \A s \in DOMAIN sessions :
       sessions[s].hops \subseteq PendingHopInfo /\ sessions[s].waits \in BOOLEAN
  /\ shell.at \in {"idle", "connect", "register", "add"} /\ failures \in 0 .. MaxFailures

\* SAFETY.  AllDone of a session is closed at most once, whatever approvals, retries,
\* timeouts and further sessions of the same route cross: a second close would end the
\* process.
ClosedOnce == \A s \in DOMAIN sessions : sessions[s].closed <= 1

\* SAFETY.  A route links this kernel to nobody who has not approved a request or been
\* introduced, although a retry dials without asking.
LinkedWasAgreed == linked \subseteq agreed

\* LIVENESS.  When the requests of a route are approved, all its kernels get linked, without
\* the command being given again, unless something fails.
RouteGetsLinked ==
  []<>(failures > 0 \/ requests # {} \/ \A s \in DOMAIN sessions : sessions[s].members \subseteq linked)

\* SAFETY.  Sessions, hops and retries are well formed, a session is completed once, and nobody is
\* linked unasked (ConnectMultiHopRoute, OnMultiHopApproved, checkMultiHopSessionComplete)
RouteConsistent == SetupTypeOK /\ ClosedOnce /\ LinkedWasAgreed
=============================================================================
