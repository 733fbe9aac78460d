# TLA+ specification of the trusted space kernel

The repository is a trusted data space: *kernels* (Go servers) connect *connectors*
(clients of organisations) by *channels*. A channel is negotiated between its senders and
receivers, then carries data packets; everything is recorded in an evidence log, and kernels
forward to each other so that a channel may span several of them.

This directory specifies the kernel's own core logic, the part that runs concurrently and is
hard to test: the negotiation of a channel, changes of its membership, the delivery of its packets
within a kernel and from kernel to kernel, what is put on record about them, the tokens with which
connectors register, the chat between connectors, and the links and routes between kernels and
between their operators. Each module is translated from the Go source; comments name the function
a definition stands for, and `PROJECT.json` ("map") gives its lines.

## The system

| Part | State | Operations | Talks to |
|---|---|---|---|
| Channel negotiation (`circulation/channel_manager.go`, `server/channel_service.go`) | `Channel.Status`, `SenderIDs`, `ReceiverIDs`, `ChannelProposal` with its approvals and timeout, `dataQueue` and its distributor goroutine | propose, accept, reject, close, hourly cleanup | registry (participants must be online), notifications, evidence log |
| Channel permissions (`channel_manager.go`) | `permissionRequests`, the two member lists, `remoteReceivers`, `permissionMu` | request, approve and reject, for a role of one's own and for somebody else; requests forwarded by kernels | control messages to members and other kernels |
| Channel delivery (`channel_manager.go`, `channel_service.go`) | `dataQueue`, `buffer`, `connectorBuffers`, `subscribers`, `connectorStatus`, `lastActivity` | `PushData`, the distributor, `SubscribeData`, `Unsubscribe`, online/offline marks, expiry of buffers | forwards to other kernels |
| Bootstrap tokens (`control/bootstrap_token.go`, `server/identity_service.go`, `cmd/main.go`) | `TokenManager.config`, the YAML file, the registry's entries | register, handshake; generate, list, revoke from the command line | file shared by two processes, certificate authority |
| Connector registry (`control/registry.go`) | connectors with status and last heartbeat | register, heartbeat, offline detection, set status | negotiation reads it |
| Notifications (`channel_service.go`, `NotificationManager`) | one Go channel per connector | register, unregister, notify with three attempts | negotiation, permissions |
| Temporary chat (`tempchat/`) | sessions by id and by connector under one read-write lock, a Go channel per session | register, heartbeat, expiry, unregister, send, receive | operator peers, for connectors of other kernels |
| Evidence log and business chain (`evidence/audit_log.go`, `server/business_chain_manager.go`, `database/`) | records linked by hashes; last data hash of each channel | append, verify, sign; record data hash | every data stream |
| Kernel interconnection (`server/multi_kernel_manager.go`, `kernel_service.go`) | the map of known kernels with their clients under `kernelsMu`, pending requests | request and approve a link, register, dial, tell others of known kernels, disconnect; forward packets and acknowledgements | the other kernels, delivery, evidence |
| Multi-hop routing (`server/multi_hop_config.go`, `multi_kernel_manager.go`) | route files and a cache of them, sessions and pending hops of routes being established | load, save, enable and disable a route, connect all its hops, retry after approvals, give up after 2 minutes; next and previous hop | interconnection, forwarding |
| Operator peers (`operator_peer/`) | one entry per peer (status and client), TCP connections dialled and accepted | connect, sign in, heartbeat, exchange connector lists, relay messages, disconnect | chat, other operators |
| Connector (`connector/`) | its own hash chain, streams, reconnection | client side of all services | kernel |

### What is hard here

* **Handlers without a lock between their tests and their effects.** The accept handler tests
  for a rejection and then calls the manager; `PushData` reads the subscribers several times
  without `c.mu`; `RegisterConnector` validates a token, issues a certificate and then marks the
  token; the evidence log reads its last hash in one critical section and writes it in another.
* **Go channels closed by one goroutine and written by another.** `dataQueue`, subscriber
  channels and notification channels: a late send, or a second close, ends the process.
* **Two processes and crashes on one file.** The token file is rewritten in place.
* **A chain whose end is in memory and whose records are in a database** that may fail, be asked
  again, or outlive the process.
* **Identifiers with and without a kernel prefix**, compared sometimes as written and sometimes
  not.
* **Locks** not released on early returns (permissions), taken twice by one reader (chat), and held
  across a call to a kernel whose handler needs its own (interconnection).
* **Bounds and timeouts**: queues of 1000 and 100 packets, buffers that drop the oldest packet or
  refuse the newest, sends that give up after 1 s or 5 s, a 5 s window that decides what is
  replayed.
* **Calls between kernels** that nest (a packet is recorded at a hop when the hops behind it have
  answered), cross (both ends dial), fail half-way, or meet a kernel that has restarted and knows
  nothing of a link, a channel or a session any more.

`PROJECT.json` ("hazards") lists these at their lines with the properties that would catch them.

### What makes each part correct

* Negotiation: a channel carries data only with everyone's consent; a decision is final; what is
  announced is true; there is one distributor, and it ends.
* Permissions: nobody has two roles; nobody gets in unasked; a decision is final and made by the
  right party; the lists never run empty; an error leaves no lock behind.
* Delivery: data goes to its addressees only, in order, none lost that was accepted; capacities
  hold; a slow reader does not stop the others; closing is final and closes each channel once.
* Tokens: one connector per token, bound tokens to their owner only, revocation works, across
  overlapping requests and crashes.
* Evidence: nothing is forwarded before it is on record, chains have no holes and, if calls do not
  overlap, no forks, an acknowledgement is there once.
* Chat: the session maps agree; what was accepted arrives, once and in order, unless its
  receiver hangs up.
* Interconnection: nobody is known without a chain of approvals; links are mutual; kernels that
  are joined find each other. Forwarding: no circles, one delivery, records of all kernels
  that fit together, acknowledgements that find their way back.
* Routes: the files hold what the kernel uses; a session is completed at most once; an approved
  route gets linked without another command.
* Operator peers: dials that cross leave both sides connected; the end of a connection is
  noticed; lists and messages get across.
* Registry: offline is detected, and coming back restores the status. Notifications: none goes to
  a stale stream.

## Modules

| Module | Models | Proofs |
|---|---|---|
| `ChannelNegotiation` | one channel from proposal to removal | `ChannelNegotiationProofs` |
| `ChannelPermission` | membership changes of an active channel | `ChannelPermissionProofs` |
| `ChannelDelivery` | packets of an active channel | `ChannelDeliveryProofs` |
| `DataEvidence` | evidence records and the business chain of a channel: `StreamData`, `SendAck`, `SubmitEvidence`, `SignFlow` | `DataEvidenceProofs` |
| `BootstrapToken` | registration with tokens, the token file, the token command, crashes | `BootstrapTokenProofs` |
| `TempChat` | chat sessions of one kernel, their lock, channels and streams | `ChatProofs` |
| `OperatorPeer` | connections between the operators of kernels | `ChatProofs` |
| `KernelNetwork` | abstract: what the interconnection of kernels promises | |
| `KernelLink` | requests, approvals, registration, dialling and introductions; implements `KernelNetwork` | `KernelLinkProofs` |
| `RouteTable` | operators: what a valid route is, the next and the previous hop | |
| `RouteForward` | data and acknowledgements over the kernels of a route, and what each records; uses `RouteTable` | `RouteProofs` |
| `RouteStore` | route files and their cache; uses `RouteTable` | `RouteProofs` |
| `MultiHopRoute` | the establishing of a route; composed with `RouteStore` | `RouteProofs` |

`OperatorPeer` and `MultiHopRoute` share a proof module with another specification, so theirs are called
`PeerSpec` and `SetupSpec`. `MC...` modules hold constants for TLC. In every module an action is a whole handler, or the part
of one between two points at which another goroutine can interfere. Definitions whose comment
starts with "mutant" are altered forms of the definition that follows: no specification uses
them; they show what each property rules out (`PROJECT.json`, "mutants").

### ChannelNegotiation

State: the lists, `status` (`Channel.Status`, with "none" for a channel that is not in
`cm.channels`), `neg` (`ChannelProposal.Status`), the approvals, whether the timeout has passed,
whether `dataQueue` is closed, the number of distributor goroutines, and the accept handlers in
flight. Manager methods run under `cm.mu` and are one step. The accept handler of
`channel_service.go` has three: it tests for a rejection (`AcceptCheck`), calls the manager
(`AcceptCommit`) and reads the channel again to record and announce (`AnnounceActivation`). Closing
a closed Go channel sets `panicked`, after which nothing happens. `ProposeChannel` accepts only
ids that are registered at this kernel, which have no prefix; that is why ids are plain values here.

### ChannelPermission

State: `active`, the two lists (sequences, since removals take the first match), `remoteReceivers`,
the list of requests and `leaked`, which says that `permissionMu` was left locked. An id is the
sequence of its parts, `<<c>>` for "c" and `<<k, c>>` for "k:c", because the code compares ids in
both ways and the properties depend on which. The model starts with an active channel between a
local sender, a local receiver and two connectors of another kernel. `ApprovePermissionChange` is
two actions: it succeeds, or it returns an error and keeps the lock (`ApproveRefused`).
Requests of another kernel arrive through `StorePermissionRequestFromRemote` from any member that
lives there. What the kernel sends to others afterwards is not in this module.

### ChannelDelivery

State: the queue and the two kinds of buffers with their capacities, connector status, the
`subscribers` map, one record for each `SubscribeData` call (its position, its Go channel, what it
has handed to its connector, what its replay goroutine still has to send), the distributor's
packet with the subscribers it still has to serve, and the `PushData` calls in flight.
`PushData` has the steps the code has between its unlocked reads: `PushRoute` (copies for offline
receivers), `PushDecide`, `PushEnqueue` and `PushBuffer`. A timeout of a send to a full channel is an
alternative of the step that sends. The replay goroutine passes over packets that are for others
while it sends one. A send on a closed Go channel is `...Panics`. The end of a
`SubscribeData` call is its deferred calls in their order, `Unsubscribe` and
`MarkConnectorOffline`. Time appears as the choice of `isRecovery` (5 s since the last
activity) and in `CleanupExpiredConnectorBuffers` (one hour).
A read of the unlocked `subscribers` map gives one of the values it has had; that Go may also abort the
process for such a race is not modelled.

### BootstrapToken

State: the kernel's configuration and the file, the registrations and the command in progress,
what was delivered for which token. `saveConfig` is three steps (marshal, truncate, write), because it
runs outside the lock and `os.WriteFile` truncates first. `Crash` may come anywhere; `Start` is the
only time the kernel reads the file. An empty file parses as a configuration with `Enabled` false.
`MaxInFlight` and `CliWhileServing` say how much overlaps.

### DataEvidence

State: `lastRecordHash`, the tables `evidence_records` and `business_data_chain` in the order of
insertion, the channel with its `currentFlowID`, one record for each call (where it is and what it
has read), and, for the properties, what was pushed, what was reported as committed, and whether
anything has failed, restarted or overlapped. The steps are the statements between which another
call can come: `SubmitBasicEvidenceWithMetadata` is three (read `lastRecordHash`; overwrite it; store),
`StreamData` reads the last data hash, submits two evidence records, inserts the row and pushes,
`RecordAck` searches and then inserts. `Restart` may come anywhere: the tables stay, the calls, the
channel and `lastRecordHash` do not.
A `data_hash` covers the payload and the hash before it, so it is modelled as the sequence of payloads
it covers: two hashes are equal exactly when the code's are. The hash of an evidence record covers its
unique event id and is modelled by it. Timestamps are the order in which ids are drawn; the code draws
them just before it reads `lastRecordHash`, which is one step here, because timestamps are only
compared within a flow, whose records one stream or one ack after it makes. Two records of a flow with
the same timestamp are left out.

### TempChat

State: every session with its Go channel, `byConnector`, the readers and the writer of the lock, one
`SendTempMessage` per sender and one `ReceiveTempMessage` per handler, and the client's view.
`sync.RWMutex` is modelled as Go documents it: a writer that waits keeps new readers out.
`SendMessage` takes the read lock and, in `GetSessionByConnector`, takes it again, so `SendMessageLock` and
`SendMessageLookup` are two steps; the send to the channel (`SendMessage`, `SendTimesOut`,
`SendPanics`) comes after both are released. A session becomes overdue at any moment
(`TimeoutPasses`), and `CleanupTick` finds it. A stream that breaks may leave its old handler reading beside
the new one.

### OperatorPeer

State: connections with both of their ends and the packets in each direction, and each kernel's
entry for the other. A dialled end goes through `Dial`, `HandshakeDone`, `Connected`, an accepted one
through `HandleHandshake`, `OnPeerConnected`; both write the same entry. The read loop is started before
`connected` is set, so it can see an error first and not report it; the heartbeat then does. A
broken connection loses what is on it; a closed one does not. The wire format is left out: TCP
delivers packets whole and in order.

### KernelNetwork and KernelLink

`KernelNetwork` has two actions: the operators of two kernels agree, and a kernel learns of or forgets
kernels it is joined to by a chain of agreements. `KernelLink` shows what the code does for that:
an entry of the map is absent, known, or linked (it has a client); a `RegisterKernel` call
being served has the steps of the handler, which takes `kernelsMu` three or four times (check, store,
client, answer); a goroutine is a task (request, connect, broadcast, synchronise); a kernel is locked
while a dial of its own waits for an answer. `Stop` and `Start` restart a kernel, which forgets everything.
The refinement maps `known` to the entries of the map and `agreed` to a history variable that
`ApprovePendingRequest` sets.

### RouteTable and RouteForward

An actor is a connector's `StreamData` or `SendAck` with the stack of handlers it waits for: a kernel
calls `ForwardData` of the next, whose handler calls `PushData`, and writes its row of the business
chain when that has returned. `Legs` works out to which kernels a packet goes on: the kernels
of its targets, never this kernel; acknowledgements go back through `GetPreviousHop` (`Back`) where
it finds a kernel. `Towards` is the kernel that is called for one of them: the next hop of an enabled
route (`GetNextHop`), or the target itself where there is no hop or its name is empty. A step handles one call, and the calls of several packets interleave. A call may fail, a channel may be
closed or a kernel restarted at any moment (`MaxFaults`). A hash is the sequence of packets it
covers and a signature the sequence of kernels that signed in turn; what a kernel does for its own
receivers is `ChannelDelivery`, here only whether a packet is queued, buffered or dropped.

### RouteStore and MultiHopRoute

`RouteStore` keeps the Go aliasing: `cache` maps names to objects in memory, and a file is cached under
its file name but saved under the route name inside it. `MultiHopRoute` extends it with one kernel that
establishes a route: the command dials the targets one by one (`ConnectTarget`), registers the hops that
wait for an approval (`RegisterPendingHop`, `AddHop`), and a goroutine waits for all of them;
approvals at the peers notify this kernel (`NotifyMultiHopApproved`), which dials again
(`RetryDials`) and then looks whether all hops are linked (`RetrySettles`). The two-minute timeout
(`WaitTimeout`), a second command, introductions and restarts come at any moment. Of a peer the model has only what its part in an
approval needs; how links come about in general is `KernelLink`.

## Runs

| Run | Instance | What it shows |
|---|---|---|
| `negotiation` | 3 connectors | Consent, true announcements, one distributor, and that closing ends the distributors, over all orders of accepts, rejects, closes, time-outs and cleanup with overlapping handlers |
| `token_sequential` | 2 tokens, 2 connectors, no overlap | With one registration at a time and the command only while the kernel is down: one-time use, a current file, effective revocation, bound tokens honoured, with crashes at every step |
| `permission` | 5 connectors, 2 requests | No id as written has two roles, nobody gets in unasked, decisions are final |
| `delivery` | a receiver with two overlapping calls, one that never calls, 2 packets for both or for the second | Capacities, no double close, no subscriber of a closed channel, nobody gets what is not addressed to it, packets wait for a receiver that was never there, live packets keep their order, and a queue that keeps moving |
| `evidence_overlap` | 2 streams of a packet each, overlapping, 1 failure, 1 restart | The business chain stays rooted, packets are on record before they are forwarded and evidence before it is reported as committed, evidence records keep their predecessors, and flows are signed exactly when their end was seen |
| `evidence_serial` | 2 streams, an ack sent twice, a report, one after the other, 1 failure, 1 restart | Both tables are chains without forks, an ack is there once and under the right flow |
| `chat` | 2 connectors, 2 sessions, 2 messages, 2 handlers | The session maps agree, accepted messages are neither lost (unless the receiver hangs up) nor repeated nor reordered, and a channel that is read is drained even when it is closed |
| `peer` | 2 kernels, 2 connections, 1 message, 1 fault, 1 change of a list | Crossing dials settle, messages on a working connection are not lost, the end of a dialled connection is noticed, lists get across |
| `link` | 3 kernels in a row, 2 commands of which 1 may be a disconnect or a stop | Nobody is known without a chain of approvals (as an invariant and as the refinement of `KernelNetwork`), links are mutual when all is quiet, joined kernels get linked unless some wait in a circle |
| `forward` | a route of 3 kernels, 2 senders, 1 receiver, 2 packets, 1 fault | No circles, one delivery, sent before received, signatures that link, acknowledgements that retrace the data and arrive, hashes and signatures of one packet that agree |
| `forward_broadcast` | the same route, receivers on 2 kernels, 1 packet for all | violated: the packet circulates |
| `route` | a route over 2 other kernels, 2 commands, 1 fault, 2 file names | A session is completed once, nobody is linked unasked, approved routes get linked, the files hold what the kernel uses |

Several properties are conjunctions of named parts, which their module defines one by one above them:

| Property | Parts |
|---|---|
| `FileGoverns` | `FileIsCurrent`, `RevokedIsRefused` |
| `RolesConsistent` | types, `RolesDisjointAsWritten` |
| `SubscribersConsistent` | `RegisteredIsOpen`, `ClosedHasNoSubscribers` |
| `BuffersConsistent` | types and capacities, `StagedForOffline` |
| `StreamsConsistent` | `OnlyAddressees`, `LiveInOrder` |
| `VisibleIsRecorded` | types, `ForwardedWasRecorded`, `CommittedIsStored` |
| `SerialChains`, `SerialAcks` | `SerialEvidenceChain`, `SerialBusinessChain`; `AckRecordedOnce`, `CurrentFlowIsLast` |
| `SessionsConsistent` | types and capacities, `MapsAgree` |
| `PeersConsistent` | types, `SettledIsConnected` |
| `LinksConsistent` | types, `LinkWasAgreed`, `QuietIsMutual` |
| `ChainsConsistent` | types, `SignaturesLink` |
| `RowsAgree` | `AckRetracesData`, `HashesAgree` |
| `RouteConsistent` | types, `ClosedOnce`, `LinkedWasAgreed` |

The types of `ChannelNegotiation` and `BootstrapToken`, and that no step accepts an expired proposal
(`ExpiredNeverAccepted`), are proved and not part of a run.

**Bounds.** Three connectors make a channel with a second sender or receiver, or with a stranger;
the safety properties of the negotiation are proved for any number. Two tokens and two connectors
are enough for two registrations that compete for one token or save two. Two requests are enough for any contradiction between a
request and the state it is decided in, since requests only interact through the lists. Capacities of 1
or 2 make every queue and buffer reach its limit; two packets are needed to speak about order. Two
calls of one connector are enough for a reconnection. For the records, two calls at a time are enough for a race between two critical sections, and two
streams of one packet give a chain of two rows with an acknowledgement or a restart between them; one
failure reaches each step that can fail. `ScanLimit` 2 stands for the 100 rows `RecordAck` looks at
and `StoreAttempts` 2 for three attempts, so both limits are reached. Streams are
interchangeable, and so are acks with one signature: those runs use symmetry.
`MayDisconnect`, `MayClose` and
`MayExpire` switch parts of the environment off where a run does not need them.
In `chat`, a channel of capacity 1 is full after one message, and two sessions of one connector are
needed for one that replaces another. In `peer`, two connections are enough for two dials that
cross; connections that are over are used again (`MaxConns` counts those in use). In `link`, three kernels in a row are the least in
which kernels are introduced that did not ask for each other; `MaxCommands` bounds requests and
faults together. In `forward`, three kernels are the least with a hop that is neither first nor last; a stack of
`MaxDepth` 4 is one more than a packet can need that does not circulate, so a circle shows. In `route`,
`MaxCommands` counts every command about routes and two are needed to establish a route twice, or to
change it first; a file is named after its route and the other is not, as in the repository's sample.

**Fairness.** Nobody outside the kernel has to do anything in any run: to call, read, approve,
acknowledge, subscribe or reconnect. `negotiation` assumes weak fairness of the distributor goroutine and of
accept handlers that have started: nothing in them blocks for ever, and Go's scheduler runs
runnable goroutines. `delivery` assumes it of the distributor alone: every send in it has a 1 s timeout.
`chat` assumes it of the stream handlers that have something to take or send, which need no lock. `peer`: of the
goroutines of each connection, and of `syncLoop`, a ticker that connects and
synchronises. `link`: of goroutines that can go on and of the handlers of calls that were made; a call that waits
for a lock is not enabled, so a circle of waits is not excluded by fairness. `forward` and `route`:
that some handler or goroutine goes on while one can. No timeout has to pass.

**Deadlock** is not an error in these runs: a kernel whose bound of packets, requests or calls is
used up, or that panicked, has nothing left to do.

## Disagreements between documents and code

`forward_broadcast` exhibits one that needs no fault and no coincidence (`PROJECT.json`, "findings"): a
packet for all receivers of a channel with receivers on two other kernels is sent round between the
two without end, although the comment at `channel_manager.go:1513` says that circular forwarding is
avoided. Every kernel works the targets out anew from the members of the channel and leaves out
only itself (1743-1747). The end-of-stream packet never has targets (`channel_service.go:1012`).

The models have the following behaviours too; they follow from the lines named, and the
properties are stated so that they hold beside them.

Negotiation, tokens, permissions, delivery, evidence (lines without a file are of `channel_manager.go`):

* a closed or rejected channel becomes active again by a late accept (614), against the status diagram
  in `PROJECT_ARCHITECTURE.md:307`; a second close of its queue then panics (1260);
* a crash between the truncation and the write of the token file leaves it empty
  (`bootstrap_token.go:215`), which the next start reads as "no token required", against
  `identity_service.go:546`;
* an approval that is refused leaves `permissionMu` locked (2491), and every later permission call waits;
* a packet accepted while its receiver subscribes is neither queued nor buffered (1377), against
  `PROJECT_ARCHITECTURE.md:1191`, which says that data is staged while a receiver is not subscribed;
* a rejection between the accept handler's test and the manager's method is overridden
  (`channel_service.go:610`, `channel_manager.go:614`);
* a stranger's accept of an active channel is answered with success and announced
  (`channel_manager.go:614`);
* one token gives two certificates when registrations overlap (`identity_service.go:553`):
  `OneTimeUse` holds in the sequential run and fails without its restriction;
* saves of overlapping registrations, and of the kernel and the command, overwrite each other
  (`bootstrap_token.go:272`), and a revocation reaches the running kernel only at its next start
  (`cmd/main.go:1720`): the properties `FileIsCurrent` and `RevokedIsRefused` hold in the sequential
  run and fail without its restriction;
* a connector gets both roles when one id is stored with a prefix and the other without
  (`channel_manager.go:2543`); two removals requested together empty a list (2455); an approved
  removal of an id stored with a prefix removes nothing (2626); any participant can approve a
  permission change through the subscription call (2273);
* `PushData` sends to the queue that `CloseChannel` has closed in between and the process panics
  (1654); what was staged for a connector before its first subscription stays in its buffer
  (2028); a connector that is no member can subscribe, and gets nothing (2010); when a connector
  has reconnected, the end of its old call closes the new stream (1934);
* overlapping submits fork the evidence chain (`audit_log.go:279`) and overlapping streams the business
  chain (`channel_service.go:1097`): the `Serial...` properties need `~overlapped`; after a restart the
  evidence chain begins anew (`audit_log.go:209`);
* evidence is reported as committed when it could not be stored (`evidence_service.go:55`): the
  property `CommittedIsStored` needs `faults = 0`;
* a repeated acknowledgement is recorded twice when the two overlap or when the first is beyond row
  100 (`business_chain_manager.go:75`); an ack that overlaps the start of a flow puts the old flow id back
  (`channel_manager.go:1369`);
* `SignFlow` means to sign the last record of a flow (comment at `audit_log.go:838`), but with a
  database its query answers newest first (`evidence_store.go:114`) and it signs the first one.

Chat (`tempchat/manager.go`) and operator peers (`operator_peer/manager.go`):

* a writer that arrives between the two read locks of `SendMessage` (309) blocks itself, the sender and
  every later chat call, so overdue sessions are no longer cleaned up (`README_CN.md:1343`);
* a session removed between the look-up and the send has its channel closed, and the send panics (317);
* a relay whose receiver is the name of a kernel is swallowed (`cmd/main.go:509`); the client ignores
  failed heartbeats (`connector/tempchat/client.go:149`); `IsRemoteConnected` takes the read lock and
  releases the write lock (468, no caller);
* when two dials crossed and one connection ends, a peer may stay "disconnected" with a client that counts
  as connected: `EnsurePeerConnected` looks at one and `ConnectToPeer` (193) at the other, and it
  is never connected again, against `README_CN.md:211`; over an accepted connection lists are not
  synchronised (538); an empty list is never stored, so the last connector of a kernel stays listed (446);
  a failed `ConnectToPeer` deletes the entry whoever made it (275).

Interconnection (`multi_kernel_manager.go`, and `kernel_service.go` where named):

* two kernels that dial each other at the same moment wait for each other for ever, each with its
  `kernelsMu` held (678, 875; `kernel_service.go:70`). Introductions do this by themselves, against
  `README_CN.md:262` and `921`; this is the circle of waits that `JoinedGetLinked` excepts;
* after a disconnect or restart of one side the other answers "already registered", which the dialler takes for a
  refusal (878); an approval is accepted from anybody (`kernel_service.go:90`); a request is lost when its
  approval cannot be delivered (319);
* the heartbeat of a linked entry that `RegisterKernel` overwrites calls a nil client (1784); disconnecting a
  kernel that was only heard of closes a nil connection; `ForwardAckToKernel` unlocks twice (1258, no
  caller); `ConnectToKernel` with a route name waits for its own lock.

Forwarding:

* a kernel that does not have the channel answers a forwarded packet with `Success: false`, and the caller does not look (`multi_kernel_manager.go:1744`);
* a packet for a receiver that is not subscribed at its kernel is recorded there as received and may be neither
  queued nor buffered; a packet for all that is buffered for one local receiver is not forwarded (1695);
* `SendAck` addresses the first sender whoever sent the packet; the branch of `ForwardData` for final
  packets is not reachable, since no caller sets the flag;
* `data_hash` differs from what the hop before passed on whenever packets have targets or two senders, though
  `kernel_service.go:1006` takes a difference for an anomaly: `HashesAgree` says when they agree;
* at the end of the first hop `GetPreviousHop` finds nothing, though the comment at 1396 expects the first kernel;
  with several enabled routes the order of a Go map decides.

Routes:

* `AllDone` means "all hops that were registered so far", not all hops as its comment says (287); the two
  targets of the first hop share a key; a notice that comes before its hop is registered is dropped (2262);
* the timeout removes whatever session has the name now; a dial that fails leaves the session behind (2273);
* enabling or disabling a route whose file has another name is undone by the next start, and an incomplete
  route is changed in memory and not saved (`multi_hop_config.go:139`): `StoredAsShown` excepts these;
  the example route of `README_CN.md` lacks an address that `load-route` asks for;
* `ConnectAllEnabledRoutes`, `CreateRouteFromConfig`, `UpdateRouteStatus` and `DeleteConfig` have no callers.

## Proofs

All are checked by TLAPS, for every value of the constants.

* `ChannelNegotiationProofs`: types, `ActiveNeedsConsent`, `AnnouncedIsAccepted`, `OneDistributor`
  and `ExpiredNeverAccepted`, for every set of connectors. None is inductive. The invariant `IInv`
  adds that a proposal has non-empty disjoint lists (so that its creator's approval alone never
  suffices), that only participants approve, and that an accepted proposal whose channel is no
  longer active has a closed queue. The last one is why `OneDistributor` survives the
  reactivation of a closed channel: a second distributor starts only on a closed queue.
* `BootstrapTokenProofs`: types and `BoundTokenHonored` without any restriction. The
  invariant adds that codes not generated yet appear nowhere, and that a registration in progress
  holds a token its connector may use. `OneTimeUse`, `FileIsCurrent` and `RevokedIsRefused`
  (together `FileGoverns`)
  are proved under `SequentialUse` (`MaxInFlight = 1`, no command while the kernel
  runs), the strongest claim the code supports: each fails without it. The invariant `SeqInv` says
  where, between validation and the end of the save, the token is still valid in memory and in the
  file. Assumption: finitely many connectors (`TokenConstants`).
* `DataEvidenceProofs`: `ChainIsRooted`, `VisibleIsRecorded` and `EndedFlowIsSigned` for any number of streams,
  packets, acknowledgements, failures and restarts, `NoLostPredecessor` for any number of overlapping
  submits, and that no row ever leaves a table or changes but for its signature (`TablesAreKept`). For the first, the
  invariant `RootInv` adds that the hash a stream works from is that of a row of the present channel,
  which rests on what `LastDataHash` returns (`LastHashIsRow`). For the second, `LostInv` adds that
  `lastRecordHash`, and the predecessor of each record that is made and not stored yet, is in the table
  or about to be stored. For what others can see, `OnRecord` follows a packet through `StreamData` and says
  what the database holds of it at each point, `Subjects` that a record in the making is about the packet of
  its call, and `Bounded` relates the numbers (event ids, channels) to each other. For the signatures,
  `EventsDiffer` says that the records of an event id are of one flow, so that `SignFlow` signs no other, and
  `FlowsOnRecord` that a flow the channel or an acknowledgement names has a record: a late acknowledgement is
  never the first record of a flow whose stream has ended. `SerialChains` and `SerialAcks` hold for any number of
  calls one after the other: `OneAtATime` says that until two calls overlap at most one is in progress, so
  that what it has read is still so when it writes. `LinkedInv` then ties `lastRecordHash` to the last row of the
  table, and counts the rows without predecessor by the restarts; `CoveredInv` says how many data rows a
  channel has by the length of the hash its next row will be computed from; `FlowInv` ties the flow id an
  acknowledgement carries to the last packet; `OnceInv` says that an acknowledgement about to be inserted is
  not among the rows `RecordAck` looks at. Assumption: `EvidenceConstants`.
* `ChannelDeliveryProofs`: `SubscribersConsistent`, `BuffersConsistent` and `StreamsConsistent`, for any
  connectors, packets, overlapping calls and capacities. For the first, `IInv` adds that a call that has
  not subscribed has an open channel. For the order of a stream, `FlowInv` speaks of every place
  a packet passes through: what a connector was given and what is in its Go channel comes before what the
  distributor holds, that before `dataQueue`, and that before what is being pushed; what a stream
  replays is left out of the order but not of the addressees. For what is staged, `StagingInv` says of each
  packet promised to a connector that has not opened a stream that it is in its buffer, or the buffer is
  full of newer ones; it needs that such a connector counts as offline and that its buffer is in order.
  Assumption: `DeliveryConstants`.
* `ChannelPermissionProofs`: `RolesConsistent`, `MembersWereInvited` and the action property
  `DecisionIsFinal`, for any members and requests. Both mechanisms that decide share one list;
  `Progress` says that a step adds a request at its end or decides a pending one, and
  leaves its kind and ids alone, so that who was invited stays so. Assumption `PermissionConstants`: the
  founding lists have no id in common (`ProposeChannel` refuses a proposal in which they do) and the ids of
  requests are well formed.
* `ChatProofs`, about `TempChat`: `SessionsConsistent`, `NothingLostWithoutBreak` and `InOrderOfAcceptance`, for any
  connectors, sessions, handlers and capacities. The invariant `ChatInv` adds that the sessions everybody
  names were made, that a handler whose stream is up is the one its client reads from, that a
  message is sent once, and `OrderKept`: what has got further (client, handler, channel) was accepted before
  what is behind it. Assumption `ChatConstants` (positive capacities, at least one connector).
* `ChatProofs`, about `OperatorPeer`: `RelayNotLost` and `PeersConsistent`, for any number of kernels, connections,
  messages, faults and changes of lists. `PeerInv` relates the two ends of a connection (`ConnOK`: before the
  dial there is nothing on the other side, and a client that waits for the answer to its handshake finds it
  first in its queue, so that no message is taken for it), the messages written to the queues (`Kept`) and the
  entries to the connections they refer to (`EntryOK`: a connection in use, so that its number is not given
  away). That crossing dials settle is about behaviours without a fault: `CleanInv` says that there the server
  follows its client, that the Client of an entry is an end of a connection between the two kernels, whose
  state the status of the entry shows, and that a kernel that has dialled or served a connection has such an
  entry, though the two goroutines that write it replace each other's Client. Each step is shown to be about
  one connection and at most one entry. Assumption `PeerConstants`: the bounds are numbers.
* `KernelLinkProofs`: types, `LinkWasAgreed`, the refinement of `KernelNetwork` (`NetworkSpec`) and
  `LinksConsistent`, for any kernels, seeds, contacts, commands, faults and restarts. An entry of the map comes
  from a goroutine or a call started long before, so `JoinedInv` says of these too that they name only
  kernels joined by approvals, but for requests, which stay pending. That links are mutual once all is quiet
  needs `MutualInv`: while there was no fault, whoever has an entry for a kernel that has none for it is owed
  one by a goroutine or call under way, and an entry without a client will be dialled; what ends has done its
  part or passed it on (`TaskServed`, `CallServed`). For the refinement every step is shown to be an
  agreement, a revision of what one kernel knows within what is joined, or a stutter.
* `RouteProofs`, about `RouteForward`: types and `SentBeforeReceived` for any kernels, senders, receivers, packets, routes and
  faults, and `ChainsConsistent` if no route leads from a kernel to itself (`NoHopToItself`). Every step is shown
  to be one of five kinds (a call starts, is forwarded, is handled, returns; or nothing of
  this happens), and the invariants are checked for each. `SentInv` says of calls on their way what
  `SentBeforeReceived` says of records. For the chains, `StackInv` says how handlers wait for each
  other (the signature grows by one at each, the first one's row is written), and `LinkInv` that the row a row
  follows is written or a waiting handler stands for it: when that handler returns, it writes the row.
  `NoHopToItself` is a hypothesis of the theorem and not an assumption of the module, since `ValidateConfig`
  does not refuse such a hop; with one a kernel takes a packet for its own connector's and writes no row.
  Assumption `ForwardConstants`: routes are sequences of hops between kernels or empty names, as
  `LoadConfig` reads them, and the members' kernels exist.
* `RouteProofs`, about `RouteForward` on routes that lead somewhere: `NoCircularForwarding`, `DeliveredOnce` and `RowsAgree`
  are false on some routes (the violation shows one), so the theorems name what they need of them.
  `Nearer`: at every call a packet comes nearer the kernel it is for. `OneTarget`: a packet is for one kernel.
  `OneWay`: a kernel hands data to one kernel. `WayBack`: it hands an acknowledgement to the kernel it has the data
  from. `ForwardingEnds` needs `Nearer` only: the handlers that wait for each other descend (`DescentInv`), so that none
  is at the same kernel. `HandedOverOnce` needs `OneTarget` only: a handler with others above it, or whose packet is
  queued, has no call left (`SingleInv`), so that no second copy exists, not even on circular routes. That an
  acknowledgement retraces the data (`AcksRetraceData`) needs that everything handled or recorded has come
  along a path from its sender (`PathInv`); two such paths with the same ends are each other's reverse
  (`Retraced`), by descent to a least disagreement. That the hashes agree (`RecordsAgree`) is the hardest: rows are written
  from the receivers back, so a kernel's last hash is a packet behind its predecessor's while a packet is under
  way. `HashInv` says which of the two it is: on the way there all kernels ahead still have the hash the
  packet follows (`Down`), on the way back those that were left have its own (`Up`), and between packets a kernel with the
  sender's hash only hands data to such kernels (`Level`), whatever buffers, closed channels and kernels without the
  channel leave out. `StraightRoutesAreSound` shows that one route past any number of kernels, from the first sender's to
  the receivers', meets all four conditions; the route of the run is one.
* `RouteProofs`, about `RouteStore` and `MultiHopRoute`: `StoredAsShown` and `RouteConsistent`, for any routes, files, peers,
  commands, failures and restarts. `StoreInv` adds that files and objects in memory are configurations that
  were once read or given, enabled or not. In `SetupInv`, `SessionShape` says that a name leads to a session of
  that name which is not complete, so that none is completed twice. That nobody is linked unasked rests on
  `OnePeerPerId`: requests, approvals, pending hops, retries and the command under way keep an id each on its
  own, and a retry dials the peer of its hop when somebody approved that id; only if the id stands for one
  peer is this the peer that agreed (`AllAgreed`). New ids are new because finitely many are in use.
  Assumptions `StoreConstants` (finitely many names; initial files and inputs are parsed configurations) and
  `RouteConstants` (this kernel is not its own peer).

**Model-checked only:** the liveness properties (liveness under fairness is out of the prover's reach, as
is `ENABLED`), and the violation. Every safety property of a passing run is stated by a theorem. No module uses
`RECURSIVE` operators; facts that need induction over data cannot be proved with the provers at hand and would stay
with TLC.

## Not modelled

* **Worth adding**: channel proposals, approvals and `channel_update` messages between kernels (agreement of
  two kernels on members and status); the connector's own hash chain and the reconnection of its
  streams; control packets; the memory and file modes of the evidence log and `VerifyFlow` (which has
  no caller); an abstract channel that `ChannelDelivery` implements.
* **Left with what other modules need of them**: the connector registry (an entry is made by `Handshake` of
  `BootstrapToken`; heartbeats and the offline mark only change the answers of queries) and notifications
  (`ChannelNegotiation` models which are sent, not their queues).
* **Left out**: certificates, TLS and signatures (library calls without state); database set-up and
  SQL; channel configuration files; the printing and parsing of both command-line shells; generated protocol code; scripts.
