# Verification of DDA (Data Distribution Agent)

DDA is a Go sidecar/library that gives a component three services behind one
lifecycle: data-centric *communication* over a pub-sub broker (MQTT 5), a local
persistent *store* (Pebble) and replicated *state* (Raft, whose messages travel
over the communication service). The services are used in-process or through a
gRPC server. This directory holds TLA+ models of its concurrent core, TLC
configurations and TLAPS proofs.

## 1. Inventory

| Component | State | Operations | What is hard |
|---|---|---|---|
| Message router `services/com/api/router.go` | map topic → route channels under an RWMutex | `Add`, `Dispatch`/`DispatchChan`, `remove` (started by `context.AfterFunc`), `GetTopics` | senders race closers; subscribe/publish/unsubscribe run under the lock and can fail; a response can overtake `Add`; slow readers |
| MQTT 5 binding `services/com/mqtt5/mqtt5.go` | `b.conn`, five routers, config, under `b.mu` | `Open`, `Close`, publish and subscribe calls, `resubscribe` on reconnect, `handle` | nested read locks, `TryRLock`, reconnects with a clean session, routers replaced by `Open` |
| Replicated state machine `services/state/raft/fsm.go` | key-value map, observers | `Apply`, `Snapshot`/`Persist`, `Restore`, add/remove observer, `ObserveStateChange` | initial emission races `Apply`; blocking sends under the lock; close of channels still in use |
| Membership observation `services/state/raft/store.go`, `raft.go` | observers, known member ids | add/remove observer, `StoreLogs` of a configuration | asynchronous registration; configuration read from hraft vs. announced by `StoreLogs` |
| Raft log / stable store `store.go` | two Pebble stores | log and stable store operations | index order, ranges, truncation |
| Raft binding `raft.go` | `b.mu`, raft node, transport | `Open` (bootstrap/join with retry), `Close`, `ProposeInput`, leader forwarding | retries of what was already applied; `Close` against RPC handlers |
| Raft transport `transport.go` | consumers, shutdown flag, subscriptions | RPCs over actions, leader forwarding, `Close` | lost/late/duplicate messages, blocking hand-over |
| Pebble store `services/store/pebble` | an ordered map | get/set/delete, prefix and range operations | upper bound of a prefix |
| gRPC server `apis/grpc/grpc.go` | tables correlation id → callback | streams, results, store and state calls | table entries outliving streams, check-then-act |
| DDA lifecycle `dda/dda.go`, `services.go`, config, cmd | open services | `Open`, `Close`, `RetryWithBackoff` | partial failure |

Interaction: application or gRPC server → binding API → router → binding
functions (`subscribe`, `publish`, `unsubscribe`) → broker; broker → `handle` →
`Dispatch` → receive channels. hraft → FSM (`Apply`…) and log store
(`StoreLogs`) → observer channels; hraft → transport → communication API.

PROJECT.json lists every component with what is modelled of it, and under
`hazards` every behaviour found that is hard to test, at its line.

## 2. Plan

Done, in this order: `Router` with proofs, `RaftFsm` with proofs, `Membership`,
`Mqtt5Binding`, `RaftTransport` and `RaftBinding` against the abstract
specification `StateApi`, `PebbleBinding`, `RaftStore` against the abstract
specification `LogStore`, `GrpcServer` composed with the agent's lifecycle in
`Dda`; then the proofs: `RaftBinding` implements `StateApi`, `PebbleBinding` and
`Dda`, `Membership`, `Mqtt5Binding`, `RaftStore` with its refinement of `LogStore`,
the order of keys in `PebbleBinding`, and counting and membership in `RaftBinding`.
Every safety invariant and every refinement that a run checks is now a theorem.

Next: action properties that the inductive invariants already imply (what a step
of `Close` or of a removal may never do), and the properties of section 6
as theorems once the code has been corrected.

## 3. Modules

| Module | Models | Correspondence |
|---|---|---|
| `RWMutex` | Go's `sync.RWMutex` (external) | A lock value with readers, one pending writer and one writer. A pending writer keeps new readers out, as in Go; `Lock` is two steps, `Announce` and `Lock`. |
| `Router` | `router.go` | One element of `Subs` is one `Add` call with its context, channel and `AfterFunc` goroutine (`pc`); `Dispatchers` are the goroutines that call `Dispatch`. Subscribe, publish and unsubscribe are separate steps under the lock with success, failure, and failure although the broker processed the call. The two `select`s of `dispatch` are `DispatchSkip`/`DispatchPick` and `DispatchSend`/`DispatchAbort`. |
| `RaftFsm` | `fsm.go`, `ObserveStateChange` | One FSM goroutine (`fsmPc`), per observer an emission goroutine (`synPc`) and one that waits for the context (`watchPc`). Sends block on a full channel with the lock held. `states` is the history of the state by log index, `view` what an observer knows from the inputs sent to it. A context may be done at any time; a send on a closed channel sets `panicked` and ends the process. |
| `Membership` | observers in `store.go`, `ObserveMembershipChange` | As above; `observers` maps ids to observers, because `InitRegister` uses the id given out last. hraft's order "store, then make it the latest configuration" is `StoreConfiguration` … `WriteEntry` or `WriteFails` … `SetLatest`: observers are told before the entry is written, and the write may fail. |
| `Mqtt5Binding` | `mqtt5.go` | Calls that add a route (`Subs`), calls that publish only (`Pubs`), the goroutine that opens and closes, the reconnect callback. Holds on `b.mu` are named, so that a call can hold it twice. The five subscribing API methods have the same steps, as have the three publishing ones; the map points each step to one of the copies. The routers appear as one, with the lock and the map of `Router` but without dispatch. |
| `StateApi` | the promise of `ProposeInput` in `services/state/api/api.go` | Abstract: one log of accepted inputs; a call returns nil only if its input is in the log, which may then hold it more than once. |
| `RaftTransport` | `transport.go` | Requests published (`sent`), responses that can still be received (`answers`), one `handlers` element per goroutine in `handleRpc`. A request may never be delivered, or be delivered again. `Readers` are the holders of `shutdownMu`. |
| `RaftBinding` | `raft.go`, `RetryWithBackoff`; extends `RaftTransport` | Calls of `ProposeInput` (`call`), `Open`/`Close` of each node (`admin`), the goroutine `processLeaderForwardedRPCs` (`lfw`), `b.mu` (`mu`). hraft (external) is its leader, configuration and log of committed inputs; a leader that loses its leadership during an operation leaves open whether the operation took effect. A closed node may be opened again (`MaxOpens`), while requests of its earlier life are under way; `ousted` are the open nodes that such a request to leave has removed. An `Open` that fails before there is a node leaves its Raft store locked (`stranded`). |
| `PebbleKeys` | keys, `KeyUpperBound`, Pebble's ranges (external) | Byte sequences over a small base in lexicographic order. |
| `PebbleBinding` | `pebble.go` | `db` is what callers see, `disk` what survives a crash; scans are iterators that hold `b.mu` for reading between callbacks. The flush of `DeleteAll` may fail unnoticed (`unflushed`). |
| `LogStore` | `hraft.LogStore` (external) | Abstract: a map from indexes to entries with its first and last index. `range` holds the arguments of the `DeleteRange` called last, so that a refinement must delete what it was asked to. |
| `RaftStore` | log and stable store in `store.go`; extends `PebbleKeys` | Contents of the two Pebble stores under big endian keys; hraft's use of them (append, truncate, compact, new term, vote) with crashes between any two writes. |
| `GrpcServer` | `grpc.go`, `grpcweb.go` | One element of `Streams`, `Results` and `Scans` is one call of a client with its handler. Correlation ids are the streams their message came from. `Stop` cancels the calls; handlers may outlive `Close`. |
| `Dda` | `dda.go`; extends `GrpcServer` | `agent` is where `Open` or `Close` is, `svc` what has become of each service: `half` is a state service whose `Open` failed after the Raft node was made, `stuck` one whose `Close` has got into one of the deadlocks of section 6. `left` is what the state service has left behind: a Raft store without a node, or a node that still runs. `srv` is `none` in a configuration without a gRPC server. |
| `MC*` | | Constants for TLC. |
| `RouterProofs`, `RaftFsmProofs`, `MembershipProofs`, `Mqtt5BindingProofs`, `RaftBindingProofs`, `PebbleBindingProofs`, `RaftStoreProofs`, `DdaProofs` | | Theorems. |

Operators whose comment begins with "Mutant" are altered forms of the definition
that follows them; no specification uses them. They serve to show that a
property notices a plausible mistake (PROJECT.json, `mutants`).

## 4. Runs

| Run | Result | What it shows |
|---|---|---|
| `router_safety` | pass | `NoSendOnClosed`, `NoLostMessage`, `RoutedSubscribed`, `NoFlowAfterCancel` with three channels on two topics, two of them response channels with different correlation ids |
| `router_live` | pass | under fairness a cancelled channel is closed (`CancelCloses`) and `Add` returns (`AddReturns`), with full buffers |
| `fsm` | pass | whenever contexts are done: observers converge to the state (`ObserverInSync`), `Apply` sends on no closed channel (`ApplySendsOpen`), snapshots are states of the log (`SnapshotIsPrefix`); with readers that stop when they cancel, only a sender blocked on the full channel of such a reader keeps a channel open (`CancelClosesUnlessStuck`) or `Apply` from returning (`ApplyReturns`), never the lock |
| `membership_safety` | pass | registered observers agree (`RegisteredAgree`) and follow the configurations (`FollowsLog`), with overlapping calls, early cancellation and failing writes |
| `mqtt5_safety` | pass | a call keeps its connection (`CallKeepsConn`); after a reconnect all routed topics are subscribed again (`RoutedCovered`) |
| `mqtt5_close_deadlock` | violation of `CallsReturn` | `Close` between the two read locks of a subscribing call |
| `raft` | pass | refinement `Implements`: `RaftBinding` implements `StateApi`; `EntriesCounted`: only retries and the broker repeat an input; `OpenedIsMember` with changing leaders; `CancelReturns`: a cancelled `ProposeInput` returns, without a leader and without a network too |
| `raft_members` | pass | `OpenedIsMember`: a node whose `Open` has connected it is a member until it closes, over two lives of each node and with retried joins; the two ways in which it fails are in section 6 |
| `raft_close_deadlock` | violation of `CloseReturns` | `Close`, a request's handler and the consumer of forwarded requests wait for each other |
| `pebble_store` | pass | `ScanExact`, `Durable`, `DeletesPrefix`: scans and prefix deletions against the reference definition "has this prefix", crashes |
| `raft_store` | pass | refinement `ImplementsLogStore`, ranges with both ends; `TermsAscend` and `OneVote` across crashes |
| `agent` | pass | `Released`, `StateNeedsCom`, `LateResultRefused`; `CloseReturnsUnlessStuck`: whatever clients do, `Close` returns unless a binding's `Close` has got into its own deadlock |

Each violation is recorded in PROJECT.json under `findings` with the comment or
doc it contradicts. Properties that the modules state and that do not hold, with
the exceptions that the passing properties name for them, are in section 6.

**Bounds.** Counters are capped by named constants (`MaxMessages`, `MaxApplies`,
`MaxRestores`, `MaxConfigs`, `MaxCalls`, `MaxDrops`, `MaxRepeats`,
`MaxElections`, `MaxAppends`, `MaxTerm`, `MaxIndex`, `MaxBatch`, `MaxOpens`,
`MaxJoins`).
Buffers hold 1 entry (the default of the router; 256 and 32 for the observers):
what matters is that they fill up, which they do with one message more than
their capacity. Two or three subscribers are enough for "last channel of a
topic", "one of many" and "another topic"; two applied inputs for an input that
overtakes an emission; three calls of `Open`/`Close` for a closed and reopened
binding, and two drops for a connection lost during a resubscription.
`raft` has the two roles there are, a leader and a node that forwards to
it, a second election so that they change roles, two forwarded attempts so that
a late response meets a retry, and one repeated delivery of any request; each node
opens once and joins in one attempt. `raft_members` has no proposals but two lives
of each node and two attempts to join in each, so that a request of the first life
meets the second and a late answer meets a retry; the bootstrapping node leads while
it is open, and hraft sends one request of its own. Both together, with all of these
bounds, are out of TLC's reach; the theorems have no bounds. Bytes are bits, so that a carry happens in
keys of two bytes, and indexes of three bytes pass several carries. Four indexes,
three terms and batches of two give a truncation, a gap and a failure within a
batch. `agent` opens twice (after a failure, and after a close), with one stream,
two results for it and one scan.

**Exceptions stated in properties.** `RoutedSubscribed` leaves out topics whose
unsubscribe the broker processed while the acknowledgement got lost (`unacked`);
`RoutedCovered` also those of a failed resubscription and of a removal from the
router of an earlier `Open` (`lost`); `ObserverInSync` leaves out observers
registered at a `Restore` (`stale`), which the code does not tell; `FollowsLog`
leaves out a first observer initialised between the storing of a configuration
and hraft's adopting it (`raced`; `MembersCurrent` has no such exception), and about the log
itself an entry whose write failed after it was announced (`failed`);
`OpenedIsMember` leaves out an `Open` after a failed one (`NilMeansMember`) and a
node removed by a late request (`ousted`, `OpenStaysMember`); `Durable` leaves out
the return of keys that `DeleteAll` has deleted and not flushed (`unflushed`);
`TermsAscend` a log in which `StoreLogs` failed midway (`failed`); `DeletesPrefix`
prefixes without an upper bound; `Released` callbacks registered by handlers that
outlive `Close`, and it does not speak about `left`, which `NoNodeLeft` does;
`CancelClosesUnlessStuck`, `ApplyReturns` and `CloseReturnsUnlessStuck` a sender or
a `Close` that is blocked for good (that this happens is shown by `mqtt5_close_deadlock` and
`raft_close_deadlock`, and by `CancelCloses` of `RaftFsm`). These are weaknesses of the code, kept visible as history
variables or in the formula.

**Assumptions about callers.** Contexts may be done, and calls may overlap, at any
time. The user of `Dda` does not call `Open` and `Close` concurrently.

**Fairness.** Weak fairness on the steps of goroutines that are under way: the Go
scheduler runs a runnable goroutine, and locks are bounded waits because writers
queue. Binding calls return since paho acknowledges or times out. Nothing obliges
an application to subscribe, to cancel or to close, nor the network to deliver.
Readers: in `router_live` the channel of a live context is read, as the API asks;
in `fsm` they are read while the context is not done and may be
left alone afterwards, as the gRPC server leaves them (`grpc.go:700`). The lock of the
FSM is granted to a waiting goroutine although others take it again and again (strong
fairness): Go's mutexes queue. In `RaftBinding` the goroutines of calls, of `Open`/`Close`, of handlers
and of the consumer are fair; delivery, elections and cancellation are not
assumed. In `Dda` the steps of `Close` and of handlers are fair, while clients
may stop reading, and need never cancel; the `Close` of a service may block where the
runs above show that it can.

**Deadlock checking** is off where calls are finite in number and a system in
which all of them have returned stops; `pebble_store` and `raft_store` have it on.

## 5. Proofs

All for any number of subscribers, topics, dispatchers, observers, keys, values,
messages and calls and any buffer sizes.

`RouterProofs`: the inductive invariant is `TypeOK` with
`LockInv` (program counters determine who holds the lock; readers exclude the
writer), `RouteInv` (the map holds exactly the channels added and not removed, and
a closed channel is removed), `LoopInv` (what a dispatch still has to visit or is
sending on is registered: the lock keeps it so) and `DueInv` (whom a message is
owed to: cancelled, still to be visited, being visited or served).
`NoSendOnClosed` and `NoLostMessage` are not inductive: the first needs that the
target of a send cannot leave the map, the second where a message is between
arrival and the end of the loop. `Subscription` adds `SubscribedInv`: keys of the
map, and topics `Add` is about to enter, are subscribed or in `unacked`.
`CancelStopsFlow` adds `LateInv`: once a context is done, the late sends so far and
the dispatchers still past the first `select` are together at most as many as there
are dispatchers. `NoFlowAfterCancel` alone does not say that a late send uses up
the dispatcher that makes it.

`RaftFsmProofs`: the invariant relates each observer's view to the state during an
emission (keys still to be sent may differ) and during `Apply` (observers not yet
served lag by the current input), with the ownership of `f.mu` and what a panic leaves
behind; `ObserverInSync`, `SnapshotIsPrefix` and `ApplySendsOpen` (`ApplyNeverPanics`)
follow, whenever contexts are done.

`RaftBindingProofs`: `RaftBinding` implements `StateApi` for any number of nodes
and calls, any number of elections and any loss or repetition. The step of
`ForwardResult` maps to `Succeed` only if a received "ok" means that the input is
in the log; the invariant therefore says that every "ok" response to `Apply` is
about an accepted input, that every request has been sent for a call that has
begun, and that what handlers process has been sent. `StateApi`'s own guarantee,
`OkAccepted`, is proved of the abstract specification and carried over.
`InputsCounted` (`EntriesCounted`) needs `NumberInv`: deliveries of a request are
numbered, so that a handler that finishes is one more and not one that is already
among the finished; without it a set of handlers would not count. `JoinIsMembership`
(`OpenedIsMember`) needs `MemberInv`: a node asks only for itself, and to be removed
only in `Close` (`AskInv`); the consumer gets forwarded requests only (`TakenInv`);
and an "ok" to the request a joining node waits for means that it is a member or has
been removed by a late request of an earlier life (`JoinInv`), which a late repetition
of the request to join cannot undo. A node may close and open again any number of
times.

`PebbleBindingProofs`: first the operators. `Less` is irreflexive, transitive and
total (two keys are compared at the first position where they differ, which exists
by `NatMin`), so that a finite set of keys has a least and a greatest one; and
`PrefixRange`: the keys from a prefix up to `KeyUpperBound` of it are exactly those
that have it, carries included. Then the invariant: `LockInv` (nobody scans while
the store is changed, emptied or closed), `DiskInv` (the disk holds the contents, and
only the contents unless `DeleteAll` runs, which deletes without syncing, or its flush
has failed) and
`ScanInv` (an iterator is over the present contents, its bounds are those of its
prefix, and what it has shown is in range, in order and before all keys of the range
it has not shown). `ScanExact` alone is not inductive: it does not say that the keys
ahead come after the ones shown. `Durability`, `Isolation`, `Scans` and
`PrefixDeletion` follow.

`MembershipProofs`: nothing is assumed of callers. `GInv`: as many ids have been given
out as calls have begun, `s.mu` excludes, and the members kept are those of the entry
passed to `StoreLogs` last unless the first initialization overtook hraft (`LogInv`);
`FollowsLog` follows. `RegInv` (only initialized observers are registered, each under
one id, although not always its own) and `ViewInv` (each registered observer's view
differs from the members kept by exactly the changes still to be sent to it) give
`RegisteredAgree`. A send on a closed channel can end the process at any point; it
leaves `s.mu` locked (`PanicInv`), so that nothing is claimed after it.

`Mqtt5BindingProofs`: `LockInv` and `GenInv` say that a call that adds a route reads
`b.mu` throughout, so that `Open` and `Close` cannot replace the routers under it:
`CallKeepsConn`. `RoutedCovered` is not inductive: a topic must be subscribed
already when `Add` is about to enter it, and during a reconnect it may be not yet
subscribed but found by `GetTopics`. `CoverInv` says so, with `RouterInv` for the
exclusion between calls and removals on one router.

`RaftStoreProofs`: `RoundTrip` and `KeyOrder` show that big endian keys of any base and
width are decoded to their numbers and ordered as these are. `VotesOnce` needs that the term of
a vote is written before the candidate and that a vote is answered after both
(`VoteInv`); `LogAscends` that hraft's last index and the rest of a batch continue the
log (`AppendInv`). `Refinement` maps keys to indexes: each `Set` of
`StoreLogs` and `DeleteRange` with its exclusive upper bound change the map as
`LogStore` says for these very arguments, the last index included, and `FirstIndex` and `LastIndex` are its ends.

Induction over data is done with sets instead of predicates: `NatInd` says that a set
that contains 0 and with each number its successor contains all of `Nat`, from the
library's theorem that `<` is well-founded. It carries the recursive functions of the
encoding and of `KeyUpperBound`.

`DdaProofs`: `ServiceInv` says what each step of `Open` and `Close` may rely on
(past `com`, `com` is open or disabled; past a service in `Close`, it is not open; a
`Close` that has got stuck stays where it is),
`ServerInv` that without a server all handlers and callbacks are in `outlived`,
`StreamInv` that a callback is registered once, before its message is sent, and
`ResultInv` that a callback removed by a final result stays removed. `Released` is
not inductive: `Close` clears no table when there is no server, so that the tables
must have been clear, but for late handlers, whenever the server is gone.
`LateResultRefused` needs that a callback is in the table of its stream's kind
only, as the final result looks in one table.

Constants are constrained only by the named assumptions of the modules, which TLC
checks in every run: types of the parameter functions, positive capacities, names
that are distinct (`Subs \cap Pubs = {}`, `Nil \notin Keys`), finitely many observers
and dispatchers (they are goroutines), and at most one bootstrapping node, as
`dda.yaml:325` demands.

Model-checked only: liveness (`CancelCloses` of `Router`, `AddReturns`,
`CancelClosesUnlessStuck`, `ApplyReturns`, `CancelReturns`, `CloseReturnsUnlessStuck`),
which needs fairness and `ENABLED`, and what the violation runs and section 6 refute.

## 6. Known deviations

Violation runs show the first two, recorded under `findings` with the sentence of the
repository that they contradict.

- `transport.go:614`: `Close` of the Raft binding, a request's handler and the consumer
  of forwarded requests wait for each other (`raft_close_deadlock`).
- `mqtt5.go:631`: `Close` between the two read locks of a subscribing call
  (`mqtt5_close_deadlock`).

The following are stated in the modules as what the repository says, and TLC refutes
each of them under the configuration named, given as its only property.

| Where | Property | Configuration | What happens |
|---|---|---|---|
| `fsm.go:57` | `NoPanic` | `RaftFsm.cfg` | A context cancelled before the initial emission ran (`state/api/api.go:106` allows it) makes the emission send on a closed channel. |
| `fsm.go:150` | `CancelCloses` | `RaftFsm.cfg` | A reader that stops at cancellation, as the gRPC server does, blocks `Apply` with the lock held, and its own channel is never closed, against `state/api/api.go:110`. |
| `store.go:339` | `NoPanic` | `MembershipSafety.cfg` | The same early cancellation for a membership observer. |
| `store.go:346` | `InitializedRegistered` | `MembershipSafety.cfg` | Of two overlapping registrations one takes the id of the other, which is lost. |
| `store.go:324` | `MembersCurrent` | `MembershipSafety.cfg` | A first observer that overtakes hraft is never told of a configuration already stored. |
| `mqtt5.go:661` | `NoNilConn` | `Mqtt5Safety.cfg` | `unsubscribe` goes on without the lock, against the comment at 654-658, and uses a connection that `Close` has set to nil. |
| `mqtt5.go:677` | `ShareKept` | `Mqtt5Safety.cfg` | A shared subscription is a plain one after a reconnect, against `com/api/api.go:175`. |
| `raft.go:72` | `NilMeansMember` | `RaftMembers.cfg` | After a failed `Open` the next one returns nil, against `state/api/api.go:60`. |
| `raft.go:236` | `OpenStaysMember` | `RaftMembers.cfg` | A late request of an earlier `Close` removes a member that is open. |
| `raft.go:230` | `NoNodeLeft` | `Dda.cfg` | `Close` of the last voter, or of a leader that loses its leadership meanwhile, does not stop hraft, against `dda.go:137`. |

Besides, the models show these; each can be reproduced by the change named.

- `pebble.go:193`: `DeletePrefix` of the empty prefix or of 0xff bytes only deletes
  nothing, while a scan with it shows all keys. `DeletesPrefix` without its
  premise.
- `store.go:231`: a `StoreLogs` that fails midway leaves entries which hraft does
  not know of and which may later follow entries of a higher term. `TermsAscend`
  without `failed`.
- `grpc.go:76`: after an `Open` that failed to listen the next one finds a server and
  returns nil although nothing listens. `dead` in `GrpcServer`.
- `store.go:110`, `raft.go:157`: a store opened before the failure stays open, so
  that its directory is locked for this process. `left` in `Dda`, `leaked` in
  `RaftStore`, `stranded` in `RaftBinding`.
- `pebble.go:170`: the error of the flush in `DeleteAll` is ignored; deleted keys may
  come back after a crash. `Durable` without `unflushed`.
- `grpc.go:350`: two overlapping final results for one correlation id are both
  accepted; a final result whose callback fails cannot be repeated, as the callback
  has been deleted.

## 7. Not modelled

Payloads, names and their validation, topic strings beyond topic and share name,
the decoding of publications and RPCs and its errors, TLS, keep-alive and
authentication options, logging (`plog`), the command line and its signals,
configuration files, generated stubs: they have no state that a property could
relate. Unary gRPC calls to the store, to `ProposeInput` and to `PublishEvent` only
pass on what a service returns. The heartbeat fast path of the transport answers
without the consumers. Stores in memory behave as stores on disk until they are
closed; what a Raft node with stores in memory forgets when it is closed is not
modelled. A node that hraft keeps running after `Close` takes no part any more once its
binding has been opened again: what it sends carries the id of the new one. The
consumer of forwarded requests starts with `Open`, not some time after it (`raft.go:205`).
A gRPC-Web server that is disabled is one that does not serve.

The internals of hraft, paho, Pebble, grpc-go and the broker are external: only
what the code relies on appears. hraft calls the FSM from one goroutine and stores
a configuration before adopting it; every MQTT connection starts a clean session;
autopaho runs one `OnConnectionUp` after another; a synced write of Pebble survives
a crash and unsynced ones survive in order; `Stop` of grpc-go cancels calls without
waiting for their handlers (waiting would deadlock with handlers that need `s.mu`).
