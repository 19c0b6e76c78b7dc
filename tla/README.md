# Paperboat: a TLA+ verification project

Paperboat is a command line (`pb`) and a host runtime that give a user terminals,
file transfers, previews and tunnels on a machine of their own, over peer-to-peer
paths that come and go. This directory holds TLA+ models of the parts of it whose
correctness depends on interleaving and failure, the TLC configurations that check
them, and proofs checked by TLAPS.

The parts modelled are the **resumable byte stream** that keeps one logical stream
alive while the encrypted links under it fail and are replaced, the **connection pool**
and the **transport manager** that own those links, the **terminal sessions** and their
**output** on the host, the **operation journal** that makes requests repeatable, and the
**update** of the host runtime with its journal, its worker fence and its gate, and the
**connector control session** by which the edge rolls out tunnel configurations.

## 1. Inventory

| Component | State | Operations | Hard behaviour | What makes it correct |
|---|---|---|---|---|
| **resumable stream** `peertransport/resumablestream` | send and receive buffers with offsets, half-close flags, the active / prepared / retained carrier, epochs, detached timer | Write, Read, CloseWrite, Close, Abort, PrepareCarrier, AcceptCarrier, PromoteCarrier, DropPrepared, readCarrier, writeActive, writeAcknowledgements, failCarrier, expireDetached | about ten goroutines per endpoint, two endpoints, links that fail between any two frames, retransmission, two-phase hand-over of the active carrier | bytes once and in order, kept until consumed, end of stream exact, both ends agree on the carrier, transitions end |
| **connection manager** `peertransport/connectionmanager` | selected, standby, secondary and draining carrier, generation, attempt, late results, replenishment, leases, monitors | Acquire, release, promote, Retire, NetworkChanged, Invalidate, Close, health and replenishment goroutines | late results of races, failures of carriers that have changed their role, idle closing | no carrier forgotten or taken from its lease, takeovers announced, fallback restored |
| **transport manager** `peertransport/transportmanager` | table of entries with reference counts and a ready channel | AcquireCached, acquire, Release, RetirePrefix, Invalidate*, Close | creation outside the lock, several owners that may close | exact counts, closed once, never under a lease, nobody waits for ever |
| **worker update** `hostruntime/workerupdate`, `updateflow`, `updated` | persisted journal, three binary slots, the candidate process | check, stage, start, canary, drain, cut over, monitor, commit, roll back, recover | a crash between any two steps; recovery from every stage | the active binary is never lost; files, fence, gate and journal agree |
| **hostd fence and update gate** `hostruntime/hostdproto`, `hostruntime/runtime` | active and candidate worker, epoch, ledger of transactions | Negotiate, MarkReady, Activate, HandleUpdateGate | workers that activate late, restart of hostd | one worker in charge, the one the journal allows |
| **operation journal** `hostruntime/operation` | bounded table, durable rows | Execute, load | duplicates, eviction, crash between effect and record | at most once, answers durable |
| **terminal sessions** `hostruntime/session`, `pty` | lifecycle, process, input decisions, row | Create, Write, Close, Restart, Delete, capture, recover | late captures, failing statements, crash | one process, row follows it, truthful inputs |
| **terminal output and history** `hostruntime/session/fanout.go`, `history` | history, shared ring, cursors, stored chunks | publish, Attach, Detach, read, Clear, persist | attaching while output arrives, slow readers, the writer racing both | no gap, no repetition, restorable, readers woken |
| **stream coordinator** `tunnel/peer_terminal.go` | desired / prepared / current source, revisions | reconcileCarrier, prepareDesired, recoverDetached | snapshots of paths race the stream's events | one source per carrier |
| **stream registry** `hostruntime/peerrelay/stream_registry.go` | map of logical streams | dispatch of an arriving link | links arrive in any order | one handler per stream |
| **supervisor update** `hostruntime/supervisorupdate` | as worker update | as worker update | as worker update | as worker update |
| **connector control session** `connectorprotocol`, `connectorrotation/control.go`, `tunnelmanager` | edge: registry, pending / candidate / active generation, drain; host: the same and the readiness worker; store, binding and published carrier | Accept, OfferSnapshot, OfferDelta, HandleAck, HandleReadiness, HandleHeartbeat, BeginDrain; ApplySnapshot, ApplyDelta, MarkReady, Heartbeat, HandleDrain; stage, reconcile, promote, swap | frames of a cutover cross heartbeats and drains, a new process replaces an old one, the manager reconciles between staging and binding | the edge serves what the host runs, a stale session is fenced, offers settle |
| **connector data carrier, connector rotation** `hostruntime/connector*` | data connection, credentials | connect, rotate, retire | two credentials overlap | never without a valid credential |
| **host state, tunnel creation journal, store** | versioned files, SQLite | load, save, migrate | crash between write and rename | no lost update |
| **enrollment, previews** `tunnelenrollment`, `preview` | bootstrap state, owner leases | enroll, renew, revoke | lease expiry races use | one owner |
| **file transfer, process execution, environment manager** | chunk maps, process table, transitions | resume, start, signal, switch | interruption, exit races signal | committed file equals the source, processes reaped |
| **network recovery, adaptation, monitor, check** | measurements | probe, adapt | timing | (heuristics) |
| **direct path, relay, QUIC, signaling** | keys, sockets | dial, accept | datagram loss | authenticated, ordered links |
| **server, service, protocol, install, bootstrap, identity, enrollment, config, sync, local daemon, CLI** | mostly external | request routing, OS calls, parsing | I/O | - |

How they interact: the command line's consumers get a pool from the transport manager and
a lease on a carrier from the pool; the coordinator at the *initiator* opens links on
leased carriers, hands them to `PrepareCarrier`, and promotes or drops them as the pool
publishes a new selection or the stream reports that it is detached. At the *responder* the
registry passes every arriving link to `AcceptCarrier`. Applications (a terminal, a file
transfer) use the stream as a `net.Conn`. On the host the stream of a terminal attaches to
a session, whose output goes to every attachment and to the store; requests that change
something go through the operation journal. The edge gives the host its tunnel
configurations over the connector's control session, and the tunnel manager turns them into
carriers. The updater replaces the host's worker binary under all of this, negotiating with
hostd through its socket.

## 2. Modules and plan

| Module | Models | Uses |
|---|---|---|
| `ResumableStream`, `ByteStream` | the stream and its abstract specification | `INSTANCE ByteStream` |
| `ResumableStreamProofs` | theorems about it | `ResumableStream`, `TLAPS` |
| `UpdateJournal`, `HostdFence`, `UpdateGate` | stages and recovery table; hostd's worker fence; the gate's ledger | |
| `WorkerUpdate` | the updater, composed with the three | `UpdateJournal`, `HostdFence`, `UpdateGate` |
| `WorkerUpdateProofs` | theorems about it | `WorkerUpdate`, `TLAPS` |
| `TransportManager` | the table of pools | |
| `TransportManagerProofs` | theorems about it | `TransportManager`, `FiniteSetTheorems`, `TLAPS` |
| `OperationStore`, `OperationJournal` | rows; Execute | `OperationStore` |
| `OperationJournalProofs` | theorems about it | `OperationJournal`, `NaturalOrder` |
| `NaturalOrder` | least and greatest elements of sets of naturals | `FiniteSetTheorems`, `TLAPS` |
| `TerminalSession` | lifecycle, processes, inputs, rows | |
| `TerminalSessionProofs` | theorems about it | `TerminalSession`, `TLAPS` |
| `TerminalOutput` | history, ring, attachments, persistence | |
| `ConnectionPool` | one class of the pool | |
| `ConnectionPoolProofs` | theorems about it | `ConnectionPool`, `NaturalOrder` |
| `ConnectorSession` | the edge's and the host's session, the rollout of a configuration | |
| `ConnectorSessionProofs` | theorems about it | `ConnectorSession`, `NaturalOrder` |

Next: a `StreamCoordinator` composed with `ResumableStream` and the announcements of
`ConnectionPool`.

## 3. `ResumableStream`: state and actions

Two endpoints, `"initiator"` (I) and `"responder"` (R), each a record of the fields
of `Conn`, modelled as functions over endpoints with the source's names (`sendBase`,
`sendNext`, `send`, `recvBase`, `recvNext`, `recv`, `localFIN`, `finSent`, `finAcked`,
`remoteFIN`, `remoteFINAt`, `ackCarrier`, `ackOffset`, `active`, `prepared`,
`retained`, `nextEpoch`, `committedEpoch`, `detached`, `closed`, `terminalErr`).
What the code keeps in goroutines or on the stack is state as well:

| Variable | Stands for |
|---|---|
| `state[e][c]` | `physicalCarrier.state` |
| `reader[e][c]` | a running `readCarrier` |
| `writer[e][c]` | the promotion goroutine: COMMIT_ACK or CONFIRM to be written, then `writeActive` |
| `writeOffset` | the `offset` local of `writeActive` |
| `op`, `opCarrier` | the holder of `transitionMu` and where it waits (`"emit"`: `failCarrier` waiting for room in the event channel) |
| `timer` | `expireDetached`: not started, waiting for the current detachment (`"armed"`), or past its test and about to end the stream (`"fired"`) |
| `events` | how many events lie in the responder's `Conn.events`, which nothing reads |
| `delivered`, `eof` | what `Read` has returned |
| `pending` | links opened but not yet given to PrepareCarrier / AcceptCarrier |
| `link`, `net`, `epoch` | the link, its two FIFO queues, and the epoch proposed on it |
| `panicked` | a reader was started on a nil carrier |

The actions follow the code one to one: `Write`, `Read`, `ReadEOF`, `CloseWrite`,
`Close`, `Abort`, `ContextDone` (the application and its owner); `PrepareCarrier`,
`PrepareRefused`, `PrepareReady`, `PrepareFailed`, `StartReader` (the five places
where `PrepareCarrier` starts, waits or returns); `AcceptCarrier`, `AcceptHello`,
`AcceptRefused`, `AcceptReady`, `AcceptReadyFailed`; `PromoteCarrier`,
`ConfirmCarrier`, `DropPrepared`; `SendData`, `SendFin` (`writeActive`), `SendAck`
(`writeAcknowledgements`); `RecvFrame`, one branch per frame kind of `readCarrier`
and one for `failFrameProtocol`; `FailCarrier`, `ExpireDetached`, `FailExpired`; and the
environment, `OpenLink` and `LinkFail`.

### Granularity and abstraction

* One step is one critical section of `Conn.mu` with the frame read or written next
  to it. For DATA, FIN and ACK picking the bytes and writing them is one step: a
  carrier has one `writeActive`, one acknowledgement loop exists, and a link that
  breaks in between loses the frame either way. The FINACK goroutine is merged into
  the FIN step: what it could be overtaken by, other frames of the same direction,
  does not touch the half-close.
* COMMIT_ACK and CONFIRM are steps of their own, since the acknowledgement loop of the
  same endpoint overtakes them.
* A link delivers in order until it breaks. `Close` by one end leaves what is in
  flight to the other, which may read it or see the break first; a write to a broken
  link is lost.
* Closing a superseded carrier (after the locks are released) is merged with
  superseding it; therefore the code's "stale frame on a superseded carrier" branches
  have no action.
* The tail of `PromoteCarrier` after its wake-up is merged with COMMIT_ACK: it starts
  `confirmCarrier`, which is a step of its own.
* `detachedSeq` is left out: a timer of an earlier detachment never fires because the
  sequence differs, the one of the current detachment may. Its test and the end of the
  stream that follows it are two steps, as they are two critical sections.
* The event channel is modelled where it matters: at the responder, whose registry never
  reads it, as a count up to `EventBuffer`. The initiator's coordinator drains its own,
  and may react to an event whenever it likes.
* The coordinator passes only the stream owner's context, so a wait ends by an answer, a
  carrier failure or the end of the stream (`Woken`); a repeated COMMIT after a
  cancelled promotion is not modelled.
* Bytes are numbered, so that "in order, once" is `delivered = <<1, 2, ...>>`. Chunks
  up to `MaximumFrame` are modelled.
* Each carrier id is used once (`randomCarrierID`). The digest check always passes:
  both ends belong to the same logical stream.
* Frames of the wrong shape or from the wrong role (the `..._shape_or_role` stages and
  `unknown_frame` of `readCarrier`) are never sent by the other endpoint and have no
  stage in `Violation`.
* Not modelled: deadlines of Read and Write, overflow of 64-bit epochs and offsets
  (`New` bounds the window, epochs advance once per promotion).

### `ByteStream`

The abstract specification: per direction the bytes written, whether the writer has
finished, the bytes read and whether the end was read. `ImplementsByteStream` maps
`written` to the first `sendNext` byte numbers and `finished` to `localFIN`.

## 4. The worker update

`WorkerUpdate` composes four parties. The **updater** (`up`, a record of its program
counter and what it has in memory) takes one step per effect: a journal write, a rename, a
process start, a word to a worker, a gate call. `disk` is the journal, `slots` the three
binary files (the version of the bytes in each), `told` the workers that were sent
"activate" and have not yet acted on it. **hostd's fence** (`HostdFence`) is
`hostdproto.Controller` with the epoch it persists, and hostd's own worker after a start.
**hostd's gate** (`UpdateGate`) is its ledger: the entry of the journal's transaction
(`ledger`), and the drained entries that hostd keeps of transactions that a newer executable
retired without a call of the gate (`stranded`, filled by `Forget` when `Supersede` opens a
new journal). The **journal** (`UpdateJournal`) gives the allowed transitions and the
recovery per stage.

Actions: `Start`, `Check`, `Reexec` (the service; a check that resolves no release returns
before it recovers anything, so `Check` needs one on offer, and `Rollout` takes it off and
puts it back); `Begin`, `WriteStage`, `Stage`,
`Launch`, `Hello`, `Canary`, `Drain`, `WriteCutover`, `PromoteRemove/Retire/Install`,
`WritePromoted`, `Tell`, `Activated`, `Monitor`, `Monitored`, `Commit` (Activate, in its
order); `RestoreBegin`, `RestoreGate`, `RollbackBegin`, `RollbackGate`, `Block`,
`RestoreQuarantine`, `RestoreCurrent`, `RemoveStaged`, `WriteIdle` (the ways back);
`Recover*`, one per recovery decision; `WorkerActivates`, `WorkerExits` (a worker process
acts on the word even when its updater is gone); `HostdBoot`, `HostdReady`, `HostdOwn`,
`HostdFenced`, `HostdCrash`; `WorkloadsChange`, `Purge`; and `Crash` and `Publish` of the
environment.

Abstractions: a release is its version; whether the release in hand carries an activation
policy (it came from the signed index) or not (it was read back from the journal) is a
Boolean, because the gate tells the two apart. A failing write leaves either file, since
the directory is synced after the rename. `Monitor` and `Monitored` may turn the update back
although nothing failed: the health check behind the activation finds no heartbeat until the
first one is sent, and the gate's call has less time than the window it observes. Leases and epochs are drawn from a bounded counter
(`MaxLeases`). Not modelled: journals from before the previous release was recorded,
download and signatures, macOS and Windows.

## 5. The transport manager

One step is one critical section of `Manager.mu` or one call made without it. An entry is
numbered when it is created and owns at most one pool; `consumer[c]` says where a caller of
`acquire` is: running the factory, waiting for `ready`, reserved, or holding a lease.
`Scopes` are the sets of keys that a prefix selects. The factory, the pool's own `Acquire`
and `Close` succeed or fail as they like. `revoked` and `built` are history variables.
`TransportManager.NetworkChanged` only forwards to the pools and has no action.

## 6. The operation journal

`OperationStore` has the row of an operation and what each statement does to it;
`OperationJournal` has `Execute`: `Lookup` (join a running duplicate, replay, or refuse),
eviction, cleanup and reservation in one step, as they are one critical section; then
`Run`, `Complete` and `Publish`. `Restart` loses the memory at any point and loads the rows;
`Expire` lets the retention of a row pass. A run's outcome is named by the run, so that
two runs of one operation are told apart. A failing statement changes nothing. The rows
that a purge leaves are `Survivors`, a recursive function over the log, so that the
theorems can speak of it.

## 7. Terminal sessions

**`TerminalSession`** is one session. `op` is the operation that holds `opMu` and what it
does next, so `Create`, `Close`, `Restart`, `Write` are split where they persist, start or
end a process. The capture goroutine of a process reads output without the lock, stops the
writer, and settles the exit under the lock, possibly long after the session has moved on.
The process and the PTY end separately: `alive` are the processes, `open` the terminals that
something still holds open (a child of the process may), and the capture sees the end of the
output, not of the process (`HangUp`). `Terminate` ends the process, runs into its context
or fails: a process that runs as another user (`immune`, `Elevate`) cannot be signalled. After
an error that is not the context's Close goes on and forgets the process; in the background
`finishClosing` gives up, and so does a Close whose persistence goroutine failed: `left`
records that the session was left closing. The closing goroutines of one process
are a set, since a second one does what the first does. The runtime may crash between any two
steps; `Crash` is the crash with the `recover` of the next start, which refuses an exited row
of generation 0 (state `refused`). Inputs are keys (generation and sequence number) with the
journal's decisions; `reached` records what really reached a terminal. Assumed: a failing
statement changes nothing, a write to the PTY returns. Not modelled: Resize, Signal,
WriteStream, Shutdown and ShutdownForRecovery.

**`TerminalOutput`** is the output of one session: a chunk is the interval of the byte
sequence it covers, so overlap, gap and size are arithmetic on its ends. Publishing,
attaching and clearing hold `opMu`; detaching and reading only the ring's lock, so they
come between the enqueuing steps of an attach; the persistence goroutine reads the bounds
of the store, replays the history and appends in three steps. Any failing statement of the
three ends that goroutine for good (`StoreFails`, the writer is `down`), and output is then
stored no more; `OutputIsPersisted` says what holds while it runs. A store that finds the
appended chunk in conflict with what it has would end it too, and `OutputIsPersisted` counts
that as a violation. Assumed: a client uses its attachment id again only after its stream has
returned.

## 8. The connection pool and the connector session

`ConnectionPool` is one class of the pool in the configuration of the command line
(automatic mode, closed when idle, nobody calls Warm or Replace). Every operation holds
`Pool.mu`, so the state is one record and each operation a function from records to
records; helpers such as `FailHealth` compose. A race is the set of paths still running; its
winner is adopted in a step of its own (`AttemptDone`), the others come later
(`FutureWins`, `FutureFails`, `FutureDenied`). Connections are numbered places with a fixed
path that are used again after they are closed. A promotion is published in a second critical
section: `publishing` are the carriers promoted and not yet announced, and `Publish`
announces one if it is still selected. A race goes on after its winner, and its other results
are read until the context ends or one is denied; a candidate that comes up then is open and
belongs to nobody, which the history variable `left` records (`FutureEnd`, `FutureDenied`,
`Invalidate`, `Close`, a stale attempt). A recovery selects a carrier and tells nobody. Not
modelled: exhausted generations, Warm and Replace, the probe scheduler's
timing and quality cache, a health transport that cannot be constructed.

`ConnectorSession` is the connector-v1 control protocol for one connector of one tunnel. A
session is named by the process generation of its hello; each process has one session and a
state root of its own. `edge[s]` is the `ServerSession`, `registry` the current session of
the connector, `host[s]` the `ClientSession` with the `Serve` loop (one goroutine that
reads, writes and takes the readiness result, so a handler is one step, except where the
applier is called: `staging`), `rollout[s]` the durable state (`desired`, `applied`), the
binding of the manager to the session, the carrier being prepared (`want`, `step`) and the
published one. `up` and `down` are the frames on the carrier, in order. The edge's read
loop is not in the repository: after an error it may go on or close. Clocks are left out: a
lease, a credential or a deadline may pass at any moment (`EdgeExpires`, `HostStops`).
`overlapped` and `fault` are history variables. `events` bounds the connections, offers,
drains and failures of a behaviour together, so that any mixture of that length occurs.
Some error branches cannot be reached with this edge (a stale snapshot, a delta over a gap,
a duplicate): they are in the model because they are in the code, and `SettledOffersAgree`
says so. Two outcomes are left out: the publication of a carrier that is refused after its
generation was promoted in the store, because the manager stops (manager.go:581-588), and a
promotion that is committed and returns the context's error (manager.go:644-645). After both
the store is ahead of the published carrier; readiness compares the carrier as well as the
generation, so nothing is reported, and the next round applies again. Not modelled: renewal,
rotation, reconnection within a process, paused and deleted
tunnels, `DrainProgress` and `CompleteDrain`.

## 9. Runs

`CHECK_DEADLOCK FALSE` throughout: a stream that has ended, a closed manager or pool, a
deleted session, or a model whose bounds are used up, stops. `SYMMETRY` over the stream's
carriers is used where no liveness property is checked.

| Run | Bounds | Checks |
|---|---|---|
| `stream_failover` | 2 carriers, window 2, 2 bytes one way, 1 link failure | `TypeOK`, `NoProtocolFailure`, `DeliveredInOrder`, `AckedWasConsumed` |
| `stream_closing` | 2 carriers, window 1, 1 byte and a half-close, 1 link failure, the writer may close, the reader may abort | `EofIsTheEnd`, `NoResetAfterFinAck`, `ImplementsByteStream` |
| `carrier_handover` | 3 carriers, 1 link failure, overlapping coordinator goroutines, 4 places for events | `ActiveIsAccepted`, `CommitAgreement`, `EpochsAdvance` |
| `delivery` | 2 carriers, 1 byte, 1 link failure, fair | `WrittenIsDelivered`, `TransitionsEnd` |
| `worker_update` | 3 versions, 6 leases, 1 crash of the updater, 1 of hostd, 1 failing call, fair; 1,319,832 states | `ActiveReleaseKept`, `CutoverIsJournaled`, `LedgerAgrees`, `CutoverIsResolved` |
| `rollback_retry` | 2 versions, 2 failing calls, no crash, fair | `RollbackIsRetried`: violated, section 11 |
| `transport_manager` | 3 consumers, 2 keys, 2 entries, fair; 220,982 states | `RefsExact`, `ClosedOnce`, `WaitersReturn`, `PoolsReclaimed` |
| `operation_journal` | 2 callers, 3 operations, 2 requests, a table of 2, 1 restart, 1 failing statement, 1 expiry, fair | `AtMostOnce`, `AnswersAreDurable`, `WaitersReturn` |
| `terminal_session` | 2 processes, 1 input in each generation, 2 decisions, 1 chunk, 1 crash, 1 failing statement, fair; 582,194 states | `NoOrphan`, `RowFollows`, `InputsAreTruthful`, `EndsAreSettled` |
| `terminal_output` | 2 attachments, 5 bytes in chunks of up to 2, a history of 2, queues of 3, a replay of 1, fair; 306,704 states | `InStep`, `Restorable`, `WaitersWake`, `OutputIsPersisted` |
| `connection_pool` | 3 carriers, one per path, 2 applications, 2 generations, fair; 558,483 states | `OpenIsOwned`, `LeaseKeepsCarrier`, `TakeoverIsAnnounced`, `FallbackRestored` |
| `connector_session` | 2 sessions, 3 generations, 3 events, 1 heartbeat on the wire, fair; 864,096 states | `ServedIsApplied`, `SettledOffersAgree`, `StaleSessionsAreFenced`, `OffersSettle` |

Each module has a `TypeOK`; only the stream's is among the run properties, because it is
also a theorem.

Why the bounds suffice to be interesting. Stream: two carriers give every overlap of an old
and a new carrier (a hand-over involves two at a time); the third in `carrier_handover`
gives two hand-overs in a row and a hand-over after a failed one. Two bytes with
`MaximumFrame = 2` give frames that overlap the received prefix partly. `EventBuffer` is 16,
the code's capacity, which few carriers never fill; `carrier_handover` scales it down to
where the channel is full after two carriers. Update: three versions give an update that is
superseded by a newer release while the older one is journalled; one crash of either process
and one fault fall between any two steps. Transport manager: a creator, a waiter and a
releaser, on two entries of the same or of different keys. Journal: three operations for two
places, so that eviction, a running duplicate and a full table occur together. Session: two
processes are a restart with the late capture of the first; one input for each, repeated at
will, meets the other's decision (two inputs of one generation are covered by the theorem).
Output: the history, the queues and the replay are smaller than what is printed, so trimming,
eviction, replay and an attachment that starts at the tail all happen. Pool: one carrier of
each path is a race with a winner, a standby and a secondary, and the second generation is
begun by a promotion or a network change; the safety is proved for any number. Connector: three events are two processes and an
offer, or one process with an offer and a failure; three generations let the configuration
move on between the reading of a snapshot and the next offer.

**Fairness.** Stream (`FairSpec`): weak fairness for every goroutine of the two endpoints
that can run (the Go scheduler), for the application's Read, and for the timer;
`AcceptCarrier` has strong fairness because `sync.Mutex` hands over to a starving waiter.
The coordinator opens a first link and promotes a prepared carrier while none is active
(`AttachInitial`, `recoverDetached`); it owes nothing else, and nothing obliges the network
or the application's writes. Update: the updater, its scheduler, the workers and a starting
hostd run on; nobody has to put a release on offer again, so `CutoverIsResolved` speaks of
behaviours in which one is. Transport manager: factories have a bounded context, woken callers and
closings run on; nobody has to release. Journal: whoever runs an operation goes on until it
has published. Session: an operation goes on, and the capture and closing goroutines get the
mutex at last (strong fairness); no process has to end or to print. Output: the persistence
goroutine, an attach under way and a woken reader go on. Pool: openings have deadlines and
the retry has a timer (weak), and an opening that is tried again and again succeeds at last
(strong); nothing else is obliged. Connector: the edge's read loop, the host's loop, the
readiness worker and the manager, which polls and is notified, go on; that the loop takes a
waiting result is the randomness of Go's `select`. Nothing obliges a link to last, but applies
fail finitely often, as `events` bounds the failures: an origin that stays down is waited for
without a deadline (protocol_applier.go:146-153), and `OffersSettle` says nothing of it.

## 10. Proofs

### The stream

`ResumableStreamProofs` proves, for every set of carriers, every window and every
bound (only `CarriersAssumption`, `WindowAssumption`, `BoundsAssumption` and
`ClientAssumption` are assumed):

* `TypeCorrect`: `Spec => []TypeOK`;
* `Ordered`: `Spec => []DeliveredInOrder`;
* `Retained`: `Spec => []AckedWasConsumed`;
* `Ended`: `Spec => []EofIsTheEnd`;
* `Invariance`: `Spec => [](TypeOK /\ DataInv)`, on which they rest;
* `Implements`: `Spec => ImplementsByteStream`, the refinement;
* `NoFalseAlarm`: `Spec => []NoProtocolFailure`;
* `Agreement`: `Spec => []CommitAgreement`;
* `WritesAreHeard`: `Spec => []ActiveIsAccepted`;
* `FinishedIsKept`: `Spec => []NoResetAfterFinAck`;
* `Forward`: `Spec => EpochsAdvance`;
* `CarriersInvariance`: `Spec => []StreamInv`, on which the last five rest.

None of the safety properties is inductive: delivery depends on what is in flight on
carriers whose endpoints may disagree about their state. `DataInv` makes it so. It
consists of `SendShape` and `RecvShape` (each buffer holds exactly the bytes between
its two offsets), `FramesTruthful` (every frame in flight, on any carrier, in whatever
state, says only what is and stays true of its sender: DATA carries bytes the sender
wrote at their offsets, ACK and the handshakes do not exceed what was consumed, FIN is
the final length), `AckedWasConsumed` and `EofIsTheEnd`. The argument is that frames
remain truthful because offsets only grow and a half-close freezes `sendNext`; a frame
is therefore harmless *whenever and wherever* it is applied, which is why the proof
needs nothing about carrier states. `NeutralStep` disposes of the actions that touch
no offset, so the proof has one substantial lemma for each of Write, Read, CloseWrite,
DATA, FIN, FINACK and the acknowledging frames.

The refinement maps `written` to the bytes `1..sendNext` and `finished` to `localFIN`.
A Read is the abstract Read because `RecvShape` says that what it takes continues what
was delivered; the end of stream is abstract because of `EofIsTheEnd` and `EofInv` (after the
end nothing is buffered any more); every other action is a stutter (`appVars` unchanged).

Carriers are a second induction, on `StreamInv`: the data invariant, `CarrierInv`,
`OrderInv` and `EndInv` together, because they need each other. That a frame is legal
(`Lawful`) needs all of the first three, and what a frame does to the carriers is only known
once it is legal.

* `CarrierInv` says for every carrier, whatever its state at the two ends: which states go
  with which slot (`SlotAt`), that nothing has happened before the handshake (`FreshAt`),
  which goroutines run (`WorkerAt`), that a carrier that has lost its slot is closed
  (`DeadAt`), how its epoch compares with the committed ones (`EpochAt`, `EpochOrder`), what
  COMMIT and COMMIT_ACK have achieved (`CommittedAt`), and which frames can be on its two
  wires (`ToResponderAt`, `ToInitiatorAt`): at most one COMMIT, no byte before COMMIT_ACK,
  DISCARD only for a carrier that was never committed.
* `OrderInv` says that on every wire whose frames are still applied no frame skips a byte,
  also counting the ones before it, and that on the carrier the peer writes on they lead up
  to the writer's offset. A new active carrier starts again at the oldest unacknowledged byte
  (`ResumeOffset`), which is why this survives a hand-over.
* `EndInv`: a stream ends by RESET, expiry or its owner only, and not by RESET once it has
  the peer's half-close.

Most actions neither propose, accept nor commit a carrier. `Calm` collects what they have in
common (a carrier may leave its slot and is closed then, wires are only read, closed or
written with frames that fit) and `CalmStep` shows once that such a step keeps `CarrierInv`;
the others have a lemma each (`PrepareCarrierStep`, `PrepareReadyStep`,
`AcceptCarrierStep`, `AcceptHelloStep`, `AcceptReadyStep`, `PromoteStep`, `DropStep`,
`RecvCommitStep`, `CommitAckStep`, `RecvCommitAckStep`, `OpenLinkStep`). `OrderInv` likewise
rests on `Tame` (wires that only lose frames or get frames without bytes). No fact about the
number of carriers or failures is used, so the theorems hold for overlapping hand-overs of
any depth, which the runs reach only for two and three carriers.

### The worker update

`WorkerUpdateProofs` assumes `FenceAssumption` (versions are positive, at least one lease)
and `UpdateAssumption` (bounds are naturals) and proves, for every set of versions and every
number of leases, crashes and faults:

* `ActiveReleaseNeverLost`: `Spec => []ActiveReleaseKept`;
* `CutoverNeedsJournal`: `Spec => []CutoverIsJournaled`;
* `LedgerFollowsJournal`: `Spec => []LedgerAgrees`;
* `UpdateTypeCorrect` and `UpdateInvariance`: `Spec => [](TypeOK /\ UpdateInv)`.

The properties speak of files and of hostd; a step that changes a file relies on what
earlier steps left, and recovery relies on what any crash may have left. `UpdateInv` says
it, one conjunct for each thing: `DiskInv` (where both releases can be for each stage on
disk), `StageInv` (the stage on disk at each step), `SlotInv` (the slots at each step),
`HandInv` and `ClosingInv` (the journal in memory against the one on disk), `ActiveInv`
(which release an updater that was started anew takes for the active one), `ReturnInv`
(where the storage helpers return to), `GateInv` (ledger and journal), `LeaseInv` and
`WorkerInv`. Two parts of it carry the argument. A transaction read back from the journal has
no activation policy, so the gate passes none of its calls: a recovery never moves the
ledger, and what `GateInv` says of a drained entry survives it. And a worker that was told to
activate may do so at any later time, also after the updater that told it has crashed;
`Tame(Limit)` bounds the release that any such worker runs by what the journal on disk
allows, which is why the journal must be written before the word is sent. The proof has one
lemma for each action of the updater, of its workers, of hostd and of the gate, and in it
one case for each outcome: `FailKeeps` and `FrameKeeps` dispose of the outcomes in which
the updater gives up or touches nothing; `CallEffect` says once what a call of the gate can
leave behind when its answer is lost, and `OpenEffect` what a new journal leaves of the ledger.

The second half of `LedgerAgrees`, that hostd keeps drained entries only of releases before
the active one, has an induction of its own on `StrandedInv`. It rests on the active release of
the journal never becoming an older one (`Behind`): an entry is left behind only by
`Supersede`, which needs an executable newer than the journal's active release
(`OpenStrands`); the other writes of the journal keep or raise the active release
(`WriteStrands`), and calls of the gate add nothing (`CallStrands`).

### The transport manager

`TransportManagerProofs` assumes `ManagerAssumption`; it needs the consumers to be finitely
many, as the goroutines of a process are, for the counts to be numbers. It proves
`ReferencesExact` (`RefsExact`), `PoolClosedOnce` (`ClosedOnce`), `ManagerTypeCorrect` and
`ManagerInvariance`. The factory runs outside the lock, so the two properties need what its
caller may rely on when it comes back: `ManagerInv` adds `TableInv` (entries of different keys
differ, a closed manager has none), `HandsInv` (what consumers have in hand, and that one
of them at most builds an entry) and `StageInv` (how far an entry has come: one in the
table was never closed, one under construction has no pool).

### The operation journal

`OperationJournalProofs` assumes `JournalAssumption`, with finitely many operations for the
counts of the purge, and proves `ExecutedAtMostOnce` (`AtMostOnce`), `AnswersDurable`
(`AnswersAreDurable`), `JournalTypeCorrect` and `JournalInvariance`. `JournalInv` adds that a
caller that executes has its entry in the table (`RunnerInv`: nothing can evict it, so no
duplicate starts a second run), that runs are paid for by purges of the row (`CountInv`),
that a finished entry agrees with its row (`EntryInv`), and that the log of the store and the
order of eviction hold each operation once (`LogInv`, `OrderInv`). What the filter of a
purge and the prefix taken by an eviction leave of a sequence is a fact about sequences of
any length. Where it needs induction, the proof takes the least index that is a
counterexample, which `NaturalOrder` provides: `LeastNatural` follows from the
well-foundedness of strict inclusion on finite sets, a theorem of the library without an
operator parameter.

### Terminal sessions

`TerminalSessionProofs` assumes `SessionAssumption` and proves `ProcessesOwned` (`NoOrphan`),
`RowsFollow` (`RowFollows`), `InputsTruthful` (`InputsAreTruthful`), `SessionTypeCorrect` and
`SessionInvariance`, for every number of launches, inputs, decisions, crashes and faults.
`SessionInv` adds what each step of the operation that holds the lock knows of the session
and of its row (`OpInv`, `StepInv`), that a session holds a process exactly when it runs or
is being closed (`LifeInv`; the processes that cannot be signalled are excepted, as Close
forgets them), which persistence goroutine is there (`OutputInv`), and how
the journal of inputs in memory, the durable decisions and the terminal agree while an
input is decided and not yet written (`DecisionInv`, with `Pending`).

### The connection pool

`ConnectionPoolProofs` assumes `PoolAssumption` (the carriers are numbered, each has a path)
and proves `CarriersOwned` (`OpenIsOwned`), `LeasesKept` (`LeaseKeepsCarrier`),
`TakeoversAnnounced` (`TakeoverIsAnnounced`), `PoolTypeCorrect` and `PoolInvariance`, for any
number of carriers on each path, where the run has one. An operation of the pool is a
function on its states made of smaller ones, and in between a carrier may have lost its place
and not be closed yet. So the lemmas are about states: `Loose(S, X)` is the invariant of S
but for the carriers of X, which may have lost their owner; a function that takes places
away gives `Loose(T, X)` for the carriers it took them from (`RolesLeft`), and the call of
`closeIfUnownedLocked` that ends it gives `Loose(T, {})` back (`ShedKeeps`). `Like` says what
the other changes, of monitors, trust, generation or announcements, leave alone. The properties
are not inductive by themselves: a carrier with a place must be open and have one place only
(`RolesOpen`, `RolesApart`), or a takeover would select a closed carrier, and a race goes on
only while nothing is selected (`RaceInv`), or its winner would replace a carrier in use.
`Current` is `TakeoverIsAnnounced` without the condition that the carrier is open, and part
of the invariant: a carrier that takes over is announced at once, or, after a promotion, put
among the ones being published, from where only its own publication removes it while it is
selected. `Told` (`Current` is kept) and `Keeps` (a leased carrier stays open), about two
states, go along the same lemmas; `LeasesKept` is the only action property.

`OpenIsOwned` and `CarriersOwned` are about the carriers that reach the pool. A candidate whose
result nobody reads any more never does (`left`, section 11, item 23).

### The control sessions

`ConnectorSessionProofs` assumes `BoundsAssumption` (the bounds are naturals, with at least
one session and one generation) and proves `ServedNeverAhead` (`ServedIsApplied`),
`SessionsFenced` (`StaleSessionsAreFenced`), `OffersAgree` (`SettledOffersAgree`) and
`ConnectorInvariance`. The edge learns what is
active from a frame that was written earlier, so `ServedIsApplied` needs what the frame
still says when it is read: `WireInv` (a readiness on the wire names a generation that the
host has made active, which stays true because the host's active generation only grows),
`HostInv` (what is staged, a candidate or waited for is newer than what is active, and a
result of the wait is already durable and published) and `RolloutInv` (the store and the
carriers move forward, also between the steps of an apply that a newer desired generation
overtakes). A step touches one session, and `OneSession` carries the others over;
`EdgeMoves`, `HostMoves` and `RolloutMoves` say what each side of a session may
change, and each handler is shown to be such a move.

`OffersAgree` has an invariant of its own, `SettledInv`: a session in which the edge began
nothing before a cutover had settled has met no error, and `AgreeInv` holds of its two ends
and its two wires. "No error" alone is not inductive, since an error shows only when a frame
written long before is read; the invariant says of every frame on a wire what its reader will
be like by then. `UpInv`: an acknowledgement answers what is pending, a readiness names the
candidate or follows the acknowledgement that makes it one, and a heartbeat names what the
edge expects, or, behind a readiness, what that readiness will have made active; nothing
follows a refusal. `DownInv`: a configuration follows what the host has active, and the host
has nothing under way until it reads it; answers to a readiness and drains name the active
generation and are in front of the next configuration. `Between` says which of the two wires
or ends the configuration under way is at. `Written...` and `Read...` say what `Append` and
`Tail` do to these, the `Agree...` lemmas take one session through each kind of step, and
`OneAgrees` carries the others over. A step that overlaps ends the claim: `overlapped` is set
in the same step.

### Only model-checked

Liveness under fairness (`WrittenIsDelivered`, `TransitionsEnd`, `CutoverIsResolved`,
both `WaitersReturn`, `PoolsReclaimed`, `EndsAreSettled`, `WaitersWake`,
`OutputIsPersisted`, `FallbackRestored`, `OffersSettle`) is out of
this prover's reach. The only safety that is not proved is that of `TerminalOutput` (`InStep`,
`Restorable`), whose state is sums over chunks of any length, which needs induction over data.

## 11. What the code does not do

The run `rollback_retry` expects a violation; its finding in `PROJECT.json` quotes the
comments it contradicts. A rollback of a drained update that the gate fails once is blocked
and never completed: the retry presents a release that was read back from the journal and
carries no activation policy, so the gate refuses it each time.

The models show further behaviours that no property claims, because the property one would
like does not hold. They are listed here for whoever changes the code.

Stream:

1. The responder acknowledges on a carrier as soon as it has applied COMMIT, possibly before
   COMMIT_ACK is on the wire; the initiator discards that ACK (conn.go:697) and the responder
   does not repeat it. The writer's window stays full.
2. A FINACK lost with its carrier is not repeated when the FIN is (conn.go:712), so
   WaitWriteClosed does not return.
3. After a lost READY the initiator proposes an epoch again that the responder has already
   used and refuses (conn.go:186, 220, 243). A lost COMMIT_ACK ends the same way. The
   detached timer ends the stream in the end.
4. A second promotion before CONFIRM is handled overwrites the retained carrier at both
   ends (conn.go:794): its link is closed by nobody.
5. `PrepareCarrier` reads `c.prepared` outside its lock (conn.go:199); a Close in between
   starts a reader on nil (`panicked`).
6. The responder's event channel, which nothing reads, is full after five or six hand-overs;
   `failCarrier` then waits in `emit` with `transitionMu` held and the detached timer not
   started (conn.go:1175).
7. `expireDetached` tests under its lock and ends the stream after releasing it, so a standby
   promoted in between is closed with the stream (conn.go:1124).
8. With two coordinator goroutines (`SingleCoordinator = FALSE`) `TransitionsEnd` fails:
   `AcceptCarrier` reads a hello with `transitionMu` held (conn.go:207). When candidate
   promotion is configured, as in production, the coordinator's calls run in one goroutine
   (peer_terminal.go:1360).

Update:

9. A newer executable retires an interrupted transaction (manager.go:449-454) without telling
   the gate: hostd keeps the entry as drained, and its purge skips drained ones
   (standalone_update_gate.go:235), so the ledger of 128 only loses that place
   (`LedgerAgrees` says which entries can be left so). The comment above the condition says
   "never use this path for rollback", but the condition lists the stages rollback and blocked,
   which a transaction also reaches after its cutover: when the updater dies before the files
   are restored, the candidate that was to be rolled back starts, is newer than the journal's
   active release, and retires its own rollback. A rollback worker that was told to activate by
   the updater that died can still activate afterwards: hostd then runs the old release while
   journal and slot name the new one.
10. A crash after the candidate became the current binary and before the journal is idle
    leaves an updater that is started from the candidate while the journal's active release is
    the old one. At the stages cutover, monitoring and committed it refuses at every start and
    check until somebody intervenes (manager.go:459, 1224), although the comment at
    manager.go:369-370 says "Recovery can then query hostd and deterministically restore one
    owner". `CutoverIsResolved` excepts this (`Estranged`). A committed journal is never
    finished after a restart, for the same missing policy as in the finding. And a check that
    resolves no release, or fails to, returns before any recovery (manager.go:240-243).
11. A crash between the two renames of `promoteStorage`, or a rename whose undo fails too,
    leaves no current binary; the bytes are in the rollback slot (`ActiveReleaseKept`).
12. An undisturbed update may be turned back and its release quarantined. The health check
    right after the activation (manager.go:676-678, 704) refuses a status without a heartbeat
    (service_unix.go:217), which hostd has none of until the worker's first one, an interval
    after its activation (worker_unix.go:233-240); the acceptance test's hostd stamps one at
    every call (signed_update_linux_acceptance_test.go:446). The gate's stability call has the
    time until the deadline that was set together with the window (manager.go:403, 679-684),
    less than the window it observes. Workloads that change between drain and stability and
    the gate's two-hour purge between canary and drain turn an update back too. So no property
    says that an update completes.

Transport manager and operation journal:

13. A pool retired under a lease is not closed once the manager is closed (manager.go:206;
    `PoolsReclaimed` excepts it), and a creator may get ErrInvalid when another consumer
    acquires and releases the last reference first (manager.go:157).
14. Entries with an uncertain outcome are never evicted; a table full of them refuses new
    operations until a restart. The pending row of an operation that runs longer than the
    retention is deleted (journal.go:151), which `AtMostOnce` counts.

Sessions and output:

15. A failed persist leaves memory and row apart (manager.go:600, 683, 891), a failed Create
    leaves a row that says running (manager.go:1049); `RowFollows` says what still holds.
16. The late capture of an old process stops the persistence goroutine of the new one
    (manager.go:873); that conjunct of `RowFollows` is about the
    first process.
17. `Write` holds `opMu` during the write to the PTY and `capture` needs it to publish
    (manager.go:433, 857): a process that prints much before it reads can block both.
18. Input decisions are not pruned within a generation; a full journal refuses further
    inputs. `finishClosing` returns on any error of Terminate, EPERM, ESRCH or its timeout
    (manager.go:639-641): the session stays closing until Close is called again, and
    `EndsAreSettled` counts it as left. A failed statement at the end of it (manager.go:647)
    leaves the row behind the session. Close itself goes on after such an error
    (manager.go:612-619) and gives up a process that runs as another user, which `NoOrphan`
    excepts. A crash during the restart of a session that never had a process leaves an exited
    row of generation 0, which `recover` refuses (state.go:42): the manager does not start. The
    first failing statement ends the persistence goroutine (manager.go:941-944, 953-955,
    970-973, 990-993); what the process prints from then on is not stored.
19. An attachment id that is used again while the stream of its first use still reads mixes
    the two streams (fanout.go:199).

Pool:

20. A carrier recovered after a loss is selected without a monitor and without an
    announcement (pool.go:1683).
21. A fallback adopted after a network change has a newer generation than the selected
    carrier, so a failover does not take it; an opening outdated by a promotion is dropped
    and not restarted (pool.go:1228).
22. A second failover overwrites the draining carrier (pool.go:1383): its lease is no longer
    counted and the pool may go idle under it.
23. A denied late path closes the selected carrier under its leases and leaves the standby
    in place (pool.go:1590). After it, and when its context ends, `awaitWarmFallback` returns
    without reading the results that are still to come (race.go:595-598, 605-607): a candidate
    that comes up then, or whose result was already there, stays open and nobody closes it,
    also when Invalidate or Close of the pool ended the context (pool.go:789-812, 888-921),
    and a stale attempt closes its winner but not what its StandbyReady still brings
    (pool.go:528-531). `transportmanager.Manager.Invalidate` says that it "closes all carriers
    for key" (transportmanager/manager.go:266).

Connector session:

24. A snapshot offered before the previous candidate is ready always ends the session: the
    host stages it durably and then refuses it (session.go:1078), leaving it desired.
25. An acknowledgement of Ready that is read after the next generation was promoted ends the
    session with ErrIdentityMismatch (control.go:357).
26. A drain that arrives during a cutover is refused and ends the session: the host's ready
    generation is 0 while a candidate is staged (session.go:1369).
27. A readiness report during a drain sets the edge's session back to ready (session.go:514),
    and a session can be drained only once (session.go:683). Nothing in the repository calls
    `DrainProgress` or `CompleteDrain`, so an accepted drain is never completed.
28. After an acknowledgement the edge's read loop passes over as an error, a snapshot of the
    generation of the pending delta is acknowledged as a duplicate and stays the candidate
    for ever: the host has reported that generation ready already (session.go:374-454).
    `OffersSettle` is therefore about sessions without such an error.
29. A generation promoted in the store whose carrier is not published any more
    (manager.go:581-588, 644-645) is the last known good of the next start, although the edge
    was never told of it.

## 12. Not modelled

See the components of `PROJECT.json` for the reasons: cryptography and datagram I/O,
operating-system services, message formats, configuration parsing and the command line are
pure I/O or formatting; credential rotation, previews and the environment manager are
halves of protocols whose other half is a server outside the repository; the supervisor
update repeats the journal discipline of the worker update; the stream coordinator is the
next module of the plan.
