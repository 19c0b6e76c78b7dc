-------------------------- MODULE ResumableStream --------------------------
(***************************************************************************)
(* The resumable byte stream of internal/peertransport/resumablestream:    *)
(* two endpoints exchange acknowledged bytes over a sequence of carriers   *)
(* (encrypted links).  The initiator prepares, promotes and discards       *)
(* carriers; the responder accepts them.  A carrier may fail at any moment *)
(* and the stream continues on the next one.                               *)
(*                                                                         *)
(* One step is one critical section of Conn.mu together with the frame     *)
(* written or read next to it.  COMMIT_ACK and CONFIRM, which other        *)
(* writers of the same endpoint can overtake, are steps of their own.      *)
(* The n-th byte an endpoint writes is the number n.                       *)
(***************************************************************************)
EXTENDS Naturals, Sequences, FiniteSets

CONSTANTS
    Carriers,          \* the links the initiator may open, each used once
    None,              \* no carrier
    Window,            \* Config.WindowBytes
    MaximumFrame,      \* maximumFrame, the largest DATA payload
    InitiatorBytes,    \* bound: bytes the initiator's application writes
    ResponderBytes,    \* bound: bytes the responder's application writes
    HalfClosers,       \* endpoints whose application calls CloseWrite
    Closers,           \* endpoints whose application calls Close
    Aborters,          \* endpoints whose owner calls Abort or cancels the context
    MaxLinkFailures,   \* bound: links the network breaks
    EventBuffer,       \* capacity of Conn.events
    SingleCoordinator  \* one goroutine opens, prepares, promotes and drops

ASSUME CarriersAssumption == None \notin Carriers
ASSUME WindowAssumption ==
    /\ Window \in Nat \ {0}
    /\ MaximumFrame \in Nat \ {0}
ASSUME BoundsAssumption ==
    /\ InitiatorBytes \in Nat
    /\ ResponderBytes \in Nat
    /\ MaxLinkFailures \in Nat
    /\ EventBuffer \in Nat
    /\ SingleCoordinator \in BOOLEAN

I == "initiator"
R == "responder"
Endpoints == {I, R}
ASSUME ClientAssumption ==
    /\ HalfClosers \subseteq Endpoints
    /\ Closers \subseteq Endpoints
    /\ Aborters \subseteq Endpoints

Peer(e) == IF e = I THEN R ELSE I
MaxBytes(e) == IF e = I THEN InitiatorBytes ELSE ResponderBytes

VARIABLES
    \* the send half of Conn
    sendBase, sendNext, send, writeOffset, localFIN, finSent, finAcked,
    \* the receive half of Conn; delivered and eof are what Read has returned
    recvBase, recvNext, recv, delivered, eof, remoteFIN, remoteFINAt,
    ackCarrier, ackOffset,
    \* the carriers an endpoint knows and the goroutines that serve them
    active, prepared, retained, state, nextEpoch, committedEpoch,
    reader, writer,
    \* the life of the logical stream
    detached, timer, closed, terminalErr,
    \* the holder of transitionMu and the method it is in
    op, opCarrier,
    \* links handed to an endpoint whose PrepareCarrier/AcceptCarrier has not begun
    pending,
    \* the links: up or down, the frames in flight towards each endpoint, the
    \* epoch the initiator proposed on it, and how many the network has broken
    link, net, epoch, linkFailures,
    \* events in the responder's channel, which the stream registry never reads
    \* (the initiator's coordinator does)
    events,
    \* PrepareCarrier has started a reader on a nil carrier
    panicked

sendVars    == <<sendBase, sendNext, send, writeOffset>>
finVars     == <<localFIN, finSent, finAcked>>
recvVars    == <<recvBase, recvNext, recv, delivered, eof>>
remoteVars  == <<remoteFIN, remoteFINAt>>
ackVars     == <<ackCarrier, ackOffset>>
slotVars    == <<active, prepared, retained, state, nextEpoch, committedEpoch>>
workerVars  == <<reader, writer>>
lifeVars    == <<detached, timer, closed, terminalErr>>
opVars      == <<op, opCarrier, pending>>
linkVars    == <<link, net, epoch, linkFailures>>
sideVars    == <<events, panicked>>
dataVars    == <<sendVars, finVars, recvVars, remoteVars, ackVars>>
controlVars == <<slotVars, workerVars, lifeVars, opVars>>
vars == <<dataVars, controlVars, linkVars, sideVars>>

Slots        == Carriers \cup {None}
CarrierStates == {"none", "provisional", "prepared", "committing", "active",
                  "retained", "superseded", "failed"}
FrameKinds == {"PREPARE", "READY", "DATA", "ACK", "FIN", "RESET", "FINACK",
               "COMMIT", "COMMIT_ACK", "CONFIRM", "DISCARD", "DISCARD_ACK"}
ProtocolFailures ==
    {"carrier_not_application", "data_sequence_gap", "data_window_exceeded",
     "ack_beyond_send_next", "fin_sequence_mismatch", "fin_ack_state_mismatch",
     "commit_carrier_not_prepared", "commit_ack_carrier_not_committing",
     "discard_carrier_not_prepared", "discard_ack_carrier_not_prepared"}
TerminalErrors == {"none", "reset", "expired", "aborted"} \cup ProtocolFailures

(***************************************************************************)
(* Frames and links.                                                       *)
(***************************************************************************)
Frame == [kind : FrameKinds, seq : Nat, data : Seq(Nat), ack : Nat,
          committed : Nat]

\* The frames in flight on each carrier towards each endpoint.
Wires == [Carriers -> [Endpoints -> Seq(Frame)]]

\* A header, with a payload only for DATA.
Header(kind, seq, data) ==
    [kind |-> kind, seq |-> seq, data |-> data, ack |-> 0, committed |-> 0]

\* Mutant: the handshake acknowledges one byte too few.
Hello_OffByOne(kind, ep, committedEp, ack) ==
    [kind |-> kind, seq |-> ep, data |-> <<>>, ack |-> ack - 1,
     committed |-> committedEp]

\* helloV2; its fin and finOffset fields are written and never read.
Hello(kind, ep, committedEp, ack) ==
    [kind |-> kind, seq |-> ep, data |-> <<>>, ack |-> ack,
     committed |-> committedEp]

\* writeFrame/writeHello at e: what is written to a broken link is lost.
Push(n, e, c, f) ==
    IF link[c] = "up" THEN [n EXCEPT ![c][Peer(e)] = Append(@, f)] ELSE n

\* readFrame/readHello at e takes the oldest frame.
Pop(n, e, c) == [n EXCEPT ![c][e] = Tail(@)]

\* conn.Close at e of every link in S: e reads no more; the peer may still
\* read what was in flight, and then sees the link broken.
CloseNet(n, e, S) ==
    [c \in Carriers |-> IF c \in S THEN [n[c] EXCEPT ![e] = <<>>] ELSE n[c]]
CloseLinks(S) == [c \in Carriers |-> IF c \in S THEN "down" ELSE link[c]]

\* writeFrame(RESET) on every link in S, then conn.Close.
ResetNet(n, e, S) ==
    [c \in Carriers |->
        IF c \in S /\ link[c] = "up"
        THEN [n[c] EXCEPT ![Peer(e)] = Append(@, Header("RESET", 0, <<>>))]
        ELSE n[c]]

(***************************************************************************)
(* Predicates on one endpoint.                                             *)
(***************************************************************************)
Open(e)     == ~closed[e] /\ terminalErr[e] = "none"
Attached(e) == {active[e], prepared[e], retained[e]} \ {None}

\* Mutant: finished only once the application has read everything.
RemoteFinished_Drained(e) == remoteFIN[e] /\ recvBase[e] >= remoteFINAt[e]

\* Everything the peer sent before its half-close has arrived.
RemoteFinished(e) == remoteFIN[e] /\ recvNext[e] >= remoteFINAt[e]

\* Mutant: acknowledge bytes when they arrive.
Acknowledged_OnArrival(e) == recvNext[e]

\* What ACK, PREPARE and READY acknowledge: the bytes Read has consumed.
Acknowledged(e) == recvBase[e]

\* applicationDisposition: may application frames of carrier c be applied?
Disposition(e, c) ==
    IF \/ active[e] = c /\ state[e][c] = "active"
       \/ retained[e] = c /\ state[e][c] = "retained"
    THEN "accept"
    ELSE IF \/ state[e][c] \in {"retained", "superseded", "failed"}
            \/ state[e][c] = "active" /\ active[e] # c
         THEN "ignore"
         ELSE "reject"

\* The writer of the active carrier starts again at the oldest byte the peer
\* has not acknowledged.
Offset(e) == IF writeOffset[e] < sendBase[e] THEN sendBase[e] ELSE writeOffset[e]

\* The running writeActive of the active carrier has DATA or FIN to send; the
\* acknowledgement loop has an ACK to send.
Writing(e) == active[e] # None /\ writer[e][active[e]] = "run" /\ Open(e)
DataDue(e) == Writing(e) /\ Offset(e) < sendNext[e]
FinDue(e)  == /\ Writing(e) /\ Offset(e) >= sendNext[e]
              /\ localFIN[e] /\ ~finAcked[e] /\ finSent[e] # active[e]
AckDue(e)  == /\ active[e] # None
              /\ ~(ackCarrier[e] = active[e] /\ ackOffset[e] >= Acknowledged(e))

(***************************************************************************)
(* Shared effects.                                                         *)
(***************************************************************************)
\* discardAckedLocked.
DiscardAcked(e, offset) ==
    IF offset <= sendBase[e]
    THEN UNCHANGED <<sendBase, send>>
    ELSE /\ sendBase' = [sendBase EXCEPT ![e] = offset]
         /\ send' = [send EXCEPT ![e] =
                        SubSeq(@, offset - sendBase[e] + 1, Len(@))]

\* Mutant: DropPrepared does not wait for the stream's context.
Woken_PromoteOnly(e) == op[e] = "promote"

\* The stream's context wakes the goroutine waiting in a carrier transition;
\* PrepareCarrier and AcceptCarrier stay blocked in readHello.
Woken(e) == op[e] \in {"promote", "drop", "emit"}

\* detachAllLocked, and the wake-up by ctx.Done.
DetachAll(e) ==
    /\ active' = [active EXCEPT ![e] = None]
    /\ prepared' = [prepared EXCEPT ![e] = None]
    /\ retained' = [retained EXCEPT ![e] = None]
    /\ IF Woken(e)
       THEN /\ op' = [op EXCEPT ![e] = "idle"]
            /\ opCarrier' = [opCarrier EXCEPT ![e] = None]
       ELSE UNCHANGED <<op, opCarrier>>
    /\ UNCHANGED <<state, nextEpoch, committedEpoch, pending>>

\* failTerminal: the first error wins; the carriers are closed without RESET.
\* n is net after the frame that caused it was taken.
FailTerminal(e, reason, n) ==
    /\ terminalErr' = [terminalErr EXCEPT ![e] = IF @ = "none" THEN reason ELSE @]
    /\ DetachAll(e)
    /\ link' = CloseLinks(Attached(e))
    /\ net' = CloseNet(n, e, Attached(e))
    /\ UNCHANGED <<detached, timer, closed, epoch, linkFailures>>

Init ==
    /\ sendBase = [e \in Endpoints |-> 0]
    /\ sendNext = [e \in Endpoints |-> 0]
    /\ send = [e \in Endpoints |-> <<>>]
    /\ writeOffset = [e \in Endpoints |-> 0]
    /\ localFIN = [e \in Endpoints |-> FALSE]
    /\ finSent = [e \in Endpoints |-> None]
    /\ finAcked = [e \in Endpoints |-> FALSE]
    /\ recvBase = [e \in Endpoints |-> 0]
    /\ recvNext = [e \in Endpoints |-> 0]
    /\ recv = [e \in Endpoints |-> <<>>]
    /\ delivered = [e \in Endpoints |-> <<>>]
    /\ eof = [e \in Endpoints |-> FALSE]
    /\ remoteFIN = [e \in Endpoints |-> FALSE]
    /\ remoteFINAt = [e \in Endpoints |-> 0]
    /\ ackCarrier = [e \in Endpoints |-> None]
    /\ ackOffset = [e \in Endpoints |-> 0]
    /\ active = [e \in Endpoints |-> None]
    /\ prepared = [e \in Endpoints |-> None]
    /\ retained = [e \in Endpoints |-> None]
    /\ state = [e \in Endpoints |-> [c \in Carriers |-> "none"]]
    /\ nextEpoch = [e \in Endpoints |-> 0]
    /\ committedEpoch = [e \in Endpoints |-> 0]
    /\ reader = [e \in Endpoints |-> [c \in Carriers |-> FALSE]]
    /\ writer = [e \in Endpoints |-> [c \in Carriers |-> "none"]]
    /\ detached = [e \in Endpoints |-> FALSE]
    /\ timer = [e \in Endpoints |-> "none"]
    /\ closed = [e \in Endpoints |-> FALSE]
    /\ terminalErr = [e \in Endpoints |-> "none"]
    /\ op = [e \in Endpoints |-> "idle"]
    /\ opCarrier = [e \in Endpoints |-> None]
    /\ pending = [e \in Endpoints |-> {}]
    /\ link = [c \in Carriers |-> "unused"]
    /\ net = [c \in Carriers |-> [e \in Endpoints |-> <<>>]]
    /\ epoch = [c \in Carriers |-> 0]
    /\ linkFailures = 0
    /\ events = 0
    /\ panicked = FALSE

(***************************************************************************)
(* The application: Write, Read, CloseWrite, Close, Abort.                 *)
(***************************************************************************)
\* Mutant: the half-close does not stop Write.
MayWrite_AfterFin(e) == Open(e) /\ Len(send[e]) < Window

\* A full window makes Write wait.
MayWrite(e) == Open(e) /\ ~localFIN[e] /\ Len(send[e]) < Window

\* One byte of Write enters the send window.
Write(e) ==
    /\ MayWrite(e)
    /\ sendNext[e] < MaxBytes(e)
    /\ send' = [send EXCEPT ![e] = Append(@, sendNext[e] + 1)]
    /\ sendNext' = [sendNext EXCEPT ![e] = @ + 1]
    /\ UNCHANGED <<sendBase, writeOffset, finVars, recvVars, remoteVars,
                   ackVars, linkVars, controlVars, sideVars>>

\* Read returns buffered bytes first, whatever else has happened.
Read(e, n) ==
    /\ n \in 1..Len(recv[e])
    /\ delivered' = [delivered EXCEPT ![e] = @ \o SubSeq(recv[e], 1, n)]
    /\ recv' = [recv EXCEPT ![e] = SubSeq(@, n + 1, Len(@))]
    /\ recvBase' = [recvBase EXCEPT ![e] = @ + n]
    /\ UNCHANGED <<recvNext, eof, sendVars, finVars, remoteVars, ackVars,
                   linkVars, controlVars, sideVars>>

\* An empty buffer and a complete remote half-close: Read returns io.EOF.
ReadEOF(e) ==
    /\ recv[e] = <<>> /\ RemoteFinished(e) /\ ~eof[e]
    /\ eof' = [eof EXCEPT ![e] = TRUE]
    /\ UNCHANGED <<recvBase, recvNext, recv, delivered, sendVars, finVars,
                   remoteVars, ackVars, linkVars, controlVars, sideVars>>

CloseWrite(e) ==
    /\ e \in HalfClosers
    /\ Open(e) /\ ~localFIN[e]
    /\ localFIN' = [localFIN EXCEPT ![e] = TRUE]
    /\ UNCHANGED <<finSent, finAcked, sendVars, recvVars, remoteVars, ackVars,
                   linkVars, controlVars, sideVars>>

\* Close tells the peer with RESET unless one direction has finished.
Graceful(e) == \/ localFIN[e] /\ send[e] = <<>> /\ finAcked[e]
               \/ RemoteFinished(e)

Close(e) ==
    /\ e \in Closers
    /\ ~closed[e]
    /\ closed' = [closed EXCEPT ![e] = TRUE]
    /\ DetachAll(e)
    /\ link' = CloseLinks(Attached(e))
    /\ net' = CloseNet(IF Graceful(e) THEN net ELSE ResetNet(net, e, Attached(e)),
                       e, Attached(e))
    /\ UNCHANGED <<detached, timer, terminalErr, epoch, linkFailures,
                   workerVars, dataVars, sideVars>>

Abort(e) ==
    /\ e \in Aborters
    /\ Open(e)
    /\ FailTerminal(e, "aborted", net)
    /\ UNCHANGED <<workerVars, dataVars, sideVars>>

\* watchContext: the owner's context is cancelled.
ContextDone(e) ==
    /\ e \in Aborters
    /\ Open(e)
    /\ FailTerminal(e, "aborted", ResetNet(net, e, Attached(e)))
    /\ UNCHANGED <<workerVars, dataVars, sideVars>>

(***************************************************************************)
(* Links.                                                                  *)
(***************************************************************************)
\* The initiator's coordinator opens an authorized link (external: the path
\* source); the responder's stream registry gets the other end.
OpenLink(c) ==
    /\ link[c] = "unused"
    /\ Open(I)
    /\ SingleCoordinator => op[I] = "idle" /\ pending[I] = {}
    /\ link' = [link EXCEPT ![c] = "up"]
    /\ pending' = [e \in Endpoints |-> pending[e] \cup {c}]
    /\ UNCHANGED <<op, opCarrier, net, epoch, linkFailures, slotVars,
                   workerVars, lifeVars, dataVars, sideVars>>

\* The network breaks a link (external); each end notices when it next uses it.
LinkFail(c) ==
    /\ link[c] = "up"
    /\ linkFailures < MaxLinkFailures
    /\ link' = [link EXCEPT ![c] = "down"]
    /\ linkFailures' = linkFailures + 1
    /\ UNCHANGED <<net, epoch, dataVars, controlVars, sideVars>>

\* emit: an event that finds the channel full is dropped.
Emitted(e) == IF e = R /\ events < EventBuffer THEN events + 1 ELSE events

\* The goroutine of endpoint e holding transitionMu leaves method and lock.
Release(e) == /\ op' = [op EXCEPT ![e] = "idle"]
              /\ opCarrier' = [opCarrier EXCEPT ![e] = None]

(***************************************************************************)
(* PrepareCarrier, at the initiator.                                       *)
(***************************************************************************)
PrepareCarrier(c) ==
    /\ c \in pending[I] /\ op[I] = "idle"
    /\ Open(I) /\ prepared[I] = None
    /\ pending' = [pending EXCEPT ![I] = @ \ {c}]
    /\ op' = [op EXCEPT ![I] = "prepare"]
    /\ opCarrier' = [opCarrier EXCEPT ![I] = c]
    /\ epoch' = [epoch EXCEPT ![c] = nextEpoch[I] + 1]
    /\ net' = Push(net, I, c, Hello("PREPARE", nextEpoch[I] + 1,
                                    committedEpoch[I], Acknowledged(I)))
    /\ UNCHANGED <<link, linkFailures, slotVars, workerVars, lifeVars,
                   dataVars, sideVars>>

PrepareRefused(c) ==
    /\ c \in pending[I] /\ op[I] = "idle"
    /\ ~Open(I) \/ prepared[I] # None
    /\ pending' = [pending EXCEPT ![I] = @ \ {c}]
    /\ link' = CloseLinks({c})
    /\ net' = CloseNet(net, I, {c})
    /\ UNCHANGED <<op, opCarrier, epoch, linkFailures, slotVars, workerVars,
                   lifeVars, dataVars, sideVars>>

Ready(c) == /\ op[I] = "prepare" /\ opCarrier[I] = c
            /\ net[c][I] # <<>>
Usable(c, ready) ==
    /\ ready.kind = "READY" /\ ready.seq = epoch[c]
    /\ ready.ack <= sendNext[I]
    /\ Open(I) /\ prepared[I] = None

\* READY arrives and is acceptable: the carrier is prepared.
PrepareReady(c) ==
    /\ Ready(c)
    /\ Usable(c, Head(net[c][I]))
    /\ DiscardAcked(I, Head(net[c][I]).ack)
    /\ nextEpoch' = [nextEpoch EXCEPT ![I] = epoch[c]]
    /\ prepared' = [prepared EXCEPT ![I] = c]
    /\ state' = [state EXCEPT ![I][c] = "prepared"]
    /\ detached' = [detached EXCEPT ![I] = (active[I] = None)]
    /\ op' = [op EXCEPT ![I] = "start"]
    /\ net' = Pop(net, I, c)
    /\ UNCHANGED <<sendNext, writeOffset, active, retained, committedEpoch,
                   timer, closed, terminalErr, opCarrier, pending, link, epoch,
                   linkFailures, finVars, recvVars, remoteVars, ackVars,
                   workerVars, sideVars>>

\* The link broke before READY, or the stream ended while it was awaited.
PrepareFailed(c) ==
    /\ op[I] = "prepare" /\ opCarrier[I] = c
    /\ \/ link[c] = "down"
       \/ Ready(c) /\ ~Usable(c, Head(net[c][I]))
    /\ Release(I)
    /\ link' = CloseLinks({c})
    /\ net' = CloseNet(net, I, {c})
    /\ UNCHANGED <<pending, epoch, linkFailures, slotVars, workerVars,
                   lifeVars, dataVars, sideVars>>

\* "go c.readCarrier(c.prepared)" reads c.prepared after c.mu was released.
StartReader ==
    /\ op[I] = "start"
    /\ IF prepared[I] = None
       THEN panicked' = TRUE /\ UNCHANGED reader
       ELSE /\ reader' = [reader EXCEPT ![I][prepared[I]] = TRUE]
            /\ UNCHANGED panicked
    /\ Release(I)
    /\ UNCHANGED <<pending, writer, events, slotVars, lifeVars, linkVars, dataVars>>

(***************************************************************************)
(* AcceptCarrier, at the responder.                                        *)
(***************************************************************************)
\* transitionMu is taken before the hello is read.
AcceptCarrier(c) ==
    /\ c \in pending[R] /\ op[R] = "idle"
    /\ pending' = [pending EXCEPT ![R] = @ \ {c}]
    /\ op' = [op EXCEPT ![R] = "accept"]
    /\ opCarrier' = [opCarrier EXCEPT ![R] = c]
    /\ UNCHANGED <<slotVars, workerVars, lifeVars, linkVars, dataVars,
                   sideVars>>

Acceptable(hello) ==
    /\ hello.kind = "PREPARE"
    /\ Open(R)
    /\ hello.committed = committedEpoch[R]
    /\ hello.seq > committedEpoch[R]
    /\ hello.seq > nextEpoch[R]
    /\ hello.ack <= sendNext[R]
    /\ prepared[R] # None =>
         /\ state[R][prepared[R]] \in {"prepared", "provisional"}
         /\ epoch[prepared[R]] < hello.seq

\* An acceptable PREPARE supersedes an older prepared carrier and is answered
\* with READY.
AcceptHello(c) ==
    /\ op[R] = "accept" /\ opCarrier[R] = c
    /\ net[c][R] # <<>>
    /\ Acceptable(Head(net[c][R]))
    /\ DiscardAcked(R, Head(net[c][R]).ack)
    /\ nextEpoch' = [nextEpoch EXCEPT ![R] = Head(net[c][R]).seq]
    /\ LET old == {prepared[R]} \ {None} IN
       /\ state' = [state EXCEPT ![R] = [d \in Carriers |->
                        IF d = c THEN "provisional"
                        ELSE IF d \in old THEN "superseded" ELSE @[d]]]
       /\ link' = CloseLinks(old)
       /\ net' = CloseNet(Push(Pop(net, R, c), R, c,
                               Hello("READY", epoch[c], committedEpoch[R],
                                     Acknowledged(R))), R, old)
    /\ prepared' = [prepared EXCEPT ![R] = c]
    /\ op' = [op EXCEPT ![R] = "ready"]
    /\ UNCHANGED <<sendNext, writeOffset, active, retained, committedEpoch,
                   opCarrier, pending, epoch, linkFailures, finVars, recvVars,
                   remoteVars, ackVars, workerVars, lifeVars, sideVars>>

\* The link broke before PREPARE, or the proposal is stale or out of order.
AcceptRefused(c) ==
    /\ op[R] = "accept" /\ opCarrier[R] = c
    /\ \/ link[c] = "down"
       \/ net[c][R] # <<>> /\ ~Acceptable(Head(net[c][R]))
    /\ Release(R)
    /\ link' = CloseLinks({c})
    /\ net' = CloseNet(net, R, {c})
    /\ UNCHANGED <<pending, epoch, linkFailures, slotVars, workerVars,
                   lifeVars, dataVars, sideVars>>

\* READY was written: the carrier becomes prepared unless Close, Abort or a
\* terminal failure has detached it in between.
AcceptReady(c) ==
    /\ op[R] = "ready" /\ opCarrier[R] = c
    /\ IF prepared[R] = c /\ state[R][c] = "provisional"
       THEN /\ state' = [state EXCEPT ![R][c] = "prepared"]
            /\ reader' = [reader EXCEPT ![R][c] = TRUE]
            /\ events' = Emitted(R)
            /\ UNCHANGED <<link, net>>
       ELSE /\ link' = CloseLinks({c})
            /\ net' = CloseNet(net, R, {c})
            /\ UNCHANGED <<state, reader, events>>
    /\ Release(R)
    /\ UNCHANGED <<active, prepared, retained, nextEpoch, committedEpoch,
                   writer, pending, epoch, linkFailures, panicked, lifeVars,
                   dataVars>>

\* Writing READY failed, so the initiator did not get it: the provisional
\* carrier is rolled back.
AcceptReadyFailed(c) ==
    /\ op[R] = "ready" /\ opCarrier[R] = c
    /\ link[c] = "down" /\ state[I][c] = "none"
    /\ IF prepared[R] = c /\ state[R][c] = "provisional"
       THEN /\ prepared' = [prepared EXCEPT ![R] = None]
            /\ state' = [state EXCEPT ![R][c] = "failed"]
       ELSE UNCHANGED <<prepared, state>>
    /\ Release(R)
    /\ net' = [net EXCEPT ![c] = [e \in Endpoints |-> <<>>]]
    /\ UNCHANGED <<link, active, retained, nextEpoch, committedEpoch, pending,
                   epoch, linkFailures, workerVars, lifeVars, dataVars,
                   sideVars>>

(***************************************************************************)
(* PromoteCarrier, confirmCarrier and DropPrepared, at the initiator.      *)
(***************************************************************************)
\* The coordinator is in no other method and has no link it must prepare.
CoordinatorFree == SingleCoordinator => pending[I] = {}

\* Mutant: the initiator commits when it sends COMMIT.
PromoteCarrier_Optimistic(c) ==
    /\ op[I] = "idle" /\ CoordinatorFree
    /\ prepared[I] = c /\ state[I][c] = "prepared"
    /\ state' = [state EXCEPT ![I][c] = "committing"]
    /\ op' = [op EXCEPT ![I] = "promote"]
    /\ opCarrier' = [opCarrier EXCEPT ![I] = c]
    /\ net' = Push(net, I, c, Header("COMMIT", epoch[c], <<>>))
    /\ committedEpoch' = [committedEpoch EXCEPT ![I] = epoch[c]]
    /\ UNCHANGED <<active, prepared, retained, nextEpoch, pending, link, epoch,
                   linkFailures, workerVars, lifeVars, dataVars, sideVars>>

PromoteCarrier(c) ==
    /\ op[I] = "idle" /\ CoordinatorFree
    /\ prepared[I] = c /\ state[I][c] = "prepared"
    /\ state' = [state EXCEPT ![I][c] = "committing"]
    /\ op' = [op EXCEPT ![I] = "promote"]
    /\ opCarrier' = [opCarrier EXCEPT ![I] = c]
    /\ net' = Push(net, I, c, Header("COMMIT", epoch[c], <<>>))
    /\ UNCHANGED <<active, prepared, retained, nextEpoch, committedEpoch,
                   pending, link, epoch, linkFailures, workerVars, lifeVars,
                   dataVars, sideVars>>

\* A written CONFIRM retires the previous carrier here as well; a failed one
\* leaves it retained.  Either way the writer of the carrier starts.
ConfirmCarrier(c) ==
    /\ writer[I][c] = "confirm"
    /\ writer' = [writer EXCEPT ![I][c] = "run"]
    /\ \E written \in IF link[c] = "up" THEN {TRUE} ELSE BOOLEAN :
       LET old == IF written /\ active[I] = c THEN {retained[I]} \ {None} ELSE {} IN
       /\ retained' = [retained EXCEPT ![I] = IF @ \in old THEN None ELSE @]
       /\ link' = CloseLinks(old)
       /\ net' = CloseNet(Push(net, I, c, Header("CONFIRM", epoch[c], <<>>)), I, old)
    /\ UNCHANGED <<active, prepared, state, nextEpoch, committedEpoch, reader,
                   epoch, linkFailures, lifeVars, opVars, dataVars, sideVars>>

DropPrepared(c) ==
    /\ op[I] = "idle" /\ CoordinatorFree
    /\ prepared[I] = c /\ state[I][c] # "committing"
    /\ op' = [op EXCEPT ![I] = "drop"]
    /\ opCarrier' = [opCarrier EXCEPT ![I] = c]
    /\ net' = Push(net, I, c, Header("DISCARD", epoch[c], <<>>))
    /\ UNCHANGED <<pending, link, epoch, linkFailures, slotVars, workerVars,
                   lifeVars, dataVars, sideVars>>

(***************************************************************************)
(* The writers: writeActive and writeAcknowledgements.                     *)
(***************************************************************************)
SendData(e) ==
    /\ DataDue(e)
    /\ LET start == Offset(e) - sendBase[e]
           n == IF Len(send[e]) - start < MaximumFrame
                THEN Len(send[e]) - start ELSE MaximumFrame
       IN /\ net' = Push(net, e, active[e],
                         Header("DATA", Offset(e),
                                SubSeq(send[e], start + 1, start + n)))
          /\ writeOffset' = [writeOffset EXCEPT ![e] = Offset(e) + n]
    /\ UNCHANGED <<sendBase, sendNext, send, link, epoch, linkFailures,
                   finVars, recvVars, remoteVars, ackVars, controlVars,
                   sideVars>>

SendFin(e) ==
    /\ FinDue(e)
    /\ net' = Push(net, e, active[e], Header("FIN", sendNext[e], <<>>))
    /\ finSent' = [finSent EXCEPT ![e] = active[e]]
    /\ UNCHANGED <<localFIN, finAcked, link, epoch, linkFailures, sendVars,
                   recvVars, remoteVars, ackVars, controlVars, sideVars>>

\* The acknowledgement is of what Read has consumed, once per carrier and
\* offset; it does not wait for the COMMIT_ACK of the carrier it uses.
SendAck(e) ==
    /\ AckDue(e)
    /\ net' = Push(net, e, active[e], Header("ACK", Acknowledged(e), <<>>))
    /\ ackCarrier' = [ackCarrier EXCEPT ![e] = active[e]]
    /\ ackOffset' = [ackOffset EXCEPT ![e] = IF Acknowledged(e) > @ THEN Acknowledged(e)
                                                       ELSE @]
    /\ UNCHANGED <<link, epoch, linkFailures, sendVars, finVars, recvVars,
                   remoteVars, controlVars, sideVars>>

(***************************************************************************)
(* readCarrier: what the reader of carrier c at endpoint e does with the   *)
(* oldest frame.                                                           *)
(***************************************************************************)
\* A responder's reader that has applied COMMIT first writes COMMIT_ACK.  What
\* is in flight on a superseded or failed carrier was dropped when it was
\* closed, so its reader has nothing left to look at.
Readable(e, c) ==
    /\ reader[e][c] /\ writer[e][c] # "commitAck"
    /\ net[c][e] # <<>>
ReadsAs(e, c, kind) ==
    /\ Readable(e, c)
    /\ Head(net[c][e]).kind = kind

\* The stage failFrameProtocol would report for frame f, "none" if it is legal.
Violation(e, c, f) ==
    LET accepted == Disposition(e, c) = "accept"
        end == f.seq + Len(f.data)
    IN CASE f.kind \in {"DATA", "FIN", "FINACK"} /\ Disposition(e, c) = "reject"
              -> "carrier_not_application"
         [] f.kind = "DATA" /\ accepted /\ f.seq > recvNext[e]
              -> "data_sequence_gap"
         [] /\ f.kind = "DATA" /\ accepted /\ f.seq <= recvNext[e]
            /\ end > recvNext[e]
            /\ Len(recv[e]) + (end - recvNext[e]) > Window
              -> "data_window_exceeded"
         [] f.kind = "ACK" /\ accepted /\ f.seq > sendNext[e]
              -> "ack_beyond_send_next"
         [] /\ f.kind = "FIN" /\ accepted
            /\ ~(f.seq < recvNext[e] \/ (remoteFIN[e] /\ f.seq = remoteFINAt[e]))
            /\ f.seq > recvNext[e] \/ remoteFIN[e]
              -> "fin_sequence_mismatch"
         [] f.kind = "FINACK" /\ accepted /\ (~localFIN[e] \/ f.seq # sendNext[e])
              -> "fin_ack_state_mismatch"
         [] /\ f.kind = "COMMIT"
            /\ prepared[e] # c \/ state[e][c] \notin {"prepared", "committing"}
              -> "commit_carrier_not_prepared"
         [] f.kind = "COMMIT_ACK" /\ (prepared[e] # c \/ state[e][c] # "committing")
              -> "commit_ack_carrier_not_committing"
         [] f.kind = "DISCARD" /\ (prepared[e] # c \/ state[e][c] # "prepared")
              -> "discard_carrier_not_prepared"
         [] f.kind = "DISCARD_ACK" /\ (prepared[e] # c \/ state[e][c] # "prepared")
              -> "discard_ack_carrier_not_prepared"
         [] OTHER -> "none"

\* An application frame of a retired carrier, and every ACK that comes before
\* the carrier is committed here, is dropped.
RecvLate(e, c) ==
    /\ \/ \E kind \in {"DATA", "ACK", "FIN", "FINACK"} :
            ReadsAs(e, c, kind) /\ Disposition(e, c) = "ignore"
       \/ ReadsAs(e, c, "ACK") /\ Disposition(e, c) = "reject"
    /\ net' = Pop(net, e, c)
    /\ UNCHANGED <<link, epoch, linkFailures, dataVars, controlVars, sideVars>>

\* Mutant: a partly received frame is appended whole.
NewBytes_Untrimmed(e, f) == f.data

\* The bytes of a DATA frame that were not received before.
NewBytes(e, f) == SubSeq(f.data, recvNext[e] - f.seq + 1, Len(f.data))

\* Bytes already received are skipped.
RecvData(e, c) ==
    /\ ReadsAs(e, c, "DATA") /\ Disposition(e, c) = "accept"
    /\ LET f == Head(net[c][e])
           end == f.seq + Len(f.data)
       IN IF end > recvNext[e]
          THEN /\ recv' = [recv EXCEPT ![e] = @ \o NewBytes(e, f)]
               /\ recvNext' = [recvNext EXCEPT ![e] = end]
          ELSE UNCHANGED <<recv, recvNext>>
    /\ net' = Pop(net, e, c)
    /\ UNCHANGED <<recvBase, delivered, eof, link, epoch, linkFailures,
                   sendVars, finVars, remoteVars, ackVars, controlVars,
                   sideVars>>

RecvAck(e, c) ==
    /\ ReadsAs(e, c, "ACK") /\ Disposition(e, c) = "accept"
    /\ DiscardAcked(e, Head(net[c][e]).seq)
    /\ net' = Pop(net, e, c)
    /\ UNCHANGED <<sendNext, writeOffset, link, epoch, linkFailures, finVars,
                   recvVars, remoteVars, ackVars, controlVars, sideVars>>

\* The first FIN is recorded and answered with FINACK on the same carrier; a
\* repeated FIN is not answered.
RecvFin(e, c) ==
    /\ ReadsAs(e, c, "FIN") /\ Disposition(e, c) = "accept"
    /\ LET f == Head(net[c][e]) IN
       IF f.seq < recvNext[e] \/ (remoteFIN[e] /\ f.seq = remoteFINAt[e])
       THEN /\ net' = Pop(net, e, c)
            /\ UNCHANGED remoteVars
       ELSE /\ remoteFIN' = [remoteFIN EXCEPT ![e] = TRUE]
            /\ remoteFINAt' = [remoteFINAt EXCEPT ![e] = f.seq]
            /\ net' = Push(Pop(net, e, c), e, c, Header("FINACK", f.seq, <<>>))
    /\ UNCHANGED <<link, epoch, linkFailures, sendVars, finVars, recvVars,
                   ackVars, controlVars, sideVars>>

RecvFinAck(e, c) ==
    /\ ReadsAs(e, c, "FINACK") /\ Disposition(e, c) = "accept"
    /\ finAcked' = [finAcked EXCEPT ![e] = TRUE]
    /\ net' = Pop(net, e, c)
    /\ UNCHANGED <<localFIN, finSent, link, epoch, linkFailures, sendVars,
                   recvVars, remoteVars, ackVars, controlVars, sideVars>>

\* RESET ends the stream unless everything the peer sent has arrived; then
\* only this reader stops.
RecvReset(e, c) ==
    /\ ReadsAs(e, c, "RESET")
    /\ reader' = [reader EXCEPT ![e][c] = FALSE]
    /\ IF RemoteFinished(e)
       THEN /\ net' = Pop(net, e, c)
            /\ UNCHANGED <<slotVars, opVars, lifeVars, link, epoch,
                           linkFailures>>
       ELSE FailTerminal(e, "reset", Pop(net, e, c))
    /\ UNCHANGED <<writer, dataVars, sideVars>>

\* Mutant: the new writer goes on where the old one stopped.
ResumeOffset_Kept(e) == writeOffset[e]

\* writeActive(carrier, 0): a new carrier repeats all that is unacknowledged.
ResumeOffset(e) == 0

\* Mutant: the previous carrier is forgotten at once.
Previous_Forgotten(e) == None

\* The carrier that stays readable until CONFIRM.
Previous(e) == active[e]

\* Carrier c becomes the active one of e and the previous one is retained.
Activate(e, c) ==
    /\ state' = [state EXCEPT ![e] = [d \in Carriers |->
                    IF d = c THEN "active"
                    ELSE IF d = active[e] THEN "retained" ELSE @[d]]]
    /\ retained' = [retained EXCEPT ![e] = Previous(e)]
    /\ active' = [active EXCEPT ![e] = c]
    /\ prepared' = [prepared EXCEPT ![e] = None]
    /\ committedEpoch' = [committedEpoch EXCEPT ![e] = epoch[c]]
    /\ detached' = [detached EXCEPT ![e] = FALSE]
    /\ writeOffset' = [writeOffset EXCEPT ![e] = ResumeOffset(e)]

RecvCommit(c) ==
    /\ ReadsAs(R, c, "COMMIT") /\ op[R] = "idle"
    /\ Activate(R, c)
    /\ writer' = [writer EXCEPT ![R][c] = "commitAck"]
    /\ net' = Pop(net, R, c)
    /\ UNCHANGED <<reader, nextEpoch, timer, closed, terminalErr, sendBase,
                   sendNext, send, link, epoch, linkFailures, finVars,
                   recvVars, remoteVars, ackVars, opVars, sideVars>>

\* COMMIT_ACK is written after the locks are released; then writeActive starts
\* and, if it was written, EventActive is emitted.
SendCommitAck(c) ==
    /\ writer[R][c] = "commitAck"
    /\ writer' = [writer EXCEPT ![R][c] = "run"]
    /\ net' = Push(net, R, c, Header("COMMIT_ACK", epoch[c], <<>>))
    /\ \/ events' = Emitted(R)
       \/ link[c] = "down" /\ UNCHANGED events
    /\ UNCHANGED <<reader, link, epoch, linkFailures, panicked, slotVars,
                   lifeVars, opVars, dataVars>>

\* PromoteCarrier wakes up, returns and leaves CONFIRM to a goroutine.
RecvCommitAck(c) ==
    /\ ReadsAs(I, c, "COMMIT_ACK")
    /\ Activate(I, c)
    /\ writer' = [writer EXCEPT ![I][c] = "confirm"]
    /\ Release(I)
    /\ net' = Pop(net, I, c)
    /\ UNCHANGED <<reader, nextEpoch, timer, closed, terminalErr, pending,
                   sendBase, sendNext, send, link, epoch, linkFailures,
                   finVars, recvVars, remoteVars, ackVars, sideVars>>

RecvConfirm(c) ==
    /\ ReadsAs(R, c, "CONFIRM") /\ op[R] = "idle"
    /\ LET old == {retained[R]} \ {None} IN
       /\ link' = CloseLinks(old)
       /\ net' = CloseNet(Pop(net, R, c), R, old)
    /\ retained' = [retained EXCEPT ![R] = None]
    /\ UNCHANGED <<active, prepared, state, nextEpoch, committedEpoch, epoch,
                   linkFailures, workerVars, lifeVars, opVars, dataVars,
                   sideVars>>

\* The prepared carrier is forgotten, DISCARD_ACK written and the link closed.
RecvDiscard(c) ==
    /\ ReadsAs(R, c, "DISCARD") /\ op[R] = "idle"
    /\ prepared' = [prepared EXCEPT ![R] = None]
    /\ reader' = [reader EXCEPT ![R][c] = FALSE]
    /\ net' = CloseNet(Push(net, R, c, Header("DISCARD_ACK", epoch[c], <<>>)),
                       R, {c})
    /\ link' = CloseLinks({c})
    /\ UNCHANGED <<active, retained, state, nextEpoch, committedEpoch, writer,
                   epoch, linkFailures, lifeVars, opVars, dataVars, sideVars>>

\* DropPrepared wakes up, closes the link and returns.
RecvDiscardAck(c) ==
    /\ ReadsAs(I, c, "DISCARD_ACK")
    /\ prepared' = [prepared EXCEPT ![I] = None]
    /\ Release(I)
    /\ link' = CloseLinks({c})
    /\ net' = CloseNet(net, I, {c})
    /\ UNCHANGED <<active, retained, state, nextEpoch, committedEpoch, pending,
                   epoch, linkFailures, workerVars, lifeVars, dataVars,
                   sideVars>>

LegalFrame(e, c) ==
    \/ RecvLate(e, c)
    \/ RecvData(e, c)
    \/ RecvAck(e, c)
    \/ RecvFin(e, c)
    \/ RecvFinAck(e, c)
    \/ RecvReset(e, c)
    \/ e = R /\ RecvCommit(c)
    \/ e = I /\ RecvCommitAck(c)
    \/ e = R /\ RecvConfirm(c)
    \/ e = R /\ RecvDiscard(c)
    \/ e = I /\ RecvDiscardAck(c)

\* failFrameProtocol: an illegal frame ends the logical stream.
RecvFrame(e, c) ==
    /\ Readable(e, c)
    /\ LET stage == Violation(e, c, Head(net[c][e])) IN
       IF stage = "none"
       THEN LegalFrame(e, c)
       ELSE /\ FailTerminal(e, stage, Pop(net, e, c))
            /\ reader' = [reader EXCEPT ![e][c] = FALSE]
            /\ UNCHANGED <<writer, dataVars, sideVars>>

(***************************************************************************)
(* failCarrier and expireDetached.                                         *)
(***************************************************************************)
\* A goroutine of e has a reason to touch the broken carrier c.
Touches(e, c) == \/ reader[e][c]
                 \/ active[e] = c /\ (DataDue(e) \/ FinDue(e) \/ AckDue(e))

\* Mutant: the retained carrier takes over.
Successor_Retained(e) == retained[e]

\* No carrier takes the place of a failed active one.
Successor(e) == None

\* Mutant: the detached stream has no deadline.
Armed_Never(e, c) == timer[e]

\* Losing the active carrier starts expireDetached.
Armed(e, c) ==
    IF timer[e] = "none" /\ active[e] = c THEN "armed" ELSE timer[e]

\* EventDetached is not dropped: failCarrier waits for room with transitionMu
\* held, and starts expireDetached only afterwards.
EmitBlocks(e, c) == e = R /\ active[R] = c /\ events >= EventBuffer

FailCarrier(e, c) ==
    /\ c \in Attached(e)
    /\ link[c] = "down" /\ Touches(e, c)
    /\ e = R => op[R] = "idle"
    /\ active' = [active EXCEPT ![e] = IF @ = c THEN Successor(e) ELSE @]
    /\ prepared' = [prepared EXCEPT ![e] = IF @ = c THEN None ELSE @]
    /\ retained' = [retained EXCEPT ![e] = IF @ = c THEN None ELSE @]
    /\ state' = [state EXCEPT ![e][c] = "failed"]
    /\ detached' = [detached EXCEPT ![e] = @ \/ active[e] = c]
    /\ events' = Emitted(e)
    /\ IF EmitBlocks(e, c)
       THEN /\ op' = [op EXCEPT ![e] = "emit"]
            /\ opCarrier' = [opCarrier EXCEPT ![e] = c]
            /\ UNCHANGED timer
       ELSE /\ timer' = [timer EXCEPT ![e] = Armed(e, c)]
            /\ IF e = I /\ op[I] \in {"promote", "drop"} /\ opCarrier[I] = c
               THEN Release(I)
               ELSE UNCHANGED <<op, opCarrier>>
    /\ reader' = [reader EXCEPT ![e][c] = FALSE]
    /\ net' = CloseNet(net, e, {c})
    /\ UNCHANGED <<nextEpoch, committedEpoch, closed, terminalErr, writer,
                   pending, link, epoch, linkFailures, panicked, dataVars>>

\* The timer finds the stream still detached, and releases c.mu.
ExpireDetached(e) ==
    /\ timer[e] = "armed" /\ detached[e] /\ active[e] = None
    /\ Open(e)
    /\ timer' = [timer EXCEPT ![e] = "fired"]
    /\ UNCHANGED <<detached, closed, terminalErr, slotVars, workerVars, opVars,
                   linkVars, dataVars, sideVars>>

\* Then it ends the stream, whatever has happened in between.
FailExpired(e) ==
    /\ timer[e] = "fired" /\ terminalErr[e] = "none"
    /\ FailTerminal(e, "expired", net)
    /\ UNCHANGED <<workerVars, dataVars, sideVars>>

(***************************************************************************)
(* The specification.                                                      *)
(***************************************************************************)
Application(e) ==
    \/ Write(e)
    \/ \E n \in 1..Window : Read(e, n)
    \/ ReadEOF(e)
    \/ CloseWrite(e)
    \/ Close(e)
    \/ Abort(e)
    \/ ContextDone(e)

Handshake(c) ==
    \/ PrepareCarrier(c) \/ PrepareRefused(c) \/ PrepareReady(c) \/ PrepareFailed(c)
    \/ AcceptCarrier(c) \/ AcceptHello(c) \/ AcceptRefused(c)
    \/ AcceptReady(c) \/ AcceptReadyFailed(c)
    \/ ConfirmCarrier(c) \/ SendCommitAck(c)

Next ==
    \/ \E e \in Endpoints : Application(e)
    \/ \E c \in Carriers : OpenLink(c) \/ LinkFail(c)
    \/ \E c \in Carriers : Handshake(c)
    \/ StartReader
    \/ \E c \in Carriers : PromoteCarrier(c) \/ DropPrepared(c)
    \/ \E e \in Endpoints : SendData(e) \/ SendFin(e) \/ SendAck(e)
    \/ \E e \in Endpoints, c \in Carriers :
          RecvFrame(e, c) \/ FailCarrier(e, c)
    \/ \E e \in Endpoints : ExpireDetached(e) \/ FailExpired(e)

Spec == Init /\ [][Next]_vars

\* Every goroutine that can run does, and the application keeps reading.
\* Opening a first link and promoting the carrier that is prepared while none
\* is active are the coordinator's duty (AttachInitial, recoverDetached); what
\* the application writes, half-closes or closes, and what breaks, is free.
Fairness ==
    /\ \A e \in Endpoints :
         /\ WF_vars(\E n \in 1..Window : Read(e, n))
         /\ WF_vars(SendData(e) \/ SendFin(e) \/ SendAck(e))
         /\ WF_vars(ExpireDetached(e) \/ FailExpired(e))
         /\ \A c \in Carriers : WF_vars(RecvFrame(e, c) \/ FailCarrier(e, c))
    /\ \A c \in Carriers :
         /\ WF_vars(PrepareCarrier(c) \/ PrepareRefused(c)
                       \/ PrepareReady(c) \/ PrepareFailed(c))
         /\ SF_vars(AcceptCarrier(c))
         /\ WF_vars(AcceptHello(c) \/ AcceptRefused(c) \/ AcceptReady(c))
         /\ WF_vars(SendCommitAck(c) \/ ConfirmCarrier(c))
         /\ WF_vars(active[I] = None /\ PromoteCarrier(c))
    /\ WF_vars(StartReader)
    /\ WF_vars(\E c \in Carriers : committedEpoch[I] = 0 /\ OpenLink(c))

FairSpec == Spec /\ Fairness

(***************************************************************************)
(* Properties.                                                             *)
(***************************************************************************)
\* Every field of Conn, every carrier and every frame in flight keeps its type;
\* in particular no offset arithmetic of Write, Read, writeActive, readCarrier
\* or discardAckedLocked leaves the naturals.
TypeOK ==
    /\ sendBase \in [Endpoints -> Nat] /\ sendNext \in [Endpoints -> Nat]
    /\ send \in [Endpoints -> Seq(Nat)] /\ writeOffset \in [Endpoints -> Nat]
    /\ localFIN \in [Endpoints -> BOOLEAN] /\ finSent \in [Endpoints -> Slots]
    /\ finAcked \in [Endpoints -> BOOLEAN]
    /\ recvBase \in [Endpoints -> Nat] /\ recvNext \in [Endpoints -> Nat]
    /\ recv \in [Endpoints -> Seq(Nat)] /\ delivered \in [Endpoints -> Seq(Nat)]
    /\ eof \in [Endpoints -> BOOLEAN]
    /\ remoteFIN \in [Endpoints -> BOOLEAN] /\ remoteFINAt \in [Endpoints -> Nat]
    /\ ackCarrier \in [Endpoints -> Slots] /\ ackOffset \in [Endpoints -> Nat]
    /\ active \in [Endpoints -> Slots] /\ prepared \in [Endpoints -> Slots]
    /\ retained \in [Endpoints -> Slots]
    /\ state \in [Endpoints -> [Carriers -> CarrierStates]]
    /\ nextEpoch \in [Endpoints -> Nat] /\ committedEpoch \in [Endpoints -> Nat]
    /\ reader \in [Endpoints -> [Carriers -> BOOLEAN]]
    /\ writer \in [Endpoints -> [Carriers -> {"none", "commitAck", "confirm", "run"}]]
    /\ detached \in [Endpoints -> BOOLEAN]
    /\ timer \in [Endpoints -> {"none", "armed", "fired"}]
    /\ closed \in [Endpoints -> BOOLEAN]
    /\ terminalErr \in [Endpoints -> TerminalErrors]
    /\ op \in [Endpoints -> {"idle", "prepare", "start", "promote", "drop",
                             "accept", "ready", "emit"}]
    /\ opCarrier \in [Endpoints -> Slots]
    /\ pending \in [Endpoints -> SUBSET Carriers]
    /\ link \in [Carriers -> {"unused", "up", "down"}]
    /\ net \in Wires
    /\ epoch \in [Carriers -> Nat]
    /\ linkFailures \in Nat
    /\ events \in Nat
    /\ panicked \in BOOLEAN

\* The bytes of s are the ones that follow the first base bytes of a direction.
Consecutive(s, base) == \A i \in 1..Len(s) : s[i] = base + i

\* The send buffer holds exactly the bytes between what the peer has consumed
\* and what was written, within the window (Write, discardAckedLocked).
SendShape ==
    \A e \in Endpoints :
        /\ sendBase[e] + Len(send[e]) = sendNext[e]
        /\ Len(send[e]) <= Window
        /\ Consecutive(send[e], sendBase[e])
        /\ sendNext[e] <= MaxBytes(e)
        /\ writeOffset[e] <= sendNext[e]

\* The receive buffer continues what Read has returned and holds nothing the
\* peer has not written (Read, readCarrier DATA).
RecvShape ==
    \A e \in Endpoints :
        /\ recvBase[e] + Len(recv[e]) = recvNext[e]
        /\ recvNext[e] <= sendNext[Peer(e)]
        /\ Consecutive(recv[e], recvBase[e])
        /\ Len(delivered[e]) = recvBase[e]
        /\ Consecutive(delivered[e], 0)

\* The frames in flight towards e on carrier c of n.
InFlight(n, c, e) == {n[c][e][i] : i \in 1..Len(n[c][e])}

\* A frame on its way to e tells the truth about its sender, the peer.
Truthful(e, f) ==
    /\ f.kind = "DATA" =>
         /\ f.seq + Len(f.data) <= sendNext[Peer(e)]
         /\ Consecutive(f.data, f.seq)
    /\ f.kind = "ACK" => f.seq <= recvBase[Peer(e)]
    /\ f.kind \in {"PREPARE", "READY"} => f.ack <= recvBase[Peer(e)]
    /\ f.kind = "FIN" => localFIN[Peer(e)] /\ f.seq = sendNext[Peer(e)]
    /\ f.kind = "FINACK" => /\ remoteFIN[Peer(e)]
                            /\ f.seq = remoteFINAt[Peer(e)]

FramesTruthful ==
    \A c \in Carriers, e \in Endpoints : \A f \in InFlight(net, c, e) : Truthful(e, f)

\* No legal run of the two endpoints makes one of them report a protocol
\* violation (failFrameProtocol): no byte is skipped, no window overrun, no
\* frame arrives on a carrier in the wrong state, whatever fails in between.
NoProtocolFailure == \A e \in Endpoints : terminalErr[e] \notin ProtocolFailures

\* What Read has returned is what the peer wrote: every byte once, in order,
\* across all carriers (Write, writeActive, readCarrier, Read).
DeliveredInOrder ==
    \A e \in Endpoints :
        /\ Len(delivered[e]) <= sendNext[Peer(e)]
        /\ Consecutive(delivered[e], 0)

\* A byte leaves the send buffer only after the peer's application has read it:
\* until then it can be sent again on another carrier (discardAckedLocked).
AckedWasConsumed ==
    \A e \in Endpoints : sendBase[e] <= recvBase[Peer(e)]

\* An endpoint that sees end of stream has the peer's half-close and its exact
\* length; an acknowledged FIN means the peer has every byte (Read, CloseWrite).
EofIsTheEnd ==
    \A e \in Endpoints :
        /\ remoteFIN[e] => /\ localFIN[Peer(e)]
                           /\ remoteFINAt[e] = sendNext[Peer(e)]
                           /\ recvNext[e] = remoteFINAt[e]
        /\ finAcked[e] => remoteFIN[Peer(e)]

\* An endpoint whose peer has its half-close acknowledged (WaitWriteClosed) is
\* never ended by that peer's RESET: what it has buffered stays readable (Close,
\* readCarrier RESET).
NoResetAfterFinAck ==
    \A e \in Endpoints : terminalErr[e] = "reset" => ~finAcked[Peer(e)]

\* The carrier an endpoint writes application frames on is one the other
\* endpoint, if it is still there, applies them from, or is about to commit.
ActiveIsAccepted ==
    \A c \in Carriers :
        /\ link[c] = "up" /\ active[I] = c /\ Open(R) => Disposition(R, c) = "accept"
        /\ link[c] = "up" /\ active[R] = c /\ Open(I) =>
              \/ Disposition(I, c) = "accept"
              \/ prepared[I] = c /\ state[I][c] = "committing"

\* The responder commits first and is ahead only by the carrier whose COMMIT
\* the initiator has sent (PromoteCarrier, readCarrier COMMIT / COMMIT_ACK).
CommitAgreement ==
    \/ committedEpoch[I] = committedEpoch[R]
    \/ \E c \in Carriers : /\ epoch[c] = committedEpoch[R]
                           /\ epoch[c] > committedEpoch[I]
                           /\ state[I][c] \in {"committing", "failed"}

\* An endpoint never goes back to a carrier it has left, and a new active
\* carrier is always newer than every one before (Activate).
EpochsAdvance ==
    [][\A e \in Endpoints :
         /\ committedEpoch'[e] >= committedEpoch[e]
         /\ active'[e] \notin {None, active[e]} => epoch[active'[e]] > committedEpoch[e]]_vars

\* A byte Write accepted on an attached stream reaches the peer's Read, or the
\* stream visibly ends at one end (writeActive, readCarrier, expireDetached).
WrittenIsDelivered ==
    \A e \in Endpoints : \A n \in 1..MaxBytes(e) :
        []<>(sendNext[e] >= n /\ committedEpoch[e] > 0 =>
                recvBase[Peer(e)] >= n \/ ~Open(e) \/ ~Open(Peer(e)))

\* Every call of PrepareCarrier, AcceptCarrier, PromoteCarrier or DropPrepared
\* returns and releases transitionMu, whatever breaks while it waits for the
\* peer: no end stays inside a transition for ever.
TransitionsEnd ==
    \A e \in Endpoints : []<>(op[e] = "idle")

\* The stream implements the abstract byte stream: whatever happens to the
\* carriers, the applications see only its steps (Write, CloseWrite, Read).
Abstract == INSTANCE ByteStream
    WITH Bytes    <- 1..(InitiatorBytes + ResponderBytes),
         written  <- [e \in Endpoints |-> [i \in 1..sendNext[e] |-> i]],
         finished <- localFIN
ImplementsByteStream == Abstract!Spec

=============================================================================
