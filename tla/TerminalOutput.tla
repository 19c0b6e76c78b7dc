--------------------------- MODULE TerminalOutput ---------------------------
(***************************************************************************)
(* The output of one terminal session: the bounded history, the ring that  *)
(* the attachments share (session.Fanout), the attachments with their      *)
(* cursors, and the goroutine that copies the history to the store.        *)
(* A chunk of output is the interval [s, e) of the byte sequence it covers.*)
(* Capturing, attaching and clearing hold managedSession.opMu; detaching   *)
(* and reading hold the ring's lock only, so they come between the steps   *)
(* of an attach; the persistence goroutine holds neither.                  *)
(***************************************************************************)
EXTENDS Integers, Sequences, FiniteSets, FiniteSetsExt

CONSTANTS
    Attachments,     \* attachment ids, each used by one client
    MaxAttachments,  \* ManagerConfig.MaxAttachments
    HistoryBytes,    \* ManagerConfig.HistoryBytes
    AttachmentBytes, \* ManagerConfig.AttachmentBytes
    MaxChunk,        \* bound: bytes of one read from the terminal
    MaxSequence      \* bound: bytes of output

ASSUME OutputAssumption ==
    /\ MaxAttachments \in Nat \ {0}
    /\ HistoryBytes \in Nat \ {0}
    /\ AttachmentBytes \in Nat \ {0}
    /\ MaxChunk \in Nat \ {0}
    /\ MaxSequence \in Nat

VARIABLES
    hist,   \* History: earliest, latest and the chunks between them
    ring,   \* Fanout.ring, as a set
    att,    \* Fanout.attachments
    token,  \* attachmentCursor.notify holds a token
    client, \* the stream that serves each attachment
    next,   \* history: the first byte an attached client has not been given
    op,     \* what the attach that holds opMu has still to enqueue
    writer, \* runOutputPersistence
    note,   \* persistNotify holds a token
    store   \* the session's bounds and its output_events

vars == <<hist, ring, att, token, client, next, op, writer, note, store>>

Chunk(s, e) == [s |-> s, e |-> e]
Chunks == {Chunk(s, e) : s \in 0..MaxSequence, e \in 0..MaxSequence}
Size(c) == c.e - c.s
Bytes(S) == MapThenSumSet(Size, S)
Sorted(S) == [i \in 1..Cardinality(S) |->
                CHOOSE c \in S : Cardinality({d \in S : d.s < c.s}) = i - 1]

Gone == [state |-> "none", has |-> FALSE, cursor |-> 0, end |-> 0, queued |-> 0]
Fresh == [Gone EXCEPT !.state = "attached"]
Idle == [who |-> {}, left |-> <<>>]
At(pc) == [pc |-> pc, left |-> <<>>]
Quiet == At("idle")

TypeOK ==
    /\ hist.earliest \in 0..hist.latest /\ hist.latest \in 0..MaxSequence
    /\ hist.chunks \subseteq Chunks
    /\ ring \subseteq Chunks
    /\ att \in [Attachments -> [state : {"none", "attached", "evicted"}, has : BOOLEAN,
                                cursor : 0..MaxSequence, end : 0..MaxSequence,
                                queued : 0..AttachmentBytes]]
    /\ token \in [Attachments -> BOOLEAN]
    /\ client \in [Attachments -> {"away", "waiting"}]
    /\ next \in [Attachments -> 0..MaxSequence]
    /\ op.who \subseteq Attachments /\ op.left \in Seq(Chunks)
    /\ writer.pc \in {"idle", "again", "replay", "append", "conflict", "down"}
    /\ note \in BOOLEAN
    /\ store.earliest \in 0..MaxSequence /\ store.latest \in 0..MaxSequence
    /\ store.chunks \subseteq Chunks

Nothing == [earliest |-> 0, latest |-> 0, chunks |-> {}]

Init ==
    /\ hist = Nothing
    /\ ring = {}
    /\ att = [a \in Attachments |-> Gone]
    /\ token = [a \in Attachments |-> FALSE]
    /\ client = [a \in Attachments |-> "away"]
    /\ next = [a \in Attachments |-> 0]
    /\ op = Idle
    /\ writer = Quiet
    /\ note = FALSE
    /\ store = Nothing

-----------------------------------------------------------------------------
(* History and the rows of the store: whole chunks are dropped from the front. *)

\* The chunks that stay when at most HistoryBytes may.
Retained(S) == {c \in S : Bytes({d \in S : d.s >= c.s}) <= HistoryBytes}

\* Mutant: the store keeps everything.
Appended_Unbounded(h, c) == [h EXCEPT !.latest = c.e, !.chunks = @ \cup {c}]

Appended(h, c) ==
    LET kept == Retained(h.chunks \cup {c}) IN
    [earliest |-> IF kept = {} THEN c.e ELSE Min({k.s : k \in kept}), latest |-> c.e, chunks |-> kept]

\* ReplayOwned(from, limit): the chunk that holds `from' is cut at its start, the
\* one that exceeds the limit at its end.
Replay(h, from, limit) ==
    Sorted({Chunk(Max({c.s, from}), Min({c.e, from + limit})) :
              c \in {d \in h.chunks : d.e > from /\ Max({d.s, from}) < from + limit}})

-----------------------------------------------------------------------------
(* The ring. *)

Covers(c, d) == c.s <= d.s /\ d.e <= c.e

Insert(r, c) ==
    IF \E d \in r : Covers(d, c) THEN r ELSE {d \in r : ~Covers(c, d)} \cup {c}

Cursors(t) == {t[a].cursor : a \in {x \in Attachments : t[x].state = "attached" /\ t[x].has}}

\* Mutant: the ring is compacted behind the fastest attachment.
Compact_Fastest(r, t) ==
    IF Cursors(t) = {} THEN {} ELSE {c \in r : c.e > Max(Cursors(t))}

Compact(r, t) ==
    IF Cursors(t) = {} THEN {} ELSE {c \in r : c.e > Min(Cursors(t))}

Found(r, sequence) == {c \in r : c.s <= sequence /\ sequence < c.e}

\* Nothing but the state of an evicted attachment is read again.
Evicted == [Gone EXCEPT !.state = "evicted"]

Fits(t, c) == Size(c) <= AttachmentBytes - t.queued

Queued(t, c) ==
    [t EXCEPT !.cursor = IF t.has THEN @ ELSE c.s, !.has = TRUE, !.end = c.e, !.queued = @ + Size(c)]

\* PublishOwned refuses a chunk that some attachment does not expect.
Expected(c) == \A a \in Attachments : (att[a].state = "attached" /\ att[a].has) => att[a].end = c.s

\* An attachment that has no room is evicted, the others go on.
Published(t, c) ==
    CASE t.state # "attached" -> t
      [] t.state = "attached" /\ ~Fits(t, c) -> Evicted
      [] OTHER -> Queued(t, c)

-----------------------------------------------------------------------------
(* Operations. *)

\* Mutant: the reader of an attachment is not woken.
Output_Silent(n) ==
    /\ op = Idle
    /\ hist.latest + n <= MaxSequence
    /\ LET c == Chunk(hist.latest, hist.latest + n) IN
         /\ hist' = Appended(hist, c)
         /\ att' = [a \in Attachments |-> Published(att[a], c)]
         /\ ring' = Compact(Insert(ring, c), att')
    /\ note' = TRUE
    /\ UNCHANGED <<token, client, next, op, writer, store>>

\* capture: the chunk goes to the history, to the attachments and, by a token, to
\* the persistence goroutine.
Output(n) ==
    /\ op = Idle
    /\ hist.latest + n <= MaxSequence
    /\ LET c == Chunk(hist.latest, hist.latest + n) IN
         /\ hist' = Appended(hist, c)
         /\ IF Expected(c)
              THEN /\ att' = [a \in Attachments |-> Published(att[a], c)]
                   /\ ring' = Compact(Insert(ring, c), att')
                   /\ token' = [a \in Attachments |-> token[a] \/ att[a].state = "attached"]
              ELSE UNCHANGED <<att, ring, token>>
    /\ next' = [a \in Attachments |-> IF att'[a].state = "attached" THEN next[a] ELSE 0]
    /\ note' = TRUE
    /\ UNCHANGED <<client, op, writer, store>>

\* attachmentReplayLimit.
ReplayLimit == Max({1, AttachmentBytes \div 2})

\* What attachLocked replays from: the byte asked for, or a recent one when that
\* is too far back.
Boundary(from) ==
    IF hist.latest - from <= ReplayLimit THEN from
    ELSE Max({hist.latest - ReplayLimit, hist.earliest})

AttachBegin(a, from) ==
    /\ op = Idle
    /\ client[a] = "away"
    /\ Cardinality({x \in Attachments : att[x].state = "attached"}) < MaxAttachments
    /\ att[a].state # "attached"
    /\ from \in hist.earliest..hist.latest
    /\ att' = [att EXCEPT ![a] = Fresh]
    /\ token' = [token EXCEPT ![a] = FALSE]
    /\ next' = [next EXCEPT ![a] = Boundary(from)]
    /\ LET left == Replay(hist, Boundary(from), ReplayLimit) IN
         op' = IF left = <<>> THEN Idle ELSE [who |-> {a}, left |-> left]
    /\ UNCHANGED <<hist, ring, client, writer, note, store>>

\* EnqueueOwned of the next replayed chunk.  The attach fails when the attachment
\* was detached meanwhile.  A replay is at most half a queue, so the eviction that
\* the code handles here cannot happen: TypeOK bounds what is queued.
Enqueue(a) ==
    /\ a \in op.who
    /\ LET c == Head(op.left) IN
         \/ /\ att[a].state = "attached"
            /\ att' = [att EXCEPT ![a] = Queued(@, c)]
            /\ ring' = Insert(ring, c)
            /\ token' = [token EXCEPT ![a] = TRUE]
            /\ op' = IF Len(op.left) = 1 THEN Idle ELSE [op EXCEPT !.left = Tail(@)]
         \/ /\ att[a].state = "none"
            /\ op' = Idle
            /\ UNCHANGED <<att, ring, token>>
    /\ UNCHANGED <<hist, client, next, writer, note, store>>

Detach(a) ==
    /\ att[a].state # "none"
    /\ att' = [att EXCEPT ![a] = Gone]
    /\ ring' = Compact(ring, att')
    /\ token' = [token EXCEPT ![a] = client[a] = "waiting"]
    /\ next' = [next EXCEPT ![a] = 0]
    /\ UNCHANGED <<hist, client, op, writer, note, store>>

Available(a) == att[a].state = "attached" /\ att[a].has /\ att[a].cursor < att[a].end

\* WaitNextOwned: the rest of the chunk at the cursor.
Deliver(a) ==
    /\ client[a] = "away" /\ Available(a)
    /\ \E c \in Found(ring, att[a].cursor) :
         /\ att' = [att EXCEPT ![a].cursor = c.e, ![a].queued = @ - (c.e - att[a].cursor)]
         /\ ring' = Compact(ring, att')
         /\ next' = [next EXCEPT ![a] = c.e]
    /\ UNCHANGED <<hist, token, client, op, writer, note, store>>

\* Nothing to read: it waits for a token.
Wait(a) ==
    /\ client[a] = "away" /\ att[a].state = "attached" /\ ~Available(a)
    /\ client' = [client EXCEPT ![a] = "waiting"]
    /\ UNCHANGED <<hist, ring, att, token, next, op, writer, note, store>>

Wake(a) ==
    /\ client[a] = "waiting" /\ token[a]
    /\ token' = [token EXCEPT ![a] = FALSE]
    /\ client' = [client EXCEPT ![a] = "away"]
    /\ UNCHANGED <<hist, ring, att, next, op, writer, note, store>>

\* Clear is refused while the store is behind the history.
Clear ==
    /\ op = Idle
    /\ store.latest = hist.latest
    /\ store' = [store EXCEPT !.earliest = hist.latest, !.chunks = {}]
    /\ hist' = [hist EXCEPT !.earliest = hist.latest, !.chunks = {}]
    /\ UNCHANGED <<ring, att, token, client, next, op, writer, note>>

-----------------------------------------------------------------------------
(* The persistence goroutine. *)

Conflict == writer' = At("conflict")

\* Mutant: a token that comes during a flush is taken by its end.
FlushAppend_TakesToken ==
    /\ writer.pc = "append"
    /\ note' = FALSE
    /\ LET c == Head(writer.left) IN
         /\ store' = Appended(store, c)
         /\ writer' = IF Len(writer.left) = 1 THEN Quiet ELSE [writer EXCEPT !.left = Tail(@)]
    /\ UNCHANGED <<hist, ring, att, token, client, next, op>>

\* The token starts a flush; a flush starts over when the history has moved on.
\* The store skips what the history has dropped before it was copied, and there
\* may be nothing to copy.  (The bounds are read one after the other: what comes
\* between the two reads is what may also come after both.)
FlushBegin ==
    /\ \/ writer.pc = "idle" /\ note /\ note' = FALSE
       \/ writer.pc = "again" /\ UNCHANGED note
    /\ LET at == Max({store.latest, hist.earliest}) IN
         /\ store' = IF store.latest < at THEN [earliest |-> at, latest |-> at, chunks |-> {}] ELSE store
         /\ writer' = IF at >= hist.latest THEN Quiet ELSE At("replay")
    /\ UNCHANGED <<hist, ring, att, token, client, next, op>>

FlushReplay ==
    /\ writer.pc = "replay"
    /\ writer' = IF store.latest < hist.earliest
                   THEN At("again")
                   ELSE [writer EXCEPT !.pc = "append", !.left = Replay(hist, store.latest, HistoryBytes)]
    /\ UNCHANGED <<hist, ring, att, token, client, next, op, note, store>>

\* AppendOutput, one transaction per chunk: it must continue what is stored.
FlushAppend ==
    /\ writer.pc = "append"
    /\ LET c == Head(writer.left) IN
         IF c.s = store.latest
           THEN /\ store' = Appended(store, c)
                /\ writer' = IF Len(writer.left) = 1 THEN Quiet ELSE [writer EXCEPT !.left = Tail(@)]
           ELSE Conflict /\ UNCHANGED store
    /\ UNCHANGED <<hist, ring, att, token, client, next, op, note>>

\* OutputBounds, AdvanceOutput or AppendOutput returns an error: the goroutine ends
\* and nobody starts another one while this process runs.
StoreFails ==
    /\ \/ writer.pc = "idle" /\ note /\ note' = FALSE
       \/ writer.pc \in {"again", "append"} /\ UNCHANGED note
    /\ writer' = At("down")
    /\ UNCHANGED <<hist, ring, att, token, client, next, op, store>>

Flush == FlushBegin \/ FlushReplay \/ FlushAppend

-----------------------------------------------------------------------------
Read(a) == Deliver(a) \/ Wake(a)

Next ==
    \/ \E n \in 1..MaxChunk : Output(n)
    \/ \E a \in Attachments :
         \/ \E from \in 0..MaxSequence : AttachBegin(a, from)
         \/ Enqueue(a) \/ Detach(a) \/ Wait(a) \/ Read(a)
    \/ Clear \/ Flush \/ StoreFails

Spec == Init /\ [][Next]_vars

\* The persistence goroutine, the attach that holds the lock and a stream with a
\* token or with output to send go on; nobody must print, attach or detach, and no
\* statement of the store must fail.
LiveSpec ==
    /\ Spec
    /\ WF_vars(Flush)
    /\ \A a \in Attachments : WF_vars(Enqueue(a)) /\ WF_vars(Wake(a))

-----------------------------------------------------------------------------
(* Properties. *)

\* An attachment is given the output from where it was attached, without a gap and
\* without a repetition: what it is given next continues what it was given last,
\* and it expects the next chunk of the history; otherwise PublishOwned would
\* refuse the chunk, and every later one, for all attachments.  The ring holds what
\* some attachment has still to be given, no more and no less, in chunks that do
\* not overlap, as the binary search of eventAtLocked needs; and the byte count by
\* which a slow attachment is evicted is exact and bounded.
InStep ==
    /\ \A a \in Attachments : att[a].state = "attached" =>
         LET expects == IF att[a].has THEN att[a].end ELSE next[a] IN
         /\ att[a].has => att[a].cursor = next[a]
         /\ expects = IF a \in op.who THEN Head(op.left).s ELSE hist.latest
         /\ att[a].queued = att[a].end - att[a].cursor
         /\ att[a].queued <= AttachmentBytes
         /\ \A i \in att[a].cursor..(att[a].end - 1) : Found(ring, i) # {}
    /\ \A c \in ring : \E a \in Attachments :
         att[a].state = "attached" /\ att[a].has /\ att[a].cursor < c.e
    /\ \A c, d \in ring : c = d \/ c.e <= d.s \/ d.e <= c.s

Contiguous(h) ==
    /\ \A i \in h.earliest..(h.latest - 1) : Found(h.chunks, i) # {}
    /\ Bytes(h.chunks) = h.latest - h.earliest

\* What is stored can always be restored: history.Restore refuses a gap or more
\* than HistoryBytes, and one session that cannot be restored keeps the whole host
\* runtime from starting.  The store is never ahead of the history.
Restorable ==
    /\ Contiguous(store) /\ Bytes(store.chunks) <= HistoryBytes
    /\ store.latest <= hist.latest

\* A stream that waits is woken by output, by its eviction and by its detachment.
WaitersWake ==
    \A a \in Attachments :
        (client[a] = "waiting" /\ (Available(a) \/ att[a].state # "attached"))
            ~> client[a] = "away"

\* As long as no statement of the store fails it catches up with the history when
\* the terminal pauses, also with what was printed during a flush or dropped before
\* it could be copied, and the goroutine does not end on a conflict of its own
\* making.  The first error of the store ends it: what is printed afterwards is not
\* stored.
OutputIsPersisted ==
    (store.latest < hist.latest) ~> (store.latest = hist.latest \/ writer.pc = "down")
=============================================================================
