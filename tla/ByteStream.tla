----------------------------- MODULE ByteStream -----------------------------
(***************************************************************************)
(* What a resumable stream promises its two applications, with no carrier, *)
(* buffer or acknowledgement in sight: each direction is a reliable, ordered *)
(* stream of bytes that may be half-closed by its writer.                  *)
(***************************************************************************)
EXTENDS Naturals, Sequences

CONSTANTS Endpoints, Peer(_), Bytes

VARIABLES
    written,    \* the bytes the application of each endpoint has written
    finished,   \* it has half-closed its direction
    delivered,  \* the bytes it has read from its peer
    eof         \* it has read the end of its peer's direction

vars == <<written, finished, delivered, eof>>

Init ==
    /\ written = [e \in Endpoints |-> <<>>]
    /\ finished = [e \in Endpoints |-> FALSE]
    /\ delivered = [e \in Endpoints |-> <<>>]
    /\ eof = [e \in Endpoints |-> FALSE]

Write(e) ==
    /\ ~finished[e]
    /\ \E byte \in Bytes : written' = [written EXCEPT ![e] = Append(@, byte)]
    /\ UNCHANGED <<finished, delivered, eof>>

Finish(e) ==
    /\ finished' = [finished EXCEPT ![e] = TRUE]
    /\ UNCHANGED <<written, delivered, eof>>

\* Reading returns the next bytes the peer wrote, and nothing after the end.
Read(e) ==
    /\ ~eof[e]
    /\ \E n \in Len(delivered[e]) + 1 .. Len(written[Peer(e)]) :
         delivered' = [delivered EXCEPT ![e] = SubSeq(written[Peer(e)], 1, n)]
    /\ UNCHANGED <<written, finished, eof>>

\* The end is read only when the peer has finished and all of it was read.
ReadEOF(e) ==
    /\ finished[Peer(e)]
    /\ delivered[e] = written[Peer(e)]
    /\ eof' = [eof EXCEPT ![e] = TRUE]
    /\ UNCHANGED <<written, finished, delivered>>

Next == \E e \in Endpoints : Write(e) \/ Finish(e) \/ Read(e) \/ ReadEOF(e)

Spec == Init /\ [][Next]_vars
=============================================================================
