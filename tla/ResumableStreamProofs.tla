----------------------- MODULE ResumableStreamProofs -----------------------
(***************************************************************************)
(* Proofs, for every set of carriers, window and bound.  The data first:   *)
(* types, and that bytes are delivered once and in order, kept until the   *)
(* peer has read them and ended where the writer half-closed, by induction *)
(* on DataInv (the shape of both buffers, and that every frame in flight   *)
(* tells the truth about its sender).  Then the refinement of ByteStream.  *)
(* Then the carriers: that no frame is ever a protocol violation, that the *)
(* endpoints agree on the committed carrier and move only forward, by      *)
(* induction on StreamInv.                                                 *)
(***************************************************************************)
EXTENDS ResumableStream, SequenceTheorems, TLAPS

\* The two endpoints are each other's peers (role of Config).
LEMMA PeerIsOther ==
    \A e \in Endpoints : Peer(e) \in Endpoints /\ Peer(e) # e /\ Peer(Peer(e)) = e
BY DEF Endpoints, Peer, I, R

\* The initiator and the responder are the endpoints, and peers of each other.
LEMMA BothEndpoints ==
    I \in Endpoints /\ R \in Endpoints /\ Peer(I) = R /\ Peer(R) = I
BY DEF Endpoints, Peer, I, R

\* Updating the field of one endpoint.
LEMMA FieldType ==
    ASSUME NEW S, NEW f \in [Endpoints -> S], NEW e \in Endpoints, NEW v \in S
    PROVE  [f EXCEPT ![e] = v] \in [Endpoints -> S]
OBVIOUS

\* Updating one entry of state, reader or writer.
LEMMA UpdateType ==
    ASSUME NEW S, NEW f \in [Endpoints -> [Carriers -> S]], NEW e \in Endpoints,
           NEW c \in Carriers, NEW v \in S
    PROVE  [f EXCEPT ![e][c] = v] \in [Endpoints -> [Carriers -> S]]
OBVIOUS

\* writeFrame builds a frame.
LEMMA HeaderType ==
    ASSUME NEW kind \in FrameKinds, NEW seq \in Nat, NEW data \in Seq(Nat)
    PROVE  Header(kind, seq, data) \in Frame
BY DEF Header, Frame

\* writeHello builds a frame.
LEMMA HelloType ==
    ASSUME NEW kind \in FrameKinds, NEW ep \in Nat, NEW committedEp \in Nat,
           NEW ack \in Nat
    PROVE  Hello(kind, ep, committedEp, ack) \in Frame
BY DEF Hello, Frame

\* Writing, reading, closing and resetting keep the wires well typed
\* (writeFrame, readFrame, conn.Close).
LEMMA PushType ==
    ASSUME NEW n \in Wires, NEW e \in Endpoints, NEW c \in Carriers, NEW f \in Frame
    PROVE  Push(n, e, c, f) \in Wires
BY PeerIsOther DEF Push, Wires

\* Taking the oldest frame (readFrame).
LEMMA PopType ==
    ASSUME NEW n \in Wires, NEW e \in Endpoints, NEW c \in Carriers, n[c][e] # <<>>
    PROVE  Pop(n, e, c) \in Wires
BY DEF Pop, Wires

\* Closing a set of links (conn.Close).
LEMMA CloseNetType ==
    ASSUME NEW n \in Wires, NEW e \in Endpoints, NEW S
    PROVE  CloseNet(n, e, S) \in Wires
BY DEF CloseNet, Wires

\* Writing RESET on a set of links (Close, watchContext).
LEMMA ResetNetType ==
    ASSUME NEW n \in Wires, NEW e \in Endpoints, NEW S
    PROVE  ResetNet(n, e, S) \in Wires
<1>1. Header("RESET", 0, <<>>) \in Frame
  BY DEF Header, Frame, FrameKinds
<1> QED
  BY <1>1, PeerIsOther DEF ResetNet, Wires

\* The next chunk of the send buffer lies inside it (writeActive).
LEMMA ChunkArithmetic ==
    ASSUME NEW base \in Nat, NEW offset \in Nat, NEW length \in Nat, NEW limit \in Nat,
           base <= offset, offset < base + length
    PROVE  /\ offset - base \in Nat /\ offset - base < length
           /\ (IF length - (offset - base) < limit
               THEN length - (offset - base) ELSE limit) \in Nat
           /\ (offset - base) + (IF length - (offset - base) < limit
                                 THEN length - (offset - base) ELSE limit) <= length
OBVIOUS

\* One more byte in the send buffer (Write).
LEMMA GrowArithmetic ==
    ASSUME NEW base \in Nat, NEW length \in Nat, NEW next \in Nat, NEW window \in Nat,
           NEW bound \in Nat, NEW offset \in Nat,
           base + length = next, length < window, next < bound, offset <= next
    PROVE  /\ length + 1 <= window /\ next + 1 <= bound
           /\ base + (length + 1) = next + 1 /\ offset <= next + 1
OBVIOUS

\* What Append, SubSeq and \o do to sequences of bytes.
LEMMA AppendFacts ==
    ASSUME NEW s \in Seq(Nat), NEW b \in Nat
    PROVE  /\ Append(s, b) \in Seq(Nat)
           /\ Len(Append(s, b)) = Len(s) + 1
           /\ \A i \in 1..Len(s) : Append(s, b)[i] = s[i]
           /\ Append(s, b)[Len(s) + 1] = b
OBVIOUS

\* Length and elements of a part of a sequence.
LEMMA SubSeqFacts ==
    ASSUME NEW s \in Seq(Nat), NEW m \in 1..(Len(s) + 1), NEW n \in (m - 1)..Len(s)
    PROVE  /\ SubSeq(s, m, n) \in Seq(Nat)
           /\ Len(SubSeq(s, m, n)) = n - m + 1
           /\ \A i \in 1..(n - m + 1) : SubSeq(s, m, n)[i] = s[m + i - 1]
OBVIOUS

\* Length and elements of two joined sequences.
LEMMA ConcatFacts ==
    ASSUME NEW s \in Seq(Nat), NEW t \in Seq(Nat)
    PROVE  /\ s \o t \in Seq(Nat)
           /\ Len(s \o t) = Len(s) + Len(t)
           /\ \A i \in 1..Len(s) : (s \o t)[i] = s[i]
           /\ \A i \in (Len(s) + 1)..(Len(s) + Len(t)) : (s \o t)[i] = t[i - Len(s)]
OBVIOUS

\* Appending, cutting and joining runs of consecutive bytes.
LEMMA ConsecutiveAppend ==
    ASSUME NEW s \in Seq(Nat), NEW base \in Nat, Consecutive(s, base)
    PROVE  Consecutive(Append(s, base + Len(s) + 1), base)
<1>1. base + Len(s) + 1 \in Nat /\ Len(s) \in Nat
  OBVIOUS
<1> QED
  BY <1>1, AppendFacts DEF Consecutive

\* A part of a run of consecutive bytes is one (discardAckedLocked, Read).
LEMMA ConsecutiveSubSeq ==
    ASSUME NEW s \in Seq(Nat), NEW base \in Nat, Consecutive(s, base),
           NEW m \in 0..Len(s), NEW n \in m..Len(s)
    PROVE  /\ SubSeq(s, m + 1, n) \in Seq(Nat) /\ Len(SubSeq(s, m + 1, n)) = n - m
           /\ Consecutive(SubSeq(s, m + 1, n), base + m)
<1> DEFINE t == SubSeq(s, m + 1, n)
<1>1. /\ t \in Seq(Nat) /\ Len(t) = n - m
      /\ \A i \in 1..(n - m) : t[i] = s[m + i]
  BY SubSeqFacts
<1> HIDE DEF t
<1>2. ASSUME NEW i \in 1..Len(t) PROVE t[i] = (base + m) + i
  <2>1. m + i \in 1..Len(s) /\ i \in 1..(n - m)
    BY <1>1
  <2>2. t[i] = s[m + i] /\ s[m + i] = base + (m + i)
    BY <1>1, <2>1 DEF Consecutive
  <2> QED
    BY <2>1, <2>2
<1>3. Consecutive(t, base + m)
  BY <1>2 DEF Consecutive
<1> QED
  BY <1>1, <1>3 DEF t

\* Two adjacent runs of consecutive bytes make one (readCarrier DATA, Read).
LEMMA ConsecutiveConcat ==
    ASSUME NEW s \in Seq(Nat), NEW t \in Seq(Nat), NEW base \in Nat,
           Consecutive(s, base), Consecutive(t, base + Len(s))
    PROVE  /\ s \o t \in Seq(Nat) /\ Len(s \o t) = Len(s) + Len(t)
           /\ Consecutive(s \o t, base)
<1>1. /\ s \o t \in Seq(Nat) /\ Len(s \o t) = Len(s) + Len(t)
      /\ Len(s) \in Nat /\ Len(t) \in Nat
  BY ConcatFacts
<1>2. ASSUME NEW i \in 1..(Len(s) + Len(t)) PROVE (s \o t)[i] = base + i
  <2>1. CASE i <= Len(s)
    BY <1>1, <2>1, ConcatFacts DEF Consecutive
  <2>2. CASE i > Len(s)
    <3>1. i - Len(s) \in 1..Len(t)
      BY <1>1, <2>2
    <3>2. (s \o t)[i] = t[i - Len(s)]
      BY <1>1, <2>2, ConcatFacts
    <3>3. t[i - Len(s)] = (base + Len(s)) + (i - Len(s))
      BY <3>1 DEF Consecutive
    <3> QED
      BY <1>1, <3>1, <3>2, <3>3
  <2> QED
    BY <1>1, <2>1, <2>2
<1> QED
  BY <1>1, <1>2 DEF Consecutive

\* The part of a DATA payload, starting at offset seq, that lies behind next.
LEMMA TrimFacts ==
    ASSUME NEW data \in Seq(Nat), NEW seq \in Nat, NEW next \in Nat, seq <= next,
           next < seq + Len(data)
    PROVE  LET rest == SubSeq(data, next - seq + 1, Len(data)) IN
           /\ rest \in Seq(Nat)
           /\ Len(rest) = (seq + Len(data)) - next
           /\ Consecutive(data, seq) => Consecutive(rest, next)
<1> DEFINE m == next - seq
           rest == SubSeq(data, m + 1, Len(data))
<1>1. Len(data) \in Nat /\ m \in 0..Len(data) /\ seq + m = next
  OBVIOUS
<1> HIDE DEF m
<1>2. rest \in Seq(Nat) /\ Len(rest) = Len(data) - m
  BY <1>1, SubSeqFacts
<1>3. Consecutive(data, seq) => Consecutive(rest, seq + m)
  BY <1>1, ConsecutiveSubSeq
<1> QED
  BY <1>1, <1>2, <1>3 DEF m

\* A write adds at most the written frame to what is in flight.
LEMMA PushInFlight ==
    ASSUME NEW n \in Wires, NEW e \in Endpoints, NEW c \in Carriers, NEW f \in Frame,
           NEW d \in Carriers, NEW x \in Endpoints, NEW g \in InFlight(Push(n, e, c, f), d, x)
    PROVE  g \in InFlight(n, d, x) \/ (g = f /\ x = Peer(e))
BY PeerIsOther DEF Push, Wires, InFlight

\* A read adds nothing to what is in flight.
LEMMA PopInFlight ==
    ASSUME NEW n \in Wires, NEW e \in Endpoints, NEW c \in Carriers, n[c][e] # <<>>,
           NEW d \in Carriers, NEW x \in Endpoints, NEW g \in InFlight(Pop(n, e, c), d, x)
    PROVE  g \in InFlight(n, d, x)
BY DEF Pop, Wires, InFlight

\* Closing links adds nothing to what is in flight.
LEMMA CloseNetInFlight ==
    ASSUME NEW n \in Wires, NEW e \in Endpoints, NEW S,
           NEW d \in Carriers, NEW x \in Endpoints, NEW g \in InFlight(CloseNet(n, e, S), d, x)
    PROVE  g \in InFlight(n, d, x)
BY DEF CloseNet, Wires, InFlight

\* Resetting links adds at most RESET to what is in flight.
LEMMA ResetNetInFlight ==
    ASSUME NEW n \in Wires, NEW e \in Endpoints, NEW S,
           NEW d \in Carriers, NEW x \in Endpoints, NEW g \in InFlight(ResetNet(n, e, S), d, x)
    PROVE  g \in InFlight(n, d, x) \/ g = Header("RESET", 0, <<>>)
BY PeerIsOther, HeaderType DEF ResetNet, Wires, InFlight, FrameKinds

\* The frame a reader looks at is in flight.
LEMMA HeadInFlight ==
    ASSUME NEW n \in Wires, NEW c \in Carriers, NEW e \in Endpoints, n[c][e] # <<>>
    PROVE  Head(n[c][e]) \in InFlight(n, c, e) /\ Head(n[c][e]) \in Frame
BY DEF Wires, InFlight

(***************************************************************************)
(* The inductive invariant.                                                *)
(***************************************************************************)
DataInv == /\ SendShape /\ RecvShape /\ FramesTruthful
           /\ AckedWasConsumed /\ EofIsTheEnd

(***************************************************************************)
(* Type correctness.  SendData computes the length of its frame from the   *)
(* shape of the send buffer, so the types alone are not inductive.         *)
(***************************************************************************)
\* New leaves every field of its type.
LEMMA TypeInit == Init => TypeOK
<1> SUFFICES ASSUME Init PROVE TypeOK
  OBVIOUS
<1>1. net \in Wires
  BY DEF Init, Wires
<1>2. /\ send \in [Endpoints -> Seq(Nat)] /\ recv \in [Endpoints -> Seq(Nat)]
      /\ delivered \in [Endpoints -> Seq(Nat)]
  BY DEF Init
<1> QED
  BY <1>1, <1>2 DEF Init, TypeOK, Slots, CarrierStates, TerminalErrors

\* discardAckedLocked keeps the send half of its type.
LEMMA DiscardAckedType ==
    ASSUME TypeOK, NEW e \in Endpoints, NEW offset \in Nat, DiscardAcked(e, offset)
    PROVE  sendBase' \in [Endpoints -> Nat] /\ send' \in [Endpoints -> Seq(Nat)]
<1>1. CASE offset <= sendBase[e]
  BY <1>1 DEF DiscardAcked, TypeOK
<1>2. CASE ~(offset <= sendBase[e])
  <2>1. send' = [send EXCEPT ![e] = SubSeq(@, offset - sendBase[e] + 1, Len(@))]
    BY <1>2 DEF DiscardAcked
  <2>2. SubSeq(send[e], offset - sendBase[e] + 1, Len(send[e])) \in Seq(Nat)
    <3>1. send[e] \in Seq(Nat) /\ sendBase[e] \in Nat
      BY DEF TypeOK
    <3>2. offset - sendBase[e] + 1 \in 1..(offset - sendBase[e] + 1)
      BY <1>2, <3>1
    <3> QED
      BY <3>1, <3>2, SubSeqProperties
  <2>3. send \in [Endpoints -> Seq(Nat)]
    BY DEF TypeOK
  <2>4. send' \in [Endpoints -> Seq(Nat)]
    BY <2>1, <2>2, <2>3, FieldType
  <2>5. /\ sendBase' = [sendBase EXCEPT ![e] = offset]
        /\ sendBase \in [Endpoints -> Nat]
    <3>1. sendBase' = [sendBase EXCEPT ![e] = offset]
      BY <1>2 DEF DiscardAcked
    <3> QED BY <3>1 DEF TypeOK
  <2>6. sendBase' \in [Endpoints -> Nat]
    BY <2>5, FieldType
  <2> QED
    BY <2>4, <2>6
<1> QED
  BY <1>1, <1>2

\* failTerminal keeps what it changes of its type.
LEMMA FailTerminalType ==
    ASSUME TypeOK, NEW e \in Endpoints, NEW reason \in TerminalErrors, NEW n \in Wires,
           FailTerminal(e, reason, n)
    PROVE  /\ terminalErr' \in [Endpoints -> TerminalErrors]
           /\ active' \in [Endpoints -> Slots] /\ prepared' \in [Endpoints -> Slots]
           /\ retained' \in [Endpoints -> Slots]
           /\ op' \in [Endpoints -> {"idle", "prepare", "start", "promote", "drop",
                                     "accept", "ready", "emit"}]
           /\ opCarrier' \in [Endpoints -> Slots]
           /\ link' \in [Carriers -> {"unused", "up", "down"}]
           /\ net' \in Wires
           /\ UNCHANGED <<state, nextEpoch, committedEpoch, pending, detached, timer,
                          closed, epoch, linkFailures>>
<1>1. net' \in Wires
  BY CloseNetType DEF FailTerminal
<1> QED
  BY <1>1 DEF FailTerminal, DetachAll, CloseLinks, Slots, TypeOK

\* Write, Read, CloseWrite, Close, Abort and watchContext keep TypeOK.
LEMMA TypeApplication ==
    ASSUME TypeOK, DataInv, NEW e \in Endpoints, Application(e)
    PROVE  TypeOK'
<1> USE DEF sendVars, finVars, recvVars, remoteVars, ackVars, slotVars, workerVars,
            lifeVars, opVars, linkVars, dataVars, controlVars, sideVars
<1>1. CASE Write(e)
  <2>1. send' \in [Endpoints -> Seq(Nat)]
    BY <1>1 DEF Write, TypeOK
  <2>2. sendNext' \in [Endpoints -> Nat]
    BY <1>1 DEF Write, TypeOK
  <2> QED
    BY <1>1, <2>1, <2>2 DEF Write, TypeOK
<1>2. CASE \E n \in 1..Window : Read(e, n)
  <2> PICK n \in 1..Window : Read(e, n)
    BY <1>2
  <2>1. n \in 1..Len(recv[e]) /\ recv[e] \in Seq(Nat) /\ delivered[e] \in Seq(Nat)
    BY DEF Read, TypeOK
  <2>2. SubSeq(recv[e], 1, n) \in Seq(Nat) /\ SubSeq(recv[e], n + 1, Len(recv[e])) \in Seq(Nat)
    BY <2>1, SubSeqFacts
  <2>3. recv' \in [Endpoints -> Seq(Nat)] /\ delivered' \in [Endpoints -> Seq(Nat)]
    <3>1. /\ recv \in [Endpoints -> Seq(Nat)] /\ delivered \in [Endpoints -> Seq(Nat)]
          /\ recv' = [recv EXCEPT ![e] = SubSeq(recv[e], n + 1, Len(recv[e]))]
          /\ delivered' = [delivered EXCEPT ![e] = delivered[e] \o SubSeq(recv[e], 1, n)]
      BY DEF Read, TypeOK
    <3>2. delivered[e] \o SubSeq(recv[e], 1, n) \in Seq(Nat)
      BY <2>1, <2>2, ConcatFacts
    <3> QED
      BY <2>2, <3>1, <3>2, FieldType
  <2>4. recvBase' \in [Endpoints -> Nat]
    <3>1. /\ recvBase \in [Endpoints -> Nat]
          /\ recvBase' = [recvBase EXCEPT ![e] = recvBase[e] + n]
      BY DEF Read, TypeOK
    <3>2. recvBase[e] \in Nat /\ n \in Nat
      BY <3>1
    <3>3. recvBase[e] + n \in Nat
      BY <3>2
    <3> QED
      BY <3>1, <3>3, FieldType
  <2> QED
    BY <2>3, <2>4 DEF Read, TypeOK
<1>3. CASE ReadEOF(e)
  BY <1>3 DEF ReadEOF, TypeOK
<1>4. CASE CloseWrite(e)
  BY <1>4 DEF CloseWrite, TypeOK
<1>5. CASE Close(e)
  <2>1. net' \in Wires
    BY <1>5, CloseNetType, ResetNetType DEF Close, TypeOK
  <2> QED
    BY <1>5, <2>1 DEF Close, TypeOK, DetachAll, CloseLinks, Slots
<1>6. CASE Abort(e)
  BY <1>6, FailTerminalType DEF Abort, TypeOK, TerminalErrors
<1>7. CASE ContextDone(e)
  BY <1>7, FailTerminalType, ResetNetType DEF ContextDone, TypeOK, TerminalErrors
<1> QED
  BY <1>1, <1>2, <1>3, <1>4, <1>5, <1>6, <1>7 DEF Application

\* An event adds at most one to the responder's channel.
LEMMA EmittedType ==
    ASSUME TypeOK, NEW e
    PROVE  Emitted(e) \in Nat
BY DEF Emitted, TypeOK

\* PrepareCarrier, AcceptCarrier and the two promotion writers keep TypeOK.
LEMMA TypeHandshake ==
    ASSUME TypeOK, DataInv, NEW c \in Carriers, Handshake(c)
    PROVE  TypeOK'
<1> USE DEF sendVars, finVars, recvVars, remoteVars, ackVars, slotVars, workerVars,
            lifeVars, opVars, linkVars, dataVars, controlVars, sideVars
<1>1. CASE PrepareCarrier(c)
  <2>1. /\ nextEpoch[I] + 1 \in Nat /\ committedEpoch[I] \in Nat
        /\ recvBase[I] \in Nat
    <3>1. /\ nextEpoch \in [Endpoints -> Nat] /\ committedEpoch \in [Endpoints -> Nat]
          /\ recvBase \in [Endpoints -> Nat]
      BY DEF TypeOK
    <3> QED BY <3>1, BothEndpoints
  <2>2. Hello("PREPARE", nextEpoch[I] + 1, committedEpoch[I], recvBase[I]) \in Frame
    BY <2>1, HelloType DEF FrameKinds
  <2>3. net' \in Wires
    BY <1>1, <2>2, PushType DEF PrepareCarrier, TypeOK, Endpoints, Acknowledged
  <2>4. epoch' \in [Carriers -> Nat]
    BY <1>1, <2>1 DEF PrepareCarrier, TypeOK
  <2>5. pending' \in [Endpoints -> SUBSET Carriers]
    BY <1>1 DEF PrepareCarrier, TypeOK
  <2>6. opCarrier' \in [Endpoints -> Slots]
    BY <1>1 DEF PrepareCarrier, TypeOK, Slots
  <2> QED
    BY <1>1, <2>3, <2>4, <2>5, <2>6 DEF PrepareCarrier, TypeOK
<1>2. CASE PrepareRefused(c)
  <2>1. net' \in Wires
    BY <1>2, CloseNetType DEF PrepareRefused, TypeOK, Endpoints
  <2> QED
    BY <1>2, <2>1 DEF PrepareRefused, TypeOK, Endpoints, CloseLinks
<1>3. CASE PrepareReady(c)
  <2>1. I \in Endpoints /\ net[c][I] # <<>>
    BY <1>3 DEF PrepareReady, Ready, Endpoints
  <2>2. Head(net[c][I]) \in Frame /\ net' \in Wires
    BY <1>3, <2>1, HeadInFlight, PopType DEF PrepareReady, TypeOK
  <2>3. sendBase' \in [Endpoints -> Nat] /\ send' \in [Endpoints -> Seq(Nat)]
    BY <1>3, <2>1, <2>2, DiscardAckedType DEF PrepareReady, Frame
  <2> QED
    BY <1>3, <2>1, <2>2, <2>3 DEF PrepareReady, TypeOK, Slots, CarrierStates
<1>4. CASE PrepareFailed(c)
  <2>1. net' \in Wires
    BY <1>4, CloseNetType DEF PrepareFailed, TypeOK, Endpoints
  <2> QED
    BY <1>4, <2>1 DEF PrepareFailed, TypeOK, Endpoints, CloseLinks, Release, Slots
<1>5. CASE AcceptCarrier(c)
  BY <1>5 DEF AcceptCarrier, TypeOK, Endpoints, Slots
<1>6. CASE AcceptHello(c)
  <2>1. R \in Endpoints /\ net[c][R] # <<>>
    BY <1>6 DEF AcceptHello, Endpoints
  <2>2. Head(net[c][R]) \in Frame /\ Pop(net, R, c) \in Wires
    BY <2>1, HeadInFlight, PopType DEF TypeOK
  <2>3. Hello("READY", epoch[c], committedEpoch[R], recvBase[R]) \in Frame
    BY <2>1, HelloType DEF TypeOK, FrameKinds
  <2>4. net' \in Wires
    BY <1>6, <2>1, <2>2, <2>3, PushType, CloseNetType DEF AcceptHello, Acknowledged
  <2>5. sendBase' \in [Endpoints -> Nat] /\ send' \in [Endpoints -> Seq(Nat)]
    BY <1>6, <2>1, <2>2, DiscardAckedType DEF AcceptHello, Frame
  <2>6. nextEpoch' \in [Endpoints -> Nat]
    BY <1>6, <2>1, <2>2 DEF AcceptHello, Frame, TypeOK
  <2>7. state' \in [Endpoints -> [Carriers -> CarrierStates]]
    <3> DEFINE old == {prepared[R]} \ {None}
               row == [d \in Carriers |->
                          IF d = c THEN "provisional"
                          ELSE IF d \in old THEN "superseded" ELSE state[R][d]]
    <3>1. state' = [state EXCEPT ![R] = row]
      BY <1>6 DEF AcceptHello
    <3>2. state \in [Endpoints -> [Carriers -> CarrierStates]]
      BY DEF TypeOK
    <3>3. state[R] \in [Carriers -> CarrierStates]
      BY <2>1, <3>2
    <3>4. row \in [Carriers -> CarrierStates]
      BY <3>3 DEF CarrierStates
    <3> HIDE DEF row
    <3> QED
      BY <2>1, <3>1, <3>2, <3>4, FieldType
  <2> QED
    BY <1>6, <2>1, <2>4, <2>5, <2>6, <2>7 DEF AcceptHello, TypeOK, Slots, CloseLinks
<1>7. CASE AcceptRefused(c)
  <2>1. net' \in Wires
    BY <1>7, CloseNetType DEF AcceptRefused, TypeOK, Endpoints
  <2> QED
    BY <1>7, <2>1 DEF AcceptRefused, TypeOK, Endpoints, CloseLinks, Release, Slots
<1>8. CASE AcceptReady(c)
  <2>1. /\ op' \in [Endpoints -> {"idle", "prepare", "start", "promote", "drop",
                                  "accept", "ready", "emit"}]
        /\ opCarrier' \in [Endpoints -> Slots]
    BY <1>8 DEF AcceptReady, TypeOK, Release, Slots
  <2>2. /\ state' \in [Endpoints -> [Carriers -> CarrierStates]]
        /\ reader' \in [Endpoints -> [Carriers -> BOOLEAN]]
    <3>1. /\ state \in [Endpoints -> [Carriers -> CarrierStates]]
          /\ reader \in [Endpoints -> [Carriers -> BOOLEAN]]
      BY DEF TypeOK
    <3>2. /\ [state EXCEPT ![R][c] = "prepared"] \in [Endpoints -> [Carriers -> CarrierStates]]
          /\ [reader EXCEPT ![R][c] = TRUE] \in [Endpoints -> [Carriers -> BOOLEAN]]
      BY <3>1, UpdateType, BothEndpoints DEF CarrierStates
    <3> QED BY <1>8, <3>1, <3>2 DEF AcceptReady
  <2>3. net' \in Wires
    <3>1. net \in Wires /\ CloseNet(net, R, {c}) \in Wires
      BY CloseNetType, BothEndpoints DEF TypeOK
    <3> QED BY <1>8, <3>1 DEF AcceptReady
  <2>4. link' \in [Carriers -> {"unused", "up", "down"}]
    BY <1>8 DEF AcceptReady, TypeOK, CloseLinks
  <2>5. events' \in Nat
    <3>1. events' \in {events, Emitted(R)}
      BY <1>8 DEF AcceptReady
    <3>2. events \in Nat
      BY DEF TypeOK
    <3> QED BY <3>1, <3>2, EmittedType
  <2> QED
    BY <1>8, <2>1, <2>2, <2>3, <2>4, <2>5 DEF AcceptReady, TypeOK
<1>9. CASE AcceptReadyFailed(c)
  <2>1. net' \in Wires
    BY <1>9 DEF AcceptReadyFailed, TypeOK, Wires
  <2>2. /\ op' \in [Endpoints -> {"idle", "prepare", "start", "promote", "drop",
                                  "accept", "ready", "emit"}]
        /\ opCarrier' \in [Endpoints -> Slots]
    BY <1>9 DEF AcceptReadyFailed, TypeOK, Release, Slots
  <2>3. /\ state' \in [Endpoints -> [Carriers -> CarrierStates]]
        /\ prepared' \in [Endpoints -> Slots]
    <3>1. /\ state \in [Endpoints -> [Carriers -> CarrierStates]]
          /\ prepared \in [Endpoints -> Slots]
      BY DEF TypeOK
    <3>2. [state EXCEPT ![R][c] = "failed"] \in [Endpoints -> [Carriers -> CarrierStates]]
      BY <3>1, UpdateType, BothEndpoints DEF CarrierStates
    <3>3. [prepared EXCEPT ![R] = None] \in [Endpoints -> Slots]
      BY <3>1 DEF Slots
    <3> QED BY <1>9, <3>1, <3>2, <3>3 DEF AcceptReadyFailed
  <2> QED
    BY <1>9, <2>1, <2>2, <2>3 DEF AcceptReadyFailed, TypeOK
<1>10. CASE ConfirmCarrier(c)
  <2>1. Header("CONFIRM", epoch[c], <<>>) \in Frame
    BY DEF Header, Frame, FrameKinds, TypeOK
  <2>2. PICK old : /\ retained' = [retained EXCEPT ![I] = IF @ \in old THEN None ELSE @]
                   /\ link' = CloseLinks(old)
                   /\ net' = CloseNet(Push(net, I, c, Header("CONFIRM", epoch[c], <<>>)),
                                      I, old)
    BY <1>10 DEF ConfirmCarrier
  <2>3. /\ net' \in Wires /\ link' \in [Carriers -> {"unused", "up", "down"}]
        /\ retained' \in [Endpoints -> Slots]
    BY <2>1, <2>2, PushType, CloseNetType DEF TypeOK, Endpoints, CloseLinks, Slots
  <2>4. writer' \in [Endpoints -> [Carriers -> {"none", "commitAck", "confirm", "run"}]]
    BY <1>10 DEF ConfirmCarrier, TypeOK
  <2> QED
    BY <1>10, <2>3, <2>4 DEF ConfirmCarrier, TypeOK
<1>11. CASE SendCommitAck(c)
  <2>1. Header("COMMIT_ACK", epoch[c], <<>>) \in Frame
    BY DEF Header, Frame, FrameKinds, TypeOK
  <2>2. net' \in Wires
    BY <1>11, <2>1, PushType DEF SendCommitAck, TypeOK, Endpoints
  <2>3. events' \in Nat
    <3>1. events' \in {events, Emitted(R)}
      BY <1>11 DEF SendCommitAck
    <3>2. events \in Nat
      BY DEF TypeOK
    <3> QED BY <3>1, <3>2, EmittedType
  <2> QED
    BY <1>11, <2>2, <2>3 DEF SendCommitAck, TypeOK
<1> QED
  BY <1>1, <1>2, <1>3, <1>4, <1>5, <1>6, <1>7, <1>8, <1>9, <1>10, <1>11 DEF
     Handshake

\* Opening and breaking links, PromoteCarrier and DropPrepared keep TypeOK.
LEMMA TypeCoordinator ==
    ASSUME TypeOK, DataInv, NEW c \in Carriers,
           OpenLink(c) \/ LinkFail(c) \/ PromoteCarrier(c) \/ DropPrepared(c)
    PROVE  TypeOK'
<1> USE DEF sendVars, finVars, recvVars, remoteVars, ackVars, slotVars, workerVars,
            lifeVars, opVars, linkVars, dataVars, controlVars, sideVars
<1>1. CASE OpenLink(c)
  <2>1. pending' \in [Endpoints -> SUBSET Carriers]
    BY <1>1 DEF OpenLink, TypeOK
  <2>2. link' \in [Carriers -> {"unused", "up", "down"}]
    BY <1>1 DEF OpenLink, TypeOK
  <2> QED
    BY <1>1, <2>1, <2>2 DEF OpenLink, TypeOK
<1>2. CASE LinkFail(c)
  <2>1. link' \in [Carriers -> {"unused", "up", "down"}] /\ linkFailures' \in Nat
    BY <1>2 DEF LinkFail, TypeOK
  <2> QED
    BY <1>2, <2>1 DEF LinkFail, TypeOK
<1>3. CASE PromoteCarrier(c)
  <2>1. Header("COMMIT", epoch[c], <<>>) \in Frame
    BY DEF Header, Frame, FrameKinds, TypeOK
  <2>2. net' \in Wires
    BY <1>3, <2>1, PushType DEF PromoteCarrier, TypeOK, Endpoints
  <2> QED
    BY <1>3, <2>2 DEF PromoteCarrier, TypeOK, Slots, CarrierStates
<1>4. CASE DropPrepared(c)
  <2>1. Header("DISCARD", epoch[c], <<>>) \in Frame
    BY DEF Header, Frame, FrameKinds, TypeOK
  <2>2. net' \in Wires
    BY <1>4, <2>1, PushType DEF DropPrepared, TypeOK, Endpoints
  <2> QED
    BY <1>4, <2>2 DEF DropPrepared, TypeOK, Slots
<1> QED
  BY <1>1, <1>2, <1>3, <1>4

\* StartReader and the writers.
LEMMA TypeWriters ==
    ASSUME TypeOK, DataInv, NEW e \in Endpoints,
           SendData(e) \/ SendFin(e) \/ SendAck(e) \/ StartReader
    PROVE  TypeOK'
<1> USE DEF sendVars, finVars, recvVars, remoteVars, ackVars, slotVars, workerVars,
            lifeVars, opVars, linkVars, dataVars, controlVars, sideVars
<1>1. CASE SendData(e)
  <2> DEFINE start == Offset(e) - sendBase[e]
             n == IF Len(send[e]) - start < MaximumFrame
                  THEN Len(send[e]) - start ELSE MaximumFrame
             data == SubSeq(send[e], start + 1, start + n)
  <2>1. SendData(e)!2
    BY <1>1 DEF SendData
  <2>2. /\ Offset(e) \in Nat /\ start \in Nat /\ start < Len(send[e])
        /\ n \in Nat /\ start + n <= Len(send[e]) /\ send[e] \in Seq(Nat)
    <3>1. /\ sendBase[e] \in Nat /\ sendNext[e] \in Nat /\ writeOffset[e] \in Nat
          /\ send[e] \in Seq(Nat) /\ Len(send[e]) \in Nat
      BY DEF TypeOK
    <3>2. sendBase[e] + Len(send[e]) = sendNext[e] /\ Offset(e) < sendNext[e]
      BY <1>1 DEF SendData, DataDue, DataInv, SendShape
    <3>3. Offset(e) \in Nat /\ sendBase[e] <= Offset(e)
      BY <3>1 DEF Offset
    <3>4. Offset(e) < sendBase[e] + Len(send[e]) /\ MaximumFrame \in Nat
      BY <3>2, WindowAssumption
    <3> QED BY <3>1, <3>3, <3>4, ChunkArithmetic
  <2>3. active[e] \in Carriers
    BY <1>1 DEF SendData, DataDue, Writing, TypeOK, Slots
  <2>4. data \in Seq(Nat)
    <3> HIDE DEF start, n
    <3> QED BY <2>2, SubSeqFacts
  <2>5. Header("DATA", Offset(e), data) \in Frame
    BY <2>2, <2>4, HeaderType DEF FrameKinds
  <2>6. net' \in Wires
    BY <2>1, <2>3, <2>5, PushType DEF TypeOK
  <2>7. writeOffset' \in [Endpoints -> Nat]
    <3>1. writeOffset \in [Endpoints -> Nat]
      BY DEF TypeOK
    <3>2. writeOffset' = [writeOffset EXCEPT ![e] = Offset(e) + n]
      BY <2>1
    <3> HIDE DEF n
    <3>3. Offset(e) + n \in Nat
      BY <2>2
    <3> QED BY <3>1, <3>2, <3>3
  <2> QED
    BY <1>1, <2>6, <2>7 DEF SendData, TypeOK
<1>2. CASE SendFin(e)
  <2>1. active[e] \in Carriers /\ sendNext[e] \in Nat
    BY <1>2 DEF SendFin, FinDue, Writing, TypeOK, Slots
  <2>2. net' \in Wires
    <3>1. Header("FIN", sendNext[e], <<>>) \in Frame
      BY <2>1 DEF Header, Frame, FrameKinds
    <3> QED BY <1>2, <2>1, <3>1, PushType DEF SendFin, TypeOK
  <2> QED
    BY <1>2, <2>1, <2>2 DEF SendFin, TypeOK, Slots
<1>3. CASE SendAck(e)
  <2>1. active[e] \in Carriers /\ Acknowledged(e) \in Nat
    BY <1>3 DEF SendAck, AckDue, Acknowledged, TypeOK, Slots
  <2>2. net' \in Wires
    <3>1. Header("ACK", Acknowledged(e), <<>>) \in Frame
      BY <2>1 DEF Header, Frame, FrameKinds
    <3> QED BY <1>3, <2>1, <3>1, PushType DEF SendAck, TypeOK
  <2> QED
    BY <1>3, <2>1, <2>2 DEF SendAck, TypeOK, Slots
<1>4. CASE StartReader
  <2>1. reader \in [Endpoints -> [Carriers -> BOOLEAN]] /\ prepared[I] \in Slots
    BY BothEndpoints DEF TypeOK
  <2>2. reader' \in [Endpoints -> [Carriers -> BOOLEAN]] /\ panicked' \in BOOLEAN
    <3>1. CASE prepared[I] = None
      BY <1>4, <2>1, <3>1 DEF StartReader
    <3>2. CASE prepared[I] \in Carriers
      <4>1. [reader EXCEPT ![I][prepared[I]] = TRUE] \in [Endpoints -> [Carriers -> BOOLEAN]]
        BY <2>1, <3>2, UpdateType, BothEndpoints
      <4>2. prepared[I] # None
        BY <3>2, CarriersAssumption
      <4> QED BY <1>4, <4>1, <4>2 DEF StartReader, TypeOK
    <3> QED BY <2>1, <3>1, <3>2 DEF Slots
  <2> QED
    BY <1>4, <2>2 DEF StartReader, Release, TypeOK, Slots
<1> QED
  BY <1>1, <1>2, <1>3, <1>4

\* Activate, common to both ends of a promotion.
LEMMA ActivateType ==
    ASSUME TypeOK, NEW e \in Endpoints, NEW c \in Carriers, Activate(e, c)
    PROVE  /\ state' \in [Endpoints -> [Carriers -> CarrierStates]]
           /\ retained' \in [Endpoints -> Slots] /\ active' \in [Endpoints -> Slots]
           /\ prepared' \in [Endpoints -> Slots]
           /\ committedEpoch' \in [Endpoints -> Nat]
           /\ detached' \in [Endpoints -> BOOLEAN]
           /\ writeOffset' \in [Endpoints -> Nat]
<1>1. state' \in [Endpoints -> [Carriers -> CarrierStates]]
  BY DEF Activate, TypeOK, CarrierStates
<1>2. detached' \in [Endpoints -> BOOLEAN]
  BY DEF Activate, TypeOK
<1>3. /\ retained' \in [Endpoints -> Slots] /\ active' \in [Endpoints -> Slots]
      /\ prepared' \in [Endpoints -> Slots]
  BY DEF Activate, TypeOK, Slots, Previous
<1>4. committedEpoch' \in [Endpoints -> Nat] /\ writeOffset' \in [Endpoints -> Nat]
  BY DEF Activate, TypeOK, ResumeOffset
<1> QED
  BY <1>1, <1>2, <1>3, <1>4

\* The data frames: RecvLate, RecvData, RecvAck, RecvFin, RecvFinAck.
LEMMA TypeDataFrames ==
    ASSUME TypeOK, DataInv, NEW e \in Endpoints, NEW c \in Carriers, Readable(e, c),
           Violation(e, c, Head(net[c][e])) = "none",
           \/ RecvLate(e, c) \/ RecvData(e, c) \/ RecvAck(e, c) \/ RecvFin(e, c)
           \/ RecvFinAck(e, c)
    PROVE  TypeOK'
<1> USE DEF sendVars, finVars, recvVars, remoteVars, ackVars, slotVars, workerVars,
            lifeVars, opVars, linkVars, dataVars, controlVars, sideVars
<1> DEFINE f == Head(net[c][e])
<1>0. /\ net[c][e] # <<>> /\ net \in Wires
      /\ Pop(net, e, c) \in Wires
      /\ f \in Frame
  BY PopType, HeadInFlight DEF Readable, TypeOK
<1>1. CASE RecvLate(e, c)
  BY <1>0, <1>1 DEF RecvLate, TypeOK
<1>2. CASE RecvData(e, c)
  <2>1. /\ f.seq \in Nat /\ f.data \in Seq(Nat) /\ Len(f.data) \in Nat
        /\ recvNext[e] \in Nat /\ recv[e] \in Seq(Nat)
    <3>1. f.seq \in Nat /\ f.data \in Seq(Nat) /\ Len(f.data) \in Nat
      BY <1>0 DEF Frame
    <3>2. recvNext[e] \in Nat /\ recv[e] \in Seq(Nat)
      BY DEF TypeOK
    <3> QED BY <3>1, <3>2
  <2>2. f.kind = "DATA" /\ Disposition(e, c) = "accept"
    BY <1>2 DEF RecvData, ReadsAs
  <2>3. f.seq <= recvNext[e]
    BY <2>1, <2>2 DEF Violation
  <2>4. CASE f.seq + Len(f.data) > recvNext[e]
    <3>1. NewBytes(e, f) \in Seq(Nat)
      BY <2>1, <2>3, <2>4, TrimFacts DEF NewBytes
    <3>2. recv' = [recv EXCEPT ![e] = @ \o NewBytes(e, f)]
      BY <1>2, <2>4 DEF RecvData
    <3>3. recvNext' = [recvNext EXCEPT ![e] = f.seq + Len(f.data)]
      BY <1>2, <2>4 DEF RecvData
    <3> HIDE DEF f
    <3>4. recv' \in [Endpoints -> Seq(Nat)]
      <4>1. recv \in [Endpoints -> Seq(Nat)] /\ recv[e] \o NewBytes(e, f) \in Seq(Nat)
        BY <2>1, <3>1, ConcatFacts DEF TypeOK
      <4> QED BY <3>2, <4>1
    <3>5. recvNext' \in [Endpoints -> Nat]
      <4>1. recvNext \in [Endpoints -> Nat]
        BY DEF TypeOK
      <4>2. f.seq + Len(f.data) \in Nat
        BY <2>1
      <4> QED BY <3>3, <4>1, <4>2
    <3> QED
      BY <1>0, <1>2, <3>4, <3>5 DEF RecvData, TypeOK
  <2>5. CASE ~(f.seq + Len(f.data) > recvNext[e])
    BY <1>0, <1>2, <2>5 DEF RecvData, TypeOK
  <2> QED
    BY <2>4, <2>5
<1>3. CASE RecvAck(e, c)
  <2>1. f.seq \in Nat
    BY <1>0 DEF Frame
  <2>2. DiscardAcked(e, f.seq)
    BY <1>3 DEF RecvAck
  <2>3. sendBase' \in [Endpoints -> Nat] /\ send' \in [Endpoints -> Seq(Nat)]
    BY <2>1, <2>2, DiscardAckedType
  <2> QED
    BY <1>0, <1>3, <2>3 DEF RecvAck, TypeOK
<1>4. CASE RecvFin(e, c)
  <2>1. f.seq \in Nat
    BY <1>0 DEF Frame
  <2>2. Header("FINACK", f.seq, <<>>) \in Frame
    BY <2>1 DEF Header, Frame, FrameKinds
  <2>3. Push(Pop(net, e, c), e, c, Header("FINACK", f.seq, <<>>)) \in Wires
    BY <1>0, <2>2, PushType
  <2>4. net' \in Wires
    BY <1>0, <1>4, <2>3 DEF RecvFin
  <2>5. remoteFINAt' \in [Endpoints -> Nat]
    BY <1>4, <2>1 DEF RecvFin, TypeOK
  <2>6. remoteFIN' \in [Endpoints -> BOOLEAN]
    BY <1>4 DEF RecvFin, TypeOK
  <2> QED
    BY <1>4, <2>4, <2>5, <2>6 DEF RecvFin, TypeOK
<1>5. CASE RecvFinAck(e, c)
  BY <1>0, <1>5 DEF RecvFinAck, TypeOK
<1> QED
  BY <1>1, <1>2, <1>3, <1>4, <1>5

\* The other frames: RESET, the promotion and the discard handshake.
LEMMA TypeControlFrames ==
    ASSUME TypeOK, DataInv, NEW e \in Endpoints, NEW c \in Carriers, Readable(e, c),
           \/ RecvReset(e, c)
           \/ e = R /\ RecvCommit(c)
           \/ e = I /\ RecvCommitAck(c)
           \/ e = R /\ RecvConfirm(c)
           \/ e = R /\ RecvDiscard(c)
           \/ e = I /\ RecvDiscardAck(c)
    PROVE  TypeOK'
<1> USE DEF sendVars, finVars, recvVars, remoteVars, ackVars, slotVars, workerVars,
            lifeVars, opVars, linkVars, dataVars, controlVars, sideVars
<1>0. /\ net[c][e] # <<>> /\ net \in Wires
      /\ Pop(net, e, c) \in Wires
  BY PopType DEF Readable, TypeOK
<1>1. CASE RecvReset(e, c)
  <2>1. [reader EXCEPT ![e][c] = FALSE] \in [Endpoints -> [Carriers -> BOOLEAN]]
    BY UpdateType DEF TypeOK
  <2>2. CASE RemoteFinished(e)
    BY <1>0, <1>1, <2>1, <2>2 DEF RecvReset, TypeOK
  <2>3. CASE ~RemoteFinished(e)
    <3>1. FailTerminal(e, "reset", Pop(net, e, c))
      BY <1>1, <2>3 DEF RecvReset
    <3>2. "reset" \in TerminalErrors
      BY DEF TerminalErrors
    <3> QED
      BY <1>0, <1>1, <2>1, <3>1, <3>2, FailTerminalType DEF RecvReset, TypeOK
  <2> QED
    BY <2>2, <2>3
<1>2. CASE e = R /\ RecvCommit(c)
  <2>1. writer' \in [Endpoints -> [Carriers -> {"none", "commitAck", "confirm", "run"}]]
    BY <1>2, UpdateType DEF RecvCommit, TypeOK
  <2>2. Activate(R, c)
    BY <1>2 DEF RecvCommit
  <2> QED
    BY <1>0, <1>2, <2>1, <2>2, ActivateType DEF RecvCommit, TypeOK
<1>3. CASE e = I /\ RecvCommitAck(c)
  <2>1. writer' \in [Endpoints -> [Carriers -> {"none", "commitAck", "confirm", "run"}]]
    BY <1>3, UpdateType DEF RecvCommitAck, TypeOK
  <2>2. Activate(I, c)
    BY <1>3 DEF RecvCommitAck
  <2>3. opCarrier' \in [Endpoints -> Slots]
    BY <1>3 DEF RecvCommitAck, Release, TypeOK, Slots
  <2> QED
    BY <1>0, <1>3, <2>1, <2>2, <2>3, ActivateType DEF RecvCommitAck, Release, TypeOK
<1>4. CASE e = R /\ RecvConfirm(c)
  <2>1. PICK old : /\ link' = CloseLinks(old)
                   /\ net' = CloseNet(Pop(net, R, c), R, old)
    BY <1>4 DEF RecvConfirm
  <2>2. net' \in Wires /\ link' \in [Carriers -> {"unused", "up", "down"}]
    BY <1>0, <1>4, <2>1, CloseNetType DEF CloseLinks, TypeOK
  <2>3. retained' \in [Endpoints -> Slots]
    BY <1>4 DEF RecvConfirm, TypeOK, Slots
  <2> QED
    BY <1>4, <2>2, <2>3 DEF RecvConfirm, TypeOK
<1>5. CASE e = R /\ RecvDiscard(c)
  <2>1. Header("DISCARD_ACK", epoch[c], <<>>) \in Frame
    BY DEF Header, Frame, FrameKinds, TypeOK
  <2>2. CloseNet(Push(net, R, c, Header("DISCARD_ACK", epoch[c], <<>>)), R, {c}) \in Wires
    BY <1>0, <2>1, PushType, CloseNetType, BothEndpoints
  <2>3. reader' \in [Endpoints -> [Carriers -> BOOLEAN]]
    BY <1>5, UpdateType DEF RecvDiscard, TypeOK
  <2>4. link' \in [Carriers -> {"unused", "up", "down"}]
    BY <1>5 DEF RecvDiscard, CloseLinks, TypeOK
  <2> QED
    BY <1>5, <2>2, <2>3, <2>4 DEF RecvDiscard, TypeOK, Slots
<1>6. CASE e = I /\ RecvDiscardAck(c)
  <2>1. CloseNet(net, I, {c}) \in Wires
    BY <1>0, CloseNetType, BothEndpoints
  <2>2. link' \in [Carriers -> {"unused", "up", "down"}]
    BY <1>6 DEF RecvDiscardAck, CloseLinks, TypeOK
  <2>3. opCarrier' \in [Endpoints -> Slots] /\ prepared' \in [Endpoints -> Slots]
    BY <1>6 DEF RecvDiscardAck, Release, TypeOK, Slots
  <2> QED
    BY <1>6, <2>1, <2>2, <2>3 DEF RecvDiscardAck, Release, TypeOK
<1> QED
  BY <1>1, <1>2, <1>3, <1>4, <1>5, <1>6

\* The stage failFrameProtocol reports is a terminal error.
LEMMA ViolationType ==
    ASSUME NEW e, NEW c, NEW f
    PROVE  Violation(e, c, f) \in TerminalErrors
BY DEF Violation, TerminalErrors, ProtocolFailures

\* readCarrier keeps TypeOK, whatever frame it reads.
LEMMA TypeFrames ==
    ASSUME TypeOK, DataInv, NEW e \in Endpoints, NEW c \in Carriers, RecvFrame(e, c)
    PROVE  TypeOK'
<1> USE DEF sendVars, finVars, recvVars, remoteVars, ackVars, slotVars, workerVars,
            lifeVars, opVars, linkVars, dataVars, controlVars, sideVars
<1> DEFINE stage == Violation(e, c, Head(net[c][e]))
<1>1. CASE stage = "none"
  <2>1. Readable(e, c) /\ LegalFrame(e, c)
    BY <1>1 DEF RecvFrame
  <2> QED
    BY <1>1, <2>1, TypeDataFrames, TypeControlFrames DEF LegalFrame
<1>2. CASE stage # "none"
  <2>1. /\ FailTerminal(e, stage, Pop(net, e, c))
        /\ reader' = [reader EXCEPT ![e][c] = FALSE]
        /\ UNCHANGED <<writer, dataVars, sideVars>>
    BY <1>2 DEF RecvFrame
  <2>2. stage \in TerminalErrors
    BY ViolationType
  <2>3. Pop(net, e, c) \in Wires
    BY PopType DEF RecvFrame, Readable, TypeOK
  <2>4. reader' \in [Endpoints -> [Carriers -> BOOLEAN]]
    BY <2>1, UpdateType DEF TypeOK
  <2> HIDE DEF stage
  <2> QED
    BY <2>1, <2>2, <2>3, <2>4, FailTerminalType DEF TypeOK
<1> QED
  BY <1>1, <1>2

\* failCarrier and expireDetached.
LEMMA TypeFailures ==
    ASSUME TypeOK, DataInv, NEW e \in Endpoints,
           (\E c \in Carriers : FailCarrier(e, c)) \/ ExpireDetached(e) \/ FailExpired(e)
    PROVE  TypeOK'
<1> USE DEF sendVars, finVars, recvVars, remoteVars, ackVars, slotVars, workerVars,
            lifeVars, opVars, linkVars, dataVars, controlVars, sideVars
<1>1. ASSUME NEW c \in Carriers, FailCarrier(e, c)
      PROVE  TypeOK'
  <2>1. net' \in Wires
    BY <1>1, CloseNetType DEF FailCarrier, TypeOK
  <2>2. /\ active' \in [Endpoints -> Slots] /\ prepared' \in [Endpoints -> Slots]
        /\ retained' \in [Endpoints -> Slots]
    BY <1>1 DEF FailCarrier, TypeOK, Slots, Successor
  <2>3. state' \in [Endpoints -> [Carriers -> CarrierStates]]
    BY <1>1, UpdateType DEF FailCarrier, TypeOK, CarrierStates
  <2>4. reader' \in [Endpoints -> [Carriers -> BOOLEAN]]
    BY <1>1, UpdateType DEF FailCarrier, TypeOK
  <2>5. detached' \in [Endpoints -> BOOLEAN]
    <3>1. detached \in [Endpoints -> BOOLEAN]
      BY DEF TypeOK
    <3>2. detached' = [detached EXCEPT ![e] = detached[e] \/ active[e] = c]
      BY <1>1 DEF FailCarrier
    <3>3. (detached[e] \/ active[e] = c) \in BOOLEAN
      OBVIOUS
    <3> QED BY <3>1, <3>2, <3>3, FieldType
  <2>6. timer' \in [Endpoints -> {"none", "armed", "fired"}]
    <3>1. timer \in [Endpoints -> {"none", "armed", "fired"}]
      BY DEF TypeOK
    <3>2. timer' \in {timer, [timer EXCEPT ![e] = Armed(e, c)]}
      BY <1>1 DEF FailCarrier
    <3>3. Armed(e, c) \in {"none", "armed", "fired"}
      BY <3>1 DEF Armed
    <3> QED BY <3>1, <3>2, <3>3, FieldType
  <2>7. events' \in Nat
    BY <1>1, EmittedType DEF FailCarrier
  <2>8. /\ op' \in [Endpoints -> {"idle", "prepare", "start", "promote", "drop",
                                  "accept", "ready", "emit"}]
        /\ opCarrier' \in [Endpoints -> Slots]
    <3>1. \/ op' = [op EXCEPT ![e] = "emit"] /\ opCarrier' = [opCarrier EXCEPT ![e] = c]
          \/ op' = [op EXCEPT ![I] = "idle"] /\ opCarrier' = [opCarrier EXCEPT ![I] = None]
          \/ op' = op /\ opCarrier' = opCarrier
      BY <1>1 DEF FailCarrier, Release
    <3>2. /\ op \in [Endpoints -> {"idle", "prepare", "start", "promote", "drop",
                                  "accept", "ready", "emit"}]
          /\ opCarrier \in [Endpoints -> Slots]
      BY DEF TypeOK
    <3>3. c \in Slots /\ None \in Slots
      BY DEF Slots
    <3> QED BY <3>1, <3>2, <3>3, FieldType, BothEndpoints
  <2> QED
    BY <1>1, <2>1, <2>2, <2>3, <2>4, <2>5, <2>6, <2>7, <2>8 DEF FailCarrier, TypeOK
<1>2. CASE ExpireDetached(e)
  BY <1>2 DEF ExpireDetached, TypeOK
<1>3. CASE FailExpired(e)
  <2>1. "expired" \in TerminalErrors
    BY DEF TerminalErrors
  <2> QED
    BY <1>3, <2>1, FailTerminalType DEF FailExpired, TypeOK
<1> QED
  BY <1>1, <1>2, <1>3

\* Every step keeps every variable of its type.
LEMMA TypeStep == TypeOK /\ DataInv /\ [Next]_vars => TypeOK'
<1> SUFFICES ASSUME TypeOK, DataInv, [Next]_vars PROVE TypeOK'
  OBVIOUS
<1>1. CASE UNCHANGED vars
  BY <1>1 DEF TypeOK, vars, sendVars, finVars, recvVars, remoteVars, ackVars,
              slotVars, workerVars, lifeVars, opVars, linkVars, dataVars, controlVars, sideVars
<1>2. CASE Next
  BY <1>2, TypeApplication, TypeHandshake, TypeCoordinator, TypeWriters, TypeFrames,
     TypeFailures, BothEndpoints DEF Next
<1> QED
  BY <1>1, <1>2

(***************************************************************************)
(* The frames in flight stay truthful.                                     *)
(***************************************************************************)
\* Every frame of n was in flight before or is truthful.
Carried(n) ==
    \A d \in Carriers, x \in Endpoints : \A g \in InFlight(n, d, x) :
        g \in InFlight(net, d, x) \/ Truthful(x, g)

\* Whatever is in flight is carried by the network itself.
LEMMA CarriedNet == Carried(net)
BY DEF Carried

\* A write of a truthful frame carries only truthful frames.
LEMMA CarriedPush ==
    ASSUME NEW n \in Wires, Carried(n), NEW e \in Endpoints, NEW c \in Carriers,
           NEW f \in Frame, Truthful(Peer(e), f)
    PROVE  Carried(Push(n, e, c, f))
BY PushInFlight DEF Carried

\* A read carries only frames that were in flight.
LEMMA CarriedPop ==
    ASSUME NEW n \in Wires, Carried(n), NEW e \in Endpoints, NEW c \in Carriers,
           n[c][e] # <<>>
    PROVE  Carried(Pop(n, e, c))
BY PopInFlight DEF Carried

\* Closing links carries only frames that were in flight.
LEMMA CarriedClose ==
    ASSUME NEW n \in Wires, Carried(n), NEW e \in Endpoints, NEW S
    PROVE  Carried(CloseNet(n, e, S))
BY CloseNetInFlight DEF Carried

\* RESET is truthful: it says nothing about offsets.
LEMMA CarriedReset ==
    ASSUME NEW n \in Wires, Carried(n), NEW e \in Endpoints, NEW S
    PROVE  Carried(ResetNet(n, e, S))
<1>1. \A x \in Endpoints : Truthful(x, Header("RESET", 0, <<>>))
  BY DEF Truthful, Header
<1> QED
  BY <1>1, ResetNetInFlight DEF Carried

\* What a frame may say stays true: offsets grow, and a half-close fixes the
\* length of its direction.
Monotone ==
    \A e \in Endpoints :
        /\ sendNext[e] <= sendNext'[e] /\ recvBase[e] <= recvBase'[e]
        /\ localFIN[e] => localFIN'[e] /\ sendNext'[e] = sendNext[e]
        /\ remoteFIN[e] => remoteFIN'[e] /\ remoteFINAt'[e] = remoteFINAt[e]

\* A truthful frame stays truthful while its sender moves forward.
LEMMA TruthfulKept ==
    ASSUME TypeOK, TypeOK', Monotone, NEW x \in Endpoints, NEW g \in Frame, Truthful(x, g)
    PROVE  Truthful(x, g)'
<1> DEFINE p == Peer(x)
<1>1. p \in Endpoints
  BY PeerIsOther
<1>2. /\ sendNext[p] \in Nat /\ sendNext'[p] \in Nat
      /\ recvBase[p] \in Nat /\ recvBase'[p] \in Nat
  BY <1>1 DEF TypeOK
<1>3. g.seq \in Nat /\ g.ack \in Nat /\ Len(g.data) \in Nat
  BY DEF Frame
<1> HIDE DEF p
<1>4. /\ sendNext[p] <= sendNext'[p] /\ recvBase[p] <= recvBase'[p]
      /\ localFIN[p] => localFIN'[p] /\ sendNext'[p] = sendNext[p]
      /\ remoteFIN[p] => remoteFIN'[p] /\ remoteFINAt'[p] = remoteFINAt[p]
  BY <1>1 DEF Monotone
<1> USE DEF p
<1> QED
  BY <1>2, <1>3, <1>4 DEF Truthful

\* FramesTruthful survives a step that writes only truthful frames and in
\* which the offsets only grow.
LEMMA FramesStep ==
    ASSUME TypeOK, TypeOK', FramesTruthful, Monotone, Carried(net')
    PROVE  FramesTruthful'
<1> SUFFICES ASSUME NEW d \in Carriers, NEW x \in Endpoints, NEW g \in InFlight(net', d, x)
             PROVE  Truthful(x, g)'
  BY DEF FramesTruthful
<1>1. Truthful(x, g)
  BY DEF Carried, FramesTruthful
<1>2. net' \in Wires
  BY DEF TypeOK
<1>3. g \in Frame
  BY <1>2 DEF Wires, InFlight
<1> QED
  BY <1>1, <1>3, TruthfulKept

(***************************************************************************)
(* The steps that move no data.                                            *)
(***************************************************************************)
byteVars == <<sendBase, sendNext, send, localFIN, finAcked, recvBase, recvNext, recv,
              delivered, remoteFIN, remoteFINAt>>

\* A step that leaves the byte offsets and half-closes alone and writes only
\* truthful frames keeps DataInv.
LEMMA NeutralStep ==
    ASSUME TypeOK, TypeOK', DataInv, UNCHANGED byteVars, Carried(net'),
           \A e \in Endpoints : writeOffset'[e] <= sendNext[e]
    PROVE  DataInv'
<1>1. SendShape'
  BY DEF DataInv, SendShape, byteVars
<1>2. RecvShape'
  BY DEF DataInv, RecvShape, byteVars
<1>3. Monotone
  <2>1. \A e \in Endpoints : sendNext[e] \in Nat /\ recvBase[e] \in Nat
    BY DEF TypeOK
  <2> QED
    BY <2>1 DEF Monotone, byteVars
<1>4. FramesTruthful'
  BY <1>3, FramesStep DEF DataInv
<1>5. AckedWasConsumed' /\ EofIsTheEnd'
  BY DEF DataInv, AckedWasConsumed, EofIsTheEnd, byteVars
<1> QED
  BY <1>1, <1>2, <1>4, <1>5 DEF DataInv

\* The same for a step that leaves the network alone as well.
LEMMA NeutralSame ==
    ASSUME TypeOK, TypeOK', DataInv, UNCHANGED <<byteVars, writeOffset>>, Carried(net')
    PROVE  DataInv'
BY NeutralStep DEF DataInv, SendShape

\* A control frame says nothing about offsets.
LEMMA ControlTruthful ==
    ASSUME NEW x \in Endpoints, NEW seq \in Nat,
           NEW kind \in {"RESET", "COMMIT", "COMMIT_ACK", "CONFIRM", "DISCARD", "DISCARD_ACK"}
    PROVE  Header(kind, seq, <<>>) \in Frame /\ Truthful(x, Header(kind, seq, <<>>))
BY DEF Header, Truthful, Frame, FrameKinds

\* failTerminal writes nothing.
LEMMA FailTerminalNet ==
    ASSUME NEW e \in Endpoints, NEW reason, NEW n \in Wires, Carried(n),
           FailTerminal(e, reason, n)
    PROVE  Carried(net')
BY CarriedClose DEF FailTerminal

\* ReadEOF, Close, Abort and watchContext keep DataInv.
LEMMA NeutralApplication ==
    ASSUME TypeOK, TypeOK', DataInv, NEW e \in Endpoints,
           ReadEOF(e) \/ Close(e) \/ Abort(e) \/ ContextDone(e)
    PROVE  DataInv'
<1> USE DEF sendVars, finVars, recvVars, remoteVars, linkVars, dataVars,
            controlVars, sideVars, byteVars
<1>0. net \in Wires /\ Carried(net) /\ ResetNet(net, e, Attached(e)) \in Wires
      /\ Carried(ResetNet(net, e, Attached(e)))
  BY CarriedNet, CarriedReset, ResetNetType DEF TypeOK
<1>1. CASE ReadEOF(e)
  BY <1>0, <1>1, NeutralSame DEF ReadEOF
<1>2. CASE Close(e)
  <2>1. Carried(net')
    BY <1>0, <1>2, CarriedClose DEF Close
  <2> QED
    BY <1>2, <2>1, NeutralSame DEF Close
<1>3. CASE Abort(e)
  BY <1>0, <1>3, FailTerminalNet, NeutralSame DEF Abort
<1>4. CASE ContextDone(e)
  BY <1>0, <1>4, FailTerminalNet, NeutralSame DEF ContextDone
<1> QED
  BY <1>1, <1>2, <1>3, <1>4

\* Opening and breaking links, PromoteCarrier and DropPrepared keep DataInv.
LEMMA NeutralCoordinator ==
    ASSUME TypeOK, TypeOK', DataInv, NEW c \in Carriers,
           \/ OpenLink(c) \/ LinkFail(c) \/ PromoteCarrier(c) \/ DropPrepared(c)
           \/ StartReader
    PROVE  DataInv'
<1> USE DEF sendVars, finVars, recvVars, remoteVars, linkVars, dataVars,
            controlVars, sideVars, byteVars
<1>0. net \in Wires /\ Carried(net) /\ epoch[c] \in Nat
  BY CarriedNet DEF TypeOK
<1>1. CASE OpenLink(c)
  BY <1>0, <1>1, NeutralSame DEF OpenLink
<1>2. CASE LinkFail(c)
  BY <1>0, <1>2, NeutralSame DEF LinkFail
<1>3. CASE PromoteCarrier(c)
  <2>1. Carried(net')
    BY <1>0, <1>3, ControlTruthful, CarriedPush, BothEndpoints DEF PromoteCarrier
  <2> QED
    BY <1>3, <2>1, NeutralSame DEF PromoteCarrier
<1>4. CASE DropPrepared(c)
  <2>1. Carried(net')
    BY <1>0, <1>4, ControlTruthful, CarriedPush, BothEndpoints DEF DropPrepared
  <2> QED
    BY <1>4, <2>1, NeutralSame DEF DropPrepared
<1>5. CASE StartReader
  BY <1>0, <1>5, NeutralSame DEF StartReader
<1> QED
  BY <1>1, <1>2, <1>3, <1>4, <1>5

\* The handshake steps that acknowledge nothing to the sender.
LEMMA NeutralHandshake ==
    ASSUME TypeOK, TypeOK', DataInv, NEW c \in Carriers,
           \/ PrepareCarrier(c) \/ PrepareRefused(c) \/ PrepareFailed(c)
           \/ AcceptCarrier(c) \/ AcceptRefused(c) \/ AcceptReady(c)
           \/ AcceptReadyFailed(c) \/ ConfirmCarrier(c) \/ SendCommitAck(c)
    PROVE  DataInv'
<1> USE DEF sendVars, finVars, recvVars, remoteVars, linkVars, dataVars,
            controlVars, sideVars, byteVars
<1>0. /\ net \in Wires /\ Carried(net) /\ epoch[c] \in Nat
      /\ \A e \in Endpoints, S \in SUBSET Carriers : Carried(CloseNet(net, e, S))
  BY CarriedNet, CarriedClose DEF TypeOK
<1>1. CASE PrepareCarrier(c)
  <2> DEFINE hello == Hello("PREPARE", nextEpoch[I] + 1, committedEpoch[I], recvBase[I])
  <2>1. /\ nextEpoch[I] + 1 \in Nat /\ committedEpoch[I] \in Nat
        /\ recvBase[I] \in Nat
    <3>1. /\ nextEpoch \in [Endpoints -> Nat] /\ committedEpoch \in [Endpoints -> Nat]
          /\ recvBase \in [Endpoints -> Nat]
      BY DEF TypeOK
    <3> QED BY <3>1, BothEndpoints
  <2>2. hello \in Frame
    BY <2>1, HelloType DEF FrameKinds
  <2>3. Truthful(R, hello)
    BY <2>1, BothEndpoints DEF Truthful, Hello
  <2>4. net' = Push(net, I, c, hello)
    BY <1>1 DEF PrepareCarrier, Acknowledged
  <2> HIDE DEF hello
  <2>5. Carried(net')
    BY <1>0, <2>2, <2>3, <2>4, CarriedPush, BothEndpoints
  <2> QED
    BY <1>1, <2>5, NeutralSame DEF PrepareCarrier
<1>2. CASE PrepareRefused(c)
  BY <1>0, <1>2, NeutralSame, BothEndpoints DEF PrepareRefused
<1>3. CASE PrepareFailed(c)
  BY <1>0, <1>3, NeutralSame, BothEndpoints DEF PrepareFailed
<1>4. CASE AcceptCarrier(c)
  BY <1>0, <1>4, NeutralSame DEF AcceptCarrier
<1>5. CASE AcceptRefused(c)
  BY <1>0, <1>5, NeutralSame, BothEndpoints DEF AcceptRefused
<1>6. CASE AcceptReady(c)
  BY <1>0, <1>6, NeutralSame, BothEndpoints DEF AcceptReady
<1>7. CASE AcceptReadyFailed(c)
  <2>1. Carried(net')
    BY <1>0, <1>7 DEF AcceptReadyFailed, Carried, InFlight, Wires
  <2> QED
    BY <1>7, <2>1, NeutralSame DEF AcceptReadyFailed
<1>8. CASE ConfirmCarrier(c)
  <2> DEFINE frame == Header("CONFIRM", epoch[c], <<>>)
  <2>1. PICK old : net' = CloseNet(Push(net, I, c, frame), I, old)
    BY <1>8 DEF ConfirmCarrier
  <2>2. frame \in Frame /\ Truthful(R, frame)
    BY <1>0, ControlTruthful, BothEndpoints
  <2> HIDE DEF frame
  <2>3. Push(net, I, c, frame) \in Wires /\ Carried(Push(net, I, c, frame))
    BY <1>0, <2>2, PushType, CarriedPush, BothEndpoints
  <2>4. Carried(net')
    BY <2>1, <2>3, CarriedClose, BothEndpoints
  <2> QED
    BY <1>8, <2>4, NeutralSame DEF ConfirmCarrier
<1>9. CASE SendCommitAck(c)
  <2>1. Carried(net')
    BY <1>0, <1>9, ControlTruthful, CarriedPush, BothEndpoints DEF SendCommitAck
  <2> QED
    BY <1>9, <2>1, NeutralSame DEF SendCommitAck
<1> QED
  BY <1>1, <1>2, <1>3, <1>4, <1>5, <1>6, <1>7, <1>8, <1>9

\* StartReader and the writers of DATA, FIN and ACK keep DataInv: what
\* writeActive and writeAcknowledgements put on the wire is truthful.
LEMMA NeutralWriters ==
    ASSUME TypeOK, TypeOK', DataInv, NEW e \in Endpoints,
           SendData(e) \/ SendFin(e) \/ SendAck(e)
    PROVE  DataInv'
<1> USE DEF sendVars, finVars, recvVars, remoteVars, linkVars, dataVars,
            controlVars, sideVars, byteVars
<1>0. /\ net \in Wires /\ Carried(net) /\ Peer(e) \in Endpoints /\ Peer(Peer(e)) = e
      /\ sendBase[e] \in Nat /\ sendNext[e] \in Nat /\ writeOffset[e] \in Nat
      /\ send[e] \in Seq(Nat) /\ Len(send[e]) \in Nat
  <2>1. /\ net \in Wires /\ sendBase[e] \in Nat /\ sendNext[e] \in Nat
        /\ writeOffset[e] \in Nat /\ send[e] \in Seq(Nat)
    BY DEF TypeOK
  <2> QED
    BY <2>1, CarriedNet, PeerIsOther
<1>1. CASE SendData(e)
  <2> DEFINE start == Offset(e) - sendBase[e]
             n == IF Len(send[e]) - start < MaximumFrame
                  THEN Len(send[e]) - start ELSE MaximumFrame
             data == SubSeq(send[e], start + 1, start + n)
             frame == Header("DATA", Offset(e), data)
  <2>1. net' = Push(net, e, active[e], frame)
    BY <1>1 DEF SendData
  <2>2. writeOffset' = [writeOffset EXCEPT ![e] = Offset(e) + n]
    BY <1>1 DEF SendData
  <2>3. sendBase[e] + Len(send[e]) = sendNext[e] /\ Offset(e) < sendNext[e]
    BY <1>1 DEF SendData, DataDue, DataInv, SendShape
  <2>4. /\ Offset(e) \in Nat /\ start \in Nat /\ start < Len(send[e])
        /\ n \in Nat /\ start + n <= Len(send[e])
    <3>1. Offset(e) \in Nat /\ sendBase[e] <= Offset(e)
      BY <1>0 DEF Offset
    <3>2. MaximumFrame \in Nat
      BY WindowAssumption
    <3>3. Len(send[e]) \in Nat /\ sendBase[e] \in Nat /\ sendNext[e] \in Nat
      BY <1>0
    <3>4. start \in Nat /\ start < Len(send[e])
      BY <2>3, <3>1, <3>3
    <3> HIDE DEF start
    <3>5. n \in Nat /\ start + n <= Len(send[e])
      BY <3>2, <3>3, <3>4
    <3> QED BY <3>1, <3>4, <3>5
  <2>5. Offset(e) = sendBase[e] + start /\ Offset(e) + n <= sendNext[e]
    <3> DEFINE offset == Offset(e)
    <3>1. offset = sendBase[e] + start
      BY <1>0, <2>4
    <3> HIDE DEF start, n, offset
    <3> QED BY <1>0, <2>3, <2>4, <3>1 DEF offset
  <2>6. active[e] \in Carriers
    BY <1>1 DEF SendData, DataDue, Writing, TypeOK, Slots
  <2> HIDE DEF start, n
  <2>7. data \in Seq(Nat) /\ Len(data) = n /\ Consecutive(data, Offset(e))
    <3>1. Consecutive(send[e], sendBase[e]) /\ start \in 0..Len(send[e])
          /\ start + n \in start..Len(send[e]) /\ (start + n) - start = n
      BY <1>0, <2>4 DEF DataInv, SendShape
    <3> QED
      BY <1>0, <2>5, <3>1, ConsecutiveSubSeq
  <2> HIDE DEF data
  <2>8. frame \in Frame
    BY <2>4, <2>7, HeaderType DEF FrameKinds
  <2>10. Truthful(Peer(e), frame)
    BY <1>0, <2>5, <2>7 DEF Truthful, Header
  <2> HIDE DEF frame
  <2>11. Carried(net')
    BY <1>0, <2>1, <2>6, <2>8, <2>10, CarriedPush
  <2>12. \A x \in Endpoints : writeOffset'[x] <= sendNext[x]
    <3>1. writeOffset \in [Endpoints -> Nat]
      BY DEF TypeOK
    <3>2. \A x \in Endpoints : writeOffset[x] <= sendNext[x]
      BY DEF DataInv, SendShape
    <3> QED BY <2>2, <2>5, <3>1, <3>2
  <2> QED
    BY <1>1, <2>11, <2>12, NeutralStep DEF SendData
<1>2. CASE SendFin(e)
  <2> DEFINE frame == Header("FIN", sendNext[e], <<>>)
  <2>1. active[e] \in Carriers /\ localFIN[e]
    BY <1>2 DEF SendFin, FinDue, Writing, TypeOK, Slots
  <2>2. frame \in Frame /\ Truthful(Peer(e), frame)
    BY <1>0, <2>1 DEF Truthful, Header, Frame, FrameKinds
  <2>3. net' = Push(net, e, active[e], frame)
    BY <1>2 DEF SendFin
  <2> HIDE DEF frame
  <2>4. Carried(net')
    BY <1>0, <2>1, <2>2, <2>3, CarriedPush
  <2> QED
    BY <1>2, <2>4, NeutralSame DEF SendFin
<1>3. CASE SendAck(e)
  <2> DEFINE frame == Header("ACK", recvBase[e], <<>>)
  <2>1. active[e] \in Carriers
    BY <1>3 DEF SendAck, AckDue, TypeOK, Slots
  <2>2. recvBase[e] \in Nat
    BY DEF TypeOK
  <2>3. frame \in Frame /\ Truthful(Peer(e), frame)
    BY <1>0, <2>2 DEF Truthful, Header, Frame, FrameKinds
  <2>4. net' = Push(net, e, active[e], frame)
    BY <1>3 DEF SendAck, Acknowledged
  <2> HIDE DEF frame
  <2>5. Carried(net')
    BY <1>0, <2>1, <2>3, <2>4, CarriedPush
  <2> QED
    BY <1>3, <2>5, NeutralSame DEF SendAck
<1> QED
  BY <1>1, <1>2, <1>3

\* Frames that carry no data, an illegal frame, failCarrier, expireDetached.
LEMMA NeutralFrames ==
    ASSUME TypeOK, TypeOK', DataInv, NEW e \in Endpoints, NEW c \in Carriers, Readable(e, c),
           \/ RecvLate(e, c) \/ RecvReset(e, c)
           \/ e = R /\ RecvCommit(c)
           \/ e = I /\ RecvCommitAck(c)
           \/ e = R /\ RecvConfirm(c)
           \/ e = R /\ RecvDiscard(c)
           \/ e = I /\ RecvDiscardAck(c)
    PROVE  DataInv'
<1> USE DEF sendVars, finVars, recvVars, remoteVars, linkVars, dataVars,
            controlVars, sideVars, byteVars
<1>0. /\ net \in Wires /\ Carried(net) /\ epoch[c] \in Nat
      /\ Pop(net, e, c) \in Wires /\ Carried(Pop(net, e, c))
  BY CarriedNet, CarriedPop, PopType DEF TypeOK, Readable
<1>1. CASE RecvLate(e, c)
  BY <1>0, <1>1, NeutralSame DEF RecvLate
<1>2. CASE RecvReset(e, c)
  <2>1. Carried(net')
    BY <1>0, <1>2, FailTerminalNet DEF RecvReset
  <2> QED
    BY <1>2, <2>1, NeutralSame DEF RecvReset
<1>3. ASSUME NEW x \in Endpoints, Activate(x, c)
      PROVE  \A y \in Endpoints : writeOffset'[y] <= sendNext[y]
  <2>1. writeOffset \in [Endpoints -> Nat] /\ sendNext \in [Endpoints -> Nat]
    BY DEF TypeOK
  <2> QED
    BY <1>3, <2>1 DEF Activate, ResumeOffset, DataInv, SendShape
<1>4. CASE e = R /\ RecvCommit(c)
  BY <1>0, <1>3, <1>4, NeutralStep DEF RecvCommit
<1>5. CASE e = I /\ RecvCommitAck(c)
  BY <1>0, <1>3, <1>5, NeutralStep DEF RecvCommitAck
<1>6. CASE e = R /\ RecvConfirm(c)
  <2>1. PICK old : net' = CloseNet(Pop(net, R, c), R, old)
    BY <1>6 DEF RecvConfirm
  <2>2. Carried(net')
    BY <1>0, <1>6, <2>1, CarriedClose
  <2> QED
    BY <1>6, <2>2, NeutralSame DEF RecvConfirm
<1>7. CASE e = R /\ RecvDiscard(c)
  <2> DEFINE frame == Header("DISCARD_ACK", epoch[c], <<>>)
  <2>1. net' = CloseNet(Push(net, R, c, frame), R, {c})
    BY <1>7 DEF RecvDiscard
  <2>2. frame \in Frame /\ Truthful(I, frame)
    BY <1>0, ControlTruthful, BothEndpoints
  <2> HIDE DEF frame
  <2>3. Push(net, R, c, frame) \in Wires /\ Carried(Push(net, R, c, frame))
    BY <1>0, <2>2, PushType, CarriedPush, BothEndpoints
  <2>4. Carried(net')
    BY <2>1, <2>3, CarriedClose, BothEndpoints
  <2> QED
    BY <1>7, <2>4, NeutralSame DEF RecvDiscard
<1>8. CASE e = I /\ RecvDiscardAck(c)
  <2>1. Carried(net')
    BY <1>0, <1>8, CarriedClose DEF RecvDiscardAck
  <2> QED
    BY <1>8, <2>1, NeutralSame DEF RecvDiscardAck
<1> QED
  BY <1>1, <1>2, <1>4, <1>5, <1>6, <1>7, <1>8

\* failCarrier and expireDetached keep DataInv.
LEMMA NeutralFailures ==
    ASSUME TypeOK, TypeOK', DataInv, NEW e \in Endpoints,
           \/ \E c \in Carriers : FailCarrier(e, c)
           \/ ExpireDetached(e) \/ FailExpired(e)
    PROVE  DataInv'
<1> USE DEF sendVars, finVars, recvVars, remoteVars, linkVars, dataVars,
            controlVars, sideVars, byteVars
<1>0. net \in Wires /\ Carried(net)
  BY CarriedNet DEF TypeOK
<1>1. ASSUME NEW c \in Carriers, FailCarrier(e, c) PROVE DataInv'
  <2>1. Carried(net')
    BY <1>0, <1>1, CarriedClose DEF FailCarrier
  <2> QED
    BY <1>1, <2>1, NeutralSame DEF FailCarrier
<1>2. CASE FailExpired(e)
  BY <1>0, <1>2, FailTerminalNet, NeutralSame DEF FailExpired
<1>3. CASE ExpireDetached(e)
  BY <1>0, <1>3, NeutralSame DEF ExpireDetached
<1> QED
  BY <1>1, <1>2, <1>3

(***************************************************************************)
(* The steps that move data.                                               *)
(***************************************************************************)
\* The types of the offsets and buffers, as the steps below use them.
LEMMA DataTypes ==
    ASSUME TypeOK, NEW e \in Endpoints
    PROVE  /\ sendBase[e] \in Nat /\ sendNext[e] \in Nat /\ writeOffset[e] \in Nat
           /\ send[e] \in Seq(Nat) /\ Len(send[e]) \in Nat
           /\ recvBase[e] \in Nat /\ recvNext[e] \in Nat /\ remoteFINAt[e] \in Nat
           /\ recv[e] \in Seq(Nat) /\ Len(recv[e]) \in Nat
           /\ delivered[e] \in Seq(Nat) /\ Len(delivered[e]) \in Nat
           /\ Peer(e) \in Endpoints
<1>1. /\ sendBase[e] \in Nat /\ sendNext[e] \in Nat /\ writeOffset[e] \in Nat
      /\ recvBase[e] \in Nat /\ recvNext[e] \in Nat /\ remoteFINAt[e] \in Nat
      /\ send[e] \in Seq(Nat) /\ recv[e] \in Seq(Nat) /\ delivered[e] \in Seq(Nat)
  BY DEF TypeOK
<1> QED
  BY <1>1, PeerIsOther

\* Write keeps DataInv: the byte it accepts continues the send buffer.
LEMMA WriteStep ==
    ASSUME TypeOK, TypeOK', DataInv, NEW e \in Endpoints, Write(e)
    PROVE  DataInv'
<1> USE DEF sendVars, finVars, recvVars, remoteVars, linkVars
<1>1. /\ send' = [send EXCEPT ![e] = Append(@, sendNext[e] + 1)]
      /\ sendNext' = [sendNext EXCEPT ![e] = @ + 1]
      /\ ~localFIN[e] /\ Len(send[e]) < Window /\ sendNext[e] < MaxBytes(e)
      /\ UNCHANGED <<sendBase, writeOffset, localFIN, finAcked, net>>
      /\ UNCHANGED <<recvBase, recvNext, recv, delivered, remoteFIN, remoteFINAt>>
  BY DEF Write, MayWrite
<1>2. send \in [Endpoints -> Seq(Nat)] /\ sendNext \in [Endpoints -> Nat]
  BY DEF TypeOK
<1>3. /\ send'[e] = Append(send[e], sendNext[e] + 1) /\ sendNext'[e] = sendNext[e] + 1
      /\ \A x \in Endpoints \ {e} : send'[x] = send[x] /\ sendNext'[x] = sendNext[x]
  BY <1>1, <1>2
<1>4. SendShape'
  <2> SUFFICES ASSUME NEW x \in Endpoints
               PROVE  SendShape!(x)'
    BY DEF SendShape
  <2>1. SendShape!(x)
    BY DEF DataInv, SendShape
  <2>2. CASE x = e
    <3>1. /\ sendBase[e] \in Nat /\ sendNext[e] \in Nat /\ writeOffset[e] \in Nat
          /\ send[e] \in Seq(Nat) /\ Len(send[e]) \in Nat
          /\ Window \in Nat /\ MaxBytes(e) \in Nat
      BY DataTypes, WindowAssumption, BoundsAssumption DEF MaxBytes
    <3>2. /\ sendBase[e] + Len(send[e]) = sendNext[e] /\ Consecutive(send[e], sendBase[e])
          /\ writeOffset[e] <= sendNext[e]
      BY <2>1, <2>2
    <3>3. Len(send'[e]) = Len(send[e]) + 1 /\ Consecutive(send'[e], sendBase[e])
      <4>1. send'[e] = Append(send[e], sendBase[e] + Len(send[e]) + 1)
        BY <1>3, <3>2
      <4>2. sendBase[e] + Len(send[e]) + 1 \in Nat
        BY <3>1
      <4>3. Len(send'[e]) = Len(send[e]) + 1
        BY <3>1, <4>1, <4>2, AppendFacts
      <4>4. Consecutive(send'[e], sendBase[e])
        BY <3>1, <3>2, <4>1, ConsecutiveAppend
      <4> QED
        BY <4>3, <4>4
    <3>4. sendBase'[e] = sendBase[e] /\ writeOffset'[e] = writeOffset[e]
      BY <1>1
    <3>5. /\ sendBase'[e] + Len(send'[e]) = sendNext'[e] /\ Len(send'[e]) <= Window
          /\ sendNext'[e] <= MaxBytes(e) /\ writeOffset'[e] <= sendNext'[e]
      <4>1. /\ Len(send[e]) < Window /\ sendNext[e] < MaxBytes(e)
            /\ sendNext'[e] = sendNext[e] + 1
        BY <1>1, <1>3
      <4>2. /\ Len(send[e]) + 1 <= Window /\ sendNext[e] + 1 <= MaxBytes(e)
            /\ sendBase[e] + (Len(send[e]) + 1) = sendNext[e] + 1
            /\ writeOffset[e] <= sendNext[e] + 1
        BY <3>1, <3>2, <4>1, GrowArithmetic
      <4> QED
        BY <3>3, <3>4, <4>1, <4>2
    <3> QED
      BY <2>2, <3>3, <3>4, <3>5
  <2>3. CASE x # e
    BY <1>1, <1>3, <2>1, <2>3
  <2> QED
    BY <2>2, <2>3
<1>5. Monotone
  BY <1>1, <1>3, DataTypes DEF Monotone
<1>6. FramesTruthful'
  BY <1>1, <1>5, CarriedNet, FramesStep DEF DataInv
<1>7. RecvShape'
  <2>1. \A x \in Endpoints : sendNext[x] <= sendNext'[x] /\ sendNext'[x] \in Nat
    BY <1>5 DEF Monotone, TypeOK
  <2> SUFFICES ASSUME NEW x \in Endpoints
               PROVE  RecvShape!(x)'
    BY DEF RecvShape
  <2>2. RecvShape!(x)
    BY DEF DataInv, RecvShape
  <2>3. Peer(x) \in Endpoints
    BY PeerIsOther
  <2>4. recvNext[x] <= sendNext'[Peer(x)]
    BY <2>1, <2>2, <2>3, DataTypes
  <2> QED
    BY <1>1, <2>2, <2>4
<1>8. AckedWasConsumed'
  BY <1>1 DEF DataInv, AckedWasConsumed
<1>9. EofIsTheEnd'
  BY <1>1, <1>3, PeerIsOther DEF DataInv, EofIsTheEnd
<1> QED
  BY <1>4, <1>6, <1>7, <1>8, <1>9 DEF DataInv

\* CloseWrite keeps DataInv.
LEMMA CloseWriteStep ==
    ASSUME TypeOK, TypeOK', DataInv, NEW e \in Endpoints, CloseWrite(e)
    PROVE  DataInv'
<1> USE DEF sendVars, finVars, recvVars, remoteVars, linkVars
<1>1. /\ localFIN' = [localFIN EXCEPT ![e] = TRUE]
      /\ UNCHANGED <<sendBase, sendNext, send, writeOffset, finAcked, net>>
      /\ UNCHANGED <<recvBase, recvNext, recv, delivered, remoteFIN, remoteFINAt>>
  BY DEF CloseWrite
<1>2. \A x \in Endpoints : localFIN[x] => localFIN'[x]
  BY <1>1 DEF TypeOK
<1>3. Monotone
  BY <1>1, <1>2, DataTypes DEF Monotone
<1>4. FramesTruthful'
  BY <1>1, <1>3, CarriedNet, FramesStep DEF DataInv
<1>5. SendShape' /\ RecvShape' /\ AckedWasConsumed'
  BY <1>1 DEF DataInv, SendShape, RecvShape, AckedWasConsumed
<1>6. EofIsTheEnd'
  BY <1>1, <1>2, PeerIsOther DEF DataInv, EofIsTheEnd
<1> QED
  BY <1>4, <1>5, <1>6 DEF DataInv

\* Read keeps DataInv: what it returns continues what it returned before.
LEMMA ReadStep ==
    ASSUME TypeOK, TypeOK', DataInv, NEW e \in Endpoints, NEW n \in 1..Window, Read(e, n)
    PROVE  DataInv'
<1> USE DEF sendVars, finVars, recvVars, remoteVars, linkVars
<1>1. /\ n \in 1..Len(recv[e])
      /\ delivered' = [delivered EXCEPT ![e] = @ \o SubSeq(recv[e], 1, n)]
      /\ recv' = [recv EXCEPT ![e] = SubSeq(@, n + 1, Len(@))]
      /\ recvBase' = [recvBase EXCEPT ![e] = @ + n]
      /\ UNCHANGED <<sendBase, sendNext, send, writeOffset, localFIN, finAcked, net>>
      /\ UNCHANGED <<recvNext, remoteFIN, remoteFINAt>>
  BY DEF Read
<1>2. /\ recv \in [Endpoints -> Seq(Nat)] /\ delivered \in [Endpoints -> Seq(Nat)]
      /\ recvBase \in [Endpoints -> Nat]
  BY DEF TypeOK
<1>3. /\ delivered'[e] = delivered[e] \o SubSeq(recv[e], 1, n)
      /\ recv'[e] = SubSeq(recv[e], n + 1, Len(recv[e]))
      /\ recvBase'[e] = recvBase[e] + n
      /\ \A x \in Endpoints \ {e} : /\ delivered'[x] = delivered[x]
                                   /\ recv'[x] = recv[x] /\ recvBase'[x] = recvBase[x]
  BY <1>1, <1>2
<1>4. RecvShape'
  <2> SUFFICES ASSUME NEW x \in Endpoints
               PROVE  RecvShape!(x)'
    BY DEF RecvShape
  <2>1. RecvShape!(x)
    BY DEF DataInv, RecvShape
  <2>2. CASE x = e
    <3> DEFINE read == SubSeq(recv[e], 1, n)
               rest == SubSeq(recv[e], n + 1, Len(recv[e]))
    <3>1. /\ recvBase[e] \in Nat /\ recvNext[e] \in Nat /\ recv[e] \in Seq(Nat)
          /\ Len(recv[e]) \in Nat /\ delivered[e] \in Seq(Nat) /\ Len(delivered[e]) \in Nat
      BY DataTypes
    <3>2. /\ Consecutive(recv[e], recvBase[e]) /\ Consecutive(delivered[e], 0)
          /\ Len(delivered[e]) = recvBase[e] /\ recvBase[e] + Len(recv[e]) = recvNext[e]
      BY <2>1, <2>2
    <3>3. read \in Seq(Nat) /\ Len(read) = n /\ Consecutive(read, recvBase[e])
      <4>1. n \in 0..Len(recv[e]) /\ 0 \in 0..Len(recv[e])
        BY <1>1, <3>1
      <4>2. /\ SubSeq(recv[e], 0 + 1, n) \in Seq(Nat)
            /\ Len(SubSeq(recv[e], 0 + 1, n)) = n - 0
            /\ Consecutive(SubSeq(recv[e], 0 + 1, n), recvBase[e] + 0)
        BY <3>1, <3>2, <4>1, ConsecutiveSubSeq
      <4>3. 0 + 1 = 1 /\ n - 0 = n /\ recvBase[e] + 0 = recvBase[e]
        BY <3>1, <4>1
      <4> QED
        BY <4>2, <4>3
    <3>4. /\ rest \in Seq(Nat) /\ Len(rest) = Len(recv[e]) - n
          /\ Consecutive(rest, recvBase[e] + n)
      <4>1. n \in 0..Len(recv[e]) /\ Len(recv[e]) \in n..Len(recv[e])
        BY <1>1, <3>1
      <4> QED
        BY <3>1, <3>2, <4>1, ConsecutiveSubSeq
    <3>5. /\ delivered'[e] = delivered[e] \o read /\ recv'[e] = rest
          /\ recvBase'[e] = recvBase[e] + n
      BY <1>3
    <3> HIDE DEF read, rest
    <3>6. Len(delivered'[e]) = Len(delivered[e]) + n /\ Consecutive(delivered'[e], 0)
      <4>1. Consecutive(read, 0 + Len(delivered[e])) /\ 0 \in Nat
        BY <3>1, <3>2, <3>3
      <4> QED
        BY <3>1, <3>2, <3>3, <3>5, <4>1, ConsecutiveConcat
    <3>7. /\ recvBase'[e] + Len(recv'[e]) = recvNext[e]
          /\ Len(delivered'[e]) = recvBase'[e]
      <4>1. n \in Nat
        BY <1>1, <3>1
      <4>2. (recvBase[e] + n) + (Len(recv[e]) - n) = recvNext[e]
        BY <3>1, <3>2, <4>1
      <4>3. Len(delivered'[e]) = recvBase[e] + n
        BY <3>2, <3>6
      <4> QED
        BY <3>4, <3>5, <4>2, <4>3
    <3> QED
      BY <1>1, <2>1, <2>2, <3>4, <3>5, <3>6, <3>7
  <2>3. CASE x # e
    BY <1>1, <1>3, <2>1, <2>3
  <2> QED
    BY <2>2, <2>3
<1>5. \A x \in Endpoints : recvBase[x] <= recvBase'[x]
  <2> SUFFICES ASSUME NEW x \in Endpoints PROVE recvBase[x] <= recvBase'[x]
    OBVIOUS
  <2>1. recvBase[x] \in Nat /\ n \in Nat
    BY <1>1, DataTypes
  <2>2. recvBase'[x] = recvBase[x] \/ recvBase'[x] = recvBase[x] + n
    BY <1>3
  <2> QED
    BY <2>1, <2>2
<1>6. Monotone
  BY <1>1, <1>5, DataTypes DEF Monotone
<1>7. FramesTruthful'
  BY <1>1, <1>6, CarriedNet, FramesStep DEF DataInv
<1>8. AckedWasConsumed'
  <2>1. ASSUME NEW x \in Endpoints PROVE sendBase[x] <= recvBase'[Peer(x)]
    <3>1. sendBase[x] <= recvBase[Peer(x)] /\ Peer(x) \in Endpoints
      BY PeerIsOther DEF DataInv, AckedWasConsumed
    <3>2. recvBase'[Peer(x)] \in Nat
      BY <3>1 DEF TypeOK
    <3> QED
      BY <1>5, <3>1, <3>2, DataTypes
  <2> QED
    BY <1>1, <2>1 DEF AckedWasConsumed
<1>9. SendShape' /\ EofIsTheEnd'
  BY <1>1 DEF DataInv, SendShape, EofIsTheEnd
<1> QED
  BY <1>4, <1>7, <1>8, <1>9 DEF DataInv

\* The arithmetic of cutting acknowledged bytes off the send buffer.
LEMMA CutArithmetic ==
    ASSUME NEW base \in Nat, NEW length \in Nat, NEW cut \in 0..length, NEW bound \in Nat,
           length <= bound
    PROVE  /\ (base + cut) + (length - cut) = base + length
           /\ length - cut <= bound
OBVIOUS

\* discardAckedLocked with an offset the peer has told truthfully.
LEMMA DiscardStep ==
    ASSUME TypeOK, TypeOK', DataInv, NEW e \in Endpoints, NEW offset \in Nat,
           offset <= recvBase[Peer(e)], DiscardAcked(e, offset), Carried(net'),
           UNCHANGED <<sendNext, writeOffset, localFIN, finAcked>>,
           UNCHANGED <<recvBase, recvNext, recv, delivered, remoteFIN, remoteFINAt>>
    PROVE  DataInv'
<1>1. Monotone
  BY DataTypes DEF Monotone
<1>2. FramesTruthful'
  BY <1>1, FramesStep DEF DataInv
<1>3. RecvShape' /\ EofIsTheEnd'
  BY DEF DataInv, RecvShape, EofIsTheEnd
<1>4. CASE offset <= sendBase[e]
  <2>1. UNCHANGED <<sendBase, send>>
    BY <1>4 DEF DiscardAcked
  <2>2. SendShape' /\ AckedWasConsumed'
    BY <2>1 DEF DataInv, SendShape, AckedWasConsumed
  <2> QED
    BY <1>2, <1>3, <2>2 DEF DataInv
<1>5. CASE ~(offset <= sendBase[e])
  <2> DEFINE cut == offset - sendBase[e]
  <2>1. /\ sendBase' = [sendBase EXCEPT ![e] = offset]
        /\ send' = [send EXCEPT ![e] = SubSeq(@, cut + 1, Len(@))]
    BY <1>5 DEF DiscardAcked
  <2>2. sendBase \in [Endpoints -> Nat] /\ send \in [Endpoints -> Seq(Nat)]
    BY DEF TypeOK
  <2>3. /\ sendBase'[e] = offset /\ send'[e] = SubSeq(send[e], cut + 1, Len(send[e]))
        /\ \A x \in Endpoints \ {e} : sendBase'[x] = sendBase[x] /\ send'[x] = send[x]
    BY <2>1, <2>2
  <2>4. /\ sendBase[e] \in Nat /\ sendNext[e] \in Nat /\ send[e] \in Seq(Nat)
        /\ Len(send[e]) \in Nat /\ Peer(e) \in Endpoints /\ Peer(Peer(e)) = e
    BY DataTypes, PeerIsOther
  <2>5. /\ recvBase[Peer(e)] \in Nat /\ recvNext[Peer(e)] \in Nat
        /\ Len(recv[Peer(e)]) \in Nat
    BY <2>4, DataTypes
  <2>6. /\ recvBase[Peer(e)] + Len(recv[Peer(e)]) = recvNext[Peer(e)]
        /\ recvNext[Peer(e)] <= sendNext[e]
    BY <2>4 DEF DataInv, RecvShape
  <2>7. offset <= sendNext[e]
    BY <2>4, <2>5, <2>6
  <2>8. /\ sendBase[e] + Len(send[e]) = sendNext[e] /\ Consecutive(send[e], sendBase[e])
        /\ Len(send[e]) <= Window
    BY DEF DataInv, SendShape
  <2>9. cut \in 0..Len(send[e]) /\ sendBase[e] + cut = offset
    BY <1>5, <2>4, <2>7, <2>8
  <2> HIDE DEF cut
  <2>10. Len(send'[e]) = Len(send[e]) - cut /\ Consecutive(send'[e], offset)
    <3>1. Len(send[e]) \in cut..Len(send[e])
      BY <2>4, <2>9
    <3> QED
      BY <2>3, <2>4, <2>8, <2>9, <3>1, ConsecutiveSubSeq
  <2>11. sendBase'[e] + Len(send'[e]) = sendNext[e] /\ Len(send'[e]) <= Window
    <3>1. /\ (sendBase[e] + cut) + (Len(send[e]) - cut) = sendBase[e] + Len(send[e])
          /\ Len(send[e]) - cut <= Window
      BY <2>4, <2>8, <2>9, CutArithmetic, WindowAssumption
    <3>2. sendBase'[e] = sendBase[e] + cut /\ Len(send'[e]) = Len(send[e]) - cut
      BY <2>3, <2>9, <2>10
    <3> QED
      BY <2>8, <3>1, <3>2
  <2>12. SendShape'
    <3> SUFFICES ASSUME NEW x \in Endpoints
                 PROVE  SendShape!(x)'
      BY DEF SendShape
    <3>1. SendShape!(x)
      BY DEF DataInv, SendShape
    <3>2. CASE x = e
      BY <2>3, <2>10, <2>11, <3>1, <3>2
    <3>3. CASE x # e
      BY <2>3, <3>1, <3>3
    <3> QED
      BY <3>2, <3>3
  <2>13. AckedWasConsumed'
    BY <2>3 DEF DataInv, AckedWasConsumed
  <2> QED
    BY <1>2, <1>3, <2>12, <2>13 DEF DataInv
<1> QED
  BY <1>4, <1>5

\* The steps that learn an acknowledgement: READY, PREPARE and ACK.
LEMMA AcknowledgedSteps ==
    ASSUME TypeOK, TypeOK', DataInv, NEW c \in Carriers,
           \/ PrepareReady(c) \/ AcceptHello(c)
           \/ \E e \in Endpoints : RecvAck(e, c)
    PROVE  DataInv'
<1> USE DEF sendVars, finVars, recvVars, remoteVars, linkVars
<1>0. net \in Wires /\ Carried(net) /\ epoch[c] \in Nat
  BY CarriedNet DEF TypeOK
<1>1. ASSUME NEW e \in Endpoints, net[c][e] # <<>>
      PROVE  /\ Truthful(e, Head(net[c][e])) /\ Head(net[c][e]) \in Frame
             /\ Pop(net, e, c) \in Wires /\ Carried(Pop(net, e, c))
  BY <1>0, <1>1, HeadInFlight, PopType, CarriedPop DEF DataInv, FramesTruthful
<1>2. CASE PrepareReady(c)
  <2> DEFINE f == Head(net[c][I])
  <2>1. net[c][I] # <<>> /\ DiscardAcked(I, f.ack) /\ net' = Pop(net, I, c)
    BY <1>2 DEF PrepareReady, Ready
  <2>2. Truthful(I, f) /\ f \in Frame /\ Carried(net')
    BY <1>1, <2>1, BothEndpoints
  <2>3. f.kind = "READY"
    BY <1>2 DEF PrepareReady, Usable
  <2>4. f.ack \in Nat /\ f.ack <= recvBase[Peer(I)]
    BY <2>2, <2>3 DEF Truthful, Frame
  <2> HIDE DEF f
  <2> QED
    BY <1>2, <2>1, <2>2, <2>4, DiscardStep, BothEndpoints DEF PrepareReady
<1>3. CASE AcceptHello(c)
  <2> DEFINE f == Head(net[c][R])
  <2>1. net[c][R] # <<>> /\ DiscardAcked(R, f.ack)
    BY <1>3 DEF AcceptHello
  <2>2. Truthful(R, f) /\ f \in Frame /\ Pop(net, R, c) \in Wires /\ Carried(Pop(net, R, c))
    BY <1>1, <2>1, BothEndpoints
  <2>3. f.kind = "PREPARE"
    BY <1>3 DEF AcceptHello, Acceptable
  <2>4. f.ack \in Nat /\ f.ack <= recvBase[Peer(R)]
    BY <2>2, <2>3 DEF Truthful, Frame
  <2> HIDE DEF f
  <2> DEFINE ready == Hello("READY", epoch[c], committedEpoch[R], recvBase[R])
  <2>5. ready \in Frame
    BY <1>0, BothEndpoints, HelloType DEF TypeOK, FrameKinds
  <2>6. Truthful(I, ready)
    <3>1. recvBase[R] \in Nat
      BY BothEndpoints, DataTypes
    <3> QED
      BY <3>1, BothEndpoints DEF Truthful, Hello
  <2>7. PICK old : net' = CloseNet(Push(Pop(net, R, c), R, c, ready), R, old)
    BY <1>3 DEF AcceptHello, Acknowledged
  <2> HIDE DEF ready
  <2>8. Push(Pop(net, R, c), R, c, ready) \in Wires /\ Carried(Push(Pop(net, R, c), R, c, ready))
    BY <2>2, <2>5, <2>6, PushType, CarriedPush, BothEndpoints
  <2>9. Carried(net')
    BY <2>7, <2>8, CarriedClose, BothEndpoints
  <2> QED
    BY <1>3, <2>1, <2>4, <2>9, DiscardStep, BothEndpoints DEF AcceptHello
<1>4. ASSUME NEW e \in Endpoints, RecvAck(e, c) PROVE DataInv'
  <2> DEFINE f == Head(net[c][e])
  <2>1. /\ net[c][e] # <<>> /\ f.kind = "ACK" /\ DiscardAcked(e, f.seq)
        /\ net' = Pop(net, e, c)
    BY <1>4 DEF RecvAck, ReadsAs, Readable
  <2>2. Truthful(e, f) /\ f \in Frame /\ Carried(net')
    BY <1>1, <2>1
  <2>3. f.seq \in Nat /\ f.seq <= recvBase[Peer(e)]
    BY <2>1, <2>2 DEF Truthful, Frame
  <2> HIDE DEF f
  <2> QED
    BY <1>4, <2>1, <2>2, <2>3, DiscardStep DEF RecvAck
<1> QED
  BY <1>2, <1>3, <1>4

\* A DATA frame keeps DataInv: its new bytes continue the receive buffer.
LEMMA DataStep ==
    ASSUME TypeOK, TypeOK', DataInv, NEW e \in Endpoints, NEW c \in Carriers, Readable(e, c),
           Violation(e, c, Head(net[c][e])) = "none", RecvData(e, c)
    PROVE  DataInv'
<1> USE DEF sendVars, finVars, recvVars, remoteVars, linkVars
<1> DEFINE f == Head(net[c][e])
           end == f.seq + Len(f.data)
           p == Peer(e)
<1>1. /\ net[c][e] # <<>> /\ net \in Wires /\ Carried(net)
      /\ f.kind = "DATA" /\ Disposition(e, c) = "accept" /\ net' = Pop(net, e, c)
      /\ UNCHANGED <<sendBase, sendNext, send, writeOffset, localFIN, finAcked>>
      /\ UNCHANGED <<recvBase, delivered, remoteFIN, remoteFINAt>>
  BY CarriedNet DEF RecvData, ReadsAs, Readable, TypeOK
<1>2. Truthful(e, f) /\ f \in Frame /\ Carried(net')
  BY <1>1, HeadInFlight, CarriedPop DEF DataInv, FramesTruthful
<1>3. f.seq \in Nat /\ f.data \in Seq(Nat) /\ Len(f.data) \in Nat
  BY <1>2 DEF Frame
<1>4. /\ recvBase[e] \in Nat /\ recvNext[e] \in Nat /\ recv[e] \in Seq(Nat)
      /\ Len(recv[e]) \in Nat /\ p \in Endpoints
  BY DataTypes
<1>5. sendNext[p] \in Nat
  BY <1>4, DataTypes
<1>6. end <= sendNext[p] /\ Consecutive(f.data, f.seq)
  BY <1>1, <1>2 DEF Truthful
<1>7. f.seq <= recvNext[e]
  BY <1>1, <1>3, <1>4 DEF Violation
<1>8. Monotone
  BY <1>1, DataTypes DEF Monotone
<1>9. FramesTruthful'
  BY <1>2, <1>8, FramesStep DEF DataInv
<1>10. SendShape' /\ AckedWasConsumed'
  BY <1>1 DEF DataInv, SendShape, AckedWasConsumed
<1>11. CASE ~(end > recvNext[e])
  <2>1. UNCHANGED <<recv, recvNext>>
    BY <1>11 DEF RecvData
  <2>2. RecvShape' /\ EofIsTheEnd'
    BY <1>1, <2>1 DEF DataInv, RecvShape, EofIsTheEnd
  <2> QED
    BY <1>9, <1>10, <2>2 DEF DataInv
<1>12. CASE end > recvNext[e]
  <2> DEFINE rest == SubSeq(f.data, recvNext[e] - f.seq + 1, Len(f.data))
  <2>1. /\ recv' = [recv EXCEPT ![e] = @ \o rest]
        /\ recvNext' = [recvNext EXCEPT ![e] = end]
    BY <1>12 DEF RecvData, NewBytes
  <2>2. recv \in [Endpoints -> Seq(Nat)] /\ recvNext \in [Endpoints -> Nat]
    BY DEF TypeOK
  <2>3. /\ rest \in Seq(Nat) /\ Len(rest) = end - recvNext[e]
        /\ Consecutive(rest, recvNext[e])
    <3>1. recvNext[e] < f.seq + Len(f.data)
      BY <1>3, <1>4, <1>12
    <3> HIDE DEF f
    <3>2. rest \in Seq(Nat) /\ Len(rest) = (f.seq + Len(f.data)) - recvNext[e]
      BY <1>3, <1>4, <1>7, <3>1, TrimFacts
    <3>3. Consecutive(rest, recvNext[e])
      BY <1>3, <1>4, <1>6, <1>7, <3>1, TrimFacts
    <3> HIDE DEF rest
    <3>4. Len(rest) = end - recvNext[e]
      BY <1>3, <1>4, <3>2
    <3> QED
      BY <3>2, <3>3, <3>4
  <2> HIDE DEF f, rest
  <2>4. /\ recv'[e] = recv[e] \o rest /\ recvNext'[e] = end
        /\ \A x \in Endpoints \ {e} : recv'[x] = recv[x] /\ recvNext'[x] = recvNext[x]
    BY <2>1, <2>2
  <2>5. recvBase[e] + Len(recv[e]) = recvNext[e] /\ Consecutive(recv[e], recvBase[e])
    BY DEF DataInv, RecvShape
  <2>6. /\ Len(recv'[e]) = Len(recv[e]) + (end - recvNext[e])
        /\ Consecutive(recv'[e], recvBase[e])
    BY <1>4, <2>3, <2>4, <2>5, ConsecutiveConcat
  <2>7. recvBase[e] + Len(recv'[e]) = recvNext'[e] /\ recvNext'[e] <= sendNext[p]
    <3>1. end \in Nat /\ recvNext[e] \in Nat /\ recvBase[e] \in Nat /\ Len(recv[e]) \in Nat
      BY <1>3, <1>4
    <3>2. recvBase[e] + (Len(recv[e]) + (end - recvNext[e])) = end
      BY <2>5, <3>1
    <3>3. end <= sendNext[p]
      BY <1>3, <1>4, <1>6
    <3> QED
      BY <2>4, <2>6, <3>2, <3>3
  <2>8. RecvShape'
    <3> SUFFICES ASSUME NEW x \in Endpoints
                 PROVE  RecvShape!(x)'
      BY DEF RecvShape
    <3>1. RecvShape!(x)
      BY DEF DataInv, RecvShape
    <3>2. CASE x = e
      BY <1>1, <2>6, <2>7, <3>1, <3>2
    <3>3. CASE x # e
      BY <1>1, <2>4, <3>1, <3>3
    <3> QED
      BY <3>2, <3>3
  <2>9. ~remoteFIN[e]
    <3>1. remoteFIN[e] => recvNext[e] = sendNext[p]
      BY DEF DataInv, EofIsTheEnd
    <3> QED
      BY <1>3, <1>4, <1>5, <1>6, <1>12, <3>1
  <2>10. EofIsTheEnd'
    BY <1>1, <2>4, <2>9 DEF DataInv, EofIsTheEnd
  <2> QED
    BY <1>9, <1>10, <2>8, <2>10 DEF DataInv
<1> QED
  BY <1>11, <1>12

\* A FIN frame keeps DataInv: it is recorded at the exact length.
LEMMA FinStep ==
    ASSUME TypeOK, TypeOK', DataInv, NEW e \in Endpoints, NEW c \in Carriers, Readable(e, c),
           Violation(e, c, Head(net[c][e])) = "none", RecvFin(e, c)
    PROVE  DataInv'
<1> USE DEF sendVars, finVars, recvVars, remoteVars, linkVars
<1> DEFINE f == Head(net[c][e])
           p == Peer(e)
           known == f.seq < recvNext[e] \/ (remoteFIN[e] /\ f.seq = remoteFINAt[e])
<1>1. /\ net[c][e] # <<>> /\ net \in Wires /\ Carried(net)
      /\ f.kind = "FIN" /\ Disposition(e, c) = "accept"
      /\ UNCHANGED <<sendBase, sendNext, send, writeOffset, localFIN, finAcked>>
      /\ UNCHANGED <<recvBase, recvNext, recv, delivered>>
  BY CarriedNet DEF RecvFin, ReadsAs, Readable, TypeOK
<1>2. /\ Truthful(e, f) /\ f \in Frame
      /\ Pop(net, e, c) \in Wires /\ Carried(Pop(net, e, c))
  BY <1>1, HeadInFlight, CarriedPop, PopType DEF DataInv, FramesTruthful
<1>3. f.seq \in Nat /\ localFIN[p] /\ f.seq = sendNext[p]
  BY <1>1, <1>2 DEF Truthful, Frame
<1>4. recvNext[e] \in Nat /\ p \in Endpoints /\ Peer(p) = e
  BY DataTypes, PeerIsOther
<1>5. CASE known
  <2>1. net' = Pop(net, e, c) /\ UNCHANGED <<remoteFIN, remoteFINAt>>
    BY <1>5 DEF RecvFin
  <2> QED
    BY <1>1, <1>2, <2>1, NeutralSame DEF byteVars
<1>6. CASE ~known
  <2> PICK ack : ack = Header("FINACK", f.seq, <<>>)
    OBVIOUS
  <2>1. /\ remoteFIN' = [remoteFIN EXCEPT ![e] = TRUE]
        /\ remoteFINAt' = [remoteFINAt EXCEPT ![e] = f.seq]
        /\ net' = Push(Pop(net, e, c), e, c, ack)
    BY <1>6 DEF RecvFin
  <2>2. ~(f.seq > recvNext[e] \/ remoteFIN[e])
    BY <1>1, <1>6 DEF Violation
  <2>3. f.seq = recvNext[e] /\ ~remoteFIN[e]
    BY <1>3, <1>4, <1>6, <2>2
  <2> HIDE DEF f
  <2>4. /\ remoteFIN \in [Endpoints -> BOOLEAN] /\ remoteFINAt \in [Endpoints -> Nat]
    BY DEF TypeOK
  <2>5. /\ remoteFIN'[e] /\ remoteFINAt'[e] = f.seq
        /\ \A x \in Endpoints \ {e} : /\ remoteFIN'[x] = remoteFIN[x]
                                     /\ remoteFINAt'[x] = remoteFINAt[x]
    BY <2>1, <2>4
  <2>6. Monotone
    BY <1>1, <2>3, <2>5, DataTypes DEF Monotone
  <2>7. ack \in Frame /\ Truthful(p, ack)'
    <3>1. ack \in Frame /\ ack.kind = "FINACK" /\ ack.seq = f.seq
      BY <1>3 DEF Header, Frame, FrameKinds
    <3> QED
      BY <1>4, <2>5, <3>1 DEF Truthful
  <2>8. FramesTruthful'
    <3> SUFFICES ASSUME NEW d \in Carriers, NEW x \in Endpoints,
                        NEW g \in InFlight(net', d, x)
                 PROVE  Truthful(x, g)'
      BY DEF FramesTruthful
    <3>1. g \in InFlight(Pop(net, e, c), d, x) \/ (g = ack /\ x = p)
      BY <1>2, <2>1, <2>7, PushInFlight
    <3>2. CASE g \in InFlight(Pop(net, e, c), d, x)
      <4>1. Truthful(x, g)
        BY <1>2, <3>2 DEF Carried, DataInv, FramesTruthful
      <4>2. g \in Frame
        BY <1>2, <3>2 DEF Wires, InFlight
      <4> QED
        BY <2>6, <4>1, <4>2, TruthfulKept
    <3> QED
      BY <2>7, <3>1, <3>2
  <2>9. SendShape' /\ RecvShape' /\ AckedWasConsumed'
    BY <1>1 DEF DataInv, SendShape, RecvShape, AckedWasConsumed
  <2>10. EofIsTheEnd'
    <3> SUFFICES ASSUME NEW x \in Endpoints
                 PROVE  EofIsTheEnd!(x)'
      BY DEF EofIsTheEnd
    <3>1. EofIsTheEnd!(x)
      BY DEF DataInv, EofIsTheEnd
    <3>2. finAcked[x] => remoteFIN'[Peer(x)]
      BY <3>1, <2>5, PeerIsOther
    <3>3. CASE x = e
      BY <1>1, <1>3, <2>3, <2>5, <3>2, <3>3
    <3>4. CASE x # e
      BY <1>1, <2>5, <3>1, <3>2, <3>4
    <3> QED
      BY <3>3, <3>4
  <2> QED
    BY <2>8, <2>9, <2>10 DEF DataInv
<1> QED
  BY <1>5, <1>6

\* A FINACK frame keeps DataInv: the peer has recorded the half-close.
LEMMA FinAckStep ==
    ASSUME TypeOK, TypeOK', DataInv, NEW e \in Endpoints, NEW c \in Carriers,
           RecvFinAck(e, c)
    PROVE  DataInv'
<1> USE DEF sendVars, finVars, recvVars, remoteVars, linkVars
<1> DEFINE f == Head(net[c][e])
<1>1. /\ net[c][e] # <<>> /\ net \in Wires /\ Carried(net)
      /\ f.kind = "FINACK" /\ net' = Pop(net, e, c)
      /\ finAcked' = [finAcked EXCEPT ![e] = TRUE]
      /\ UNCHANGED <<sendBase, sendNext, send, writeOffset, localFIN>>
      /\ UNCHANGED <<recvBase, recvNext, recv, delivered, remoteFIN, remoteFINAt>>
  BY CarriedNet DEF RecvFinAck, ReadsAs, Readable, TypeOK
<1>2. Truthful(e, f) /\ Carried(net')
  BY <1>1, HeadInFlight, CarriedPop DEF DataInv, FramesTruthful
<1>3. remoteFIN[Peer(e)]
  BY <1>1, <1>2 DEF Truthful
<1>4. Monotone
  BY <1>1, DataTypes DEF Monotone
<1>5. FramesTruthful'
  BY <1>2, <1>4, FramesStep DEF DataInv
<1>6. SendShape' /\ RecvShape' /\ AckedWasConsumed'
  BY <1>1 DEF DataInv, SendShape, RecvShape, AckedWasConsumed
<1>7. \A x \in Endpoints \ {e} : finAcked'[x] = finAcked[x]
  BY <1>1 DEF TypeOK
<1>8. EofIsTheEnd'
  BY <1>1, <1>3, <1>7 DEF DataInv, EofIsTheEnd
<1> QED
  BY <1>5, <1>6, <1>8 DEF DataInv

\* readCarrier keeps DataInv, whatever frame it reads.
LEMMA FrameStep ==
    ASSUME TypeOK, TypeOK', DataInv, NEW e \in Endpoints, NEW c \in Carriers, RecvFrame(e, c)
    PROVE  DataInv'
<1> USE DEF sendVars, finVars, recvVars, remoteVars, linkVars, dataVars
<1> DEFINE stage == Violation(e, c, Head(net[c][e]))
<1>1. CASE stage = "none"
  <2>1. Readable(e, c) /\ LegalFrame(e, c)
    BY <1>1 DEF RecvFrame
  <2> QED
    BY <1>1, <2>1, NeutralFrames, AcknowledgedSteps, DataStep, FinStep, FinAckStep
       DEF LegalFrame
<1>2. CASE stage # "none"
  <2>1. /\ FailTerminal(e, stage, Pop(net, e, c))
        /\ UNCHANGED <<byteVars, writeOffset>>
    BY <1>2 DEF RecvFrame, byteVars
  <2>2. Pop(net, e, c) \in Wires /\ Carried(Pop(net, e, c))
    BY CarriedNet, CarriedPop, PopType DEF RecvFrame, Readable, TypeOK
  <2> HIDE DEF stage
  <2> QED
    BY <2>1, <2>2, FailTerminalNet, NeutralSame
<1> QED
  BY <1>1, <1>2

\* A new stream satisfies DataInv.
LEMMA DataInvInit == Init => DataInv
<1> SUFFICES ASSUME Init PROVE DataInv
  OBVIOUS
<1>1. \A e \in Endpoints : Peer(e) \in Endpoints
  BY PeerIsOther
<1>2. SendShape
  BY WindowAssumption, BoundsAssumption DEF Init, SendShape, Consecutive, MaxBytes
<1>3. RecvShape
  BY <1>1 DEF Init, RecvShape, Consecutive
<1>4. FramesTruthful
  BY DEF Init, FramesTruthful, InFlight
<1>5. AckedWasConsumed /\ EofIsTheEnd
  BY <1>1 DEF Init, AckedWasConsumed, EofIsTheEnd
<1> QED
  BY <1>2, <1>3, <1>4, <1>5 DEF DataInv

\* Every step keeps DataInv.
LEMMA DataInvStep == TypeOK /\ TypeOK' /\ DataInv /\ [Next]_vars => DataInv'
<1> SUFFICES ASSUME TypeOK, TypeOK', DataInv, [Next]_vars PROVE DataInv'
  OBVIOUS
<1>1. CASE UNCHANGED vars
  BY <1>1, CarriedNet, NeutralSame
     DEF vars, sendVars, finVars, recvVars, remoteVars, linkVars, dataVars,
            controlVars, sideVars, byteVars
<1>2. ASSUME NEW e \in Endpoints, Application(e) PROVE DataInv'
  BY <1>2, NeutralApplication, WriteStep, ReadStep, CloseWriteStep DEF Application
<1>3. ASSUME NEW c \in Carriers, Handshake(c) PROVE DataInv'
  BY <1>3, NeutralHandshake, AcknowledgedSteps DEF Handshake
<1>4. ASSUME NEW c \in Carriers,
             OpenLink(c) \/ LinkFail(c) \/ PromoteCarrier(c) \/ DropPrepared(c)
      PROVE  DataInv'
  BY <1>4, NeutralCoordinator
<1>5. CASE StartReader
  <2>1. op[I] = "start"
    BY <1>5 DEF StartReader
  <2> QED
    BY <1>5, CarriedNet, NeutralSame
       DEF StartReader, sendVars, finVars, recvVars, remoteVars, linkVars, dataVars,
            controlVars, sideVars, byteVars
<1>6. ASSUME NEW e \in Endpoints, SendData(e) \/ SendFin(e) \/ SendAck(e) PROVE DataInv'
  BY <1>6, NeutralWriters
<1>7. ASSUME NEW e \in Endpoints, NEW c \in Carriers, RecvFrame(e, c) \/ FailCarrier(e, c)
      PROVE  DataInv'
  BY <1>7, FrameStep, NeutralFailures
<1>8. ASSUME NEW e \in Endpoints, ExpireDetached(e) \/ FailExpired(e) PROVE DataInv'
  BY <1>8, NeutralFailures
<1> QED
  BY <1>1, <1>2, <1>3, <1>4, <1>5, <1>6, <1>7, <1>8 DEF Next

(***************************************************************************)
(* The theorems.                                                           *)
(***************************************************************************)
\* Every variable of the stream keeps its type, and the buffers, the offsets
\* and the frames in flight tell one consistent story about each direction.
THEOREM Invariance == Spec => [](TypeOK /\ DataInv)
<1>1. Init => TypeOK /\ DataInv
  BY TypeInit, DataInvInit
<1>2. TypeOK /\ DataInv /\ [Next]_vars => TypeOK' /\ DataInv'
  BY TypeStep, DataInvStep
<1> QED
  BY <1>1, <1>2, PTL DEF Spec

\* Every field of both endpoints and every frame in flight keeps its type, for
\* any number of carriers, bytes and failures (Conn).
THEOREM TypeCorrect == Spec => []TypeOK
BY Invariance, PTL

\* Read returns every byte the peer wrote once and in order, however many
\* carriers carried it and whatever was sent again (Write, writeActive,
\* readCarrier, Read).
THEOREM Ordered == Spec => []DeliveredInOrder
<1>1. TypeOK /\ DataInv => DeliveredInOrder
  <2> SUFFICES ASSUME TypeOK, DataInv, NEW e \in Endpoints
               PROVE  /\ Len(delivered[e]) <= sendNext[Peer(e)]
                      /\ Consecutive(delivered[e], 0)
    BY DEF DeliveredInOrder
  <2>1. /\ recvBase[e] + Len(recv[e]) = recvNext[e] /\ Len(delivered[e]) = recvBase[e]
        /\ recvNext[e] <= sendNext[Peer(e)] /\ Consecutive(delivered[e], 0)
    BY DEF DataInv, RecvShape
  <2>2. /\ recvBase[e] \in Nat /\ recvNext[e] \in Nat /\ Len(recv[e]) \in Nat
        /\ Peer(e) \in Endpoints
    BY DataTypes
  <2>3. sendNext[Peer(e)] \in Nat
    BY <2>2, DataTypes
  <2> QED
    BY <2>1, <2>2, <2>3
<1> QED
  BY <1>1, Invariance, PTL

\* A byte leaves the send buffer only after the peer's application has read
\* it, so no carrier failure can lose it (discardAckedLocked).
THEOREM Retained == Spec => []AckedWasConsumed
<1>1. DataInv => AckedWasConsumed
  BY DEF DataInv
<1> QED
  BY <1>1, Invariance, PTL

\* An endpoint that has recorded the peer's half-close holds every byte of it,
\* and a half-close that is acknowledged was recorded (readCarrier FIN, FINACK).
THEOREM Ended == Spec => []EofIsTheEnd
<1>1. DataInv => EofIsTheEnd
  BY DEF DataInv
<1> QED
  BY <1>1, Invariance, PTL

(***************************************************************************)
(* The refinement of the byte stream.                                      *)
(***************************************************************************)
\* What the applications see of the stream, and what Read looks at.
appVars == <<sendNext, localFIN, delivered, eof, recv, remoteFIN>>

\* After the end Read finds nothing, and nothing more arrives.
EofInv == \A e \in Endpoints : eof[e] => remoteFIN[e] /\ recv[e] = <<>>

\* The bytes 1..n, which are the first n bytes of a direction.
Bytes1(n) == [i \in 1..n |-> i]

\* The bytes written so far are a sequence, and the next one is appended to it.
LEMMA BytesFacts ==
    ASSUME NEW n \in Nat
    PROVE  /\ Bytes1(n) \in Seq(Nat) /\ Len(Bytes1(n)) = n
           /\ \A i \in 1..n : Bytes1(n)[i] = i
           /\ Append(Bytes1(n), n + 1) = Bytes1(n + 1)
<1>1. \A m \in Nat : Bytes1(m) \in [1..m -> Nat]
  BY DEF Bytes1
<1>2. \A m \in Nat : /\ Bytes1(m) \in Seq(Nat) /\ Len(Bytes1(m)) = m
                     /\ \A i \in 1..m : Bytes1(m)[i] = i
  <2> TAKE m \in Nat
  <2>1. Bytes1(m) \in Seq(Nat)
    BY <1>1, SeqDef
  <2>2. DOMAIN Bytes1(m) = 1..m /\ \A i \in 1..m : Bytes1(m)[i] = i
    BY DEF Bytes1
  <2>3. Len(Bytes1(m)) = m
    BY <2>1, <2>2, LenProperties
  <2> QED
    BY <2>1, <2>2, <2>3
<1>3. n + 1 \in Nat
  OBVIOUS
<1> DEFINE s == Bytes1(n)
           t == Bytes1(n + 1)
           u == Append(s, n + 1)
<1>4. /\ s \in Seq(Nat) /\ Len(s) = n /\ \A i \in 1..n : s[i] = i
      /\ t \in Seq(Nat) /\ Len(t) = n + 1 /\ \A i \in 1..(n + 1) : t[i] = i
  BY <1>2, <1>3
<1> HIDE DEF s, t
<1>5. /\ u \in Seq(Nat) /\ Len(u) = n + 1
      /\ u[n + 1] = n + 1 /\ \A i \in 1..n : u[i] = s[i]
  BY <1>3, <1>4, AppendFacts
<1> HIDE DEF u
<1>6. \A i \in 1..(n + 1) : u[i] = t[i]
  BY <1>4, <1>5
<1>7. u = t
  BY <1>4, <1>5, <1>6, SeqEqual
<1> QED
  BY <1>2, <1>7 DEF s, t, u

\* Bytes that count from one are the first bytes of what was written.
LEMMA PrefixOfBytes ==
    ASSUME NEW s \in Seq(Nat), Consecutive(s, 0), NEW n \in Nat, Len(s) <= n
    PROVE  s = SubSeq(Bytes1(n), 1, Len(s))
<1> DEFINE w == Bytes1(n)
           p == SubSeq(w, 1, Len(s))
<1>1. w \in Seq(Nat) /\ Len(w) = n /\ \A i \in 1..n : w[i] = i
  BY BytesFacts
<1>2. Len(s) \in Nat /\ 1 \in 1..(Len(w) + 1) /\ Len(s) \in 0..Len(w)
  BY <1>1
<1> HIDE DEF w
<1>3. p \in Seq(Nat) /\ Len(p) = Len(s) /\ \A i \in 1..Len(s) : p[i] = w[i]
  BY <1>1, <1>2, SubSeqFacts
<1>4. \A i \in 1..Len(s) : s[i] = i
  BY <1>2 DEF Consecutive
<1> HIDE DEF p
<1>5. \A i \in 1..Len(s) : p[i] = s[i]
  BY <1>1, <1>2, <1>3, <1>4
<1>6. p = s
  BY <1>2, <1>3, <1>5, SeqEqual
<1> QED
  BY <1>6 DEF p, w

\* A step of another kind is not seen by the applications.
LEMMA Unseen ==
    ASSUME UNCHANGED <<sendNext, localFIN, delivered, eof>>
    PROVE  UNCHANGED Abstract!vars
BY DEF Abstract!vars

\* Steps that leave what the applications see as it is.
LEMMA UnseenApplication ==
    ASSUME NEW e \in Endpoints, Close(e) \/ Abort(e) \/ ContextDone(e)
    PROVE  UNCHANGED appVars
BY DEF Close, Abort, ContextDone, appVars, dataVars, sendVars, finVars, recvVars, remoteVars

\* Links and the coordinator.
LEMMA UnseenCoordinator ==
    ASSUME NEW c \in Carriers,
           \/ OpenLink(c) \/ LinkFail(c) \/ PromoteCarrier(c) \/ DropPrepared(c)
           \/ StartReader
    PROVE  UNCHANGED appVars
BY DEF OpenLink, LinkFail, PromoteCarrier, DropPrepared, StartReader, appVars, dataVars,
       sendVars, finVars, recvVars, remoteVars

\* The handshake acknowledges bytes and changes none.
LEMMA UnseenHandshake ==
    ASSUME NEW c \in Carriers, Handshake(c)
    PROVE  UNCHANGED appVars
BY DEF Handshake, PrepareCarrier, PrepareRefused, PrepareReady, PrepareFailed, AcceptCarrier,
       AcceptHello, AcceptRefused, AcceptReady, AcceptReadyFailed, ConfirmCarrier,
       SendCommitAck, appVars, dataVars, sendVars, finVars, recvVars, remoteVars

\* The writers send what is already in the window.
LEMMA UnseenWriters ==
    ASSUME NEW e \in Endpoints, SendData(e) \/ SendFin(e) \/ SendAck(e)
    PROVE  UNCHANGED appVars
BY DEF SendData, SendFin, SendAck, appVars, sendVars, finVars, recvVars, remoteVars

\* Lost carriers and the deadline of a detached stream.
LEMMA UnseenFailures ==
    ASSUME NEW e \in Endpoints, NEW c \in Carriers,
           FailCarrier(e, c) \/ ExpireDetached(e) \/ FailExpired(e)
    PROVE  UNCHANGED appVars
BY DEF FailCarrier, ExpireDetached, FailExpired, appVars, dataVars, sendVars, finVars,
       recvVars, remoteVars

\* A frame changes what Read will find, but only before the peer's half-close.
LEMMA UnseenFrames ==
    ASSUME TypeOK, DataInv, NEW e \in Endpoints, NEW c \in Carriers, RecvFrame(e, c)
    PROVE  /\ UNCHANGED <<sendNext, localFIN, delivered, eof>>
           /\ \A x \in Endpoints : remoteFIN[x] => remoteFIN'[x] /\ recv'[x] = recv[x]
<1> USE DEF dataVars, sendVars, finVars, recvVars, remoteVars
<1>0. Readable(e, c) /\ net[c][e] # <<>> /\ net \in Wires
  BY DEF RecvFrame, Readable, TypeOK
<1>1. CASE UNCHANGED appVars
  BY <1>1 DEF appVars
<1>2. CASE RecvData(e, c)
  <2> DEFINE f == Head(net[c][e])
  <2>1. f \in Frame /\ f \in InFlight(net, c, e)
    BY <1>0, HeadInFlight
  <2>2. f.kind = "DATA" /\ Truthful(e, f)
    BY <1>2, <2>1 DEF RecvData, ReadsAs, DataInv, FramesTruthful
  <2>3. f.seq \in Nat /\ Len(f.data) \in Nat /\ f.seq + Len(f.data) <= sendNext[Peer(e)]
    BY <2>1, <2>2 DEF Frame, Truthful
  <2>4. remoteFIN[e] => recvNext[e] = sendNext[Peer(e)]
    BY DEF DataInv, EofIsTheEnd
  <2>5. /\ UNCHANGED <<sendNext, localFIN, delivered, eof, remoteFIN>>
        /\ f.seq + Len(f.data) > recvNext[e] \/ UNCHANGED recv
        /\ \E v : recv' = [recv EXCEPT ![e] = v] \/ UNCHANGED recv
    <3> HIDE DEF f
    <3> QED
      BY <1>2 DEF RecvData, f
  <2>6. recv \in [Endpoints -> Seq(Nat)] /\ recvNext[e] \in Nat /\ sendNext[Peer(e)] \in Nat
    BY DataTypes, PeerIsOther DEF TypeOK
  <2> HIDE DEF f
  <2>7. remoteFIN[e] => UNCHANGED recv
    BY <2>3, <2>4, <2>5, <2>6
  <2>8. \A x \in Endpoints : x # e => recv'[x] = recv[x]
    BY <2>5, <2>6
  <2> QED
    BY <2>5, <2>7, <2>8
<1>3. CASE RecvFin(e, c)
  <2>1. /\ UNCHANGED <<sendNext, localFIN, delivered, eof, recv>>
        /\ remoteFIN' = [remoteFIN EXCEPT ![e] = TRUE] \/ UNCHANGED remoteFIN
    BY <1>3 DEF RecvFin
  <2>2. remoteFIN \in [Endpoints -> BOOLEAN]
    BY DEF TypeOK
  <2> QED
    BY <2>1, <2>2
<1>4. CASE ~RecvData(e, c) /\ ~RecvFin(e, c)
  <2>1. UNCHANGED appVars
    <3>1. CASE LegalFrame(e, c)
      BY <1>4, <3>1 DEF LegalFrame, RecvLate, RecvAck, RecvFinAck, RecvReset, RecvCommit,
         RecvCommitAck, RecvConfirm, RecvDiscard, RecvDiscardAck, appVars
    <3>2. CASE UNCHANGED <<writer, dataVars, sideVars>>
      BY <3>2 DEF appVars
    <3> QED
      BY <3>1, <3>2 DEF RecvFrame
  <2> QED
    BY <1>1, <2>1
<1> QED
  BY <1>2, <1>3, <1>4

\* Every step keeps the end of the stream the end.
LEMMA EofStep ==
    ASSUME TypeOK, DataInv, EofInv, [Next]_vars
    PROVE  EofInv'
<1> SUFFICES ASSUME NEW x \in Endpoints, eof'[x]
             PROVE  remoteFIN'[x] /\ recv'[x] = <<>>
  BY DEF EofInv
<1>0. /\ eof \in [Endpoints -> BOOLEAN] /\ recv \in [Endpoints -> Seq(Nat)]
      /\ eof[x] => remoteFIN[x] /\ recv[x] = <<>>
  BY DEF TypeOK, EofInv
<1>1. CASE UNCHANGED appVars
  BY <1>0, <1>1 DEF appVars
<1>2. ASSUME NEW e \in Endpoints, Application(e) PROVE remoteFIN'[x] /\ recv'[x] = <<>>
  <2> USE DEF sendVars, finVars, recvVars, remoteVars
  <2>1. CASE Write(e) \/ CloseWrite(e)
    BY <1>0, <2>1 DEF Write, CloseWrite
  <2>2. ASSUME NEW n \in 1..Window, Read(e, n) PROVE remoteFIN'[x] /\ recv'[x] = <<>>
    <3>1. /\ n \in 1..Len(recv[e]) /\ UNCHANGED <<eof, remoteFIN>>
          /\ recv' = [recv EXCEPT ![e] = SubSeq(recv[e], n + 1, Len(recv[e]))]
      BY <2>2 DEF Read
    <3>2. recv[e] # <<>>
      BY <3>1
    <3> QED
      BY <1>0, <3>1, <3>2
  <2>3. CASE ReadEOF(e)
    BY <1>0, <2>3 DEF ReadEOF, RemoteFinished
  <2>4. CASE Close(e) \/ Abort(e) \/ ContextDone(e)
    BY <1>1, <2>4, UnseenApplication
  <2> QED
    BY <1>2, <2>1, <2>2, <2>3, <2>4 DEF Application
<1>3. ASSUME NEW e \in Endpoints, NEW c \in Carriers, RecvFrame(e, c)
      PROVE  remoteFIN'[x] /\ recv'[x] = <<>>
  BY <1>0, <1>3, UnseenFrames
<1>4. CASE StartReader
  BY <1>1, <1>4 DEF StartReader, appVars, dataVars, sendVars, finVars, recvVars, remoteVars
<1>5. CASE UNCHANGED vars
  BY <1>1, <1>5 DEF vars, appVars, dataVars, sendVars, finVars, recvVars, remoteVars
<1>6. ASSUME NEW e \in Endpoints, ExpireDetached(e) \/ FailExpired(e)
      PROVE  remoteFIN'[x] /\ recv'[x] = <<>>
  BY <1>1, <1>6 DEF ExpireDetached, FailExpired, appVars, dataVars, sendVars, finVars,
     recvVars, remoteVars
<1> QED
  BY <1>1, <1>2, <1>3, <1>4, <1>5, <1>6, UnseenCoordinator, UnseenHandshake, UnseenWriters,
     UnseenFailures DEF Next

\* The abstract view of a step of the application.
LEMMA SeenWrite ==
    ASSUME TypeOK, DataInv, NEW e \in Endpoints, Write(e)
    PROVE  Abstract!Write(e)
<1> DEFINE w == [x \in Endpoints |-> Bytes1(sendNext[x])]
           n == sendNext[e]
<1>1. /\ sendNext \in [Endpoints -> Nat] /\ n \in Nat /\ ~localFIN[e] /\ n < MaxBytes(e)
      /\ sendNext' = [sendNext EXCEPT ![e] = n + 1] /\ UNCHANGED <<localFIN, delivered, eof>>
  BY DEF Write, MayWrite, TypeOK, finVars, recvVars
<1>2. n + 1 \in 1..(InitiatorBytes + ResponderBytes)
  BY <1>1, BoundsAssumption DEF MaxBytes
<1> HIDE DEF n
<1>3. Append(w[e], n + 1) = Bytes1(n + 1)
  BY <1>1, BytesFacts DEF n
<1>4. [x \in Endpoints |-> Bytes1(sendNext'[x])] = [w EXCEPT ![e] = Append(w[e], n + 1)]
  BY <1>1, <1>3
<1> QED
  BY <1>1, <1>2, <1>4 DEF Abstract!Write, Bytes1

\* Read returns the next bytes of the peer.
LEMMA SeenRead ==
    ASSUME TypeOK, TypeOK', DataInv, DataInv', EofInv, NEW e \in Endpoints, NEW n \in 1..Window,
           Read(e, n)
    PROVE  Abstract!Read(e)
<1> DEFINE s == delivered[e]
           t == delivered'[e]
           p == Peer(e)
           w == [x \in Endpoints |-> Bytes1(sendNext[x])]
<1>1. /\ n \in 1..Len(recv[e]) /\ UNCHANGED <<sendNext, localFIN, eof>>
      /\ delivered' = [delivered EXCEPT ![e] = s \o SubSeq(recv[e], 1, n)]
  BY DEF Read, sendVars, finVars
<1>2. /\ p \in Endpoints /\ sendNext[p] \in Nat /\ s \in Seq(Nat) /\ Len(s) \in Nat
      /\ recv[e] \in Seq(Nat) /\ delivered \in [Endpoints -> Seq(Nat)] /\ t \in Seq(Nat)
  BY DataTypes, PeerIsOther DEF TypeOK
<1>3. ~eof[e]
  BY <1>1 DEF EofInv
<1>4. Len(t) = Len(s) + n
  <2>1. 1 \in 1..(Len(recv[e]) + 1) /\ n \in 0..Len(recv[e])
    BY <1>1, <1>2
  <2>2. SubSeq(recv[e], 1, n) \in Seq(Nat) /\ Len(SubSeq(recv[e], 1, n)) = n
    BY <1>1, <1>2, <2>1, SubSeqFacts
  <2>3. t = s \o SubSeq(recv[e], 1, n)
    BY <1>1, <1>2
  <2> QED
    BY <1>2, <2>2, <2>3, ConcatFacts
<1>5. Consecutive(t, 0) /\ Len(t) <= sendNext[p]
  <2>1. /\ Consecutive(t, 0) /\ Len(t) = recvBase'[e] /\ recvNext'[e] <= sendNext'[p]
        /\ recvBase'[e] + Len(recv'[e]) = recvNext'[e]
    BY DEF DataInv, RecvShape
  <2>2. recvBase'[e] \in Nat /\ recvNext'[e] \in Nat /\ Len(recv'[e]) \in Nat
    <3>1. recvBase'[e] \in Nat /\ recvNext'[e] \in Nat /\ recv'[e] \in Seq(Nat)
      BY DEF TypeOK
    <3> QED
      BY <3>1
  <2> QED
    BY <1>1, <1>2, <2>1, <2>2
<1>6. t = SubSeq(Bytes1(sendNext[p]), 1, Len(t))
  BY <1>2, <1>5, PrefixOfBytes
<1>7. Len(Bytes1(sendNext[p])) = sendNext[p] /\ w[p] = Bytes1(sendNext[p])
  BY <1>2, BytesFacts
<1>8. Len(t) \in Len(s) + 1 .. Len(w[p])
  BY <1>1, <1>2, <1>4, <1>5, <1>7
<1>9. delivered' = [delivered EXCEPT ![e] = SubSeq(w[p], 1, Len(t))]
  <2>1. delivered' = [delivered EXCEPT ![e] = t]
    BY <1>1, <1>2
  <2> HIDE DEF t
  <2> QED
    BY <1>6, <1>7, <2>1
<1>10. UNCHANGED w
  BY <1>1
<1> QED
  BY <1>1, <1>3, <1>8, <1>9, <1>10 DEF Abstract!Read, Bytes1

\* End of stream is the end of what the peer wrote.
LEMMA SeenReadEOF ==
    ASSUME TypeOK, DataInv, NEW e \in Endpoints, ReadEOF(e)
    PROVE  Abstract!ReadEOF(e)
<1> DEFINE p == Peer(e)
           w == [x \in Endpoints |-> Bytes1(sendNext[x])]
<1>1. /\ recv[e] = <<>> /\ remoteFIN[e] /\ eof' = [eof EXCEPT ![e] = TRUE]
      /\ UNCHANGED <<sendNext, localFIN, delivered>>
  BY DEF ReadEOF, RemoteFinished, sendVars, finVars
<1>2. /\ p \in Endpoints /\ sendNext[p] \in Nat /\ delivered[e] \in Seq(Nat)
      /\ recvBase[e] \in Nat /\ recvNext[e] \in Nat
  BY DataTypes, PeerIsOther
<1>3. /\ localFIN[p] /\ recvNext[e] = sendNext[p] /\ Len(recv[e]) = 0
      /\ recvBase[e] + Len(recv[e]) = recvNext[e] /\ Len(delivered[e]) = recvBase[e]
      /\ Consecutive(delivered[e], 0)
  BY <1>1 DEF DataInv, EofIsTheEnd, RecvShape
<1>4. delivered[e] = SubSeq(Bytes1(sendNext[p]), 1, sendNext[p])
  <2>1. Len(delivered[e]) = sendNext[p]
    BY <1>2, <1>3
  <2> QED
    BY <1>2, <1>3, <2>1, PrefixOfBytes
<1>5. Bytes1(sendNext[p]) = SubSeq(Bytes1(sendNext[p]), 1, sendNext[p])
  <2>1. /\ Bytes1(sendNext[p]) \in Seq(Nat) /\ Len(Bytes1(sendNext[p])) = sendNext[p]
        /\ \A i \in 1..sendNext[p] : Bytes1(sendNext[p])[i] = i
    BY <1>2, BytesFacts
  <2>2. Consecutive(Bytes1(sendNext[p]), 0)
    BY <1>2, <2>1 DEF Consecutive
  <2>3. Len(Bytes1(sendNext[p])) <= sendNext[p]
    BY <1>2, <2>1
  <2> QED
    BY <1>2, <2>1, <2>2, <2>3, PrefixOfBytes
<1>6. delivered[e] = w[p] /\ UNCHANGED w
  BY <1>1, <1>2, <1>4, <1>5
<1> QED
  BY <1>1, <1>3, <1>6 DEF Abstract!ReadEOF, Bytes1

\* Every step of the stream is a step of the byte stream, or is not seen.
LEMMA AbstractStep ==
    ASSUME TypeOK, TypeOK', DataInv, DataInv', EofInv, [Next]_vars
    PROVE  [Abstract!Next]_Abstract!vars
<1>1. CASE UNCHANGED <<sendNext, localFIN, delivered, eof>>
  BY <1>1, Unseen
<1>2. CASE UNCHANGED appVars
  BY <1>1, <1>2 DEF appVars
<1>3. ASSUME NEW e \in Endpoints, Application(e) PROVE [Abstract!Next]_Abstract!vars
  <2>1. CASE CloseWrite(e)
    <3>1. Abstract!Finish(e)
      BY <2>1 DEF CloseWrite, Abstract!Finish, sendVars, recvVars
    <3> QED
      BY <3>1 DEF Abstract!Next
  <2>2. CASE Write(e)
    BY <2>2, SeenWrite DEF Abstract!Next
  <2>3. ASSUME NEW n \in 1..Window, Read(e, n) PROVE [Abstract!Next]_Abstract!vars
    BY <2>3, SeenRead DEF Abstract!Next
  <2>4. CASE ReadEOF(e)
    BY <2>4, SeenReadEOF DEF Abstract!Next
  <2>5. CASE Close(e) \/ Abort(e) \/ ContextDone(e)
    BY <1>2, <2>5, UnseenApplication
  <2> QED
    BY <1>3, <2>1, <2>2, <2>3, <2>4, <2>5 DEF Application
<1>4. ASSUME NEW e \in Endpoints, NEW c \in Carriers, RecvFrame(e, c)
      PROVE  [Abstract!Next]_Abstract!vars
  BY <1>1, <1>4, UnseenFrames
<1>5. CASE StartReader
  BY <1>2, <1>5 DEF StartReader, appVars, dataVars, sendVars, finVars, recvVars, remoteVars
<1>6. CASE UNCHANGED vars
  BY <1>2, <1>6 DEF vars, appVars, dataVars, sendVars, finVars, recvVars, remoteVars
<1>7. ASSUME NEW e \in Endpoints, ExpireDetached(e) \/ FailExpired(e)
      PROVE  [Abstract!Next]_Abstract!vars
  BY <1>2, <1>7 DEF ExpireDetached, FailExpired, appVars, dataVars, sendVars, finVars,
     recvVars, remoteVars
<1> QED
  BY <1>2, <1>3, <1>4, <1>5, <1>6, <1>7, UnseenCoordinator, UnseenHandshake, UnseenWriters,
     UnseenFailures DEF Next

\* The stream implements the abstract byte stream for any set of carriers and
\* any failures of them: Write, CloseWrite and Read are its steps, and nothing
\* else is seen (Conn).
THEOREM Implements == Spec => ImplementsByteStream
<1>1. Init => EofInv
  BY DEF Init, EofInv
<1>2. Init => Abstract!Init
  <2> SUFFICES ASSUME Init PROVE Abstract!Init
    OBVIOUS
  <2>1. [i \in 1..0 |-> i] = <<>>
    <3>1. Bytes1(0) \in Seq(Nat) /\ Len(Bytes1(0)) = 0
      BY BytesFacts
    <3>2. Bytes1(0) = <<>>
      BY <3>1
    <3> QED
      BY <3>2 DEF Bytes1
  <2>2. \A e \in Endpoints : sendNext[e] = 0
    BY DEF Init
  <2>3. [e \in Endpoints |-> [i \in 1..sendNext[e] |-> i]] = [e \in Endpoints |-> <<>>]
    BY <2>1, <2>2
  <2> QED
    BY <2>3 DEF Init, Abstract!Init
<1>3. TypeOK /\ DataInv /\ EofInv /\ [Next]_vars => EofInv'
  BY EofStep
<1>4. TypeOK /\ TypeOK' /\ DataInv /\ DataInv' /\ EofInv /\ [Next]_vars
        => [Abstract!Next]_Abstract!vars
  BY AbstractStep
<1> QED
  BY <1>1, <1>2, <1>3, <1>4, Invariance, PTL DEF Spec, ImplementsByteStream, Abstract!Spec

(***************************************************************************)
(* The carriers.  CarrierInv says what both endpoints and the wires know   *)
(* of each carrier, OrderInv that no wire skips a byte.                    *)
(***************************************************************************)
\* The kinds of the frames of a wire.
Kinds(s) == {s[i].kind : i \in 1..Len(s)}

\* At most one frame of a wire is of this kind.
Once(s, kind) ==
    \A i, j \in 1..Len(s) : s[i].kind = kind /\ s[j].kind = kind => i = j

\* No byte and no half-close comes before the COMMIT_ACK.
Led(s) ==
    \A i \in 1..Len(s) : s[i].kind \in {"DATA", "FIN"} =>
        \E j \in 1..(i - 1) : s[j].kind = "COMMIT_ACK"

\* A PREPARE proposes the epoch of its carrier and was sent by an initiator that
\* had committed no more than it has now.
Proposes(s, ep, com) ==
    \A i \in 1..Len(s) : s[i].kind = "PREPARE" => s[i].seq = ep /\ s[i].committed <= com

\* An endpoint that has ended holds no carrier.
EndedInv ==
    \A e \in Endpoints : ~Open(e) =>
        active[e] = None /\ prepared[e] = None /\ retained[e] = None

\* The state of a carrier is that of the slot it is in.
SlotAt(c) ==
    /\ active[I] = c => state[I][c] = "active"
    /\ active[R] = c => state[R][c] = "active"
    /\ retained[I] = c => state[I][c] = "retained"
    /\ retained[R] = c => state[R][c] = "retained"
    /\ prepared[I] = c => state[I][c] \in {"prepared", "committing"}
    /\ prepared[R] = c => state[R][c] \in {"provisional", "prepared"}

\* A carrier of which an endpoint has not begun the handshake.
FreshAt(c) ==
    /\ link[c] = "unused" =>
         /\ c \notin pending[I] /\ c \notin pending[R]
         /\ ~(op[R] = "accept" /\ opCarrier[R] = c)
         /\ state[I][c] = "none" /\ state[R][c] = "none" /\ net[c][R] = <<>>
    /\ c \in pending[I] =>
         state[I][c] = "none" /\ state[R][c] = "none" /\ net[c][R] = <<>>
    /\ c \in pending[R] =>
         state[R][c] = "none" /\ ~(op[R] = "accept" /\ opCarrier[R] = c)
    /\ op[I] = "prepare" /\ opCarrier[I] = c =>
         state[I][c] = "none" /\ epoch[c] = nextEpoch[I] + 1
    /\ op[R] = "accept" /\ opCarrier[R] = c => state[R][c] = "none"
    /\ state[R][c] = "none" => state[I][c] = "none" /\ net[c][I] = <<>>

\* The goroutines that serve a carrier.
WorkerAt(c) ==
    /\ reader[I][c] => state[I][c] \notin {"none", "provisional"}
    /\ reader[R][c] => state[R][c] \notin {"none", "provisional"}
    /\ writer[I][c] # "none" => state[I][c] \in {"active", "retained", "failed"}
    /\ writer[R][c] # "none" => state[R][c] \in {"active", "retained", "failed"}
    /\ state[I][c] \in {"active", "retained"} => writer[I][c] # "none"
    /\ state[R][c] \in {"active", "retained"} => writer[R][c] # "none"

\* A carrier that has left its slot is closed, except a retained one.
DeadAt(c) ==
    /\ state[I][c] \notin {"none", "retained"} =>
         c \in Attached(I) \/ (link[c] = "down" /\ net[c][I] = <<>>)
    /\ state[R][c] \notin {"none", "retained"} =>
         c \in Attached(R) \/ (link[c] = "down" /\ net[c][R] = <<>>)

\* The epoch of a carrier against the ones its endpoints have committed and seen:
\* what is prepared is newest, what is active is committed, what is retained is
\* older, and a PREPARE in flight proposes nothing else.
EpochAt(c) ==
    /\ state[I][c] # "none" => epoch[c] <= nextEpoch[I]
    /\ prepared[I] = c => epoch[c] = nextEpoch[I] /\ epoch[c] > committedEpoch[I]
    /\ prepared[R] = c => /\ epoch[c] = nextEpoch[R] /\ epoch[c] > committedEpoch[R]
                          /\ committedEpoch[I] = committedEpoch[R]
    /\ active[I] = c => epoch[c] = committedEpoch[I]
    /\ active[R] = c => epoch[c] = committedEpoch[R]
    /\ state[I][c] = "retained" => epoch[c] < committedEpoch[I]
    /\ state[R][c] = "retained" => epoch[c] < committedEpoch[R]
    /\ Proposes(net[c][R], epoch[c], committedEpoch[I])

\* The responder commits before the initiator does, and no two carriers the
\* initiator has prepared share an epoch.
EpochOrder ==
    /\ committedEpoch[I] <= nextEpoch[I] /\ committedEpoch[R] <= nextEpoch[R]
    /\ committedEpoch[I] <= committedEpoch[R]
    /\ \A c, d \in Carriers :
         state[I][c] # "none" /\ state[I][d] # "none" /\ c # d => epoch[c] # epoch[d]

\* A carrier the responder has committed: the initiator asked for it, holds it as
\* soon as COMMIT_ACK arrives, and the responder applies its frames until the
\* initiator has committed a newer one.
CommittedAt(c) ==
    /\ writer[R][c] # "none" =>
         /\ state[I][c] \in {"committing", "failed", "active", "retained"}
         /\ epoch[c] <= committedEpoch[R]
         /\ prepared[I] = c => epoch[c] = committedEpoch[R]
    /\ writer[I][c] # "none" => writer[R][c] = "run"
    /\ writer[R][c] = "run" /\ link[c] = "up" =>
         writer[I][c] # "none" \/ "COMMIT_ACK" \in Kinds(net[c][I])
    /\ writer[R][c] # "none" /\ link[c] = "up" /\ Open(R) =>
         active[R] = c \/ retained[R] = c \/ epoch[c] < committedEpoch[I]

\* A carrier the initiator is discarding, which the responder never committed.
Dropping(c) ==
    /\ state[I][c] \in {"prepared", "failed"} /\ writer[R][c] = "none"
    /\ prepared[I] = c => op[I] = "drop" /\ opCarrier[I] = c
    /\ "COMMIT" \notin Kinds(net[c][R])

\* What may be in flight towards the responder.
ToResponderAt(c) ==
    /\ Once(net[c][R], "COMMIT")
    /\ "COMMIT_ACK" \notin Kinds(net[c][R]) /\ "DISCARD_ACK" \notin Kinds(net[c][R])
    /\ "COMMIT" \in Kinds(net[c][R]) =>
         state[I][c] \in {"committing", "failed"} /\ writer[R][c] = "none"
    /\ "DISCARD" \in Kinds(net[c][R]) => Dropping(c)
    /\ "DATA" \in Kinds(net[c][R]) => writer[I][c] # "none"
    /\ "FIN" \in Kinds(net[c][R]) => writer[I][c] # "none"
    /\ "FINACK" \in Kinds(net[c][R]) => writer[I][c] # "none"

\* What may be in flight towards the initiator.
ToInitiatorAt(c) ==
    /\ Once(net[c][I], "COMMIT_ACK")
    /\ "COMMIT" \notin Kinds(net[c][I]) /\ "DISCARD" \notin Kinds(net[c][I])
    /\ "COMMIT_ACK" \in Kinds(net[c][I]) => writer[R][c] = "run" /\ writer[I][c] = "none"
    /\ "DISCARD_ACK" \in Kinds(net[c][I]) => Dropping(c)
    /\ "FINACK" \in Kinds(net[c][I]) => writer[I][c] # "none"
    /\ "DATA" \in Kinds(net[c][I]) \/ "FIN" \in Kinds(net[c][I]) => writer[R][c] = "run"
    /\ writer[I][c] # "none" \/ Led(net[c][I])

\* What the two endpoints and the wires between them know of every carrier.
CarrierInv ==
    /\ EndedInv /\ EpochOrder /\ CommitAgreement
    /\ \A c \in Carriers :
         /\ SlotAt(c) /\ FreshAt(c) /\ WorkerAt(c) /\ DeadAt(c) /\ EpochAt(c)
         /\ CommittedAt(c) /\ ToResponderAt(c) /\ ToInitiatorAt(c)

\* The offset behind the last byte of a DATA frame.
End(f) == f.seq + Len(f.data)

\* Applying the first k frames of a wire takes an endpoint that has received r
\* bytes to offset n, if it is not there already.
Reaches(s, k, r, n) ==
    n <= r \/ \E i \in 1..k : s[i].kind = "DATA" /\ n <= End(s[i])

\* No frame of a wire skips a byte.
InOrder(s, r) ==
    \A j \in 1..Len(s) : s[j].kind \in {"DATA", "FIN"} => Reaches(s, j - 1, r, s[j].seq)

\* Either e drops what carrier c still delivers, or its frames leave no gap, up to
\* what the peer has sent when c is the carrier the peer writes on.
OrderAt(e, c) ==
    \/ Disposition(e, c) = "ignore"
    \/ /\ InOrder(net[c][e], recvNext[e])
       /\ active[Peer(e)] = c /\ link[c] = "up" =>
            Reaches(net[c][e], Len(net[c][e]), recvNext[e], writeOffset[Peer(e)])

\* The wires of all carriers are in order.
OrderInv == \A e \in Endpoints, c \in Carriers : OrderAt(e, c)

\* A stream that has the peer's half-close is not ended by its RESET.
ResetInv == \A e \in Endpoints : terminalErr[e] = "reset" => ~remoteFIN[e]

\* What Append and Tail do to the frames of a wire.
LEMMA WireAppend ==
    ASSUME NEW s \in Seq(Frame), NEW f \in Frame
    PROVE  /\ Append(s, f) \in Seq(Frame) /\ Len(s) \in Nat
           /\ Len(Append(s, f)) = Len(s) + 1
           /\ \A i \in 1..Len(s) : Append(s, f)[i] = s[i]
           /\ Append(s, f)[Len(s) + 1] = f
OBVIOUS

\* Taking the oldest frame of a wire.
LEMMA WireTail ==
    ASSUME NEW s \in Seq(Frame), s # <<>>
    PROVE  /\ Tail(s) \in Seq(Frame) /\ Len(s) \in Nat \ {0}
           /\ Len(Tail(s)) = Len(s) - 1 /\ Head(s) = s[1]
           /\ \A i \in 1..(Len(s) - 1) : Tail(s)[i] = s[i + 1]
OBVIOUS

\* The kinds on a wire that a frame was written to.
LEMMA KindsAppend ==
    ASSUME NEW s \in Seq(Frame), NEW f \in Frame
    PROVE  Kinds(Append(s, f)) = Kinds(s) \cup {f.kind}
<1> DEFINE t == Append(s, f)
<1>1. /\ Len(s) \in Nat /\ Len(t) = Len(s) + 1
      /\ \A i \in 1..Len(s) : t[i] = s[i]
      /\ t[Len(s) + 1] = f
  BY WireAppend
<1> HIDE DEF t
<1>2. \A k \in Kinds(t) : k \in Kinds(s) \cup {f.kind}
  BY <1>1 DEF Kinds
<1>3. \A k \in Kinds(s) : k \in Kinds(t)
  BY <1>1 DEF Kinds
<1>4. f.kind \in Kinds(t)
  BY <1>1 DEF Kinds
<1> QED
  BY <1>2, <1>3, <1>4 DEF t

\* The kinds on a wire are that of the oldest frame and those of the others.
LEMMA KindsTail ==
    ASSUME NEW s \in Seq(Frame), s # <<>>
    PROVE  Kinds(s) = {Head(s).kind} \cup Kinds(Tail(s))
<1> DEFINE t == Tail(s)
<1>1. /\ Len(s) \in Nat \ {0} /\ Len(t) = Len(s) - 1 /\ Head(s) = s[1]
      /\ \A i \in 1..(Len(s) - 1) : t[i] = s[i + 1]
  BY WireTail
<1> HIDE DEF t
<1>2. \A k \in Kinds(t) : k \in Kinds(s)
  BY <1>1 DEF Kinds
<1>3. s[1].kind \in Kinds(s)
  BY <1>1 DEF Kinds
<1>4. ASSUME NEW k \in Kinds(s), k # s[1].kind PROVE k \in Kinds(t)
  <2>1. PICK i \in 1..Len(s) : k = s[i].kind
    BY DEF Kinds
  <2>2. i - 1 \in 1..Len(t) /\ t[i - 1] = s[i]
    BY <1>1, <1>4, <2>1
  <2> QED
    BY <2>1, <2>2 DEF Kinds
<1> QED
  BY <1>1, <1>2, <1>3, <1>4 DEF t

\* Nothing is on an empty wire.
LEMMA WireEmpty ==
    /\ Kinds(<<>>) = {} /\ Led(<<>>)
    /\ \A k : Once(<<>>, k)
    /\ \A ep, com : Proposes(<<>>, ep, com)
BY DEF Kinds, Led, Once, Proposes

\* A second frame of a kind is not written to a wire.
LEMMA OnceAppend ==
    ASSUME NEW s \in Seq(Frame), NEW f \in Frame, NEW k, Once(s, k),
           f.kind = k => k \notin Kinds(s)
    PROVE  Once(Append(s, f), k)
<1> DEFINE t == Append(s, f)
<1>1. /\ Len(s) \in Nat /\ Len(t) = Len(s) + 1
      /\ \A i \in 1..Len(s) : t[i] = s[i]
      /\ t[Len(s) + 1] = f
  BY WireAppend
<1> HIDE DEF t
<1>2. \A i \in 1..Len(s) : s[i].kind \in Kinds(s)
  BY DEF Kinds
<1>3. \A i \in 1..Len(t) : i \in 1..Len(s) \/ i = Len(s) + 1
  BY <1>1
<1>4. Once(t, k)
  BY <1>1, <1>2, <1>3 DEF Once
<1> QED
  BY <1>4 DEF t

\* Reading the only frame of a kind leaves none.
LEMMA OnceTail ==
    ASSUME NEW s \in Seq(Frame), s # <<>>, NEW k, Once(s, k)
    PROVE  Once(Tail(s), k) /\ (Head(s).kind = k => k \notin Kinds(Tail(s)))
<1> DEFINE t == Tail(s)
<1>1. /\ Len(s) \in Nat \ {0} /\ Len(t) = Len(s) - 1 /\ Head(s) = s[1]
      /\ \A i \in 1..(Len(s) - 1) : t[i] = s[i + 1]
  BY WireTail
<1> HIDE DEF t
<1>2. \A i \in 1..Len(t) : i + 1 \in 1..Len(s) /\ i + 1 # 1 /\ t[i] = s[i + 1]
  BY <1>1
<1>3. ASSUME NEW i \in 1..Len(t), NEW j \in 1..Len(t), t[i].kind = k, t[j].kind = k
      PROVE  i = j
  <2>1. i + 1 = j + 1
    BY <1>2, <1>3 DEF Once
  <2> QED
    BY <2>1
<1>4. ASSUME s[1].kind = k PROVE k \notin Kinds(t)
  <2> SUFFICES ASSUME NEW i \in 1..Len(t), t[i].kind = k PROVE FALSE
    BY DEF Kinds
  <2>1. 1 \in 1..Len(s)
    BY <1>1
  <2> QED
    BY <1>2, <1>4, <2>1 DEF Once
<1> QED
  BY <1>1, <1>3, <1>4 DEF Once, t

\* What is written behind the COMMIT_ACK is led by it.
LEMMA LedAppend ==
    ASSUME NEW s \in Seq(Frame), NEW f \in Frame, Led(s),
           f.kind \in {"DATA", "FIN"} => "COMMIT_ACK" \in Kinds(s)
    PROVE  Led(Append(s, f))
<1> DEFINE t == Append(s, f)
<1>1. /\ Len(s) \in Nat /\ Len(t) = Len(s) + 1
      /\ \A i \in 1..Len(s) : t[i] = s[i]
      /\ t[Len(s) + 1] = f
  BY WireAppend
<1> HIDE DEF t
<1>2. ASSUME NEW i \in 1..Len(t), t[i].kind \in {"DATA", "FIN"}
      PROVE  \E j \in 1..(i - 1) : t[j].kind = "COMMIT_ACK"
  <2>1. CASE i \in 1..Len(s)
    <3>1. PICK j \in 1..(i - 1) : s[j].kind = "COMMIT_ACK"
      BY <1>1, <1>2, <2>1 DEF Led
    <3>2. t[j] = s[j]
      BY <1>1, <2>1
    <3> QED
      BY <3>1, <3>2
  <2>2. CASE i = Len(s) + 1
    <3>1. PICK j \in 1..Len(s) : s[j].kind = "COMMIT_ACK"
      BY <1>1, <1>2, <2>2 DEF Kinds
    <3>2. t[j] = s[j] /\ j \in 1..(i - 1)
      BY <1>1, <2>2
    <3> QED
      BY <3>1, <3>2
  <2> QED
    BY <1>1, <2>1, <2>2
<1> QED
  BY <1>2 DEF Led, t

\* Reading anything but the COMMIT_ACK leaves it in front.
LEMMA LedTail ==
    ASSUME NEW s \in Seq(Frame), s # <<>>, Led(s)
    PROVE  /\ Head(s).kind \notin {"DATA", "FIN"}
           /\ Head(s).kind # "COMMIT_ACK" => Led(Tail(s))
<1> DEFINE t == Tail(s)
<1>1. /\ Len(s) \in Nat \ {0} /\ Len(t) = Len(s) - 1 /\ Head(s) = s[1]
      /\ \A i \in 1..(Len(s) - 1) : t[i] = s[i + 1]
  BY WireTail
<1> HIDE DEF t
<1>2. s[1].kind \notin {"DATA", "FIN"}
  BY <1>1 DEF Led
<1>3. ASSUME s[1].kind # "COMMIT_ACK", NEW i \in 1..Len(t), t[i].kind \in {"DATA", "FIN"}
      PROVE  \E j \in 1..(i - 1) : t[j].kind = "COMMIT_ACK"
  <2>1. i + 1 \in 1..Len(s) /\ t[i] = s[i + 1] /\ (i + 1) - 1 = i
    BY <1>1
  <2>2. PICK j \in 1..i : s[j].kind = "COMMIT_ACK"
    BY <1>3, <2>1 DEF Led
  <2>3. j # 1
    BY <1>3, <2>2
  <2>4. j - 1 \in 1..(i - 1) /\ t[j - 1] = s[j]
    BY <1>1, <2>1, <2>3
  <2> QED
    BY <2>2, <2>4
<1> QED
  BY <1>1, <1>2, <1>3 DEF Led, t

\* PREPARE is written once, and first.
LEMMA ProposesAppend ==
    ASSUME NEW s \in Seq(Frame), NEW f \in Frame, NEW ep, NEW com, Proposes(s, ep, com),
           f.kind = "PREPARE" => f.seq = ep /\ f.committed <= com
    PROVE  Proposes(Append(s, f), ep, com)
<1> DEFINE t == Append(s, f)
<1>1. /\ Len(s) \in Nat /\ Len(t) = Len(s) + 1
      /\ \A i \in 1..Len(s) : t[i] = s[i]
      /\ t[Len(s) + 1] = f
  BY WireAppend
<1> HIDE DEF t
<1>2. \A i \in 1..Len(t) : i \in 1..Len(s) \/ i = Len(s) + 1
  BY <1>1
<1>3. Proposes(t, ep, com)
  BY <1>1, <1>2 DEF Proposes
<1> QED
  BY <1>3 DEF t

\* Reading a frame leaves the other proposals, and the one that was read.
LEMMA ProposesTail ==
    ASSUME NEW s \in Seq(Frame), s # <<>>, NEW ep, NEW com, Proposes(s, ep, com)
    PROVE  /\ Proposes(Tail(s), ep, com)
           /\ Head(s).kind = "PREPARE" => Head(s).seq = ep /\ Head(s).committed <= com
<1> DEFINE t == Tail(s)
<1>1. /\ Len(s) \in Nat \ {0} /\ Len(t) = Len(s) - 1 /\ Head(s) = s[1]
      /\ \A i \in 1..(Len(s) - 1) : t[i] = s[i + 1]
  BY WireTail
<1> HIDE DEF t
<1>2. \A i \in 1..Len(t) : i + 1 \in 1..Len(s) /\ t[i] = s[i + 1]
  BY <1>1
<1>3. Proposes(t, ep, com)
  BY <1>2 DEF Proposes
<1> QED
  BY <1>1, <1>3 DEF Proposes, t

(***************************************************************************)
(* Wires, one at a time.                                                   *)
(***************************************************************************)
\* v is what becomes of the wire u when a frame is read that is not COMMIT_ACK,
\* when it is closed, or when a frame of a kind in X is written.
Mild(u, v, X) ==
    /\ Kinds(v) \subseteq Kinds(u) \cup X
    /\ Once(u, "COMMIT") => Once(v, "COMMIT")
    /\ Once(u, "COMMIT_ACK") => Once(v, "COMMIT_ACK")
    /\ Led(u) /\ (X \cap {"DATA", "FIN"} = {} \/ "COMMIT_ACK" \in Kinds(u)) => Led(v)
    /\ \A ep, com : Proposes(u, ep, com) => Proposes(v, ep, com)
    /\ "COMMIT_ACK" \in Kinds(u) => "COMMIT_ACK" \in Kinds(v) \/ v = <<>>

\* An untouched wire and a closed one.
LEMMA MildSame ==
    ASSUME NEW u, NEW X
    PROVE  Mild(u, u, X) /\ Mild(u, <<>>, X)
BY WireEmpty DEF Mild

\* A wire that was read.
LEMMA MildTail ==
    ASSUME NEW u \in Seq(Frame), u # <<>>, Head(u).kind # "COMMIT_ACK", NEW X
    PROVE  Mild(u, Tail(u), X)
<1>1. Kinds(u) = {Head(u).kind} \cup Kinds(Tail(u))
  BY KindsTail
<1>2. /\ Once(u, "COMMIT") => Once(Tail(u), "COMMIT")
      /\ Once(u, "COMMIT_ACK") => Once(Tail(u), "COMMIT_ACK")
  BY OnceTail
<1>3. Led(u) => Led(Tail(u))
  BY LedTail
<1>4. \A ep, com : Proposes(u, ep, com) => Proposes(Tail(u), ep, com)
  BY ProposesTail
<1> QED
  BY <1>1, <1>2, <1>3, <1>4 DEF Mild

\* A wire that was written to.
LEMMA MildAppend ==
    ASSUME NEW u \in Seq(Frame), NEW f \in Frame, NEW X, f.kind \in X,
           X \cap {"COMMIT", "COMMIT_ACK", "PREPARE"} = {}
    PROVE  Mild(u, Append(u, f), X)
<1>1. Kinds(Append(u, f)) = Kinds(u) \cup {f.kind}
  BY KindsAppend
<1>2. f.kind \notin {"COMMIT", "COMMIT_ACK", "PREPARE"}
  OBVIOUS
<1>3. /\ Once(u, "COMMIT") => Once(Append(u, f), "COMMIT")
      /\ Once(u, "COMMIT_ACK") => Once(Append(u, f), "COMMIT_ACK")
  BY <1>2, OnceAppend
<1>4. ASSUME Led(u), X \cap {"DATA", "FIN"} = {} \/ "COMMIT_ACK" \in Kinds(u)
      PROVE  Led(Append(u, f))
  <2>1. f.kind \in {"DATA", "FIN"} => "COMMIT_ACK" \in Kinds(u)
    BY <1>4
  <2> QED
    BY <1>4, <2>1, LedAppend
<1>5. \A ep, com : Proposes(u, ep, com) => Proposes(Append(u, f), ep, com)
  BY <1>2, ProposesAppend
<1> QED
  BY <1>1, <1>3, <1>4, <1>5 DEF Mild

\* The wire of one carrier towards one endpoint after a write.
LEMMA PushAt ==
    ASSUME NEW n \in Wires, NEW e \in Endpoints, NEW c \in Carriers, NEW f,
           NEW d \in Carriers, NEW x \in Endpoints
    PROVE  Push(n, e, c, f)[d][x] =
             IF d = c /\ x = Peer(e) /\ link[c] = "up" THEN Append(n[d][x], f) ELSE n[d][x]
BY PeerIsOther DEF Push, Wires

\* After a read.
LEMMA PopAt ==
    ASSUME NEW n \in Wires, NEW e \in Endpoints, NEW c \in Carriers,
           NEW d \in Carriers, NEW x \in Endpoints
    PROVE  Pop(n, e, c)[d][x] = IF d = c /\ x = e THEN Tail(n[d][x]) ELSE n[d][x]
BY DEF Pop, Wires

\* After conn.Close.
LEMMA CloseAt ==
    ASSUME NEW n \in Wires, NEW e \in Endpoints, NEW S,
           NEW d \in Carriers, NEW x \in Endpoints
    PROVE  /\ CloseNet(n, e, S)[d][x] = IF d \in S /\ x = e THEN <<>> ELSE n[d][x]
           /\ CloseLinks(S)[d] = IF d \in S THEN "down" ELSE link[d]
BY DEF CloseNet, CloseLinks, Wires

\* After RESET was written to a set of carriers.
LEMMA ResetAt ==
    ASSUME NEW n \in Wires, NEW e \in Endpoints, NEW S,
           NEW d \in Carriers, NEW x \in Endpoints
    PROVE  ResetNet(n, e, S)[d][x] =
             IF d \in S /\ link[d] = "up" /\ x = Peer(e)
             THEN Append(n[d][x], Header("RESET", 0, <<>>)) ELSE n[d][x]
BY PeerIsOther DEF ResetNet, Wires

(***************************************************************************)
(* Calm steps: nothing is prepared, accepted or committed.                 *)
(***************************************************************************)
\* Endpoint e closes its end of carrier d.
Shut(e, d) == link'[d] = "down" /\ net'[d][e] = <<>>

\* A carrier may only leave its slot, and is closed then.
CalmSlots(e, d) ==
    /\ link'[d] \in {link[d], "down"}
    /\ active'[e] = d => active[e] = d
    /\ prepared'[e] = d => prepared[e] = d
    /\ retained'[e] = d => retained[e] = d
    /\ active[e] = d => active'[e] = d \/ Shut(e, d)
    /\ prepared[e] = d => prepared'[e] = d \/ Shut(e, d)
    /\ retained[e] = d => retained'[e] = d \/ Shut(e, d)
    /\ \/ state'[e][d] = state[e][d]
       \/ /\ state'[e][d] = "failed" /\ state[e][d] # "none" /\ Shut(e, d)
          /\ active'[e] # d /\ prepared'[e] # d /\ retained'[e] # d

\* No reader starts but that of the prepared carrier, and no writer.
CalmWorkers(d) ==
    /\ reader'[I][d] => reader[I][d] \/ prepared[I] = d
    /\ reader'[R][d] => reader[R][d]
    /\ writer'[R][d] = writer[R][d]
    /\ writer'[I][d] = "none" <=> writer[I][d] = "none"

\* A frame that is written belongs to a carrier that is served.
CalmWires(d) ==
    /\ state[I][d] = "none" /\ net[d][R] = <<>> => net'[d][R] = <<>>
    /\ state[R][d] = "none" /\ net[d][I] = <<>> => net'[d][I] = <<>>
    /\ link[d] = "down" /\ net[d][R] = <<>> => net'[d][R] = <<>>
    /\ link[d] = "down" /\ net[d][I] = <<>> => net'[d][I] = <<>>
    /\ net'[d][I] = <<>> => net[d][I] = <<>> \/ "COMMIT_ACK" \notin Kinds(net[d][I]) \/ link'[d] = "down"
    /\ \E X \in SUBSET {"ACK", "RESET", "CONFIRM", "DATA", "FIN", "FINACK"} :
         /\ Mild(net[d][R], net'[d][R], X)
         /\ X \cap {"DATA", "FIN", "FINACK"} # {} => writer[I][d] # "none"
    /\ \E X \in SUBSET {"ACK", "RESET", "DATA", "FIN", "FINACK", "DISCARD_ACK"} :
         /\ Mild(net[d][I], net'[d][I], X)
         /\ "FINACK" \in X => writer[I][d] # "none"
         /\ X \cap {"DATA", "FIN"} # {} =>
              /\ writer[R][d] = "run"
              /\ writer[I][d] # "none" \/ "COMMIT_ACK" \in Kinds(net[d][I])
         /\ "DISCARD_ACK" \in X =>
              "DISCARD" \in Kinds(net[d][R]) \/ "DISCARD_ACK" \in Kinds(net[d][I])

\* No transition begins, and one that waits for DISCARD_ACK goes on waiting.
CalmOps ==
    /\ UNCHANGED <<nextEpoch, committedEpoch, epoch>>
    /\ \A e \in Endpoints :
         /\ pending'[e] \subseteq pending[e]
         /\ op'[e] \in {"prepare", "accept"} => op'[e] = op[e] /\ opCarrier'[e] = opCarrier[e]
         /\ Open(e)' => Open(e)
         /\ ~Open(e)' => active'[e] = None /\ prepared'[e] = None /\ retained'[e] = None
    /\ op[I] = "drop" /\ opCarrier[I] \in Carriers /\ prepared'[I] = opCarrier[I] =>
         op'[I] = "drop" /\ opCarrier'[I] = opCarrier[I]

\* A step that only serves, loses or closes the carriers there are.
Calm == CalmOps /\ \A d \in Carriers : /\ CalmSlots(I, d) /\ CalmSlots(R, d)
                                       /\ CalmWorkers(d) /\ CalmWires(d)

\* The types the carrier proofs use.
LEMMA CarrierTypes ==
    ASSUME TypeOK, NEW c \in Carriers
    PROVE  /\ c # None
           /\ net[c][I] \in Seq(Frame) /\ net[c][R] \in Seq(Frame)
           /\ state[I][c] \in CarrierStates /\ state[R][c] \in CarrierStates
           /\ epoch[c] \in Nat
           /\ committedEpoch[I] \in Nat /\ committedEpoch[R] \in Nat
           /\ nextEpoch[I] \in Nat /\ nextEpoch[R] \in Nat
           /\ link[c] \in {"unused", "up", "down"}
           /\ writer[I][c] \in {"none", "commitAck", "confirm", "run"}
           /\ writer[R][c] \in {"none", "commitAck", "confirm", "run"}
<1>1. I \in Endpoints /\ R \in Endpoints /\ c # None
  BY BothEndpoints, CarriersAssumption
<1>2. net[c][I] \in Seq(Frame) /\ net[c][R] \in Seq(Frame)
  BY <1>1 DEF TypeOK, Wires
<1>3. /\ state[I][c] \in CarrierStates /\ state[R][c] \in CarrierStates
      /\ epoch[c] \in Nat
      /\ committedEpoch[I] \in Nat /\ committedEpoch[R] \in Nat
      /\ nextEpoch[I] \in Nat /\ nextEpoch[R] \in Nat
      /\ link[c] \in {"unused", "up", "down"}
  BY <1>1 DEF TypeOK
<1>4. /\ writer[I][c] \in {"none", "commitAck", "confirm", "run"}
      /\ writer[R][c] \in {"none", "commitAck", "confirm", "run"}
  <2>1. writer \in [Endpoints -> [Carriers -> {"none", "commitAck", "confirm", "run"}]]
    BY DEF TypeOK
  <2> QED
    BY <1>1, <2>1
<1> QED
  BY <1>1, <1>2, <1>3, <1>4

\* A calm step keeps the carrier invariant.
LEMMA CalmStep ==
    ASSUME TypeOK, CarrierInv, Calm
    PROVE  CarrierInv'
<1>0. I \in Endpoints /\ R \in Endpoints /\ \A e \in Endpoints : e = I \/ e = R
  BY DEF Endpoints
<1>o. CalmOps
  BY DEF Calm
<1>1. EndedInv'
  BY <1>o DEF CalmOps, EndedInv
<1>2. ASSUME NEW d \in Carriers
      PROVE  /\ (SlotAt(d) /\ FreshAt(d) /\ WorkerAt(d) /\ DeadAt(d))'
             /\ (EpochAt(d) /\ CommittedAt(d) /\ ToResponderAt(d) /\ ToInitiatorAt(d))'
             /\ state'[I][d] # "none" => state[I][d] # "none"
             /\ state[I][d] \in {"committing", "failed"} => state'[I][d] \in {"committing", "failed"}
  <2>1. /\ SlotAt(d) /\ FreshAt(d) /\ WorkerAt(d) /\ DeadAt(d) /\ EpochAt(d)
        /\ CommittedAt(d) /\ ToResponderAt(d) /\ ToInitiatorAt(d)
    BY DEF CarrierInv
  <2>2. CalmSlots(I, d) /\ CalmSlots(R, d) /\ CalmWorkers(d) /\ CalmWires(d)
    BY DEF Calm
  <2>3. /\ UNCHANGED <<nextEpoch, committedEpoch, epoch>>
        /\ pending'[I] \subseteq pending[I] /\ pending'[R] \subseteq pending[R]
        /\ op'[I] = "prepare" => op[I] = "prepare" /\ opCarrier'[I] = opCarrier[I]
        /\ op'[R] = "accept" => op[R] = "accept" /\ opCarrier'[R] = opCarrier[R]
        /\ Open(R)' => Open(R)
        /\ op[I] = "drop" /\ opCarrier[I] = d /\ prepared'[I] = d =>
             op'[I] = "drop" /\ opCarrier'[I] = d
    BY <1>0, <1>o DEF CalmOps
  <2>4. /\ d # None
        /\ net[d][I] \in Seq(Frame) /\ net[d][R] \in Seq(Frame)
        /\ state[I][d] \in CarrierStates /\ state[R][d] \in CarrierStates
        /\ epoch[d] \in Nat
        /\ committedEpoch[I] \in Nat /\ committedEpoch[R] \in Nat
        /\ nextEpoch[I] \in Nat /\ nextEpoch[R] \in Nat
        /\ link[d] \in {"unused", "up", "down"}
    BY CarrierTypes
  <2>5. SlotAt(d)'
    BY <2>1, <2>2, <2>4 DEF SlotAt, CalmSlots
  <2>6. FreshAt(d)'
    BY <2>1, <2>2, <2>3 DEF FreshAt, CalmSlots, CalmWires
  <2>7. WorkerAt(d)'
    BY <2>1, <2>2 DEF WorkerAt, SlotAt, CalmSlots, CalmWorkers
  <2>8. DeadAt(d)'
    BY <2>1, <2>2, <2>4 DEF DeadAt, Attached, CalmSlots, CalmWires, Shut
  <2>9. EpochAt(d)'
    <3>1. Proposes(net'[d][R], epoch[d], committedEpoch[I])
      BY <2>1, <2>2 DEF EpochAt, CalmWires, Mild
    <3> QED
      BY <2>1, <2>2, <2>3, <3>1 DEF EpochAt, CalmSlots
  <2>10. CommittedAt(d)'
    <3>1. "COMMIT_ACK" \in Kinds(net[d][I]) => "COMMIT_ACK" \in Kinds(net'[d][I]) \/ link'[d] = "down"
      BY <2>2, WireEmpty DEF CalmWires, Mild
    <3> QED
      BY <2>1, <2>2, <2>3, <3>1 DEF CommittedAt, CalmSlots, CalmWorkers, Shut
  <2>11. PICK X \in SUBSET {"ACK", "RESET", "CONFIRM", "DATA", "FIN", "FINACK"} :
         /\ Mild(net[d][R], net'[d][R], X)
         /\ X \cap {"DATA", "FIN", "FINACK"} # {} => writer[I][d] # "none"
    BY <2>2 DEF CalmWires
  <2>12. Dropping(d) => Dropping(d)'
    <3>1. "COMMIT" \in Kinds(net'[d][R]) => "COMMIT" \in Kinds(net[d][R])
      BY <2>11 DEF Mild
    <3> QED
      BY <2>2, <2>3, <3>1 DEF Dropping, CalmSlots, CalmWorkers
  <2>13. ToResponderAt(d)'
    <3>1. /\ Once(net[d][R], "COMMIT") => Once(net'[d][R], "COMMIT")
          /\ Kinds(net'[d][R]) \subseteq Kinds(net[d][R]) \cup X
      BY <2>11 DEF Mild
    <3>2. writer'[R][d] = writer[R][d] /\ (writer'[I][d] = "none" <=> writer[I][d] = "none")
      BY <2>2 DEF CalmWorkers
    <3>3. \/ state'[I][d] = state[I][d] \/ state'[I][d] = "failed"
      BY <2>2 DEF CalmSlots
    <3> QED
      BY <2>1, <2>11, <2>12, <3>1, <3>2, <3>3 DEF ToResponderAt
  <2>14. ToInitiatorAt(d)'
    <3>1. PICK Y \in SUBSET {"ACK", "RESET", "DATA", "FIN", "FINACK", "DISCARD_ACK"} :
          /\ Mild(net[d][I], net'[d][I], Y)
          /\ "FINACK" \in Y => writer[I][d] # "none"
          /\ Y \cap {"DATA", "FIN"} # {} =>
               /\ writer[R][d] = "run"
               /\ writer[I][d] # "none" \/ "COMMIT_ACK" \in Kinds(net[d][I])
          /\ "DISCARD_ACK" \in Y =>
               "DISCARD" \in Kinds(net[d][R]) \/ "DISCARD_ACK" \in Kinds(net[d][I])
      BY <2>2 DEF CalmWires
    <3>2. /\ Once(net[d][I], "COMMIT_ACK") => Once(net'[d][I], "COMMIT_ACK")
          /\ Kinds(net'[d][I]) \subseteq Kinds(net[d][I]) \cup Y
      BY <3>1 DEF Mild
    <3>3. writer'[R][d] = writer[R][d] /\ (writer'[I][d] = "none" <=> writer[I][d] = "none")
      BY <2>2 DEF CalmWorkers
    <3>4. writer'[I][d] # "none" \/ Led(net'[d][I])
      BY <2>1, <3>1, <3>3 DEF ToInitiatorAt, Mild
    <3>5. "DISCARD_ACK" \in Kinds(net'[d][I]) => Dropping(d)
      BY <2>1, <3>1, <3>2 DEF ToInitiatorAt, ToResponderAt
    <3> QED
      BY <2>1, <2>12, <3>1, <3>2, <3>3, <3>4, <3>5 DEF ToInitiatorAt
  <2> QED
    BY <2>2, <2>5, <2>6, <2>7, <2>8, <2>9, <2>10, <2>13, <2>14 DEF CalmSlots
<1>3. UNCHANGED <<nextEpoch, committedEpoch, epoch>>
  BY <1>o DEF CalmOps
<1>4. EpochOrder'
  BY <1>2, <1>3 DEF EpochOrder, CarrierInv
<1>5. CommitAgreement'
  BY <1>2, <1>3 DEF CommitAgreement, CarrierInv
<1> QED
  BY <1>1, <1>2, <1>4, <1>5 DEF CarrierInv

\* The frames of kind k that may follow on carrier d towards x.
MayFollow(x, d, k) ==
    \/ k \in {"ACK", "RESET"}
    \/ x = R /\ k = "CONFIRM"
    \/ k \in {"DATA", "FIN", "FINACK"} /\ writer[I][d] # "none"
    \/ x = I /\ k \in {"DATA", "FIN"} /\ writer[R][d] = "run" /\ link[d] = "up"
    \/ x = I /\ k = "DISCARD_ACK" /\ "DISCARD" \in Kinds(net[d][R])

\* One wire after a calm step: untouched, closed, read or written.
QuietWire(x, d) ==
    \/ net'[d][x] = net[d][x]
    \/ net'[d][x] = <<>> /\ link'[d] = "down"
    \/ net[d][x] # <<>> /\ Head(net[d][x]).kind # "COMMIT_ACK" /\ net'[d][x] = Tail(net[d][x])
    \/ /\ link[d] = "up" /\ state[Peer(x)][d] # "none"
       /\ \E f \in Frame : MayFollow(x, d, f.kind) /\ net'[d][x] = Append(net[d][x], f)

\* Such wires are calm.
LEMMA WiresQuiet ==
    ASSUME TypeOK, NEW d \in Carriers, CommittedAt(d), QuietWire(I, d), QuietWire(R, d)
    PROVE  CalmWires(d)
<1>1. /\ net[d][I] \in Seq(Frame) /\ net[d][R] \in Seq(Frame) /\ Peer(I) = R /\ Peer(R) = I
  BY CarrierTypes, BothEndpoints
<1>2. /\ writer[I][d] # "none" => writer[R][d] = "run"
      /\ writer[R][d] = "run" /\ link[d] = "up" =>
         writer[I][d] # "none" \/ "COMMIT_ACK" \in Kinds(net[d][I])
  BY DEF CommittedAt
<1>3. ASSUME NEW s \in Seq(Frame), NEW f \in Frame
      PROVE  Append(s, f) # <<>>
  BY <1>3, WireAppend
<1>4. \E X \in SUBSET {"ACK", "RESET", "CONFIRM", "DATA", "FIN", "FINACK"} :
         /\ Mild(net[d][R], net'[d][R], X)
         /\ X \cap {"DATA", "FIN", "FINACK"} # {} => writer[I][d] # "none"
  <2>1. CASE net'[d][R] = net[d][R] \/ net'[d][R] = <<>>
    <3>1. Mild(net[d][R], net'[d][R], {})
      BY <2>1, MildSame
    <3> QED
      BY <3>1
  <2>2. CASE net[d][R] # <<>> /\ Head(net[d][R]).kind # "COMMIT_ACK" /\ net'[d][R] = Tail(net[d][R])
    <3>1. Mild(net[d][R], net'[d][R], {})
      BY <1>1, <2>2, MildTail
    <3> QED
      BY <3>1
  <2>3. ASSUME NEW f \in Frame, MayFollow(R, d, f.kind), net'[d][R] = Append(net[d][R], f)
        PROVE  \E X \in SUBSET {"ACK", "RESET", "CONFIRM", "DATA", "FIN", "FINACK"} :
                 /\ Mild(net[d][R], net'[d][R], X)
                 /\ X \cap {"DATA", "FIN", "FINACK"} # {} => writer[I][d] # "none"
    <3>0. I # R
      BY DEF I, R
    <3>1. /\ f.kind \in {"ACK", "RESET", "CONFIRM", "DATA", "FIN", "FINACK"}
          /\ f.kind \in {"DATA", "FIN", "FINACK"} => writer[I][d] # "none"
      BY <2>3, <3>0 DEF MayFollow
    <3>2. {f.kind} \cap {"COMMIT", "COMMIT_ACK", "PREPARE"} = {}
      BY <3>1
    <3>3. Mild(net[d][R], net'[d][R], {f.kind})
      BY <1>1, <2>3, <3>2, MildAppend
    <3> QED
      BY <3>1, <3>3
  <2> QED
    BY <2>1, <2>2, <2>3 DEF QuietWire
<1>5. \E X \in SUBSET {"ACK", "RESET", "DATA", "FIN", "FINACK", "DISCARD_ACK"} :
         /\ Mild(net[d][I], net'[d][I], X)
         /\ "FINACK" \in X => writer[I][d] # "none"
         /\ X \cap {"DATA", "FIN"} # {} =>
              /\ writer[R][d] = "run"
              /\ writer[I][d] # "none" \/ "COMMIT_ACK" \in Kinds(net[d][I])
         /\ "DISCARD_ACK" \in X =>
              "DISCARD" \in Kinds(net[d][R]) \/ "DISCARD_ACK" \in Kinds(net[d][I])
  <2>1. CASE net'[d][I] = net[d][I] \/ net'[d][I] = <<>>
    <3>1. Mild(net[d][I], net'[d][I], {})
      BY <2>1, MildSame
    <3> QED
      BY <3>1
  <2>2. CASE net[d][I] # <<>> /\ Head(net[d][I]).kind # "COMMIT_ACK" /\ net'[d][I] = Tail(net[d][I])
    <3>1. Mild(net[d][I], net'[d][I], {})
      BY <1>1, <2>2, MildTail
    <3> QED
      BY <3>1
  <2>3. ASSUME NEW f \in Frame, MayFollow(I, d, f.kind), net'[d][I] = Append(net[d][I], f)
        PROVE  \E X \in SUBSET {"ACK", "RESET", "DATA", "FIN", "FINACK", "DISCARD_ACK"} :
                 /\ Mild(net[d][I], net'[d][I], X)
                 /\ "FINACK" \in X => writer[I][d] # "none"
                 /\ X \cap {"DATA", "FIN"} # {} =>
                      /\ writer[R][d] = "run"
                      /\ writer[I][d] # "none" \/ "COMMIT_ACK" \in Kinds(net[d][I])
                 /\ "DISCARD_ACK" \in X =>
                      "DISCARD" \in Kinds(net[d][R]) \/ "DISCARD_ACK" \in Kinds(net[d][I])
    <3>0. I # R
      BY DEF I, R
    <3>1. /\ f.kind \in {"ACK", "RESET", "DATA", "FIN", "FINACK", "DISCARD_ACK"}
          /\ f.kind = "FINACK" => writer[I][d] # "none"
          /\ f.kind \in {"DATA", "FIN"} =>
                      /\ writer[R][d] = "run"
                      /\ writer[I][d] # "none" \/ "COMMIT_ACK" \in Kinds(net[d][I])
          /\ f.kind = "DISCARD_ACK" => "DISCARD" \in Kinds(net[d][R])
      BY <1>2, <2>3, <3>0 DEF MayFollow
    <3>2. {f.kind} \cap {"COMMIT", "COMMIT_ACK", "PREPARE"} = {}
      BY <3>1
    <3>3. Mild(net[d][I], net'[d][I], {f.kind})
      BY <1>1, <2>3, <3>2, MildAppend
    <3>4. {f.kind} \in SUBSET {"ACK", "RESET", "DATA", "FIN", "FINACK", "DISCARD_ACK"}
      BY <3>1
    <3>5. \A k : k \in {f.kind} <=> k = f.kind
      OBVIOUS
    <3>6. {f.kind} \cap {"DATA", "FIN"} # {} => f.kind \in {"DATA", "FIN"}
      OBVIOUS
    <3> QED
      BY <3>1, <3>3, <3>4, <3>5, <3>6
  <2> QED
    BY <2>1, <2>2, <2>3 DEF QuietWire
<1>6. /\ state[I][d] = "none" /\ net[d][R] = <<>> => net'[d][R] = <<>>
      /\ state[R][d] = "none" /\ net[d][I] = <<>> => net'[d][I] = <<>>
      /\ link[d] = "down" /\ net[d][R] = <<>> => net'[d][R] = <<>>
      /\ link[d] = "down" /\ net[d][I] = <<>> => net'[d][I] = <<>>
  BY <1>1 DEF QuietWire
<1>7. net'[d][I] = <<>> =>
        net[d][I] = <<>> \/ "COMMIT_ACK" \notin Kinds(net[d][I]) \/ link'[d] = "down"
  <2>1. CASE net[d][I] # <<>> /\ Head(net[d][I]).kind # "COMMIT_ACK" /\ net'[d][I] = Tail(net[d][I])
    BY <1>1, <2>1, KindsTail, WireEmpty
  <2>2. CASE \E f \in Frame : net'[d][I] = Append(net[d][I], f)
    BY <1>1, <1>3, <2>2
  <2> QED
    BY <2>1, <2>2 DEF QuietWire
<1> QED
  BY <1>4, <1>5, <1>6, <1>7 DEF CalmWires

\* A step that touches only wires.
LEMMA WireStep ==
    ASSUME TypeOK, CarrierInv, UNCHANGED <<controlVars, link, epoch>>,
           \A d \in Carriers : QuietWire(I, d) /\ QuietWire(R, d)
    PROVE  Calm
<1> USE DEF controlVars, slotVars, workerVars, lifeVars, opVars
<1>1. CalmOps
  BY DEF CalmOps, Open, CarrierInv, EndedInv
<1>2. ASSUME NEW d \in Carriers
      PROVE  CalmSlots(I, d) /\ CalmSlots(R, d) /\ CalmWorkers(d) /\ CalmWires(d)
  <2>1. CalmWires(d)
    BY WiresQuiet DEF CarrierInv
  <2>2. CalmSlots(I, d) /\ CalmSlots(R, d)
    BY DEF CalmSlots
  <2>3. CalmWorkers(d)
    BY DEF CalmWorkers
  <2> QED
    BY <2>1, <2>2, <2>3
<1> QED
  BY <1>1, <1>2 DEF Calm

\* A write on the active carrier (writeActive, writeAcknowledgements).
LEMMA CalmPush ==
    ASSUME TypeOK, CarrierInv, UNCHANGED <<controlVars, link, epoch>>,
           NEW e \in Endpoints, NEW c \in Carriers, active[e] = c,
           NEW f \in Frame, f.kind \in {"DATA", "FIN", "ACK"},
           f.kind # "ACK" => writer[e][c] = "run", net' = Push(net, e, c, f)
    PROVE  Calm
<1>1. net \in Wires /\ I \in Endpoints /\ R \in Endpoints /\ Peer(I) = R /\ Peer(R) = I /\ I # R
  BY BothEndpoints DEF TypeOK, I, R
<1>2. e = I \/ e = R
  BY DEF Endpoints
<1>3. state[e][c] = "active"
  BY <1>2 DEF CarrierInv, SlotAt
<1>4. ASSUME NEW d \in Carriers, NEW x \in Endpoints PROVE QuietWire(x, d)
  <2>1. net'[d][x] = IF d = c /\ x = Peer(e) /\ link[c] = "up"
                     THEN Append(net[d][x], f) ELSE net[d][x]
    BY <1>1, PushAt
  <2>2. CASE d = c /\ x = Peer(e) /\ link[c] = "up"
    <3>1. MayFollow(x, d, f.kind)
      BY <1>1, <1>2, <2>2 DEF MayFollow
    <3>2. state[Peer(x)][d] # "none" /\ net'[d][x] = Append(net[d][x], f)
      BY <1>1, <1>2, <1>3, <2>1, <2>2
    <3> QED
      BY <2>2, <3>1, <3>2 DEF QuietWire
  <2>3. CASE ~(d = c /\ x = Peer(e) /\ link[c] = "up")
    BY <2>1, <2>3 DEF QuietWire
  <2> QED
    BY <2>2, <2>3
<1> QED
  BY <1>1, <1>4, WireStep

\* What writeActive sends next, and where it goes on.
LEMMA SentData ==
    ASSUME TypeOK, DataInv, NEW e \in Endpoints, SendData(e)
    PROVE  \E data \in Seq(Nat) :
             /\ net' = Push(net, e, active[e], Header("DATA", Offset(e), data))
             /\ writeOffset' = [writeOffset EXCEPT ![e] = Offset(e) + Len(data)]
<1> DEFINE start == Offset(e) - sendBase[e]
           n == IF Len(send[e]) - start < MaximumFrame
                THEN Len(send[e]) - start ELSE MaximumFrame
           data == SubSeq(send[e], start + 1, start + n)
<1>1. /\ net' = Push(net, e, active[e], Header("DATA", Offset(e), data))
      /\ writeOffset' = [writeOffset EXCEPT ![e] = Offset(e) + n]
  BY DEF SendData
<1>2. /\ sendBase[e] \in Nat /\ sendNext[e] \in Nat /\ writeOffset[e] \in Nat
      /\ send[e] \in Seq(Nat) /\ Len(send[e]) \in Nat /\ MaximumFrame \in Nat
  BY WindowAssumption DEF TypeOK
<1>3. sendBase[e] + Len(send[e]) = sendNext[e] /\ Offset(e) < sendNext[e]
  BY DEF SendData, DataDue, DataInv, SendShape
<1>4. Offset(e) \in Nat /\ sendBase[e] <= Offset(e)
  BY <1>2 DEF Offset
<1>5. /\ start \in Nat /\ start < Len(send[e]) /\ n \in Nat /\ start + n <= Len(send[e])
  <2>1. Offset(e) < sendBase[e] + Len(send[e])
    BY <1>3
  <2> QED
    BY <1>2, <1>4, <2>1, ChunkArithmetic
<1> HIDE DEF start, n
<1> DEFINE lo == start + 1
           hi == start + n
<1>6. /\ lo \in 1..(Len(send[e]) + 1) /\ hi \in (lo - 1)..Len(send[e])
      /\ hi - lo + 1 = n /\ data = SubSeq(send[e], lo, hi)
  <2>1. data = SubSeq(send[e], lo, hi)
    OBVIOUS
  <2> HIDE DEF data
  <2>2. Len(send[e]) \in Nat
    BY <1>2
  <2> QED
    BY <1>5, <2>1, <2>2
<1> HIDE DEF lo, hi, data
<1>7. data \in Seq(Nat) /\ Len(data) = n
  BY <1>2, <1>6, SubSeqFacts
<1> QED
  BY <1>1, <1>7

\* The writers' steps are calm.
LEMMA CalmWriters ==
    ASSUME TypeOK, DataInv, CarrierInv, NEW e \in Endpoints,
           SendData(e) \/ SendFin(e) \/ SendAck(e)
    PROVE  Calm
<1>0. /\ active[e] \in Slots /\ Offset(e) \in Nat /\ sendNext[e] \in Nat /\ Acknowledged(e) \in Nat
  BY DEF TypeOK, Offset, Acknowledged
<1>1. CASE SendData(e)
  <2>1. active[e] \in Carriers /\ writer[e][active[e]] = "run"
    BY <1>0, <1>1 DEF SendData, DataDue, Writing, Slots
  <2>2. PICK data \in Seq(Nat) : net' = Push(net, e, active[e], Header("DATA", Offset(e), data))
    BY <1>1, SentData
  <2> DEFINE f == Header("DATA", Offset(e), data)
  <2>3. net' = Push(net, e, active[e], f)
    BY <2>2
  <2>4. UNCHANGED <<controlVars, link, epoch>>
    BY <1>1 DEF SendData
  <2>5. f \in Frame /\ f.kind = "DATA"
    BY <1>0, HeaderType DEF FrameKinds, Header
  <2> HIDE DEF f
  <2> QED
    BY <2>1, <2>3, <2>4, <2>5, CalmPush
<1>2. CASE SendFin(e)
  <2>1. active[e] \in Carriers /\ writer[e][active[e]] = "run"
    BY <1>0, <1>2 DEF SendFin, FinDue, Writing, Slots
  <2>2. /\ Header("FIN", sendNext[e], <<>>) \in Frame
        /\ Header("FIN", sendNext[e], <<>>).kind = "FIN"
    BY <1>0 DEF Header, Frame, FrameKinds
  <2>3. net' = Push(net, e, active[e], Header("FIN", sendNext[e], <<>>))
        /\ UNCHANGED <<controlVars, link, epoch>>
    BY <1>2 DEF SendFin
  <2> QED
    BY <2>1, <2>2, <2>3, CalmPush
<1>3. CASE SendAck(e)
  <2>1. active[e] \in Carriers
    BY <1>0, <1>3 DEF SendAck, AckDue, Slots
  <2>2. /\ Header("ACK", Acknowledged(e), <<>>) \in Frame
        /\ Header("ACK", Acknowledged(e), <<>>).kind = "ACK"
    BY <1>0 DEF Header, Frame, FrameKinds
  <2>3. net' = Push(net, e, active[e], Header("ACK", Acknowledged(e), <<>>))
        /\ UNCHANGED <<controlVars, link, epoch>>
    BY <1>3 DEF SendAck
  <2> QED
    BY <2>1, <2>2, <2>3, CalmPush
<1> QED
  BY <1>1, <1>2, <1>3

\* A read on a carrier, with or without the FINACK that answers it.
LEMMA CalmPop ==
    ASSUME TypeOK, CarrierInv, UNCHANGED <<controlVars, link, epoch>>,
           NEW e \in Endpoints, NEW c \in Carriers, net[c][e] # <<>>,
           Head(net[c][e]).kind # "COMMIT_ACK", NEW f \in Frame,
           \/ net' = Pop(net, e, c)
           \/ /\ f.kind = "FINACK" /\ writer[I][c] # "none" /\ state[e][c] # "none"
              /\ net' = Push(Pop(net, e, c), e, c, f)
    PROVE  Calm
<1>1. /\ net \in Wires /\ Pop(net, e, c) \in Wires /\ Peer(e) # e
      /\ I \in Endpoints /\ R \in Endpoints
  BY BothEndpoints, PopType, PeerIsOther DEF TypeOK
<1>2. ASSUME NEW d \in Carriers, NEW x \in Endpoints PROVE QuietWire(x, d)
  <2>0. Pop(net, e, c)[d][x] = IF d = c /\ x = e THEN Tail(net[d][x]) ELSE net[d][x]
    BY <1>1, PopAt
  <2>1. Push(Pop(net, e, c), e, c, f)[d][x] =
          IF d = c /\ x = Peer(e) /\ link[c] = "up"
          THEN Append(Pop(net, e, c)[d][x], f) ELSE Pop(net, e, c)[d][x]
    BY <1>1, PushAt
  <2>2. CASE d = c /\ x = e
    BY <1>1, <2>0, <2>1, <2>2 DEF QuietWire
  <2>3. CASE d = c /\ x = Peer(e) /\ link[c] = "up" /\ net' = Push(Pop(net, e, c), e, c, f)
    <3>1. net'[d][x] = Append(net[d][x], f)
      BY <1>1, <2>0, <2>1, <2>3
    <3>2. CASE net' = Pop(net, e, c)
      BY <1>1, <2>0, <2>3, <3>2 DEF QuietWire
    <3>3. CASE f.kind = "FINACK" /\ writer[I][c] # "none" /\ state[e][c] # "none"
      BY <2>3, <3>1, <3>3, PeerIsOther DEF QuietWire, MayFollow
    <3> QED
      BY <3>2, <3>3
  <2>4. CASE d # c \/ (x # e /\ ~(x = Peer(e) /\ link[c] = "up"))
             \/ (x # e /\ net' = Pop(net, e, c))
    BY <2>0, <2>1, <2>4 DEF QuietWire
  <2> QED
    BY <2>2, <2>3, <2>4
<1> QED
  BY <1>1, <1>2, WireStep

\* A step that moves no carrier between slots: it may close links, leave a
\* transition other than DropPrepared, and stop readers.
LEMMA CalmQuiet ==
    ASSUME TypeOK, CarrierInv, UNCHANGED <<slotVars, writer, closed, terminalErr, epoch>>,
           \A e \in Endpoints :
             /\ pending'[e] \subseteq pending[e]
             /\ op'[e] = "idle" \/ (op'[e] = op[e] /\ opCarrier'[e] = opCarrier[e]),
           op[I] = "drop" => op'[I] = "drop" /\ opCarrier'[I] = opCarrier[I],
           \A d \in Carriers :
             /\ QuietWire(I, d) /\ QuietWire(R, d) /\ link'[d] \in {link[d], "down"}
             /\ reader'[I][d] => reader[I][d] \/ prepared[I] = d
             /\ reader'[R][d] => reader[R][d]
    PROVE  Calm
<1> USE DEF slotVars
<1>1. CalmOps
  BY DEF CalmOps, Open, CarrierInv, EndedInv
<1>2. ASSUME NEW d \in Carriers
      PROVE  CalmSlots(I, d) /\ CalmSlots(R, d) /\ CalmWorkers(d) /\ CalmWires(d)
  <2>1. CalmWires(d)
    BY WiresQuiet DEF CarrierInv
  <2>2. CalmSlots(I, d) /\ CalmSlots(R, d)
    BY DEF CalmSlots
  <2>3. CalmWorkers(d)
    BY DEF CalmWorkers
  <2> QED
    BY <2>1, <2>2, <2>3
<1> QED
  BY <1>1, <1>2 DEF Calm

\* The steps of the application that end nothing.
LEMMA CalmApplication ==
    ASSUME TypeOK, CarrierInv, NEW e \in Endpoints,
           \/ Write(e) \/ (\E n \in 1..Window : Read(e, n)) \/ ReadEOF(e) \/ CloseWrite(e)
           \/ UNCHANGED vars
    PROVE  Calm
<1>1. UNCHANGED <<controlVars, link, epoch, net>>
  BY DEF Write, Read, ReadEOF, CloseWrite, vars, linkVars
<1> QED
  BY <1>1, WireStep DEF QuietWire

\* A link is closed at one end while no slot holds it there (a refused or failed
\* PrepareCarrier or AcceptCarrier).
LEMMA CalmClose ==
    ASSUME TypeOK, CarrierInv, NEW e \in Endpoints, NEW c \in Carriers,
           UNCHANGED <<slotVars, workerVars, closed, terminalErr, epoch>>,
           \A x \in Endpoints :
             /\ pending'[x] \subseteq pending[x]
             /\ op'[x] = "idle" \/ (op'[x] = op[x] /\ opCarrier'[x] = opCarrier[x]),
           op[I] = "drop" => op'[I] = "drop" /\ opCarrier'[I] = opCarrier[I],
           link' = CloseLinks({c}), net' = CloseNet(net, e, {c})
    PROVE  Calm
<1>0. net \in Wires /\ I \in Endpoints /\ R \in Endpoints
  BY BothEndpoints DEF TypeOK
<1>1. ASSUME NEW d \in Carriers, NEW x \in Endpoints
      PROVE  QuietWire(x, d) /\ link'[d] \in {link[d], "down"}
  <2>1. /\ net'[d][x] = IF d \in {c} /\ x = e THEN <<>> ELSE net[d][x]
        /\ link'[d] = IF d \in {c} THEN "down" ELSE link[d]
    BY <1>0, CloseAt
  <2> QED
    BY <2>1 DEF QuietWire
<1> QED
  BY <1>0, <1>1, CalmQuiet DEF workerVars

\* Refusals, failed handshakes, broken links, StartReader and the timer.
LEMMA CalmHandshake ==
    ASSUME TypeOK, CarrierInv, NEW c \in Carriers,
           \/ PrepareRefused(c) \/ PrepareFailed(c) \/ AcceptRefused(c)
           \/ LinkFail(c) \/ StartReader
           \/ AcceptReady(c) /\ ~(prepared[R] = c /\ state[R][c] = "provisional")
    PROVE  Calm
<1> USE DEF slotVars, workerVars, lifeVars, opVars, linkVars, controlVars
<1>0. /\ net \in Wires /\ I \in Endpoints /\ R \in Endpoints /\ I # R
      /\ op \in [Endpoints -> {"idle", "prepare", "start", "promote", "drop",
                               "accept", "ready", "emit"}]
      /\ opCarrier \in [Endpoints -> Slots] /\ pending \in [Endpoints -> SUBSET Carriers]
      /\ reader \in [Endpoints -> [Carriers -> BOOLEAN]] /\ prepared[I] \in Slots
  BY BothEndpoints DEF TypeOK, I, R
<1>1. CASE PrepareRefused(c)
  <2>1. /\ pending' = [pending EXCEPT ![I] = pending[I] \ {c}] /\ UNCHANGED <<op, opCarrier>>
        /\ link' = CloseLinks({c}) /\ net' = CloseNet(net, I, {c})
        /\ UNCHANGED <<slotVars, workerVars, closed, terminalErr, epoch>>
    BY <1>1 DEF PrepareRefused
  <2>2. \A x \in Endpoints : pending'[x] \subseteq pending[x]
    BY <1>0, <2>1
  <2> QED
    BY <1>0, <2>1, <2>2, CalmClose
<1>2. CASE PrepareFailed(c)
  <2>1. /\ op' = [op EXCEPT ![I] = "idle"] /\ opCarrier' = [opCarrier EXCEPT ![I] = None]
        /\ op[I] = "prepare" /\ pending' = pending
        /\ link' = CloseLinks({c}) /\ net' = CloseNet(net, I, {c})
        /\ UNCHANGED <<slotVars, workerVars, closed, terminalErr, epoch>>
    BY <1>2 DEF PrepareFailed, Release
  <2>2. \A x \in Endpoints : op'[x] = "idle" \/ (op'[x] = op[x] /\ opCarrier'[x] = opCarrier[x])
    BY <1>0, <2>1
  <2> QED
    BY <1>0, <2>1, <2>2, CalmClose
<1>3. CASE AcceptRefused(c)
  <2>1. /\ op' = [op EXCEPT ![R] = "idle"] /\ opCarrier' = [opCarrier EXCEPT ![R] = None]
        /\ pending' = pending
        /\ link' = CloseLinks({c}) /\ net' = CloseNet(net, R, {c})
        /\ UNCHANGED <<slotVars, workerVars, closed, terminalErr, epoch>>
    BY <1>3 DEF AcceptRefused, Release
  <2>2. /\ \A x \in Endpoints : op'[x] = "idle" \/ (op'[x] = op[x] /\ opCarrier'[x] = opCarrier[x])
        /\ op[I] = "drop" => op'[I] = "drop" /\ opCarrier'[I] = opCarrier[I]
    BY <1>0, <2>1
  <2> QED
    BY <1>0, <2>1, <2>2, CalmClose
<1>4. CASE AcceptReady(c) /\ ~(prepared[R] = c /\ state[R][c] = "provisional")
  <2>1. /\ op' = [op EXCEPT ![R] = "idle"] /\ opCarrier' = [opCarrier EXCEPT ![R] = None]
        /\ pending' = pending
        /\ link' = CloseLinks({c}) /\ net' = CloseNet(net, R, {c})
        /\ UNCHANGED <<slotVars, workerVars, closed, terminalErr, epoch>>
    BY <1>4 DEF AcceptReady, Release
  <2>2. /\ \A x \in Endpoints : op'[x] = "idle" \/ (op'[x] = op[x] /\ opCarrier'[x] = opCarrier[x])
        /\ op[I] = "drop" => op'[I] = "drop" /\ opCarrier'[I] = opCarrier[I]
    BY <1>0, <2>1
  <2> QED
    BY <1>0, <2>1, <2>2, CalmClose
<1>5. CASE LinkFail(c)
  <2>1. link' = [link EXCEPT ![c] = "down"] /\ UNCHANGED <<controlVars, net, epoch>>
    BY <1>5 DEF LinkFail
  <2>2. \A d \in Carriers : link'[d] \in {link[d], "down"}
    BY <2>1 DEF TypeOK
  <2> QED
    BY <2>1, <2>2, CalmQuiet DEF QuietWire
<1>6. CASE StartReader
  <2>1. /\ op' = [op EXCEPT ![I] = "idle"] /\ opCarrier' = [opCarrier EXCEPT ![I] = None]
        /\ op[I] = "start"
        /\ UNCHANGED <<pending, slotVars, writer, closed, terminalErr, epoch, link, net>>
    BY <1>6 DEF StartReader, Release
  <2>2. /\ \A x \in Endpoints : op'[x] = "idle" \/ (op'[x] = op[x] /\ opCarrier'[x] = opCarrier[x])
        /\ op[I] = "drop" => op'[I] = "drop" /\ opCarrier'[I] = opCarrier[I]
    BY <1>0, <2>1
  <2>3. ASSUME NEW d \in Carriers
        PROVE  /\ reader'[I][d] => reader[I][d] \/ prepared[I] = d
               /\ reader'[R][d] => reader[R][d]
    <3>1. CASE prepared[I] = None
      BY <1>6, <3>1 DEF StartReader
    <3>2. CASE prepared[I] # None
      <4>1. reader' = [reader EXCEPT ![I][prepared[I]] = TRUE] /\ prepared[I] \in Carriers
        BY <1>0, <1>6, <3>2 DEF StartReader, Slots
      <4> QED
        BY <1>0, <4>1
    <3> QED
      BY <3>1, <3>2
  <2> QED
    BY <2>1, <2>2, <2>3, CalmQuiet DEF QuietWire
<1> QED
  BY <1>1, <1>2, <1>3, <1>4, <1>5, <1>6

(***************************************************************************)
(* No legal frame is taken for a violation.                                *)
(***************************************************************************)
\* What the oldest frame of a wire says about the carrier it is on.
LEMMA HeadKind ==
    ASSUME TypeOK, NEW e \in Endpoints, NEW c \in Carriers, net[c][e] # <<>>
    PROVE  /\ Head(net[c][e]) \in Frame /\ Head(net[c][e]).kind \in Kinds(net[c][e])
           /\ Head(net[c][e]) \in InFlight(net, c, e)
<1>1. net[c][e] \in Seq(Frame) /\ net \in Wires
  BY DEF TypeOK, Wires
<1> QED
  BY <1>1, KindsTail, HeadInFlight

\* A carrier from which a bytes frame, a half-close or its answer is read is not
\* one that has yet to be committed.
LEMMA NotRejected ==
    ASSUME TypeOK, CarrierInv, NEW e \in Endpoints, NEW c \in Carriers, net[c][e] # <<>>,
           Head(net[c][e]).kind \in {"DATA", "FIN", "FINACK"}
    PROVE  Disposition(e, c) # "reject" /\ writer[I][c] # "none" /\ state[e][c] # "none"
<1> DEFINE k == Head(net[c][e]).kind
<1>1. k \in Kinds(net[c][e]) /\ net[c][e] \in Seq(Frame)
  BY HeadKind DEF TypeOK, Wires
<1>2. e = I \/ e = R
  BY DEF Endpoints
<1>3. /\ WorkerAt(c) /\ CommittedAt(c) /\ ToResponderAt(c) /\ ToInitiatorAt(c) /\ SlotAt(c)
  BY DEF CarrierInv
<1>4. writer[I][c] # "none"
  <2>1. CASE e = R
    BY <1>1, <1>3, <2>1 DEF ToResponderAt
  <2>2. CASE e = I
    <3>1. Led(net[c][I]) => Head(net[c][I]).kind \notin {"DATA", "FIN"}
      BY <1>1, <2>2, LedTail
    <3> QED
      BY <1>1, <1>3, <2>2, <3>1 DEF ToInitiatorAt
  <2> QED
    BY <1>2, <2>1, <2>2
<1>5. writer[R][c] = "run"
  BY <1>3, <1>4 DEF CommittedAt
<1>6. state[e][c] \in {"active", "retained", "failed"}
  BY <1>2, <1>3, <1>4, <1>5 DEF WorkerAt
<1> QED
  BY <1>4, <1>6 DEF Disposition

\* A carrier that still has frames to be read and is neither new nor retained is
\* in its slot.
LEMMA StillPrepared ==
    ASSUME TypeOK, CarrierInv, NEW e \in Endpoints, NEW c \in Carriers, net[c][e] # <<>>,
           reader[e][c], writer[e][c] = "none"
    PROVE  prepared[e] = c /\ state[e][c] \in {"prepared", "committing"}
<1>1. e = I \/ e = R
  BY DEF Endpoints
<1>2. WorkerAt(c) /\ SlotAt(c) /\ DeadAt(c)
  BY DEF CarrierInv
<1>3. state[e][c] \notin {"none", "provisional", "active", "retained"}
  BY <1>1, <1>2 DEF WorkerAt
<1>4. c \in Attached(e)
  BY <1>1, <1>2, <1>3 DEF DeadAt
<1> QED
  BY <1>1, <1>2, <1>3, <1>4 DEF SlotAt, Attached

\* COMMIT, COMMIT_ACK, DISCARD and DISCARD_ACK find their carrier as expected.
LEMMA ControlLawful ==
    ASSUME TypeOK, CarrierInv, NEW e \in Endpoints, NEW c \in Carriers, Readable(e, c)
    PROVE  LET k == Head(net[c][e]).kind IN
           /\ k = "COMMIT" => e = R /\ prepared[e] = c /\ state[e][c] = "prepared"
           /\ k = "COMMIT_ACK" => e = I /\ prepared[e] = c /\ state[e][c] = "committing"
           /\ k = "DISCARD" => e = R /\ prepared[e] = c /\ state[e][c] = "prepared"
           /\ k = "DISCARD_ACK" => e = I /\ prepared[e] = c /\ state[e][c] = "prepared"
<1> DEFINE k == Head(net[c][e]).kind
<1>1. net[c][e] # <<>> /\ reader[e][c]
  BY DEF Readable
<1>2. k \in Kinds(net[c][e])
  BY <1>1, HeadKind
<1>3. (e = I \/ e = R) /\ I # R
  BY DEF Endpoints, I, R
<1>4. /\ WorkerAt(c) /\ CommittedAt(c) /\ ToResponderAt(c) /\ ToInitiatorAt(c) /\ SlotAt(c)
  BY DEF CarrierInv
<1>5. writer[e][c] = "none" => prepared[e] = c /\ state[e][c] \in {"prepared", "committing"}
  BY <1>1, StillPrepared
<1>6. state[R][c] = "committing" => prepared[R] # c
  BY <1>4 DEF SlotAt
<1> HIDE DEF k
<1>7. k = "COMMIT" => e = R /\ prepared[e] = c /\ state[e][c] = "prepared"
  BY <1>2, <1>3, <1>4, <1>5, <1>6 DEF ToInitiatorAt, ToResponderAt
<1>8. k = "DISCARD" => e = R /\ prepared[e] = c /\ state[e][c] = "prepared"
  BY <1>2, <1>3, <1>4, <1>5, <1>6 DEF ToInitiatorAt, ToResponderAt, Dropping
<1>9. k = "COMMIT_ACK" => e = I /\ prepared[e] = c /\ state[e][c] = "committing"
  BY <1>2, <1>3, <1>4, <1>5 DEF ToInitiatorAt, ToResponderAt, CommittedAt
<1>10. k = "DISCARD_ACK" => e = I /\ prepared[e] = c /\ state[e][c] = "prepared"
  <2>1. k = "DISCARD_ACK" => e = I /\ state[I][c] \in {"prepared", "failed"} /\ writer[R][c] = "none"
    BY <1>2, <1>3, <1>4 DEF ToInitiatorAt, ToResponderAt, Dropping
  <2>2. writer[R][c] = "none" => writer[I][c] = "none"
    BY <1>4 DEF CommittedAt
  <2> QED
    BY <1>5, <2>1, <2>2
<1> QED
  BY <1>7, <1>8, <1>9, <1>10 DEF k

\* DATA and FIN continue what was received, within the window; ACK and FINACK
\* are of what was sent.
LEMMA DataLawful ==
    ASSUME TypeOK, DataInv, OrderInv, NEW e \in Endpoints, NEW c \in Carriers,
           net[c][e] # <<>>, Disposition(e, c) = "accept"
    PROVE  LET f == Head(net[c][e])
               end == f.seq + Len(f.data) IN
           /\ f.kind \in {"DATA", "FIN"} => f.seq <= recvNext[e]
           /\ f.kind = "DATA" => Len(recv[e]) + (end - recvNext[e]) <= Window
           /\ f.kind = "ACK" => f.seq <= sendNext[e]
           /\ f.kind = "FIN" /\ remoteFIN[e] => f.seq = remoteFINAt[e]
           /\ f.kind = "FINACK" => localFIN[e] /\ f.seq = sendNext[e]
<1> DEFINE f == Head(net[c][e])
           p == Peer(e)
           end == f.seq + Len(f.data)
<1>0. p \in Endpoints /\ Peer(p) = e
  BY PeerIsOther
<1>1. /\ f \in Frame /\ Truthful(e, f) /\ net[c][e] \in Seq(Frame)
  <2>1. f \in Frame /\ f \in InFlight(net, c, e)
    BY HeadKind
  <2> QED
    BY <2>1 DEF DataInv, FramesTruthful, TypeOK, Wires
<1>2. /\ f.seq \in Nat /\ Len(f.data) \in Nat
  <2>1. f.seq \in Nat /\ f.data \in Seq(Nat)
    BY <1>1 DEF Frame
  <2> QED
    BY <2>1
<1>3. /\ sendBase[p] \in Nat /\ sendNext[p] \in Nat /\ recvBase[p] \in Nat /\ recvNext[p] \in Nat
      /\ Len(send[p]) \in Nat /\ Len(recv[e]) \in Nat /\ recvBase[e] \in Nat /\ recvNext[e] \in Nat
      /\ sendNext[e] \in Nat /\ Window \in Nat /\ Len(recv[p]) \in Nat
  BY <1>0, DataTypes, WindowAssumption
<1>4. /\ sendBase[p] + Len(send[p]) = sendNext[p] /\ Len(send[p]) <= Window
      /\ recvBase[e] + Len(recv[e]) = recvNext[e]
      /\ recvBase[p] + Len(recv[p]) = recvNext[p] /\ recvNext[p] <= sendNext[e]
      /\ sendBase[p] <= recvBase[e]
  BY <1>0 DEF DataInv, SendShape, RecvShape, AckedWasConsumed
<1>5. f.kind \in {"DATA", "FIN"} => f.seq <= recvNext[e]
  <2>1. InOrder(net[c][e], recvNext[e])
    BY DEF OrderInv, OrderAt
  <2>2. Len(net[c][e]) \in Nat \ {0} /\ f = net[c][e][1]
    BY <1>1, WireTail
  <2>3. 1 \in 1..Len(net[c][e]) /\ 1..(1 - 1) = {}
    BY <2>2
  <2> QED
    BY <2>1, <2>2, <2>3 DEF InOrder, Reaches
<1>6. f.kind = "DATA" => Len(recv[e]) + (end - recvNext[e]) <= Window
  <2>1. f.kind = "DATA" => f.seq + Len(f.data) <= sendNext[p]
    BY <1>1 DEF Truthful
  <2>2. end \in Nat
    BY <1>2
  <2>3. f.kind = "DATA" => end <= sendNext[p]
    BY <2>1
  <2> HIDE DEF f, p, end
  <2>4. ASSUME f.kind = "DATA" PROVE Len(recv[e]) + (end - recvNext[e]) <= Window
    <3>1. end <= sendNext[p]
      BY <2>3, <2>4
    <3>2. end <= sendBase[p] + Len(send[p])
      BY <1>4, <3>1
    <3>3. /\ sendBase[p] \in Nat /\ Len(send[p]) \in Nat /\ recvBase[e] \in Nat
          /\ Len(recv[e]) \in Nat /\ Window \in Nat
      BY <1>3
    <3>4. end <= recvBase[e] + Window
      BY <1>4, <2>2, <3>2, <3>3
    <3>5. recvNext[e] = recvBase[e] + Len(recv[e])
      BY <1>4
    <3> QED
      BY <2>2, <3>3, <3>4, <3>5
  <2> QED
    BY <2>4
<1>7. f.kind = "ACK" => f.seq <= sendNext[e]
  <2>1. f.kind = "ACK" => f.seq <= recvBase[p]
    BY <1>1 DEF Truthful
  <2>2. recvBase[p] <= sendNext[e]
    BY <1>3, <1>4
  <2> HIDE DEF f, p
  <2> QED
    BY <1>2, <1>3, <2>1, <2>2
<1>8. f.kind = "FIN" /\ remoteFIN[e] => f.seq = remoteFINAt[e]
  BY <1>0, <1>1 DEF Truthful, DataInv, EofIsTheEnd
<1>9. f.kind = "FINACK" => localFIN[e] /\ f.seq = sendNext[e]
  BY <1>0, <1>1 DEF Truthful, DataInv, EofIsTheEnd
<1> QED
  BY <1>5, <1>6, <1>7, <1>8, <1>9 DEF f, p

\* The frame a reader takes is always legal (readCarrier, failFrameProtocol).
LEMMA Lawful ==
    ASSUME TypeOK, DataInv, CarrierInv, OrderInv, NEW e \in Endpoints, NEW c \in Carriers,
           Readable(e, c)
    PROVE  Violation(e, c, Head(net[c][e])) = "none"
<1> DEFINE f == Head(net[c][e])
           end == f.seq + Len(f.data)
<1>0. net[c][e] # <<>> /\ f \in Frame
  BY HeadKind DEF Readable
<1>1. ~(f.kind \in {"DATA", "FIN", "FINACK"} /\ Disposition(e, c) = "reject")
  BY <1>0, NotRejected
<1>2. /\ f.kind = "COMMIT" => prepared[e] = c /\ state[e][c] = "prepared"
      /\ f.kind = "COMMIT_ACK" => prepared[e] = c /\ state[e][c] = "committing"
      /\ f.kind = "DISCARD" => prepared[e] = c /\ state[e][c] = "prepared"
      /\ f.kind = "DISCARD_ACK" => prepared[e] = c /\ state[e][c] = "prepared"
  BY ControlLawful
<1>3. Disposition(e, c) = "accept" =>
        /\ f.kind \in {"DATA", "FIN"} => f.seq <= recvNext[e]
        /\ f.kind = "DATA" => Len(recv[e]) + (end - recvNext[e]) <= Window
        /\ f.kind = "ACK" => f.seq <= sendNext[e]
        /\ f.kind = "FIN" /\ remoteFIN[e] => f.seq = remoteFINAt[e]
        /\ f.kind = "FINACK" => localFIN[e] /\ f.seq = sendNext[e]
  BY <1>0, DataLawful
<1>4. /\ f.seq \in Nat /\ recvNext[e] \in Nat /\ sendNext[e] \in Nat /\ Len(f.data) \in Nat
      /\ Len(recv[e]) \in Nat /\ Window \in Nat
  BY <1>0, DataTypes, WindowAssumption DEF Frame
<1> HIDE DEF f
<1>41. end \in Nat
  BY <1>4
<1> HIDE DEF end
<1>42. ~(Len(recv[e]) + (end - recvNext[e]) <= Window /\ Len(recv[e]) + (end - recvNext[e]) > Window)
  BY <1>4, <1>41
<1>5. Disposition(e, c) = "accept" =>
        /\ ~(f.kind = "DATA" /\ f.seq > recvNext[e])
        /\ ~(f.kind = "DATA" /\ Len(recv[e]) + (end - recvNext[e]) > Window)
        /\ ~(f.kind = "ACK" /\ f.seq > sendNext[e])
        /\ ~(f.kind = "FIN" /\ f.seq > recvNext[e])
  <2>1. ~(f.seq <= recvNext[e] /\ f.seq > recvNext[e]) /\ ~(f.seq <= sendNext[e] /\ f.seq > sendNext[e])
    BY <1>4
  <2> QED
    BY <1>3, <1>42, <2>1
<1>6. Violation(e, c, f) = "none"
  BY <1>1, <1>2, <1>3, <1>5 DEF Violation, end
<1> QED
  BY <1>6 DEF f

(***************************************************************************)
(* The other calm steps.                                                   *)
(***************************************************************************)
\* Frames of the application.
LEMMA CalmFrames ==
    ASSUME TypeOK, CarrierInv, NEW e \in Endpoints, NEW c \in Carriers,
           \/ RecvLate(e, c) \/ RecvData(e, c) \/ RecvAck(e, c) \/ RecvFin(e, c)
           \/ RecvFinAck(e, c)
    PROVE  Calm
<1> DEFINE f == Head(net[c][e])
           reply == Header("FINACK", f.seq, <<>>)
<1>1. /\ net[c][e] # <<>> /\ f.kind \in {"DATA", "ACK", "FIN", "FINACK"}
  BY DEF RecvLate, RecvData, RecvAck, RecvFin, RecvFinAck, ReadsAs, Readable
<1>2. f \in Frame
  BY <1>1, HeadKind
<1>3. reply \in Frame /\ reply.kind = "FINACK"
  BY <1>2 DEF Header, Frame, FrameKinds
<1>4. UNCHANGED <<controlVars, link, epoch>>
  BY DEF RecvLate, RecvData, RecvAck, RecvFin, RecvFinAck
<1>5. f.kind = "FIN" => writer[I][c] # "none" /\ state[e][c] # "none"
  BY <1>1, NotRejected
<1>6. CASE RecvFin(e, c)
  <2>1. f.kind = "FIN"
    BY <1>6 DEF RecvFin, ReadsAs
  <2>2. net' = Pop(net, e, c) \/ net' = Push(Pop(net, e, c), e, c, reply)
    BY <1>6 DEF RecvFin
  <2> HIDE DEF reply
  <2> QED
    BY <1>1, <1>3, <1>4, <1>5, <2>1, <2>2, CalmPop
<1>7. CASE RecvLate(e, c) \/ RecvData(e, c) \/ RecvAck(e, c) \/ RecvFinAck(e, c)
  <2>1. net' = Pop(net, e, c)
    BY <1>7 DEF RecvLate, RecvData, RecvAck, RecvFinAck
  <2> HIDE DEF reply
  <2> QED
    BY <1>1, <1>3, <1>4, <2>1, CalmPop
<1> QED
  BY <1>6, <1>7

\* A wire of an ending endpoint before its carriers are closed: read once, or
\* with RESET behind it on the carriers it holds.
Ending(n, e) ==
    \A d \in Carriers :
        /\ \/ n[d][e] = net[d][e]
           \/ /\ net[d][e] # <<>> /\ Head(net[d][e]).kind # "COMMIT_ACK"
              /\ n[d][e] = Tail(net[d][e])
        /\ \/ n[d][Peer(e)] = net[d][Peer(e)]
           \/ /\ d \in Attached(e) /\ link[d] = "up"
              /\ n[d][Peer(e)] = Append(net[d][Peer(e)], Header("RESET", 0, <<>>))

\* An endpoint ends (Close, failTerminal).
LEMMA CalmEnd ==
    ASSUME TypeOK, CarrierInv, NEW e \in Endpoints, NEW n \in Wires, Ending(n, e),
           DetachAll(e), link' = CloseLinks(Attached(e)), net' = CloseNet(n, e, Attached(e)),
           ~Open(e)', \A x \in Endpoints : x # e => (Open(x)' <=> Open(x)),
           UNCHANGED <<epoch, writer>>,
           \A x \in Endpoints, d \in Carriers : reader'[x][d] => reader[x][d]
    PROVE  Calm
<1>0. /\ I \in Endpoints /\ R \in Endpoints /\ I # R /\ Peer(I) = R /\ Peer(R) = I
      /\ (e = I \/ e = R) /\ None \notin Carriers
      /\ Peer(e) \in Endpoints /\ Peer(e) # e
  BY BothEndpoints, PeerIsOther, CarriersAssumption DEF I, R, Endpoints
<1>1. \A x \in Endpoints :
        /\ active'[x] = IF x = e THEN None ELSE active[x]
        /\ prepared'[x] = IF x = e THEN None ELSE prepared[x]
        /\ retained'[x] = IF x = e THEN None ELSE retained[x]
  BY DEF DetachAll, TypeOK
<1>2. UNCHANGED <<state, nextEpoch, committedEpoch, pending>>
  BY DEF DetachAll
<1>3. \A x \in Endpoints : op'[x] = "idle" \/ (op'[x] = op[x] /\ opCarrier'[x] = opCarrier[x])
  <2>1. \/ op' = [op EXCEPT ![e] = "idle"] /\ opCarrier' = [opCarrier EXCEPT ![e] = None]
        \/ UNCHANGED <<op, opCarrier>>
    BY DEF DetachAll
  <2>2. DOMAIN op = Endpoints /\ DOMAIN opCarrier = Endpoints
    BY DEF TypeOK
  <2> QED
    BY <2>1, <2>2
<1>4. \A x \in Endpoints : x # e => op'[x] = op[x] /\ opCarrier'[x] = opCarrier[x]
  <2>1. \/ op' = [op EXCEPT ![e] = "idle"] /\ opCarrier' = [opCarrier EXCEPT ![e] = None]
        \/ UNCHANGED <<op, opCarrier>>
    BY DEF DetachAll
  <2>2. DOMAIN op = Endpoints /\ DOMAIN opCarrier = Endpoints
    BY DEF TypeOK
  <2> QED
    BY <2>1, <2>2
<1>5. CalmOps
  <2>1. \A x \in Endpoints : ~Open(x)' => active'[x] = None /\ prepared'[x] = None /\ retained'[x] = None
    BY <1>1 DEF CarrierInv, EndedInv
  <2>2. op[I] = "drop" /\ opCarrier[I] \in Carriers /\ prepared'[I] = opCarrier[I] =>
          op'[I] = "drop" /\ opCarrier'[I] = opCarrier[I]
    BY <1>0, <1>1, <1>4
  <2>3. \A x \in Endpoints : Open(x)' => Open(x)
    OBVIOUS
  <2> QED
    BY <1>2, <1>3, <2>1, <2>2, <2>3 DEF CalmOps
<1>6. ASSUME NEW d \in Carriers
      PROVE  CalmSlots(I, d) /\ CalmSlots(R, d) /\ CalmWorkers(d) /\ CalmWires(d)
  <2>0. d # None /\ SlotAt(d) /\ CommittedAt(d)
    BY <1>0 DEF CarrierInv
  <2>1. /\ link'[d] = IF d \in Attached(e) THEN "down" ELSE link[d]
        /\ \A x \in Endpoints : net'[d][x] = IF d \in Attached(e) /\ x = e THEN <<>> ELSE n[d][x]
    BY CloseAt
  <2>2. CalmSlots(I, d) /\ CalmSlots(R, d)
    <3> SUFFICES ASSUME NEW x \in Endpoints PROVE CalmSlots(x, d)
      BY <1>0
    <3>1. CASE x # e
      BY <1>1, <1>2, <2>1, <3>1 DEF CalmSlots
    <3>2. CASE x = e
      <4>1. d \in {active[e], prepared[e], retained[e]} => Shut(e, d)
        BY <2>0, <2>1 DEF Shut, Attached
      <4> QED
        BY <1>1, <1>2, <2>0, <2>1, <3>2, <4>1 DEF CalmSlots
    <3> QED
      BY <3>1, <3>2
  <2>3. d \in Attached(e) => state[e][d] # "none"
    BY <1>0, <2>0 DEF SlotAt, Attached
  <2>4. Header("RESET", 0, <<>>) \in Frame /\ Header("RESET", 0, <<>>).kind = "RESET"
    BY DEF Header, Frame, FrameKinds
  <2>5. QuietWire(e, d)
    BY <2>1 DEF QuietWire, Ending
  <2>6. QuietWire(Peer(e), d)
    <3>1. net'[d][Peer(e)] = n[d][Peer(e)]
      BY <1>0, <2>1
    <3>2. CASE n[d][Peer(e)] = net[d][Peer(e)]
      BY <3>1, <3>2 DEF QuietWire
    <3>3. CASE /\ d \in Attached(e) /\ link[d] = "up"
               /\ n[d][Peer(e)] = Append(net[d][Peer(e)], Header("RESET", 0, <<>>))
      BY <2>3, <2>4, <3>1, <3>3, PeerIsOther DEF QuietWire, MayFollow
    <3> QED
      BY <3>2, <3>3 DEF Ending
  <2>7. CalmWires(d)
    BY <1>0, <2>0, <2>5, <2>6, WiresQuiet
  <2>8. CalmWorkers(d)
    BY <1>0 DEF CalmWorkers
  <2> QED
    BY <2>2, <2>7, <2>8
<1> QED
  BY <1>5, <1>6 DEF Calm

\* failTerminal is calm.
LEMMA CalmFail ==
    ASSUME TypeOK, CarrierInv, NEW e \in Endpoints, NEW reason, reason # "none",
           NEW n \in Wires, Ending(n, e), FailTerminal(e, reason, n), UNCHANGED writer,
           \A x \in Endpoints, d \in Carriers : reader'[x][d] => reader[x][d]
    PROVE  Calm
<1>1. /\ DetachAll(e) /\ link' = CloseLinks(Attached(e)) /\ net' = CloseNet(n, e, Attached(e))
      /\ UNCHANGED <<closed, epoch>>
      /\ terminalErr' = [terminalErr EXCEPT ![e] = IF terminalErr[e] = "none" THEN reason
                                                   ELSE terminalErr[e]]
  BY DEF FailTerminal
<1>2. /\ ~Open(e)'
      /\ \A x \in Endpoints : x # e => (Open(x)' <=> Open(x))
  BY <1>1 DEF Open, TypeOK
<1> QED
  BY <1>1, <1>2, CalmEnd

\* Close, Abort, the owner's context, the expired timer and RESET.
LEMMA CalmEnds ==
    ASSUME TypeOK, CarrierInv, NEW e \in Endpoints,
           Close(e) \/ Abort(e) \/ ContextDone(e) \/ FailExpired(e)
    PROVE  Calm
<1>0. /\ net \in Wires /\ ResetNet(net, e, Attached(e)) \in Wires
      /\ Peer(e) \in Endpoints /\ Peer(e) # e
  BY ResetNetType, PeerIsOther DEF TypeOK
<1>1. Ending(net, e)
  BY DEF Ending
<1>2. Ending(ResetNet(net, e, Attached(e)), e)
  <2> SUFFICES ASSUME NEW d \in Carriers
               PROVE  /\ ResetNet(net, e, Attached(e))[d][e] = net[d][e]
                      /\ \/ ResetNet(net, e, Attached(e))[d][Peer(e)] = net[d][Peer(e)]
                         \/ /\ d \in Attached(e) /\ link[d] = "up"
                            /\ ResetNet(net, e, Attached(e))[d][Peer(e)] =
                                 Append(net[d][Peer(e)], Header("RESET", 0, <<>>))
    BY DEF Ending
  <2>1. ResetNet(net, e, Attached(e))[d][e] = net[d][e]
    BY <1>0, ResetAt
  <2>2. ResetNet(net, e, Attached(e))[d][Peer(e)] =
          IF d \in Attached(e) /\ link[d] = "up" /\ Peer(e) = Peer(e)
          THEN Append(net[d][Peer(e)], Header("RESET", 0, <<>>)) ELSE net[d][Peer(e)]
    BY <1>0, ResetAt
  <2> QED
    BY <2>1, <2>2
<1>3. CASE Close(e)
  <2>1. /\ DetachAll(e) /\ link' = CloseLinks(Attached(e))
        /\ net' = CloseNet(IF Graceful(e) THEN net ELSE ResetNet(net, e, Attached(e)),
                           e, Attached(e))
        /\ closed' = [closed EXCEPT ![e] = TRUE]
        /\ UNCHANGED <<terminalErr, epoch, reader, writer>>
    BY <1>3 DEF Close, workerVars
  <2>2. /\ ~Open(e)'
        /\ \A x \in Endpoints : x # e => (Open(x)' <=> Open(x))
    BY <2>1 DEF Open, TypeOK
  <2>3. CASE Graceful(e)
    BY <1>0, <1>1, <2>1, <2>2, <2>3, CalmEnd
  <2>4. CASE ~Graceful(e)
    BY <1>0, <1>2, <2>1, <2>2, <2>4, CalmEnd
  <2> QED
    BY <2>3, <2>4
<1>4. CASE Abort(e)
  BY <1>0, <1>1, <1>4, CalmFail DEF Abort, workerVars
<1>5. CASE ContextDone(e)
  BY <1>0, <1>2, <1>5, CalmFail DEF ContextDone, workerVars
<1>6. CASE FailExpired(e)
  BY <1>0, <1>1, <1>6, CalmFail DEF FailExpired, workerVars
<1> QED
  BY <1>3, <1>4, <1>5, <1>6

\* RESET is calm whether it ends the stream or only this reader.
LEMMA CalmReset ==
    ASSUME TypeOK, CarrierInv, NEW e \in Endpoints, NEW c \in Carriers, RecvReset(e, c)
    PROVE  Calm
<1>1. /\ net[c][e] # <<>> /\ Head(net[c][e]).kind = "RESET"
      /\ reader' = [reader EXCEPT ![e][c] = FALSE] /\ UNCHANGED writer
  BY DEF RecvReset, ReadsAs, Readable
<1>2. /\ net \in Wires /\ Pop(net, e, c) \in Wires /\ I \in Endpoints /\ R \in Endpoints
      /\ Peer(e) \in Endpoints /\ Peer(e) # e
  BY <1>1, PopType, BothEndpoints, PeerIsOther DEF TypeOK
<1>3. \A x \in Endpoints, d \in Carriers : reader'[x][d] => reader[x][d]
  BY <1>1 DEF TypeOK
<1>4. \A d \in Carriers, x \in Endpoints :
        Pop(net, e, c)[d][x] = IF d = c /\ x = e THEN Tail(net[d][x]) ELSE net[d][x]
  BY <1>2, PopAt
<1>5. CASE RemoteFinished(e)
  <2>1. net' = Pop(net, e, c) /\ UNCHANGED <<slotVars, opVars, lifeVars, link, epoch>>
    BY <1>5 DEF RecvReset
  <2>2. \A d \in Carriers : QuietWire(I, d) /\ QuietWire(R, d)
    BY <1>1, <1>2, <1>4, <2>1 DEF QuietWire
  <2> QED
    BY <1>1, <1>2, <1>3, <2>1, <2>2, CalmQuiet DEF opVars, lifeVars
<1>6. CASE ~RemoteFinished(e)
  <2>1. FailTerminal(e, "reset", Pop(net, e, c))
    BY <1>6 DEF RecvReset
  <2>2. Ending(Pop(net, e, c), e)
    BY <1>1, <1>2, <1>4 DEF Ending
  <2> QED
    BY <1>1, <1>2, <1>3, <2>1, <2>2, CalmFail
<1> QED
  BY <1>5, <1>6

\* The expired timer's first half touches no carrier.
LEMMA CalmExpire ==
    ASSUME TypeOK, CarrierInv, NEW e \in Endpoints, ExpireDetached(e)
    PROVE  Calm
<1>1. UNCHANGED <<slotVars, workerVars, opVars, closed, terminalErr, link, net, epoch>>
  BY DEF ExpireDetached, linkVars
<1> QED
  BY <1>1, CalmQuiet DEF QuietWire, opVars, workerVars

\* failCarrier.
LEMMA CalmFailCarrier ==
    ASSUME TypeOK, CarrierInv, NEW e \in Endpoints, NEW c \in Carriers, FailCarrier(e, c)
    PROVE  Calm
<1>0. /\ I \in Endpoints /\ R \in Endpoints /\ I # R /\ (e = I \/ e = R)
      /\ None \notin Carriers /\ net \in Wires
  BY BothEndpoints, CarriersAssumption DEF I, R, Endpoints, TypeOK
<1>1. \A x \in Endpoints :
        /\ active'[x] = IF x = e /\ active[x] = c THEN None ELSE active[x]
        /\ prepared'[x] = IF x = e /\ prepared[x] = c THEN None ELSE prepared[x]
        /\ retained'[x] = IF x = e /\ retained[x] = c THEN None ELSE retained[x]
  BY DEF FailCarrier, Successor, TypeOK
<1>2. \A x \in Endpoints, d \in Carriers :
        /\ state'[x][d] = IF x = e /\ d = c THEN "failed" ELSE state[x][d]
        /\ reader'[x][d] => reader[x][d]
  BY DEF FailCarrier, TypeOK
<1>3. /\ UNCHANGED <<nextEpoch, committedEpoch, closed, terminalErr, writer, pending, link, epoch>>
      /\ link[c] = "down" /\ c \in Attached(e) /\ net' = CloseNet(net, e, {c})
  BY DEF FailCarrier
<1>4. \A x \in Endpoints :
        \/ op'[x] \in {"idle", "emit"}
        \/ op'[x] = op[x] /\ opCarrier'[x] = opCarrier[x]
  <2>1. CASE EmitBlocks(e, c)
    <3>1. op' = [op EXCEPT ![e] = "emit"] /\ opCarrier' = [opCarrier EXCEPT ![e] = c]
      BY <2>1 DEF FailCarrier
    <3> QED
      BY <3>1 DEF TypeOK
  <2>2. CASE ~EmitBlocks(e, c) /\ e = I /\ op[I] \in {"promote", "drop"} /\ opCarrier[I] = c
    <3>1. op' = [op EXCEPT ![I] = "idle"] /\ opCarrier' = [opCarrier EXCEPT ![I] = None]
      BY <2>2 DEF FailCarrier, Release
    <3> QED
      BY <3>1 DEF TypeOK
  <2>3. CASE ~EmitBlocks(e, c) /\ ~(e = I /\ op[I] \in {"promote", "drop"} /\ opCarrier[I] = c)
    BY <2>3 DEF FailCarrier
  <2> QED
    BY <2>1, <2>2, <2>3
<1>5. /\ op[I] = "drop" => \/ op'[I] = "drop" /\ opCarrier'[I] = opCarrier[I]
                           \/ e = I /\ opCarrier[I] = c
  BY <1>0 DEF FailCarrier, Release, EmitBlocks, TypeOK
<1>6. CalmOps
  <2>1. \A x \in Endpoints : ~Open(x)' => active'[x] = None /\ prepared'[x] = None /\ retained'[x] = None
    BY <1>1, <1>3 DEF CarrierInv, EndedInv, Open
  <2>2. op[I] = "drop" /\ opCarrier[I] \in Carriers /\ prepared'[I] = opCarrier[I] =>
          op'[I] = "drop" /\ opCarrier'[I] = opCarrier[I]
    BY <1>0, <1>1, <1>5
  <2>3. \A x \in Endpoints : Open(x)' => Open(x)
    BY <1>3 DEF Open
  <2>4. \A x \in Endpoints : op'[x] \in {"prepare", "accept"} => op'[x] = op[x] /\ opCarrier'[x] = opCarrier[x]
    BY <1>4
  <2> QED
    BY <1>3, <2>1, <2>2, <2>3, <2>4 DEF CalmOps
<1>7. ASSUME NEW d \in Carriers
      PROVE  CalmSlots(I, d) /\ CalmSlots(R, d) /\ CalmWorkers(d) /\ CalmWires(d)
  <2>0. d # None /\ SlotAt(c) /\ SlotAt(d) /\ CommittedAt(d)
    BY <1>0 DEF CarrierInv
  <2>1. \A x \in Endpoints : net'[d][x] = IF d \in {c} /\ x = e THEN <<>> ELSE net[d][x]
    BY <1>0, <1>3, CloseAt
  <2>2. state[e][c] # "none"
    BY <1>0, <1>3, <2>0 DEF SlotAt, Attached
  <2>3. CalmSlots(I, d) /\ CalmSlots(R, d)
    <3> SUFFICES ASSUME NEW x \in Endpoints PROVE CalmSlots(x, d)
      BY <1>0
    <3>1. CASE x # e \/ d # c
      BY <1>1, <1>2, <1>3, <3>1, <2>0 DEF CalmSlots
    <3>2. CASE x = e /\ d = c
      <4>1. Shut(e, c)
        BY <1>3, <2>1, <3>2 DEF Shut
      <4> QED
        BY <1>1, <1>2, <1>3, <2>0, <2>2, <3>2, <4>1 DEF CalmSlots
    <3> QED
      BY <3>1, <3>2
  <2>4. \A x \in Endpoints : QuietWire(x, d)
    BY <1>3, <2>1 DEF QuietWire
  <2>5. CalmWires(d)
    BY <1>0, <2>0, <2>4, WiresQuiet
  <2>6. CalmWorkers(d)
    BY <1>0, <1>2, <1>3 DEF CalmWorkers
  <2> QED
    BY <2>3, <2>5, <2>6
<1> QED
  BY <1>6, <1>7 DEF Calm

\* A step that takes carriers out of their slots and closes them.
LEMMA CalmLeave ==
    ASSUME TypeOK, CarrierInv,
           UNCHANGED <<active, state, nextEpoch, committedEpoch, closed, terminalErr,
                       epoch, pending>>,
           \A x \in Endpoints :
             /\ prepared'[x] \in {prepared[x], None} /\ retained'[x] \in {retained[x], None}
             /\ op'[x] = "idle" \/ (op'[x] = op[x] /\ opCarrier'[x] = opCarrier[x]),
           op[I] = "drop" /\ prepared'[I] # None => op'[I] = "drop" /\ opCarrier'[I] = opCarrier[I],
           \A x \in Endpoints, d \in Carriers :
             /\ QuietWire(x, d) /\ link'[d] \in {link[d], "down"}
             /\ reader'[x][d] => reader[x][d]
             /\ prepared[x] = d => prepared'[x] = d \/ Shut(x, d)
             /\ retained[x] = d => retained'[x] = d \/ Shut(x, d),
           \A d \in Carriers : /\ writer'[R][d] = writer[R][d]
                               /\ writer'[I][d] = "none" <=> writer[I][d] = "none"
    PROVE  Calm
<1>0. /\ I \in Endpoints /\ R \in Endpoints /\ None \notin Carriers
  BY BothEndpoints, CarriersAssumption
<1>1. CalmOps
  <2>1. \A x \in Endpoints : ~Open(x)' => active'[x] = None /\ prepared'[x] = None /\ retained'[x] = None
    BY DEF CarrierInv, EndedInv, Open
  <2>2. op[I] = "drop" /\ opCarrier[I] \in Carriers /\ prepared'[I] = opCarrier[I] =>
          op'[I] = "drop" /\ opCarrier'[I] = opCarrier[I]
    BY <1>0
  <2>3. \A x \in Endpoints : Open(x)' => Open(x)
    BY DEF Open
  <2> QED
    BY <2>1, <2>2, <2>3 DEF CalmOps
<1>2. ASSUME NEW d \in Carriers
      PROVE  CalmSlots(I, d) /\ CalmSlots(R, d) /\ CalmWorkers(d) /\ CalmWires(d)
  <2>0. d # None /\ CommittedAt(d)
    BY <1>0 DEF CarrierInv
  <2>1. \A x \in Endpoints : CalmSlots(x, d)
    BY <2>0 DEF CalmSlots
  <2>2. CalmWires(d)
    BY <1>0, <2>0, WiresQuiet
  <2>3. CalmWorkers(d)
    BY <1>0 DEF CalmWorkers
  <2> QED
    BY <1>0, <2>1, <2>2, <2>3
<1> QED
  BY <1>1, <1>2 DEF Calm

\* CONFIRM is written: the carrier before the active one is retired.
LEMMA CalmConfirm ==
    ASSUME TypeOK, CarrierInv, NEW c \in Carriers, ConfirmCarrier(c)
    PROVE  Calm
<1>0. /\ I \in Endpoints /\ R \in Endpoints /\ I # R /\ Peer(I) = R /\ Peer(R) = I
      /\ None \notin Carriers /\ net \in Wires /\ epoch[c] \in Nat
  BY BothEndpoints, CarriersAssumption DEF I, R, TypeOK
<1> DEFINE f == Header("CONFIRM", epoch[c], <<>>)
<1>1. f \in Frame /\ f.kind = "CONFIRM"
  BY <1>0 DEF Header, Frame, FrameKinds
<1>2. PICK written \in BOOLEAN :
        LET old == IF written /\ active[I] = c THEN {retained[I]} \ {None} ELSE {} IN
        /\ retained' = [retained EXCEPT ![I] = IF retained[I] \in old THEN None ELSE retained[I]]
        /\ link' = CloseLinks(old)
        /\ net' = CloseNet(Push(net, I, c, f), I, old)
  BY DEF ConfirmCarrier
<1> DEFINE old == IF written /\ active[I] = c THEN {retained[I]} \ {None} ELSE {}
<1>3. /\ retained' = [retained EXCEPT ![I] = IF retained[I] \in old THEN None ELSE retained[I]]
      /\ link' = CloseLinks(old)
      /\ net' = CloseNet(Push(net, I, c, f), I, old)
  BY <1>2
<1>4. \A d \in old : d = retained[I]
  OBVIOUS
<1> HIDE DEF old, f
<1>5. /\ UNCHANGED <<active, prepared, state, nextEpoch, committedEpoch, closed, terminalErr,
                     epoch, pending, op, opCarrier, reader>>
      /\ writer[I][c] = "confirm" /\ writer' = [writer EXCEPT ![I][c] = "run"]
  BY DEF ConfirmCarrier, lifeVars, opVars
<1>6. \A d \in Carriers : /\ writer'[R][d] = writer[R][d]
                          /\ writer'[I][d] = "none" <=> writer[I][d] = "none"
  BY <1>0, <1>5 DEF TypeOK
<1>7. state[I][c] # "none"
  BY <1>5 DEF CarrierInv, WorkerAt
<1>8. Push(net, I, c, f) \in Wires
  BY <1>0, <1>1, PushType
<1>9. ASSUME NEW d \in Carriers, NEW x \in Endpoints
      PROVE  /\ QuietWire(x, d) /\ link'[d] \in {link[d], "down"}
             /\ retained[x] = d => retained'[x] = d \/ Shut(x, d)
  <2>1. /\ net'[d][x] = IF d \in old /\ x = I THEN <<>> ELSE Push(net, I, c, f)[d][x]
        /\ link'[d] = IF d \in old THEN "down" ELSE link[d]
    BY <1>3, <1>8, CloseAt, <1>0
  <2>2. Push(net, I, c, f)[d][x] =
          IF d = c /\ x = R /\ link[c] = "up" THEN Append(net[d][x], f) ELSE net[d][x]
    BY <1>0, PushAt
  <2>3. QuietWire(x, d)
    <3>1. CASE d = c /\ x = R /\ link[c] = "up"
      <4>1. MayFollow(x, d, f.kind) /\ net'[d][x] = Append(net[d][x], f) /\ state[Peer(x)][d] # "none"
        BY <1>0, <1>1, <1>7, <2>1, <2>2, <3>1 DEF MayFollow
      <4> QED
        BY <1>1, <3>1, <4>1 DEF QuietWire
    <3>2. CASE ~(d = c /\ x = R /\ link[c] = "up")
      BY <2>1, <2>2, <3>2 DEF QuietWire
    <3> QED
      BY <3>1, <3>2
  <2>4. retained[x] = d => retained'[x] = d \/ Shut(x, d)
    BY <1>0, <1>3, <1>4, <2>1 DEF Shut, TypeOK
  <2> QED
    BY <2>1, <2>3, <2>4
<1>10. \A x \in Endpoints : retained'[x] \in {retained[x], None}
  BY <1>0, <1>3 DEF TypeOK
<1> QED
  BY <1>5, <1>6, <1>9, <1>10, CalmLeave

\* CONFIRM arrives: the carrier before the active one is retired.
LEMMA CalmConfirmed ==
    ASSUME TypeOK, CarrierInv, NEW c \in Carriers, RecvConfirm(c)
    PROVE  Calm
<1>0. /\ I \in Endpoints /\ R \in Endpoints /\ I # R /\ Peer(I) = R /\ Peer(R) = I
      /\ None \notin Carriers /\ net \in Wires
  BY BothEndpoints, CarriersAssumption DEF I, R, TypeOK
<1> DEFINE old == {retained[R]} \ {None}
<1>1. /\ net[c][R] # <<>> /\ Head(net[c][R]).kind = "CONFIRM"
      /\ retained' = [retained EXCEPT ![R] = None]
      /\ link' = CloseLinks(old)
      /\ net' = CloseNet(Pop(net, R, c), R, old)
      /\ UNCHANGED <<active, prepared, state, nextEpoch, committedEpoch, closed, terminalErr,
                     epoch, pending, op, opCarrier, reader, writer>>
  BY DEF RecvConfirm, ReadsAs, Readable, lifeVars, opVars, workerVars
<1>2. \A d \in Carriers : d \in old <=> d = retained[R]
  BY <1>0
<1> HIDE DEF old
<1>3. Pop(net, R, c) \in Wires
  BY <1>0, <1>1, PopType
<1>4. ASSUME NEW d \in Carriers, NEW x \in Endpoints
      PROVE  /\ QuietWire(x, d) /\ link'[d] \in {link[d], "down"}
             /\ retained[x] = d => retained'[x] = d \/ Shut(x, d)
  <2>1. /\ net'[d][x] = IF d \in old /\ x = R THEN <<>> ELSE Pop(net, R, c)[d][x]
        /\ link'[d] = IF d \in old THEN "down" ELSE link[d]
    BY <1>0, <1>1, <1>3, CloseAt
  <2>2. Pop(net, R, c)[d][x] = IF d = c /\ x = R THEN Tail(net[d][x]) ELSE net[d][x]
    BY <1>0, PopAt
  <2>3. QuietWire(x, d)
    BY <1>1, <2>1, <2>2 DEF QuietWire
  <2>4. retained[x] = d => retained'[x] = d \/ Shut(x, d)
    BY <1>0, <1>1, <1>2, <2>1 DEF Shut, TypeOK
  <2> QED
    BY <2>1, <2>3, <2>4
<1>5. \A x \in Endpoints : retained'[x] \in {retained[x], None}
  BY <1>0, <1>1 DEF TypeOK
<1> QED
  BY <1>1, <1>4, <1>5, CalmLeave

\* DISCARD and DISCARD_ACK forget the prepared carrier.
LEMMA CalmDiscard ==
    ASSUME TypeOK, CarrierInv, NEW c \in Carriers, RecvDiscard(c) \/ RecvDiscardAck(c)
    PROVE  Calm
<1>0. /\ I \in Endpoints /\ R \in Endpoints /\ I # R /\ Peer(I) = R /\ Peer(R) = I
      /\ None \notin Carriers /\ net \in Wires /\ epoch[c] \in Nat
  BY BothEndpoints, CarriersAssumption DEF I, R, TypeOK
<1>1. CASE RecvDiscard(c)
  <2> DEFINE f == Header("DISCARD_ACK", epoch[c], <<>>)
  <2>1. f \in Frame /\ f.kind = "DISCARD_ACK"
    BY <1>0 DEF Header, Frame, FrameKinds
  <2>2. /\ Readable(R, c) /\ Head(net[c][R]).kind = "DISCARD" /\ net[c][R] # <<>>
        /\ prepared' = [prepared EXCEPT ![R] = None]
        /\ reader' = [reader EXCEPT ![R][c] = FALSE]
        /\ link' = CloseLinks({c}) /\ net' = CloseNet(Push(net, R, c, f), R, {c})
        /\ UNCHANGED <<active, retained, state, nextEpoch, committedEpoch, closed, terminalErr,
                       epoch, pending, op, opCarrier, writer>>
    BY <1>1 DEF RecvDiscard, ReadsAs, Readable, lifeVars, opVars
  <2> HIDE DEF f
  <2>3. prepared[R] = c /\ state[R][c] = "prepared" /\ "DISCARD" \in Kinds(net[c][R])
    BY <1>0, <2>2, ControlLawful, HeadKind
  <2>4. Push(net, R, c, f) \in Wires
    BY <1>0, <2>1, PushType
  <2>5. ASSUME NEW d \in Carriers, NEW x \in Endpoints
        PROVE  /\ QuietWire(x, d) /\ link'[d] \in {link[d], "down"}
               /\ prepared[x] = d => prepared'[x] = d \/ Shut(x, d)
               /\ reader'[x][d] => reader[x][d]
    <3>1. /\ net'[d][x] = IF d \in {c} /\ x = R THEN <<>> ELSE Push(net, R, c, f)[d][x]
          /\ link'[d] = IF d \in {c} THEN "down" ELSE link[d]
      BY <1>0, <2>2, <2>4, CloseAt
    <3>2. Push(net, R, c, f)[d][x] =
            IF d = c /\ x = I /\ link[c] = "up" THEN Append(net[d][x], f) ELSE net[d][x]
      BY <1>0, PushAt
    <3>3. QuietWire(x, d)
      <4>1. CASE d = c /\ x = I /\ link[c] = "up"
        <5>1. MayFollow(x, d, f.kind) /\ net'[d][x] = Append(net[d][x], f) /\ state[Peer(x)][d] # "none"
          BY <1>0, <2>1, <2>3, <3>1, <3>2, <4>1 DEF MayFollow
        <5> QED
          BY <2>1, <4>1, <5>1 DEF QuietWire
      <4>2. CASE ~(d = c /\ x = I /\ link[c] = "up")
        BY <3>1, <3>2, <4>2 DEF QuietWire
      <4> QED
        BY <4>1, <4>2
    <3>4. prepared[x] = d => prepared'[x] = d \/ Shut(x, d)
      BY <1>0, <2>2, <2>3, <3>1 DEF Shut, TypeOK
    <3>5. reader'[x][d] => reader[x][d]
      BY <1>0, <2>2 DEF TypeOK
    <3> QED
      BY <3>1, <3>3, <3>4, <3>5
  <2>6. \A x \in Endpoints : prepared'[x] \in {prepared[x], None}
    BY <1>0, <2>2 DEF TypeOK
  <2> QED
    BY <2>2, <2>5, <2>6, CalmLeave
<1>2. CASE RecvDiscardAck(c)
  <2>1. /\ Readable(I, c) /\ Head(net[c][I]).kind = "DISCARD_ACK"
        /\ prepared' = [prepared EXCEPT ![I] = None]
        /\ op' = [op EXCEPT ![I] = "idle"] /\ opCarrier' = [opCarrier EXCEPT ![I] = None]
        /\ link' = CloseLinks({c}) /\ net' = CloseNet(net, I, {c})
        /\ UNCHANGED <<active, retained, state, nextEpoch, committedEpoch, closed, terminalErr,
                       epoch, pending, reader, writer>>
    BY <1>2 DEF RecvDiscardAck, ReadsAs, Release, lifeVars, workerVars
  <2>2. prepared[I] = c
    BY <1>0, <2>1, ControlLawful
  <2>3. ASSUME NEW d \in Carriers, NEW x \in Endpoints
        PROVE  /\ QuietWire(x, d) /\ link'[d] \in {link[d], "down"}
               /\ prepared[x] = d => prepared'[x] = d \/ Shut(x, d)
    <3>1. /\ net'[d][x] = IF d \in {c} /\ x = I THEN <<>> ELSE net[d][x]
          /\ link'[d] = IF d \in {c} THEN "down" ELSE link[d]
      BY <1>0, <2>1, CloseAt
    <3> QED
      BY <1>0, <2>1, <2>2, <3>1 DEF QuietWire, Shut, TypeOK
  <2>4. \A x \in Endpoints :
          /\ prepared'[x] \in {prepared[x], None}
          /\ op'[x] = "idle" \/ (op'[x] = op[x] /\ opCarrier'[x] = opCarrier[x])
    BY <1>0, <2>1 DEF TypeOK
  <2>5. prepared'[I] = None
    BY <1>0, <2>1 DEF TypeOK
  <2> QED
    BY <2>1, <2>3, <2>4, <2>5, CalmLeave
<1> QED
  BY <1>1, <1>2

\* READY could not be written: the provisional carrier is rolled back.
LEMMA CalmReadyFailed ==
    ASSUME TypeOK, CarrierInv, NEW c \in Carriers, AcceptReadyFailed(c)
    PROVE  Calm
<1>0. /\ I \in Endpoints /\ R \in Endpoints /\ I # R
      /\ None \notin Carriers /\ net \in Wires
  BY BothEndpoints, CarriersAssumption DEF I, R, TypeOK
<1>1. /\ op' = [op EXCEPT ![R] = "idle"] /\ opCarrier' = [opCarrier EXCEPT ![R] = None]
      /\ link[c] = "down" /\ net' = [net EXCEPT ![c] = [e \in Endpoints |-> <<>>]]
      /\ UNCHANGED <<link, active, retained, nextEpoch, committedEpoch, closed, terminalErr,
                     epoch, pending, reader, writer>>
  BY DEF AcceptReadyFailed, Release, lifeVars, workerVars
<1>2. ASSUME NEW d \in Carriers, NEW x \in Endpoints
      PROVE  net'[d][x] = IF d = c THEN <<>> ELSE net[d][x]
  BY <1>0, <1>1 DEF Wires
<1>3. \A d \in Carriers, x \in Endpoints : QuietWire(x, d)
  BY <1>1, <1>2 DEF QuietWire
<1>4. /\ \A x \in Endpoints : op'[x] = "idle" \/ (op'[x] = op[x] /\ opCarrier'[x] = opCarrier[x])
      /\ op[I] = "drop" => op'[I] = "drop" /\ opCarrier'[I] = opCarrier[I]
  BY <1>0, <1>1 DEF TypeOK
<1>5. CASE prepared[R] = c /\ state[R][c] = "provisional"
  <2>1. prepared' = [prepared EXCEPT ![R] = None] /\ state' = [state EXCEPT ![R][c] = "failed"]
    BY <1>5 DEF AcceptReadyFailed
  <2>2. CalmOps
    <3>1. \A x \in Endpoints : ~Open(x)' => active'[x] = None /\ prepared'[x] = None /\ retained'[x] = None
      BY <1>1, <2>1 DEF CarrierInv, EndedInv, Open, TypeOK
    <3>2. \A x \in Endpoints : Open(x)' => Open(x)
      BY <1>1 DEF Open
    <3> QED
      BY <1>0, <1>1, <1>4, <3>1, <3>2 DEF CalmOps
  <2>3. ASSUME NEW d \in Carriers
        PROVE  CalmSlots(I, d) /\ CalmSlots(R, d) /\ CalmWorkers(d) /\ CalmWires(d)
    <3>0. d # None /\ SlotAt(d) /\ CommittedAt(d)
      BY <1>0 DEF CarrierInv
    <3>1. CalmSlots(I, d)
      BY <1>0, <1>1, <2>1 DEF CalmSlots, TypeOK
    <3>2. prepared'[R] = None /\ state'[R][d] = IF d = c THEN "failed" ELSE state[R][d]
      BY <1>0, <2>1 DEF TypeOK
    <3>3. d = c => Shut(R, d)
      BY <1>0, <1>1, <1>2 DEF Shut
    <3>4. d = c => active[R] # d /\ retained[R] # d
      BY <1>5, <3>0 DEF SlotAt
    <3>5. CalmSlots(R, d)
      BY <1>1, <1>5, <3>0, <3>2, <3>3, <3>4 DEF CalmSlots
    <3>6. CalmWires(d)
      BY <1>0, <1>3, <3>0, WiresQuiet
    <3>7. CalmWorkers(d)
      BY <1>1 DEF CalmWorkers
    <3> QED
      BY <3>1, <3>5, <3>6, <3>7
  <2> QED
    BY <2>2, <2>3 DEF Calm
<1>6. CASE ~(prepared[R] = c /\ state[R][c] = "provisional")
  <2>1. UNCHANGED <<prepared, state>>
    BY <1>6 DEF AcceptReadyFailed
  <2>2. UNCHANGED slotVars
    BY <1>1, <2>1 DEF slotVars
  <2> QED
    BY <1>0, <1>1, <1>3, <1>4, <2>2, CalmQuiet
<1> QED
  BY <1>5, <1>6

(***************************************************************************)
(* The steps that open, prepare, accept and commit carriers.               *)
(***************************************************************************)
\* All that is known of one carrier.
CarrierAt(c) ==
    /\ SlotAt(c) /\ FreshAt(c) /\ WorkerAt(c) /\ DeadAt(c) /\ EpochAt(c)
    /\ CommittedAt(c) /\ ToResponderAt(c) /\ ToInitiatorAt(c)

\* A new link is one nobody has used.
LEMMA OpenLinkStep ==
    ASSUME TypeOK, CarrierInv, NEW c \in Carriers, OpenLink(c)
    PROVE  CarrierInv'
<1>0. I \in Endpoints /\ R \in Endpoints
  BY BothEndpoints
<1>1. /\ link[c] = "unused" /\ link' = [link EXCEPT ![c] = "up"]
      /\ pending' = [e \in Endpoints |-> pending[e] \cup {c}]
      /\ UNCHANGED <<op, opCarrier, net, epoch, active, prepared, retained, state, nextEpoch,
                     committedEpoch, reader, writer, closed, terminalErr>>
  BY DEF OpenLink, slotVars, workerVars, lifeVars
<1>2. EndedInv' /\ EpochOrder' /\ CommitAgreement'
  BY <1>1 DEF CarrierInv, EndedInv, EpochOrder, CommitAgreement, Open
<1>3. ASSUME NEW d \in Carriers PROVE CarrierAt(d)'
  <2>1. CarrierAt(d)
    BY DEF CarrierInv, CarrierAt
  <2>2. /\ link'[d] = IF d = c THEN "up" ELSE link[d]
        /\ pending'[I] = pending[I] \cup {c} /\ pending'[R] = pending[R] \cup {c}
    BY <1>0, <1>1 DEF TypeOK
  <2>3. SlotAt(d)' /\ WorkerAt(d)' /\ EpochAt(d)' /\ ToResponderAt(d)' /\ ToInitiatorAt(d)'
    BY <1>1, <2>1 DEF CarrierAt, SlotAt, WorkerAt, EpochAt, ToResponderAt, ToInitiatorAt, Dropping
  <2>4. FreshAt(d)'
    BY <1>1, <2>1, <2>2 DEF CarrierAt, FreshAt
  <2>5. DeadAt(d)'
    BY <1>1, <2>1, <2>2 DEF CarrierAt, FreshAt, DeadAt, Attached
  <2>6. CommittedAt(d)'
    BY <1>1, <2>1, <2>2 DEF CarrierAt, FreshAt, WorkerAt, CommittedAt, Open
  <2> QED
    BY <2>3, <2>4, <2>5, <2>6 DEF CarrierAt
<1> QED
  BY <1>2, <1>3 DEF CarrierInv, CarrierAt

\* PREPARE proposes the next epoch on a carrier nothing was written to.
LEMMA PrepareCarrierStep ==
    ASSUME TypeOK, CarrierInv, NEW c \in Carriers, PrepareCarrier(c)
    PROVE  CarrierInv'
<1>0. /\ I \in Endpoints /\ R \in Endpoints /\ I # R /\ Peer(I) = R /\ net \in Wires
      /\ nextEpoch[I] \in Nat /\ committedEpoch[I] \in Nat /\ Acknowledged(I) \in Nat
  BY BothEndpoints DEF TypeOK, Acknowledged, I, R
<1> DEFINE f == Hello("PREPARE", nextEpoch[I] + 1, committedEpoch[I], Acknowledged(I))
<1>1. /\ c \in pending[I] /\ prepared[I] = None
      /\ pending' = [pending EXCEPT ![I] = pending[I] \ {c}]
      /\ op' = [op EXCEPT ![I] = "prepare"] /\ opCarrier' = [opCarrier EXCEPT ![I] = c]
      /\ epoch' = [epoch EXCEPT ![c] = nextEpoch[I] + 1]
      /\ net' = Push(net, I, c, f)
      /\ UNCHANGED <<link, active, prepared, retained, state, nextEpoch,
                     committedEpoch, reader, writer, closed, terminalErr>>
  BY DEF PrepareCarrier, slotVars, workerVars, lifeVars
<1>2. /\ f \in Frame /\ f.kind = "PREPARE" /\ f.seq = nextEpoch[I] + 1
      /\ f.committed = committedEpoch[I]
  BY <1>0 DEF Hello, Frame, FrameKinds
<1> HIDE DEF f
<1>3. /\ state[I][c] = "none" /\ state[R][c] = "none" /\ net[c][R] = <<>>
  BY <1>1 DEF CarrierInv, FreshAt
<1>4. \A d \in Carriers : epoch'[d] = IF d = c THEN nextEpoch[I] + 1 ELSE epoch[d]
  BY <1>1 DEF TypeOK
<1>5. EndedInv'
  BY <1>1 DEF CarrierInv, EndedInv, Open
<1>6. EpochOrder' /\ CommitAgreement'
  BY <1>1, <1>3, <1>4 DEF CarrierInv, EpochOrder, CommitAgreement
<1>7. ASSUME NEW d \in Carriers PROVE CarrierAt(d)'
  <2>1. CarrierAt(d)
    BY DEF CarrierInv, CarrierAt
  <2>2. /\ op'[I] = "prepare" /\ opCarrier'[I] = c /\ op'[R] = op[R] /\ opCarrier'[R] = opCarrier[R]
        /\ pending'[I] = pending[I] \ {c} /\ pending'[R] = pending[R]
    BY <1>0, <1>1 DEF TypeOK
  <2>3. /\ net'[d][I] = net[d][I]
        /\ net'[d][R] = IF d = c /\ R = Peer(I) /\ link[c] = "up"
                        THEN Append(net[d][R], f) ELSE net[d][R]
    BY <1>0, <1>1, PushAt
  <2>4. /\ net[d][R] \in Seq(Frame) /\ c # None /\ d # None
    BY CarrierTypes
  <2>5. /\ d # c => net'[d][R] = net[d][R]
        /\ d = c => net'[d][R] = <<>> \/ net'[d][R] = Append(<<>>, f)
    BY <1>3, <2>3
  <2>6. SlotAt(d)' /\ WorkerAt(d)' /\ DeadAt(d)'
    <3>1. SlotAt(d)' /\ WorkerAt(d)'
      BY <1>1, <2>1 DEF CarrierAt, SlotAt, WorkerAt
    <3>2. DeadAt(d)'
      BY <1>1, <1>3, <2>1, <2>3, <2>5 DEF CarrierAt, DeadAt, Attached
    <3> QED
      BY <3>1, <3>2
  <2>7. FreshAt(d)'
    BY <1>0, <1>1, <1>3, <1>4, <2>1, <2>2, <2>3, <2>5 DEF CarrierAt, FreshAt
  <2>8. ASSUME d = c
        PROVE  /\ Kinds(net'[c][R]) \subseteq {"PREPARE"} /\ Once(net'[c][R], "COMMIT")
               /\ Proposes(net'[c][R], epoch'[c], committedEpoch'[I])
    <3>1. /\ Kinds(Append(<<>>, f)) = Kinds(<<>>) \cup {f.kind}
          /\ Once(Append(<<>>, f), "COMMIT")
          /\ Proposes(Append(<<>>, f), nextEpoch[I] + 1, committedEpoch[I])
      <4>1. <<>> \in Seq(Frame) /\ f.committed <= committedEpoch[I]
        BY <1>0, <1>2
      <4> QED
        BY <1>2, <4>1, WireEmpty, KindsAppend, OnceAppend, ProposesAppend
    <3> QED
      BY <1>1, <1>2, <1>4, <2>5, <2>8, <3>1, WireEmpty
  <2>9. EpochAt(d)'
    <3>1. CASE d = c
      BY <1>1, <1>3, <2>1, <2>8, <3>1 DEF CarrierAt, EpochAt, SlotAt
    <3>2. CASE d # c
      BY <1>1, <1>4, <2>1, <2>5, <3>2 DEF CarrierAt, EpochAt
    <3> QED
      BY <3>1, <3>2
  <2>10. CommittedAt(d)'
    <3>1. CASE d = c
      BY <1>1, <1>3, <2>1, <3>1 DEF CarrierAt, WorkerAt, CommittedAt
    <3>2. CASE d # c
      BY <1>1, <1>4, <2>1, <2>3, <3>2 DEF CarrierAt, CommittedAt, Open
    <3> QED
      BY <3>1, <3>2
  <2>11. ToResponderAt(d)' /\ ToInitiatorAt(d)'
    <3>1. CASE d = c
      <4>1. ToResponderAt(d)'
        BY <2>8, <3>1 DEF ToResponderAt
      <4>2. "DISCARD_ACK" \notin Kinds(net[c][I])
        BY <1>3, <2>1, <3>1 DEF CarrierAt, ToInitiatorAt, Dropping
      <4> QED
        BY <1>1, <2>1, <2>3, <3>1, <4>1, <4>2 DEF CarrierAt, ToInitiatorAt
    <3>2. CASE d # c
      <4>1. Dropping(d) => Dropping(d)'
        BY <1>1, <2>3, <2>4, <2>5, <3>2 DEF Dropping
      <4> QED
        BY <1>1, <2>1, <2>3, <2>5, <3>2, <4>1 DEF CarrierAt, ToResponderAt, ToInitiatorAt
    <3> QED
      BY <3>1, <3>2
  <2> QED
    BY <2>6, <2>7, <2>9, <2>10, <2>11 DEF CarrierAt
<1> QED
  BY <1>5, <1>6, <1>7 DEF CarrierInv, CarrierAt

\* AcceptCarrier takes a new link.
LEMMA AcceptCarrierStep ==
    ASSUME TypeOK, CarrierInv, NEW c \in Carriers, AcceptCarrier(c)
    PROVE  CarrierInv'
<1>0. /\ I \in Endpoints /\ R \in Endpoints /\ I # R
  BY BothEndpoints DEF I, R
<1>1. /\ c \in pending[R] /\ pending' = [pending EXCEPT ![R] = pending[R] \ {c}]
      /\ op' = [op EXCEPT ![R] = "accept"] /\ opCarrier' = [opCarrier EXCEPT ![R] = c]
      /\ UNCHANGED <<link, net, epoch, active, prepared, retained, state, nextEpoch,
                     committedEpoch, reader, writer, closed, terminalErr>>
  BY DEF AcceptCarrier, slotVars, workerVars, lifeVars, linkVars
<1>2. EndedInv' /\ EpochOrder' /\ CommitAgreement'
  BY <1>1 DEF CarrierInv, EndedInv, EpochOrder, CommitAgreement, Open
<1>3. state[R][c] = "none" /\ link[c] # "unused"
  BY <1>1 DEF CarrierInv, FreshAt
<1>4. ASSUME NEW d \in Carriers PROVE CarrierAt(d)'
  <2>1. CarrierAt(d)
    BY DEF CarrierInv, CarrierAt
  <2>2. /\ op'[I] = op[I] /\ opCarrier'[I] = opCarrier[I] /\ op'[R] = "accept" /\ opCarrier'[R] = c
        /\ pending'[I] = pending[I] /\ pending'[R] = pending[R] \ {c}
    BY <1>0, <1>1 DEF TypeOK
  <2>3. /\ SlotAt(d)' /\ WorkerAt(d)' /\ DeadAt(d)' /\ EpochAt(d)'
    BY <1>1, <2>1 DEF CarrierAt, SlotAt, WorkerAt, DeadAt, EpochAt, Attached
  <2>4. CommittedAt(d)' /\ ToResponderAt(d)' /\ ToInitiatorAt(d)'
    BY <1>1, <2>1, <2>2 DEF CarrierAt, CommittedAt, ToResponderAt, ToInitiatorAt, Dropping, Open
  <2>5. FreshAt(d)'
    BY <1>1, <1>3, <2>1, <2>2 DEF CarrierAt, FreshAt
  <2> QED
    BY <2>3, <2>4, <2>5 DEF CarrierAt
<1> QED
  BY <1>2, <1>4 DEF CarrierInv, CarrierAt

\* READY was written and the carrier is prepared at the responder.
LEMMA AcceptReadyStep ==
    ASSUME TypeOK, CarrierInv, NEW c \in Carriers, AcceptReady(c),
           prepared[R] = c, state[R][c] = "provisional"
    PROVE  CarrierInv'
<1>0. /\ I \in Endpoints /\ R \in Endpoints /\ I # R
  BY BothEndpoints DEF I, R
<1>1. /\ op' = [op EXCEPT ![R] = "idle"] /\ opCarrier' = [opCarrier EXCEPT ![R] = None]
      /\ state' = [state EXCEPT ![R][c] = "prepared"]
      /\ reader' = [reader EXCEPT ![R][c] = TRUE]
      /\ UNCHANGED <<link, net, epoch, active, prepared, retained, nextEpoch, pending,
                     committedEpoch, writer, closed, terminalErr>>
  BY DEF AcceptReady, lifeVars, Release
<1>2. \A d \in Carriers : /\ state'[I][d] = state[I][d]
                          /\ state'[R][d] = IF d = c THEN "prepared" ELSE state[R][d]
                          /\ reader'[I][d] = reader[I][d]
                          /\ d # c => reader'[R][d] = reader[R][d]
  BY <1>0, <1>1 DEF TypeOK
<1>3. EndedInv' /\ EpochOrder' /\ CommitAgreement'
  BY <1>1, <1>2 DEF CarrierInv, EndedInv, EpochOrder, CommitAgreement, Open
<1>4. ASSUME NEW d \in Carriers PROVE CarrierAt(d)'
  <2>1. CarrierAt(d)
    BY DEF CarrierInv, CarrierAt
  <2>2. op'[I] = op[I] /\ opCarrier'[I] = opCarrier[I] /\ op'[R] = "idle"
    BY <1>0, <1>1 DEF TypeOK
  <2>3. SlotAt(d)'
    BY <1>1, <1>2, <2>1 DEF CarrierAt, SlotAt
  <2>4. WorkerAt(d)'
    <3>1. CASE d = c
      <4>1. WorkerAt(c)
        BY <2>1, <3>1 DEF CarrierAt
      <4>2. /\ state'[R][c] = "prepared" /\ state'[I][c] = state[I][c]
            /\ reader'[I][c] = reader[I][c] /\ writer' = writer /\ state[R][c] = "provisional"
        BY <1>1, <1>2
      <4>3. WorkerAt(c)'
        BY <4>1, <4>2 DEF WorkerAt
      <4> QED
        BY <3>1, <4>3
    <3>2. CASE d # c
      BY <1>1, <1>2, <2>1, <3>2 DEF CarrierAt, WorkerAt
    <3> QED
      BY <3>1, <3>2
  <2>5. EpochAt(d)'
    BY <1>1, <1>2, <2>1 DEF CarrierAt, EpochAt
  <2>6. DeadAt(d)'
    BY <1>1, <1>2, <2>1 DEF CarrierAt, DeadAt, Attached
  <2>7. CommittedAt(d)' /\ ToResponderAt(d)' /\ ToInitiatorAt(d)'
    BY <1>1, <1>2, <2>1, <2>2 DEF CarrierAt, CommittedAt, ToResponderAt, ToInitiatorAt, Dropping, Open
  <2>8. FreshAt(d)'
    BY <1>1, <1>2, <2>1, <2>2 DEF CarrierAt, FreshAt
  <2> QED
    BY <2>3, <2>4, <2>5, <2>6, <2>7, <2>8 DEF CarrierAt
<1> QED
  BY <1>3, <1>4 DEF CarrierInv, CarrierAt

\* A step that is about other carriers.
LEMMA Bystander ==
    ASSUME TypeOK, TypeOK', NEW d \in Carriers, CarrierAt(d),
           committedEpoch' = committedEpoch, closed' = closed, terminalErr' = terminalErr,
           link'[d] = link[d], net'[d][I] = net[d][I], net'[d][R] = net[d][R], epoch'[d] = epoch[d],
           \A e \in Endpoints :
             /\ state'[e][d] = state[e][d]
             /\ reader'[e][d] = reader[e][d] /\ writer'[e][d] = writer[e][d]
             /\ active'[e] = d <=> active[e] = d
             /\ prepared'[e] = d <=> prepared[e] = d
             /\ retained'[e] = d <=> retained[e] = d
             /\ d \in pending'[e] <=> d \in pending[e]
             /\ nextEpoch[e] <= nextEpoch'[e]
             /\ prepared[e] = d => nextEpoch'[e] = nextEpoch[e]
             /\ opCarrier[e] = d => op'[e] = op[e] /\ opCarrier'[e] = d /\ nextEpoch'[e] = nextEpoch[e]
             /\ opCarrier'[e] = d => opCarrier[e] = d
    PROVE  CarrierAt(d)'
<1>0. I \in Endpoints /\ R \in Endpoints /\ d # None
  BY BothEndpoints, CarriersAssumption
<1>1. /\ SlotAt(d) /\ FreshAt(d) /\ WorkerAt(d) /\ DeadAt(d) /\ EpochAt(d)
      /\ CommittedAt(d) /\ ToResponderAt(d) /\ ToInitiatorAt(d)
  BY DEF CarrierAt
<1>2. SlotAt(d)' /\ WorkerAt(d)'
  BY <1>0, <1>1 DEF SlotAt, WorkerAt
<1>3. FreshAt(d)'
  BY <1>0, <1>1 DEF FreshAt
<1>4. DeadAt(d)'
  <2>1. \A e \in Endpoints : d \in Attached(e)' <=> d \in Attached(e)
    BY <1>0 DEF Attached
  <2> QED
    BY <1>0, <1>1, <2>1 DEF DeadAt
<1>5. EpochAt(d)'
  <2>1. nextEpoch[I] \in Nat /\ nextEpoch'[I] \in Nat /\ epoch[d] \in Nat
    BY <1>0 DEF TypeOK
  <2> QED
    BY <1>0, <1>1, <2>1 DEF EpochAt
<1>6. CommittedAt(d)'
  BY <1>0, <1>1 DEF CommittedAt, Open
<1>7. Dropping(d) => Dropping(d)'
  BY <1>0 DEF Dropping
<1>8. ToResponderAt(d)' /\ ToInitiatorAt(d)'
  BY <1>0, <1>1, <1>7 DEF ToResponderAt, ToInitiatorAt
<1> QED
  BY <1>2, <1>3, <1>4, <1>5, <1>6, <1>8 DEF CarrierAt

\* READY arrives: the carrier is prepared at the initiator.
LEMMA PrepareReadyStep ==
    ASSUME TypeOK, TypeOK', CarrierInv, NEW c \in Carriers, PrepareReady(c)
    PROVE  CarrierInv'
<1>0. /\ I \in Endpoints /\ R \in Endpoints /\ I # R /\ net \in Wires /\ c # None
      /\ nextEpoch[I] \in Nat /\ committedEpoch[I] \in Nat /\ epoch[c] \in Nat
      /\ net[c][I] \in Seq(Frame)
  BY BothEndpoints, CarrierTypes DEF TypeOK, I, R
<1>1. /\ op[I] = "prepare" /\ opCarrier[I] = c /\ net[c][I] # <<>>
      /\ Head(net[c][I]).kind = "READY" /\ prepared[I] = None /\ Open(I)
      /\ nextEpoch' = [nextEpoch EXCEPT ![I] = epoch[c]]
      /\ prepared' = [prepared EXCEPT ![I] = c]
      /\ state' = [state EXCEPT ![I][c] = "prepared"]
      /\ op' = [op EXCEPT ![I] = "start"]
      /\ net' = Pop(net, I, c)
      /\ UNCHANGED <<link, epoch, active, retained, opCarrier, pending,
                     committedEpoch, reader, writer, closed, terminalErr>>
  BY DEF PrepareReady, Ready, Usable, workerVars
<1>2. CarrierAt(c)
  BY DEF CarrierInv, CarrierAt
<1>3. /\ state[I][c] = "none" /\ epoch[c] = nextEpoch[I] + 1 /\ state[R][c] # "none"
  BY <1>1, <1>2 DEF CarrierAt, FreshAt
<1>4. /\ writer[I][c] = "none" /\ writer[R][c] = "none" /\ ~reader[I][c]
      /\ active[I] # c /\ retained[I] # c
  BY <1>2, <1>3 DEF CarrierAt, WorkerAt, CommittedAt, SlotAt
<1>5. /\ nextEpoch'[I] = epoch[c] /\ nextEpoch'[R] = nextEpoch[R]
      /\ prepared'[I] = c /\ prepared'[R] = prepared[R] /\ op'[I] = "start" /\ op'[R] = op[R]
      /\ \A d \in Carriers : /\ state'[I][d] = IF d = c THEN "prepared" ELSE state[I][d]
                             /\ state'[R][d] = state[R][d]
  BY <1>0, <1>1 DEF TypeOK
<1>6. \A d \in Carriers : /\ net'[d][R] = net[d][R]
                          /\ net'[d][I] = IF d = c THEN Tail(net[d][I]) ELSE net[d][I]
  BY <1>0, <1>1, PopAt
<1>7. EndedInv'
  BY <1>1, <1>5 DEF CarrierInv, EndedInv, Open, Endpoints
<1>8. /\ committedEpoch[I] <= nextEpoch[I]
      /\ \A d \in Carriers : state[I][d] # "none" => epoch[d] <= nextEpoch[I]
  BY DEF CarrierInv, EpochOrder, EpochAt
<1>9. EpochOrder'
  <2>1. /\ committedEpoch'[I] <= nextEpoch'[I] /\ committedEpoch'[R] <= nextEpoch'[R]
        /\ committedEpoch'[I] <= committedEpoch'[R]
    BY <1>0, <1>1, <1>3, <1>5, <1>8 DEF CarrierInv, EpochOrder
  <2>2. ASSUME NEW d \in Carriers, NEW b \in Carriers,
               state'[I][d] # "none", state'[I][b] # "none", d # b
        PROVE  epoch'[d] # epoch'[b]
    <3>1. epoch[d] \in Nat /\ epoch[b] \in Nat
      BY DEF TypeOK
    <3> QED
      BY <1>0, <1>1, <1>3, <1>5, <1>8, <2>2, <3>1 DEF CarrierInv, EpochOrder
  <2> QED
    BY <2>1, <2>2 DEF EpochOrder
<1>10. CommitAgreement'
  BY <1>1, <1>3, <1>5 DEF CarrierInv, CommitAgreement
<1>11. ASSUME NEW d \in Carriers, d # c PROVE CarrierAt(d)'
  <2>1. CarrierAt(d) /\ d # None
    BY CarriersAssumption DEF CarrierInv, CarrierAt
  <2>2. nextEpoch[I] <= nextEpoch'[I] /\ nextEpoch[R] <= nextEpoch'[R]
    <3>1. nextEpoch[R] \in Nat
      BY <1>0 DEF TypeOK
    <3> QED
      BY <1>0, <1>3, <1>5, <3>1
  <2> QED
    BY <1>0, <1>1, <1>5, <1>6, <1>11, <2>1, <2>2, Bystander DEF Endpoints
<1>12. CarrierAt(c)'
  <2>1. Mild(net[c][I], net'[c][I], {}) /\ net'[c][R] = net[c][R]
    BY <1>0, <1>1, <1>6, MildTail
  <2>2. SlotAt(c)' /\ FreshAt(c)'
    BY <1>1, <1>2, <1>3, <1>4, <1>5, <1>6 DEF CarrierAt, SlotAt, FreshAt
  <2>3. WorkerAt(c)' /\ DeadAt(c)'
    BY <1>0, <1>1, <1>2, <1>4, <1>5, <1>6 DEF CarrierAt, WorkerAt, DeadAt, Attached
  <2>4. EpochAt(c)'
    BY <1>0, <1>1, <1>2, <1>3, <1>4, <1>5, <1>6, <1>8 DEF CarrierAt, EpochAt
  <2>5. CommittedAt(c)'
    BY <1>1, <1>4 DEF CommittedAt
  <2>6. ToResponderAt(c)'
    BY <1>1, <1>2, <1>3, <1>5, <2>1 DEF CarrierAt, ToResponderAt, Dropping
  <2>7. ToInitiatorAt(c)'
    BY <1>1, <1>2, <1>3, <1>4, <2>1 DEF CarrierAt, ToInitiatorAt, Dropping, Mild
  <2> QED
    BY <2>2, <2>3, <2>4, <2>5, <2>6, <2>7 DEF CarrierAt
<1> QED
  BY <1>7, <1>9, <1>10, <1>11, <1>12 DEF CarrierInv, CarrierAt

\* COMMIT is written on a carrier on which nothing was decided yet.
LEMMA PromoteStep ==
    ASSUME TypeOK, TypeOK', CarrierInv, NEW c \in Carriers, PromoteCarrier(c)
    PROVE  CarrierInv'
<1>0. /\ I \in Endpoints /\ R \in Endpoints /\ I # R /\ Peer(I) = R /\ net \in Wires /\ c # None
      /\ epoch[c] \in Nat /\ net[c][R] \in Seq(Frame)
  BY BothEndpoints, CarrierTypes DEF TypeOK, I, R
<1> DEFINE f == Header("COMMIT", epoch[c], <<>>)
<1>1. /\ op[I] = "idle" /\ prepared[I] = c /\ state[I][c] = "prepared"
      /\ state' = [state EXCEPT ![I][c] = "committing"]
      /\ op' = [op EXCEPT ![I] = "promote"] /\ opCarrier' = [opCarrier EXCEPT ![I] = c]
      /\ net' = Push(net, I, c, f)
      /\ UNCHANGED <<link, epoch, active, prepared, retained, pending, nextEpoch,
                     committedEpoch, reader, writer, closed, terminalErr>>
  BY DEF PromoteCarrier, workerVars, lifeVars
<1>2. f \in Frame /\ f.kind = "COMMIT"
  BY <1>0 DEF Header, Frame, FrameKinds
<1> HIDE DEF f
<1>3. CarrierAt(c)
  BY DEF CarrierInv, CarrierAt
<1>4. /\ op'[I] = "promote" /\ op'[R] = op[R] /\ opCarrier'[I] = c /\ opCarrier'[R] = opCarrier[R]
      /\ \A d \in Carriers : /\ state'[I][d] = IF d = c THEN "committing" ELSE state[I][d]
                             /\ state'[R][d] = state[R][d]
  BY <1>0, <1>1 DEF TypeOK
<1>5. \A d \in Carriers : /\ net'[d][I] = net[d][I]
                          /\ net'[d][R] = IF d = c /\ link[c] = "up" THEN Append(net[d][R], f)
                                          ELSE net[d][R]
  BY <1>0, <1>1, PushAt
<1>6. EndedInv'
  BY <1>1 DEF CarrierInv, EndedInv, Open
<1>7. EpochOrder'
  BY <1>1, <1>4 DEF CarrierInv, EpochOrder
<1>8. CommitAgreement'
  BY <1>1, <1>4 DEF CarrierInv, CommitAgreement
<1>9. ASSUME NEW d \in Carriers, d # c PROVE CarrierAt(d)'
  <2>1. CarrierAt(d) /\ d # None
    BY CarriersAssumption DEF CarrierInv, CarrierAt
  <2>3. SlotAt(d)' /\ WorkerAt(d)' /\ DeadAt(d)' /\ EpochAt(d)'
    BY <1>1, <1>4, <1>5, <1>9, <2>1 DEF CarrierAt, SlotAt, WorkerAt, DeadAt, EpochAt, Attached
  <2>4. FreshAt(d)'
    BY <1>1, <1>4, <1>5, <1>9, <2>1 DEF CarrierAt, FreshAt
  <2>5. CommittedAt(d)'
    BY <1>1, <1>4, <1>5, <1>9, <2>1 DEF CarrierAt, CommittedAt, Open
  <2>6. ToResponderAt(d)' /\ ToInitiatorAt(d)'
    BY <1>1, <1>4, <1>5, <1>9, <2>1 DEF CarrierAt, ToResponderAt, ToInitiatorAt, Dropping
  <2> QED
    BY <2>3, <2>4, <2>5, <2>6 DEF CarrierAt
<1>10. CarrierAt(c)'
  <2>1. /\ writer[R][c] = "none" /\ writer[I][c] = "none" /\ "COMMIT" \notin Kinds(net[c][R])
        /\ "DISCARD" \notin Kinds(net[c][R]) /\ "DISCARD_ACK" \notin Kinds(net[c][I])
    BY <1>1, <1>3 DEF CarrierAt, CommittedAt, ToResponderAt, ToInitiatorAt, Dropping
  <2>2. /\ Kinds(net'[c][R]) \subseteq Kinds(net[c][R]) \cup {"COMMIT"}
        /\ Once(net'[c][R], "COMMIT")
        /\ Proposes(net'[c][R], epoch[c], committedEpoch[I])
    <3>1. Once(net[c][R], "COMMIT") /\ Proposes(net[c][R], epoch[c], committedEpoch[I])
      BY <1>3 DEF CarrierAt, ToResponderAt, EpochAt
    <3>2. Kinds(Append(net[c][R], f)) = Kinds(net[c][R]) \cup {"COMMIT"}
      BY <1>0, <1>2, KindsAppend
    <3>3. Once(Append(net[c][R], f), "COMMIT")
      BY <1>0, <1>2, <2>1, <3>1, OnceAppend
    <3>4. Proposes(Append(net[c][R], f), epoch[c], committedEpoch[I])
      BY <1>0, <1>2, <3>1, ProposesAppend
    <3> QED
      BY <1>5, <3>1, <3>2, <3>3, <3>4
  <2>3. SlotAt(c)' /\ FreshAt(c)'
    BY <1>1, <1>3, <1>4, <1>5 DEF CarrierAt, SlotAt, FreshAt
  <2>4. WorkerAt(c)'
    BY <1>1, <1>3, <1>4, <2>1 DEF CarrierAt, WorkerAt
  <2>5. DeadAt(c)'
    <3>1. Attached(I)' = Attached(I) /\ Attached(R)' = Attached(R) /\ c \in Attached(I)
      BY <1>0, <1>1 DEF Attached
    <3>2. link[c] = "down" => net'[c][R] = net[c][R]
      BY <1>5
    <3> QED
      BY <1>1, <1>3, <1>4, <1>5, <3>1, <3>2 DEF CarrierAt, DeadAt
  <2>6. EpochAt(c)'
    BY <1>1, <1>3, <1>4, <2>2 DEF CarrierAt, EpochAt
  <2>7. CommittedAt(c)'
    BY <1>1, <2>1 DEF CommittedAt
  <2>8. ToResponderAt(c)'
    BY <1>1, <1>3, <1>4, <2>1, <2>2 DEF CarrierAt, ToResponderAt
  <2>9. ToInitiatorAt(c)'
    BY <1>1, <1>3, <1>5, <2>1 DEF CarrierAt, ToInitiatorAt
  <2> QED
    BY <2>3, <2>4, <2>5, <2>6, <2>7, <2>8, <2>9 DEF CarrierAt
<1> QED
  BY <1>6, <1>7, <1>8, <1>9, <1>10 DEF CarrierInv, CarrierAt

\* DISCARD is written on a carrier that was not committed.
LEMMA DropStep ==
    ASSUME TypeOK, TypeOK', CarrierInv, NEW c \in Carriers, DropPrepared(c)
    PROVE  CarrierInv'
<1>0. /\ I \in Endpoints /\ R \in Endpoints /\ I # R /\ Peer(I) = R /\ net \in Wires /\ c # None
      /\ epoch[c] \in Nat /\ net[c][R] \in Seq(Frame)
  BY BothEndpoints, CarrierTypes DEF TypeOK, I, R
<1> DEFINE f == Header("DISCARD", epoch[c], <<>>)
<1>1. /\ op[I] = "idle" /\ prepared[I] = c /\ state[I][c] # "committing"
      /\ op' = [op EXCEPT ![I] = "drop"] /\ opCarrier' = [opCarrier EXCEPT ![I] = c]
      /\ net' = Push(net, I, c, f)
      /\ UNCHANGED <<link, epoch, active, prepared, retained, state, pending, nextEpoch,
                     committedEpoch, reader, writer, closed, terminalErr>>
  BY DEF DropPrepared, slotVars, workerVars, lifeVars
<1>2. f \in Frame /\ f.kind = "DISCARD"
  BY <1>0 DEF Header, Frame, FrameKinds
<1> HIDE DEF f
<1>3. CarrierAt(c)
  BY DEF CarrierInv, CarrierAt
<1>4. /\ op'[I] = "drop" /\ op'[R] = op[R] /\ opCarrier'[I] = c /\ opCarrier'[R] = opCarrier[R]
      /\ state[I][c] = "prepared"
  BY <1>0, <1>1, <1>3 DEF TypeOK, CarrierAt, SlotAt
<1>5. \A d \in Carriers : /\ net'[d][I] = net[d][I]
                          /\ net'[d][R] = IF d = c /\ link[c] = "up" THEN Append(net[d][R], f)
                                          ELSE net[d][R]
  BY <1>0, <1>1, PushAt
<1>6. EndedInv' /\ EpochOrder' /\ CommitAgreement'
  BY <1>1 DEF CarrierInv, EndedInv, Open, EpochOrder, CommitAgreement
<1>7. ASSUME NEW d \in Carriers
      PROVE  SlotAt(d)' /\ WorkerAt(d)' /\ FreshAt(d)' /\ DeadAt(d)' /\ CommittedAt(d)'
  <2>1. CarrierAt(d)
    BY DEF CarrierInv, CarrierAt
  <2>2. net'[d][R] # net[d][R] => d = c /\ link[c] = "up"
    BY <1>5
  <2>3. SlotAt(d)' /\ WorkerAt(d)'
    BY <1>1, <2>1 DEF CarrierAt, SlotAt, WorkerAt
  <2>4. FreshAt(d)'
    BY <1>1, <1>4, <1>5, <2>1, <2>2 DEF CarrierAt, FreshAt
  <2>5. DeadAt(d)'
    BY <1>1, <1>5, <2>1, <2>2 DEF CarrierAt, DeadAt, Attached
  <2>6. CommittedAt(d)'
    BY <1>1, <1>5, <2>1 DEF CarrierAt, CommittedAt, Open
  <2> QED
    BY <2>3, <2>4, <2>5, <2>6
<1>8. ASSUME NEW d \in Carriers, d # c
      PROVE  EpochAt(d)' /\ ToResponderAt(d)' /\ ToInitiatorAt(d)'
  <2>1. CarrierAt(d)
    BY DEF CarrierInv, CarrierAt
  <2>2. net'[d][R] = net[d][R] /\ net'[d][I] = net[d][I] /\ prepared[I] # d
    BY <1>1, <1>5, <1>8
  <2>3. EpochAt(d)'
    BY <1>1, <2>1, <2>2 DEF CarrierAt, EpochAt
  <2>4. Dropping(d) => Dropping(d)'
    BY <1>1, <2>2 DEF Dropping
  <2> QED
    BY <1>1, <2>1, <2>2, <2>3, <2>4 DEF CarrierAt, ToResponderAt, ToInitiatorAt
<1>9. EpochAt(c)' /\ ToResponderAt(c)' /\ ToInitiatorAt(c)'
  <2>1. /\ writer[R][c] = "none" /\ "COMMIT" \notin Kinds(net[c][R])
    BY <1>3, <1>4 DEF CarrierAt, CommittedAt, ToResponderAt
  <2>2. Mild(net[c][R], net'[c][R], {"DISCARD"})
    BY <1>0, <1>2, <1>5, MildAppend, MildSame
  <2>3. Dropping(c)'
    BY <1>1, <1>4, <2>1, <2>2 DEF Dropping, Mild
  <2>4. EpochAt(c)'
    BY <1>1, <1>3, <2>2 DEF CarrierAt, EpochAt, Mild
  <2>5. ToResponderAt(c)'
    BY <1>1, <1>3, <2>1, <2>2, <2>3 DEF CarrierAt, ToResponderAt, Mild
  <2>6. ToInitiatorAt(c)'
    BY <1>1, <1>3, <1>5, <2>3 DEF CarrierAt, ToInitiatorAt
  <2> QED
    BY <2>4, <2>5, <2>6
<1> QED
  BY <1>6, <1>7, <1>8, <1>9 DEF CarrierInv

\* COMMIT_ACK is written: the first frame of the carrier's writer.
LEMMA CommitAckStep ==
    ASSUME TypeOK, TypeOK', CarrierInv, NEW c \in Carriers, SendCommitAck(c)
    PROVE  CarrierInv'
<1>0. /\ I \in Endpoints /\ R \in Endpoints /\ I # R /\ Peer(R) = I /\ net \in Wires /\ c # None
      /\ epoch[c] \in Nat /\ net[c][I] \in Seq(Frame)
  BY BothEndpoints, CarrierTypes DEF TypeOK, I, R
<1> DEFINE f == Header("COMMIT_ACK", epoch[c], <<>>)
<1>1. /\ writer[R][c] = "commitAck" /\ writer' = [writer EXCEPT ![R][c] = "run"]
      /\ net' = Push(net, R, c, f)
      /\ UNCHANGED <<link, epoch, active, prepared, retained, state, pending, nextEpoch, op, opCarrier,
                     committedEpoch, reader, closed, terminalErr>>
  BY DEF SendCommitAck, slotVars, opVars, lifeVars
<1>2. f \in Frame /\ f.kind = "COMMIT_ACK"
  BY <1>0 DEF Header, Frame, FrameKinds
<1> HIDE DEF f
<1>3. CarrierAt(c)
  BY DEF CarrierInv, CarrierAt
<1>4. \A d \in Carriers : /\ writer'[I][d] = writer[I][d]
                          /\ writer'[R][d] = IF d = c THEN "run" ELSE writer[R][d]
  BY <1>0, <1>1 DEF TypeOK
<1>5. \A d \in Carriers : /\ net'[d][R] = net[d][R]
                          /\ net'[d][I] = IF d = c /\ link[c] = "up" THEN Append(net[d][I], f)
                                          ELSE net[d][I]
  BY <1>0, <1>1, PushAt
<1>6. EndedInv' /\ EpochOrder' /\ CommitAgreement'
  BY <1>1 DEF CarrierInv, EndedInv, Open, EpochOrder, CommitAgreement
<1>7. ASSUME NEW d \in Carriers, d # c PROVE CarrierAt(d)'
  <2>1. CarrierAt(d)
    BY DEF CarrierInv, CarrierAt
  <2>2. nextEpoch[I] <= nextEpoch'[I] /\ nextEpoch[R] <= nextEpoch'[R]
    BY <1>1, CarrierTypes
  <2> QED
    BY <1>1, <1>4, <1>5, <1>7, <2>1, <2>2, Bystander DEF Endpoints
<1>8. CarrierAt(c)'
  <2>1. /\ writer[I][c] = "none" /\ "COMMIT_ACK" \notin Kinds(net[c][I])
        /\ "DISCARD_ACK" \notin Kinds(net[c][I]) /\ "COMMIT" \notin Kinds(net[c][R])
        /\ "DISCARD" \notin Kinds(net[c][R]) /\ state[R][c] # "none" /\ Led(net[c][I])
    BY <1>1, <1>3 DEF CarrierAt, CommittedAt, ToInitiatorAt, ToResponderAt, Dropping, WorkerAt
  <2>2. /\ Kinds(net'[c][I]) \subseteq Kinds(net[c][I]) \cup {"COMMIT_ACK"}
        /\ link[c] = "up" => "COMMIT_ACK" \in Kinds(net'[c][I])
        /\ Once(net'[c][I], "COMMIT_ACK") /\ Led(net'[c][I])
    <3>1. Once(net[c][I], "COMMIT_ACK")
      BY <1>3 DEF CarrierAt, ToInitiatorAt
    <3>2. Kinds(Append(net[c][I], f)) = Kinds(net[c][I]) \cup {"COMMIT_ACK"}
      BY <1>0, <1>2, KindsAppend
    <3>3. Once(Append(net[c][I], f), "COMMIT_ACK")
      BY <1>0, <1>2, <2>1, <3>1, OnceAppend
    <3>4. Led(Append(net[c][I], f))
      BY <1>0, <1>2, <2>1, LedAppend
    <3> QED
      BY <1>5, <2>1, <3>1, <3>2, <3>3, <3>4
  <2>3. SlotAt(c)' /\ FreshAt(c)'
    BY <1>1, <1>3, <1>4, <1>5, <2>1 DEF CarrierAt, SlotAt, FreshAt
  <2>4. WorkerAt(c)'
    BY <1>1, <1>3, <1>4 DEF CarrierAt, WorkerAt
  <2>5. DeadAt(c)'
    <3>1. link[c] = "down" => net'[c][I] = net[c][I]
      BY <1>5
    <3> QED
      BY <1>1, <1>3, <1>5, <3>1 DEF CarrierAt, DeadAt, Attached
  <2>6. EpochAt(c)'
    BY <1>1, <1>3, <1>5 DEF CarrierAt, EpochAt
  <2>7. CommittedAt(c)'
    BY <1>1, <1>3, <1>4, <2>2 DEF CarrierAt, CommittedAt, Open
  <2>8. ToResponderAt(c)'
    BY <1>1, <1>3, <1>4, <1>5, <2>1 DEF CarrierAt, ToResponderAt
  <2>9. ToInitiatorAt(c)'
    BY <1>1, <1>3, <1>4, <2>1, <2>2 DEF CarrierAt, ToInitiatorAt
  <2> QED
    BY <2>3, <2>4, <2>5, <2>6, <2>7, <2>8, <2>9 DEF CarrierAt
<1> QED
  BY <1>6, <1>7, <1>8 DEF CarrierInv, CarrierAt

\* PREPARE is acceptable: an older prepared carrier is superseded and READY written.
LEMMA AcceptHelloStep ==
    ASSUME TypeOK, TypeOK', CarrierInv, NEW c \in Carriers, AcceptHello(c)
    PROVE  CarrierInv'
<1>0. /\ I \in Endpoints /\ R \in Endpoints /\ I # R /\ Peer(R) = I /\ net \in Wires /\ c # None
      /\ epoch[c] \in Nat /\ net[c][I] \in Seq(Frame) /\ net[c][R] \in Seq(Frame)
      /\ committedEpoch[R] \in Nat /\ committedEpoch[I] \in Nat /\ nextEpoch[R] \in Nat
      /\ Acknowledged(R) \in Nat
  BY BothEndpoints, CarrierTypes DEF TypeOK, Acknowledged, I, R
<1> DEFINE f == Hello("READY", epoch[c], committedEpoch[R], Acknowledged(R))
           h == Head(net[c][R])
           old == {prepared[R]} \ {None}
<1>1. /\ op[R] = "accept" /\ opCarrier[R] = c /\ net[c][R] # <<>> /\ Acceptable(h)
      /\ nextEpoch' = [nextEpoch EXCEPT ![R] = h.seq]
      /\ state' = [state EXCEPT ![R] = [d \in Carriers |->
                        IF d = c THEN "provisional"
                        ELSE IF d \in old THEN "superseded" ELSE state[R][d]]]
      /\ link' = CloseLinks(old)
      /\ net' = CloseNet(Push(Pop(net, R, c), R, c, f), R, old)
      /\ prepared' = [prepared EXCEPT ![R] = c]
      /\ op' = [op EXCEPT ![R] = "ready"]
      /\ UNCHANGED <<epoch, active, retained, pending, opCarrier, writer,
                     committedEpoch, reader, closed, terminalErr>>
  BY DEF AcceptHello, workerVars, lifeVars
<1>2. f \in Frame /\ f.kind = "READY"
  BY <1>0 DEF Hello, Frame, FrameKinds
<1>3. CarrierAt(c)
  BY DEF CarrierInv, CarrierAt
<1>4. /\ state[R][c] = "none" /\ state[I][c] = "none" /\ net[c][I] = <<>> /\ prepared[R] # c
      /\ link[c] # "unused" /\ c \notin pending[I] /\ c \notin pending[R]
      /\ writer[I][c] = "none" /\ writer[R][c] = "none" /\ ~reader[R][c]
      /\ active[R] # c /\ retained[R] # c /\ prepared[I] # c
  BY <1>1, <1>3 DEF CarrierAt, FreshAt, SlotAt, WorkerAt
<1>5. /\ h.seq = epoch[c] /\ epoch[c] > committedEpoch[R] /\ epoch[c] > nextEpoch[R] /\ Open(R)
      /\ committedEpoch[I] = committedEpoch[R]
      /\ Proposes(Tail(net[c][R]), epoch[c], committedEpoch[I])
  <2>1. /\ Proposes(net[c][R], epoch[c], committedEpoch[I])
        /\ committedEpoch[I] <= committedEpoch[R]
    BY <1>3 DEF CarrierInv, CarrierAt, EpochAt, EpochOrder
  <2>2. /\ h.kind = "PREPARE" /\ h.committed = committedEpoch[R] /\ h.seq > committedEpoch[R]
        /\ h.seq > nextEpoch[R] /\ Open(R)
    BY <1>1 DEF Acceptable
  <2>3. /\ Proposes(Tail(net[c][R]), epoch[c], committedEpoch[I])
        /\ h.seq = epoch[c] /\ h.committed <= committedEpoch[I]
    BY <1>0, <1>1, <2>1, <2>2, ProposesTail
  <2> QED
    BY <1>0, <2>1, <2>2, <2>3
<1>6. \A d \in Carriers : d \in old <=> d = prepared[R]
  BY CarriersAssumption
<1>7. \A d \in Carriers :
        /\ link'[d] = IF d \in old THEN "down" ELSE link[d]
        /\ net'[d][R] = IF d \in old THEN <<>> ELSE IF d = c THEN Tail(net[d][R]) ELSE net[d][R]
        /\ net'[d][I] = IF d = c /\ link[c] = "up" THEN Append(net[d][I], f) ELSE net[d][I]
  <2> HIDE DEF f, h, old
  <2>1. Pop(net, R, c) \in Wires /\ Push(Pop(net, R, c), R, c, f) \in Wires
    BY <1>0, <1>1, <1>2, PopType, PushType
  <2> QED
    BY <1>0, <1>1, <2>1, CloseAt, PushAt, PopAt
<1> HIDE DEF f, h, old
<1>8. /\ nextEpoch'[R] = epoch[c] /\ nextEpoch'[I] = nextEpoch[I]
      /\ prepared'[R] = c /\ prepared'[I] = prepared[I] /\ op'[R] = "ready" /\ op'[I] = op[I]
      /\ \A d \in Carriers : /\ state'[I][d] = state[I][d]
                             /\ state'[R][d] = IF d = c THEN "provisional" ELSE
                                               IF d \in old THEN "superseded" ELSE state[R][d]
  BY <1>0, <1>1, <1>5 DEF TypeOK
<1>9. EndedInv'
  BY <1>1, <1>5, <1>8 DEF CarrierInv, EndedInv, Open, Endpoints
<1>10. EpochOrder' /\ CommitAgreement'
  BY <1>0, <1>1, <1>5, <1>8 DEF CarrierInv, EpochOrder, CommitAgreement
<1>11. ASSUME NEW d \in Carriers, d # c, d \notin old PROVE CarrierAt(d)'
  <2>1. CarrierAt(d) /\ prepared[R] # d
    BY <1>6, <1>11 DEF CarrierInv, CarrierAt
  <2>2. nextEpoch[I] <= nextEpoch'[I] /\ nextEpoch[R] <= nextEpoch'[R]
    BY <1>0, <1>5, <1>8, CarrierTypes
  <2> QED
    BY <1>1, <1>7, <1>8, <1>11, <2>1, <2>2, Bystander DEF Endpoints
<1>12. ASSUME NEW d \in Carriers, d \in old PROVE CarrierAt(d)'
  <2>1. CarrierAt(d) /\ prepared[R] = d /\ d # c
    BY <1>4, <1>6, <1>12 DEF CarrierInv, CarrierAt
  <2>2. /\ link'[d] = "down" /\ net'[d][R] = <<>> /\ net'[d][I] = net[d][I]
        /\ state'[R][d] = "superseded" /\ state'[I][d] = state[I][d] /\ prepared'[R] # d
    BY <1>7, <1>8, <1>12, <2>1
  <2>3. /\ state[R][d] \in {"provisional", "prepared"} /\ writer[R][d] = "none" /\ writer[I][d] = "none"
        /\ active[R] # d /\ retained[R] # d
    BY <2>1 DEF CarrierAt, SlotAt, WorkerAt, CommittedAt
  <2>4. SlotAt(d)'
    BY <1>1, <1>8, <2>1, <2>2, <2>3 DEF CarrierAt, SlotAt
  <2>5. FreshAt(d)'
    BY <1>1, <1>8, <2>1, <2>2, <2>3 DEF CarrierAt, FreshAt
  <2>6. WorkerAt(d)'
    BY <1>1, <2>1, <2>2, <2>3 DEF CarrierAt, WorkerAt
  <2>7. DeadAt(d)'
    BY <1>1, <1>8, <2>1, <2>2 DEF CarrierAt, DeadAt, Attached
  <2>8. EpochAt(d)'
    BY <1>1, <1>8, <2>1, <2>2, <2>3, WireEmpty DEF CarrierAt, EpochAt
  <2>9. CommittedAt(d)'
    BY <1>1, <2>3 DEF CommittedAt
  <2>10. ToResponderAt(d)'
    BY <1>1, <2>2, WireEmpty DEF ToResponderAt
  <2>11. ToInitiatorAt(d)'
    <3>1. Dropping(d) => Dropping(d)'
      BY <1>1, <1>8, <2>2, WireEmpty DEF Dropping
    <3> QED
      BY <1>1, <2>1, <2>2, <2>3, <3>1 DEF CarrierAt, ToInitiatorAt
  <2> QED
    BY <2>4, <2>5, <2>6, <2>7, <2>8, <2>9, <2>10, <2>11 DEF CarrierAt
<1>13. CarrierAt(c)'
  <2>1. /\ link'[c] = link[c] /\ net'[c][R] = Tail(net[c][R]) /\ state'[R][c] = "provisional"
        /\ state'[I][c] = "none"
        /\ net'[c][I] = <<>> \/ (link[c] = "up" /\ net'[c][I] = Append(<<>>, f))
    BY <1>4, <1>6, <1>7, <1>8
  <2>2. Mild(net[c][R], Tail(net[c][R]), {})
    <3>1. h.kind = "PREPARE"
      BY <1>1 DEF Acceptable
    <3> QED
      BY <1>0, <1>1, <3>1, MildTail DEF h
  <2>3. /\ Kinds(net'[c][I]) \subseteq {"READY"} /\ Once(net'[c][I], "COMMIT_ACK")
        /\ Led(net'[c][I])
    <3>1. <<>> \in Seq(Frame)
      OBVIOUS
    <3>2. /\ Kinds(Append(<<>>, f)) = Kinds(<<>>) \cup {"READY"}
          /\ Once(Append(<<>>, f), "COMMIT_ACK") /\ Led(Append(<<>>, f))
      BY <1>2, <3>1, WireEmpty, KindsAppend, OnceAppend, LedAppend
    <3> QED
      BY <2>1, <3>2, WireEmpty
  <2>4. SlotAt(c)'
    BY <1>1, <1>3, <1>4, <1>8, <2>1 DEF CarrierAt, SlotAt
  <2>5. FreshAt(c)'
    BY <1>1, <1>3, <1>4, <1>8, <2>1 DEF CarrierAt, FreshAt
  <2>6. WorkerAt(c)'
    BY <1>1, <1>3, <1>4, <2>1 DEF CarrierAt, WorkerAt
  <2>7. DeadAt(c)'
    BY <1>0, <1>8, <2>1 DEF DeadAt, Attached
  <2>8. EpochAt(c)'
    BY <1>0, <1>1, <1>3, <1>4, <1>5, <1>8, <2>1 DEF CarrierAt, EpochAt
  <2>9. CommittedAt(c)'
    BY <1>1, <1>4 DEF CommittedAt
  <2>10. ToResponderAt(c)'
    BY <1>1, <1>3, <1>4, <2>1, <2>2 DEF CarrierAt, ToResponderAt, Mild, Dropping
  <2>11. ToInitiatorAt(c)'
    BY <2>3 DEF ToInitiatorAt
  <2> QED
    BY <2>4, <2>5, <2>6, <2>7, <2>8, <2>9, <2>10, <2>11 DEF CarrierAt
<1> QED
  BY <1>9, <1>10, <1>11, <1>12, <1>13 DEF CarrierInv, CarrierAt

\* What Activate does to the carriers of an endpoint.
LEMMA ActivateAt ==
    ASSUME TypeOK, NEW e \in Endpoints, NEW c \in Carriers, Activate(e, c)
    PROVE  /\ active'[e] = c /\ prepared'[e] = None /\ retained'[e] = active[e]
           /\ committedEpoch'[e] = epoch[c] /\ writeOffset'[e] = 0
           /\ \A d \in Carriers : state'[e][d] = IF d = c THEN "active" ELSE
                                                 IF d = active[e] THEN "retained" ELSE state[e][d]
           /\ \A x \in Endpoints : x # e =>
                /\ active'[x] = active[x] /\ prepared'[x] = prepared[x]
                /\ retained'[x] = retained[x] /\ committedEpoch'[x] = committedEpoch[x]
                /\ writeOffset'[x] = writeOffset[x] /\ state'[x] = state[x]
<1>1. /\ active'[e] = c /\ prepared'[e] = None /\ retained'[e] = active[e]
      /\ committedEpoch'[e] = epoch[c] /\ writeOffset'[e] = 0
  BY DEF Activate, TypeOK, Previous, ResumeOffset
<1>2. \A d \in Carriers : state'[e][d] = IF d = c THEN "active" ELSE
                                         IF d = active[e] THEN "retained" ELSE state[e][d]
  BY DEF Activate, TypeOK
<1>3. \A x \in Endpoints : x # e =>
                /\ active'[x] = active[x] /\ prepared'[x] = prepared[x]
                /\ retained'[x] = retained[x] /\ committedEpoch'[x] = committedEpoch[x]
                /\ writeOffset'[x] = writeOffset[x] /\ state'[x] = state[x]
  BY DEF Activate, TypeOK
<1> QED
  BY <1>1, <1>2, <1>3

\* A proposal stays one when the initiator commits more.
LEMMA ProposesMore ==
    ASSUME NEW s \in Seq(Frame), NEW ep, NEW com \in Nat, NEW more \in Nat, com <= more,
           Proposes(s, ep, com)
    PROVE  Proposes(s, ep, more)
<1>1. ASSUME NEW i \in 1..Len(s) PROVE s[i].committed \in Nat
  <2>1. s[i] \in Frame
    OBVIOUS
  <2> QED
    BY <2>1 DEF Frame
<1> QED
  BY <1>1 DEF Proposes

\* COMMIT: the responder's prepared carrier becomes the active one.
LEMMA RecvCommitStep ==
    ASSUME TypeOK, TypeOK', CarrierInv, NEW c \in Carriers, RecvCommit(c)
    PROVE  CarrierInv'
<1>0. /\ I \in Endpoints /\ R \in Endpoints /\ I # R /\ net \in Wires /\ c # None
      /\ epoch[c] \in Nat /\ net[c][R] \in Seq(Frame) /\ None \notin Carriers
      /\ committedEpoch[R] \in Nat /\ committedEpoch[I] \in Nat /\ nextEpoch[R] \in Nat
      /\ nextEpoch[I] \in Nat
  BY BothEndpoints, CarrierTypes, CarriersAssumption DEF TypeOK, I, R
<1>1. /\ Readable(R, c) /\ net[c][R] # <<>> /\ Head(net[c][R]).kind = "COMMIT" /\ op[R] = "idle"
      /\ Activate(R, c)
      /\ writer' = [writer EXCEPT ![R][c] = "commitAck"]
      /\ net' = Pop(net, R, c)
      /\ UNCHANGED <<link, epoch, pending, op, opCarrier, nextEpoch, reader, closed, terminalErr>>
  BY DEF RecvCommit, ReadsAs, Readable, opVars
<1>2. CarrierAt(c)
  BY DEF CarrierInv, CarrierAt
<1>3. prepared[R] = c /\ state[R][c] = "prepared" /\ "COMMIT" \in Kinds(net[c][R])
  BY <1>0, <1>1, ControlLawful, HeadKind
<1>4. /\ epoch[c] = nextEpoch[R] /\ epoch[c] > committedEpoch[R] /\ committedEpoch[I] = committedEpoch[R]
      /\ active[R] # c /\ retained[R] # c
  BY <1>2, <1>3 DEF CarrierAt, EpochAt, SlotAt
<1>5. /\ state[I][c] \in {"committing", "failed"} /\ writer[R][c] = "none" /\ writer[I][c] = "none"
      /\ "DISCARD" \notin Kinds(net[c][R]) /\ "DISCARD_ACK" \notin Kinds(net[c][I])
      /\ "COMMIT_ACK" \notin Kinds(net[c][I])
      /\ "DATA" \notin Kinds(net[c][I]) /\ "FIN" \notin Kinds(net[c][I])
  <2>1. state[I][c] \in {"committing", "failed"} /\ writer[R][c] = "none" /\ ~Dropping(c)
    BY <1>2, <1>3 DEF CarrierAt, ToResponderAt, Dropping
  <2> QED
    BY <1>2, <2>1 DEF CarrierAt, ToResponderAt, ToInitiatorAt, CommittedAt
<1>6. /\ active'[R] = c /\ prepared'[R] = None /\ retained'[R] = active[R]
      /\ committedEpoch'[R] = epoch[c]
      /\ \A d \in Carriers : state'[R][d] = IF d = c THEN "active" ELSE
                                            IF d = active[R] THEN "retained" ELSE state[R][d]
      /\ active'[I] = active[I] /\ prepared'[I] = prepared[I] /\ retained'[I] = retained[I]
      /\ committedEpoch'[I] = committedEpoch[I] /\ state'[I] = state[I]
  BY <1>0, <1>1, ActivateAt
<1>7. \A d \in Carriers : /\ writer'[I][d] = writer[I][d]
                          /\ writer'[R][d] = IF d = c THEN "commitAck" ELSE writer[R][d]
  BY <1>0, <1>1 DEF TypeOK
<1>8. \A d \in Carriers : /\ net'[d][I] = net[d][I]
                          /\ net'[d][R] = IF d = c THEN Tail(net[d][R]) ELSE net[d][R]
  BY <1>0, <1>1, PopAt
<1>9. EndedInv'
  <2>1. Open(R) /\ (Open(I)' <=> Open(I)) /\ (Open(R)' <=> Open(R))
    BY <1>0, <1>1, <1>3 DEF CarrierInv, EndedInv, Open
  <2> QED
    BY <1>6, <2>1 DEF CarrierInv, EndedInv, Endpoints
<1>10. EpochOrder'
  BY <1>0, <1>1, <1>4, <1>6 DEF CarrierInv, EpochOrder
<1>11. CommitAgreement'
  BY <1>1, <1>4, <1>5, <1>6 DEF CommitAgreement
<1>12. epoch[c] <= nextEpoch[I]
  BY <1>2, <1>5 DEF CarrierAt, EpochAt
<1>13. ASSUME NEW d \in Carriers, d # c PROVE CarrierAt(d)'
  <2>1. CarrierAt(d) /\ epoch[d] \in Nat
    BY DEF CarrierInv, CarrierAt, TypeOK
  <2>2. /\ net'[d] [I] = net[d][I] /\ net'[d][R] = net[d][R] /\ writer'[I][d] = writer[I][d]
        /\ writer'[R][d] = writer[R][d] /\ state'[I][d] = state[I][d]
        /\ state'[R][d] = IF d = active[R] THEN "retained" ELSE state[R][d]
        /\ active'[R] # d /\ prepared'[R] # d /\ prepared[R] # d
    BY <1>0, <1>3, <1>6, <1>7, <1>8, <1>13
  <2>3. d = active[R] => state[R][d] = "active" /\ writer[R][d] # "none"
    BY <2>1 DEF CarrierAt, SlotAt, WorkerAt
  <2>4. SlotAt(d)'
    BY <1>6, <2>1, <2>2, <2>3 DEF CarrierAt, SlotAt
  <2>5. FreshAt(d)'
    BY <1>1, <2>1, <2>2, <2>3 DEF CarrierAt, FreshAt
  <2>6. WorkerAt(d)'
    BY <1>1, <2>1, <2>2, <2>3 DEF CarrierAt, WorkerAt
  <2>7. DeadAt(d)'
    <3>1. Attached(I)' = Attached(I)
      BY <1>6 DEF Attached
    <3>2. d \in Attached(R) => d = active[R] \/ (d = retained[R] /\ state[R][d] = "retained")
      BY <2>1, <2>2 DEF CarrierAt, SlotAt, Attached
    <3> QED
      BY <1>1, <2>1, <2>2, <3>1, <3>2 DEF CarrierAt, DeadAt
  <2>8. EpochAt(d)'
    BY <1>0, <1>1, <1>4, <1>6, <2>1, <2>2 DEF CarrierAt, EpochAt
  <2>9. CommittedAt(d)'
    <3>1. writer[R][d] # "none" => prepared[I] # d
      <4>1. prepared[I] = d => epoch[d] = nextEpoch[I]
        BY <2>1 DEF CarrierAt, EpochAt
      <4>2. writer[R][d] # "none" /\ prepared[I] = d => epoch[d] = committedEpoch[R]
        BY <2>1 DEF CarrierAt, CommittedAt
      <4> QED
        BY <1>0, <1>4, <1>12, <4>1, <4>2
    <3>2. writer[R][d] # "none" => epoch[d] <= committedEpoch'[R]
      BY <1>0, <1>4, <1>6, <2>1 DEF CarrierAt, CommittedAt
    <3>3. retained[R] = d => epoch[d] < committedEpoch[I]
      BY <1>4, <2>1 DEF CarrierAt, SlotAt, EpochAt
    <3> QED
      BY <1>1, <1>6, <2>1, <2>2, <3>1, <3>2, <3>3 DEF CarrierAt, CommittedAt, Open
  <2>10. ToResponderAt(d)' /\ ToInitiatorAt(d)'
    BY <1>1, <1>6, <2>1, <2>2 DEF CarrierAt, ToResponderAt, ToInitiatorAt, Dropping
  <2> QED
    BY <2>4, <2>5, <2>6, <2>7, <2>8, <2>9, <2>10 DEF CarrierAt
<1>14. CarrierAt(c)'
  <2>1. /\ net'[c] [I] = net[c][I] /\ net'[c][R] = Tail(net[c][R]) /\ writer'[I][c] = "none"
        /\ writer'[R][c] = "commitAck" /\ state'[I][c] = state[I][c]
        /\ state'[R][c] = "active"
    BY <1>5, <1>6, <1>7, <1>8
  <2>2. Mild(net[c][R], net'[c][R], {}) /\ "COMMIT" \notin Kinds(net'[c][R])
    <3>1. Once(net[c][R], "COMMIT")
      BY <1>2 DEF CarrierAt, ToResponderAt
    <3> QED
      BY <1>0, <1>1, <2>1, <3>1, MildTail, OnceTail
  <2>3. SlotAt(c)' /\ FreshAt(c)'
    BY <1>0, <1>1, <1>2, <1>3, <1>4, <1>6, <2>1 DEF CarrierAt, SlotAt, FreshAt
  <2>4. WorkerAt(c)'
    BY <1>1, <1>2, <1>6, <2>1 DEF CarrierAt, WorkerAt
  <2>5. DeadAt(c)'
    BY <1>0, <1>1, <1>2, <1>6, <2>1 DEF CarrierAt, DeadAt, Attached
  <2>6. EpochAt(c)'
    BY <1>0, <1>1, <1>2, <1>6, <2>1, <2>2 DEF CarrierAt, EpochAt, Mild
  <2>7. CommittedAt(c)'
    BY <1>0, <1>1, <1>5, <1>6, <2>1 DEF CommittedAt
  <2>8. ToResponderAt(c)'
    BY <1>1, <1>2, <1>5, <2>1, <2>2 DEF CarrierAt, ToResponderAt, Mild
  <2>9. ToInitiatorAt(c)'
    BY <1>1, <1>2, <1>5, <2>1 DEF CarrierAt, ToInitiatorAt
  <2> QED
    BY <2>3, <2>4, <2>5, <2>6, <2>7, <2>8, <2>9 DEF CarrierAt
<1> QED
  BY <1>9, <1>10, <1>11, <1>13, <1>14 DEF CarrierInv, CarrierAt

\* COMMIT_ACK: the initiator's prepared carrier becomes the active one.
LEMMA RecvCommitAckStep ==
    ASSUME TypeOK, TypeOK', CarrierInv, NEW c \in Carriers, RecvCommitAck(c)
    PROVE  CarrierInv'
<1>0. /\ I \in Endpoints /\ R \in Endpoints /\ I # R /\ net \in Wires /\ c # None
      /\ epoch[c] \in Nat /\ net[c][I] \in Seq(Frame) /\ None \notin Carriers
      /\ committedEpoch[R] \in Nat /\ committedEpoch[I] \in Nat /\ nextEpoch[R] \in Nat
      /\ nextEpoch[I] \in Nat
  BY BothEndpoints, CarrierTypes, CarriersAssumption DEF TypeOK, I, R
<1>1. /\ Readable(I, c) /\ net[c][I] # <<>> /\ Head(net[c][I]).kind = "COMMIT_ACK"
      /\ Activate(I, c)
      /\ writer' = [writer EXCEPT ![I][c] = "confirm"]
      /\ op' = [op EXCEPT ![I] = "idle"] /\ opCarrier' = [opCarrier EXCEPT ![I] = None]
      /\ net' = Pop(net, I, c)
      /\ UNCHANGED <<link, epoch, pending, nextEpoch, reader, closed, terminalErr>>
  BY DEF RecvCommitAck, ReadsAs, Readable, Release
<1>2. CarrierAt(c)
  BY DEF CarrierInv, CarrierAt
<1>3. prepared[I] = c /\ state[I][c] = "committing" /\ "COMMIT_ACK" \in Kinds(net[c][I])
  BY <1>0, <1>1, ControlLawful, HeadKind
<1>4. /\ writer[R][c] = "run" /\ writer[I][c] = "none" /\ active[I] # c /\ retained[I] # c
  BY <1>2, <1>3 DEF CarrierAt, ToInitiatorAt, SlotAt
<1>5. epoch[c] = nextEpoch[I] /\ epoch[c] > committedEpoch[I] /\ epoch[c] = committedEpoch[R]
  BY <1>2, <1>3, <1>4 DEF CarrierAt, EpochAt, CommittedAt
<1>6. /\ active'[I] = c /\ prepared'[I] = None /\ retained'[I] = active[I]
      /\ committedEpoch'[I] = epoch[c]
      /\ \A d \in Carriers : state'[I][d] = IF d = c THEN "active" ELSE
                                            IF d = active[I] THEN "retained" ELSE state[I][d]
      /\ active'[R] = active[R] /\ prepared'[R] = prepared[R] /\ retained'[R] = retained[R]
      /\ committedEpoch'[R] = committedEpoch[R] /\ state'[R] = state[R]
  BY <1>0, <1>1, ActivateAt
<1>7. /\ op'[I] = "idle" /\ op'[R] = op[R] /\ opCarrier'[R] = opCarrier[R]
      /\ \A d \in Carriers : /\ writer'[R][d] = writer[R][d]
                             /\ writer'[I][d] = IF d = c THEN "confirm" ELSE writer[I][d]
  BY <1>0, <1>1 DEF TypeOK
<1>8. \A d \in Carriers : /\ net'[d][R] = net[d][R]
                          /\ net'[d][I] = IF d = c THEN Tail(net[d][I]) ELSE net[d][I]
  BY <1>0, <1>1, PopAt
<1>9. EndedInv'
  <2>1. Open(I) /\ (Open(I)' <=> Open(I)) /\ (Open(R)' <=> Open(R))
    BY <1>0, <1>1, <1>3 DEF CarrierInv, EndedInv, Open
  <2> QED
    BY <1>6, <2>1 DEF CarrierInv, EndedInv, Endpoints
<1>10. \A d \in Carriers : state'[I][d] = "none" <=> state[I][d] = "none"
  <2>1. \A d \in Carriers : d = active[I] => state[I][d] # "none"
    BY DEF CarrierInv, SlotAt
  <2> QED
    BY <1>3, <1>6, <2>1
<1>11. EpochOrder'
  BY <1>0, <1>1, <1>5, <1>6, <1>10 DEF CarrierInv, EpochOrder
<1>12. CommitAgreement'
  BY <1>5, <1>6 DEF CommitAgreement
<1>13. ASSUME NEW d \in Carriers PROVE Proposes(net[d][R], epoch[d], committedEpoch'[I])
  <2>1. Proposes(net[d][R], epoch[d], committedEpoch[I]) /\ net[d][R] \in Seq(Frame)
    BY CarrierTypes DEF CarrierInv, EpochAt
  <2>2. committedEpoch[I] <= epoch[c]
    BY <1>0, <1>5
  <2> QED
    BY <1>0, <1>6, <2>1, <2>2, ProposesMore
<1>14. ASSUME NEW d \in Carriers, d # c PROVE CarrierAt(d)'
  <2>1. CarrierAt(d) /\ epoch[d] \in Nat
    BY DEF CarrierInv, CarrierAt, TypeOK
  <2>2. /\ net'[d] [I] = net[d][I] /\ net'[d][R] = net[d][R] /\ writer'[I][d] = writer[I][d]
        /\ writer'[R][d] = writer[R][d] /\ state'[R][d] = state[R][d]
        /\ state'[I][d] = IF d = active[I] THEN "retained" ELSE state[I][d]
        /\ active'[I] # d /\ prepared'[I] # d /\ prepared[I] # d
    BY <1>0, <1>3, <1>6, <1>7, <1>8, <1>14
  <2>3. d = active[I] => state[I][d] = "active" /\ writer[I][d] # "none"
    BY <2>1 DEF CarrierAt, SlotAt, WorkerAt
  <2>4. SlotAt(d)'
    BY <1>6, <2>1, <2>2, <2>3 DEF CarrierAt, SlotAt
  <2>5. FreshAt(d)'
    BY <1>1, <1>7, <1>10, <2>1, <2>2 DEF CarrierAt, FreshAt
  <2>6. WorkerAt(d)'
    BY <1>1, <2>1, <2>2, <2>3 DEF CarrierAt, WorkerAt
  <2>7. DeadAt(d)'
    <3>1. Attached(R)' = Attached(R)
      BY <1>6 DEF Attached
    <3>2. d \in Attached(I) => d = active[I] \/ (d = retained[I] /\ state[I][d] = "retained")
      BY <2>1, <2>2 DEF CarrierAt, SlotAt, Attached
    <3> QED
      BY <1>1, <2>1, <2>2, <3>1, <3>2 DEF CarrierAt, DeadAt
  <2>8. EpochAt(d)'
    BY <1>0, <1>1, <1>5, <1>6, <1>10, <1>13, <2>1, <2>2 DEF CarrierAt, EpochAt
  <2>9. CommittedAt(d)'
    <3>1. epoch[d] < committedEpoch[I] => epoch[d] < committedEpoch'[I]
      BY <1>0, <1>5, <1>6, <2>1
    <3> QED
      BY <1>1, <1>6, <2>1, <2>2, <3>1 DEF CarrierAt, CommittedAt, Open
  <2>10. ToResponderAt(d)' /\ ToInitiatorAt(d)'
    <3>1. Dropping(d) => Dropping(d)'
      BY <1>6, <2>2, <2>3 DEF Dropping
    <3> QED
      BY <1>1, <1>6, <2>1, <2>2, <2>3, <3>1 DEF CarrierAt, ToResponderAt, ToInitiatorAt
  <2> QED
    BY <2>4, <2>5, <2>6, <2>7, <2>8, <2>9, <2>10 DEF CarrierAt
<1>15. CarrierAt(c)'
  <2>1. /\ net'[c] [R] = net[c][R] /\ net'[c][I] = Tail(net[c][I]) /\ writer'[R][c] = "run"
        /\ writer'[I][c] = "confirm" /\ state'[R][c] = state[R][c]
        /\ state'[I][c] = "active"
    BY <1>4, <1>6, <1>7, <1>8
  <2>2. Once(net[c][I], "COMMIT_ACK")
    BY <1>2 DEF CarrierAt, ToInitiatorAt
  <2>3. /\ Kinds(net'[c][I]) \subseteq Kinds(net[c][I])
        /\ Once(net'[c][I], "COMMIT_ACK") /\ "COMMIT_ACK" \notin Kinds(net'[c][I])
    BY <1>0, <1>1, <2>1, <2>2, KindsTail, OnceTail
  <2>4. /\ "COMMIT" \notin Kinds(net[c][R]) /\ "DISCARD" \notin Kinds(net[c][R])
        /\ "DISCARD_ACK" \notin Kinds(net[c][I])
    BY <1>2, <1>4 DEF CarrierAt, ToResponderAt, ToInitiatorAt, Dropping
  <2>5. SlotAt(c)'
    BY <1>0, <1>2, <1>4, <1>6, <2>1 DEF CarrierAt, SlotAt
  <2>6. FreshAt(c)'
    BY <1>1, <1>2, <1>3, <1>7, <1>10, <2>1 DEF CarrierAt, FreshAt
  <2>7. WorkerAt(c)'
    BY <1>1, <1>2, <2>1, <1>4 DEF CarrierAt, WorkerAt
  <2>8. DeadAt(c)'
    BY <1>0, <1>1, <1>2, <1>6, <2>1 DEF CarrierAt, DeadAt, Attached
  <2>9. EpochAt(c)'
    BY <1>0, <1>1, <1>2, <1>5, <1>6, <1>13, <2>1 DEF CarrierAt, EpochAt
  <2>10. CommittedAt(c)'
    BY <1>0, <1>1, <1>2, <1>4, <1>5, <1>6, <2>1 DEF CarrierAt, CommittedAt, Open
  <2>11. ToResponderAt(c)'
    BY <1>1, <1>2, <2>1, <2>4 DEF CarrierAt, ToResponderAt
  <2>12. ToInitiatorAt(c)'
    BY <1>2, <1>4, <2>1, <2>3, <2>4 DEF CarrierAt, ToInitiatorAt
  <2> QED
    BY <2>5, <2>6, <2>7, <2>8, <2>9, <2>10, <2>11, <2>12 DEF CarrierAt
<1> QED
  BY <1>9, <1>11, <1>12, <1>14, <1>15 DEF CarrierInv, CarrierAt

(***************************************************************************)
(* Every step of the carriers.                                             *)
(***************************************************************************)
\* At the start no carrier is used.
LEMMA CarrierInit == Init => CarrierInv
<1> SUFFICES ASSUME Init PROVE CarrierInv
  OBVIOUS
<1>0. I \in Endpoints /\ R \in Endpoints /\ None \notin Carriers
  BY BothEndpoints, CarriersAssumption
<1>1. /\ committedEpoch[I] = 0 /\ committedEpoch[R] = 0 /\ nextEpoch[I] = 0 /\ nextEpoch[R] = 0
      /\ op[I] = "idle" /\ op[R] = "idle" /\ pending[I] = {} /\ pending[R] = {}
      /\ active[I] = None /\ active[R] = None /\ prepared[I] = None /\ prepared[R] = None
      /\ retained[I] = None /\ retained[R] = None
  BY <1>0 DEF Init
<1>2. EndedInv /\ EpochOrder /\ CommitAgreement
  <2>1. \A c \in Carriers : state[I][c] = "none"
    BY <1>0 DEF Init
  <2>2. \A e \in Endpoints : Open(e)
    BY DEF Init, Open
  <2> QED
    BY <1>1, <2>1, <2>2 DEF EndedInv, EpochOrder, CommitAgreement
<1>3. ASSUME NEW c \in Carriers PROVE CarrierAt(c)
  <2>1. /\ state[I][c] = "none" /\ state[R][c] = "none" /\ ~reader[I][c] /\ ~reader[R][c]
        /\ writer[I][c] = "none" /\ writer[R][c] = "none" /\ net[c][I] = <<>> /\ net[c][R] = <<>>
        /\ c # None
    BY <1>0 DEF Init
  <2>2. SlotAt(c) /\ FreshAt(c) /\ WorkerAt(c) /\ DeadAt(c)
    BY <1>1, <2>1 DEF SlotAt, FreshAt, WorkerAt, DeadAt
  <2>3. EpochAt(c) /\ CommittedAt(c)
    BY <1>1, <2>1, WireEmpty DEF EpochAt, CommittedAt
  <2>4. ToResponderAt(c) /\ ToInitiatorAt(c)
    BY <1>1, <2>1, WireEmpty DEF ToResponderAt, ToInitiatorAt
  <2> QED
    BY <2>2, <2>3, <2>4 DEF CarrierAt
<1> QED
  BY <1>2, <1>3 DEF CarrierInv, CarrierAt

\* The reader takes a frame only as what it is (readCarrier).
LEMMA FrameIsLegal ==
    ASSUME TypeOK, DataInv, CarrierInv, OrderInv, NEW e \in Endpoints, NEW c \in Carriers,
           RecvFrame(e, c)
    PROVE  Readable(e, c) /\ LegalFrame(e, c)
<1>1. Violation(e, c, Head(net[c][e])) = "none"
  BY Lawful DEF RecvFrame
<1> QED
  BY <1>1 DEF RecvFrame

\* The carriers' invariant is kept by what readCarrier does.
LEMMA CarrierFrames ==
    ASSUME TypeOK, TypeOK', CarrierInv, NEW e \in Endpoints, NEW c \in Carriers, LegalFrame(e, c)
    PROVE  CarrierInv'
<1>1. CASE \/ RecvLate(e, c) \/ RecvData(e, c) \/ RecvAck(e, c) \/ RecvFin(e, c) \/ RecvFinAck(e, c)
  BY <1>1, CalmFrames, CalmStep
<1>2. CASE RecvReset(e, c)
  BY <1>2, CalmReset, CalmStep
<1>3. CASE RecvCommit(c)
  BY <1>3, RecvCommitStep
<1>4. CASE RecvCommitAck(c)
  BY <1>4, RecvCommitAckStep
<1>5. CASE RecvConfirm(c) \/ RecvDiscard(c) \/ RecvDiscardAck(c)
  BY <1>5, CalmConfirmed, CalmDiscard, CalmStep
<1> QED
  BY <1>1, <1>2, <1>3, <1>4, <1>5 DEF LegalFrame

\* The carriers' invariant is kept by the handshake.
LEMMA CarrierHandshake ==
    ASSUME TypeOK, TypeOK', CarrierInv, NEW c \in Carriers, Handshake(c)
    PROVE  CarrierInv'
<1>1. CASE PrepareRefused(c) \/ PrepareFailed(c) \/ AcceptRefused(c)
  BY <1>1, CalmHandshake, CalmStep
<1>2. CASE AcceptReady(c)
  BY <1>2, CalmHandshake, CalmStep, AcceptReadyStep
<1>3. CASE AcceptReadyFailed(c) \/ ConfirmCarrier(c)
  BY <1>3, CalmReadyFailed, CalmConfirm, CalmStep
<1>4. CASE PrepareCarrier(c) \/ PrepareReady(c) \/ AcceptCarrier(c) \/ AcceptHello(c) \/ SendCommitAck(c)
  BY <1>4, PrepareCarrierStep, PrepareReadyStep, AcceptCarrierStep, AcceptHelloStep, CommitAckStep
<1> QED
  BY <1>1, <1>2, <1>3, <1>4 DEF Handshake

\* The carriers' invariant is inductive, given that the streams are in order.
LEMMA CarrierStep ==
    ASSUME TypeOK, TypeOK', DataInv, CarrierInv, OrderInv, [Next]_vars
    PROVE  CarrierInv'
<1>1. CASE UNCHANGED vars
  BY <1>1, CalmApplication, CalmStep, BothEndpoints
<1>2. ASSUME NEW e \in Endpoints, Application(e) PROVE CarrierInv'
  BY <1>2, CalmApplication, CalmEnds, CalmStep DEF Application
<1>3. ASSUME NEW c \in Carriers, Handshake(c) PROVE CarrierInv'
  BY <1>3, CarrierHandshake
<1>4. ASSUME NEW c \in Carriers,
             OpenLink(c) \/ LinkFail(c) \/ PromoteCarrier(c) \/ DropPrepared(c)
      PROVE  CarrierInv'
  BY <1>4, OpenLinkStep, CalmHandshake, CalmStep, PromoteStep, DropStep
<1>5. CASE StartReader
  <2>1. CASE Carriers = {}
    <3>1. EndedInv' /\ EpochOrder' /\ CommitAgreement'
      BY <1>5 DEF StartReader, slotVars, lifeVars, linkVars, CarrierInv, EndedInv, EpochOrder, CommitAgreement, Open
    <3> QED
      BY <2>1, <3>1 DEF CarrierInv
  <2>2. CASE Carriers # {}
    BY <1>5, <2>2, CalmHandshake, CalmStep
  <2> QED
    BY <2>1, <2>2
<1>6. ASSUME NEW e \in Endpoints, SendData(e) \/ SendFin(e) \/ SendAck(e) PROVE CarrierInv'
  BY <1>6, CalmWriters, CalmStep
<1>7. ASSUME NEW e \in Endpoints, NEW c \in Carriers, RecvFrame(e, c) PROVE CarrierInv'
  BY <1>7, FrameIsLegal, CarrierFrames
<1>8. ASSUME NEW e \in Endpoints, NEW c \in Carriers, FailCarrier(e, c) PROVE CarrierInv'
  BY <1>8, CalmFailCarrier, CalmStep
<1>9. ASSUME NEW e \in Endpoints, ExpireDetached(e) \/ FailExpired(e) PROVE CarrierInv'
  BY <1>9, CalmExpire, CalmEnds, CalmStep
<1> QED
  BY <1>1, <1>2, <1>3, <1>4, <1>5, <1>6, <1>7, <1>8, <1>9 DEF Next

(***************************************************************************)
(* The wires carry bytes in order.                                         *)
(***************************************************************************)
\* The numbers of a frame.
LEMMA FrameNumbers ==
    ASSUME NEW f \in Frame
    PROVE  f.seq \in Nat /\ Len(f.data) \in Nat /\ End(f) \in Nat
<1>1. f.seq \in Nat /\ f.data \in Seq(Nat)
  BY DEF Frame
<1>2. Len(f.data) \in Nat
  BY <1>1
<1> QED
  BY <1>1, <1>2 DEF End

\* The numbers of the frames of a wire.
LEMMA WireNumbers ==
    ASSUME NEW s \in Seq(Frame), NEW i \in 1..Len(s)
    PROVE  s[i] \in Frame /\ s[i].seq \in Nat /\ End(s[i]) \in Nat
<1>1. s[i] \in Frame
  OBVIOUS
<1> QED
  BY <1>1, FrameNumbers

\* A wire that reaches an offset reaches every earlier one, and an endpoint that
\* has received more needs no more of it.
LEMMA ReachesLess ==
    ASSUME NEW s \in Seq(Frame), NEW k \in 0..Len(s), NEW r \in Nat, NEW more \in Nat, r <= more,
           NEW n \in Nat, NEW m \in Nat, n <= m, Reaches(s, k, r, m)
    PROVE  Reaches(s, k, more, n)
<1>1. CASE m <= r
  BY <1>1 DEF Reaches
<1>2. ASSUME NEW i \in 1..k, s[i].kind = "DATA", m <= End(s[i]) PROVE Reaches(s, k, more, n)
  <2>1. End(s[i]) \in Nat
    BY WireNumbers
  <2>2. n <= End(s[i])
    BY <1>2, <2>1
  <2> QED
    BY <1>2, <2>2 DEF Reaches
<1> QED
  BY <1>1, <1>2 DEF Reaches

\* What is written behind does not matter.
LEMMA ReachesAppend ==
    ASSUME NEW s \in Seq(Frame), NEW f \in Frame, NEW k \in 0..Len(s), NEW r, NEW n, Reaches(s, k, r, n)
    PROVE  Reaches(Append(s, f), k, r, n)
<1> DEFINE t == Append(s, f)
<1>1. \A i \in 1..k : t[i] = s[i]
  BY WireAppend
<1> HIDE DEF t
<1>2. Reaches(t, k, r, n)
  BY <1>1 DEF Reaches
<1> QED
  BY <1>2 DEF t

\* What a frame that was read reached has been received.
LEMMA ReachesTail ==
    ASSUME NEW s \in Seq(Frame), s # <<>>, NEW k \in 1..Len(s), NEW r \in Nat, NEW more \in Nat, r <= more,
           Head(s).kind = "DATA" => End(Head(s)) <= more, NEW n \in Nat, Reaches(s, k, r, n)
    PROVE  Reaches(Tail(s), k - 1, more, n)
<1> DEFINE t == Tail(s)
<1>1. /\ Len(s) \in Nat \ {0} /\ Len(t) = Len(s) - 1 /\ Head(s) = s[1]
      /\ \A i \in 1..(Len(s) - 1) : t[i] = s[i + 1]
  BY WireTail
<1> HIDE DEF t
<1>2. CASE n <= r
  BY <1>2 DEF Reaches
<1>3. ASSUME NEW i \in 1..k, s[i].kind = "DATA", n <= End(s[i]) PROVE Reaches(t, k - 1, more, n)
  <2>1. CASE i = 1
    <3>1. End(s[1]) \in Nat /\ End(s[1]) <= more
      BY <1>1, <1>3, <2>1, WireNumbers
    <3>2. n <= more
      BY <1>3, <2>1, <3>1
    <3> QED
      BY <3>2 DEF Reaches
  <2>2. CASE i # 1
    <3>1. i - 1 \in 1..(k - 1) /\ t[i - 1] = s[i]
      BY <1>1, <2>2
    <3> QED
      BY <1>3, <3>1 DEF Reaches
  <2> QED
    BY <2>1, <2>2
<1>4. Reaches(t, k - 1, more, n)
  BY <1>2, <1>3 DEF Reaches
<1> QED
  BY <1>4 DEF t

\* A wire on which nothing happens stays in order.
LEMMA InOrderMore ==
    ASSUME NEW s \in Seq(Frame), NEW r \in Nat, NEW more \in Nat, r <= more, InOrder(s, r)
    PROVE  InOrder(s, more)
<1> SUFFICES ASSUME NEW j \in 1..Len(s), s[j].kind \in {"DATA", "FIN"}
             PROVE  Reaches(s, j - 1, more, s[j].seq)
  BY DEF InOrder
<1>1. Reaches(s, j - 1, r, s[j].seq) /\ j - 1 \in 0..Len(s) /\ s[j].seq \in Nat
  BY WireNumbers DEF InOrder
<1>2. s[j].seq <= s[j].seq
  BY <1>1
<1> QED
  BY <1>1, <1>2, ReachesLess

\* A wire stays in order when its oldest frame is applied.
LEMMA InOrderTail ==
    ASSUME NEW s \in Seq(Frame), s # <<>>, NEW r \in Nat, NEW more \in Nat, r <= more,
           Head(s).kind = "DATA" => End(Head(s)) <= more, InOrder(s, r)
    PROVE  InOrder(Tail(s), more)
<1> DEFINE t == Tail(s)
<1>1. /\ Len(s) \in Nat \ {0} /\ Len(t) = Len(s) - 1
      /\ \A i \in 1..(Len(s) - 1) : t[i] = s[i + 1]
  BY WireTail
<1> HIDE DEF t
<1>2. ASSUME NEW j \in 1..Len(t), t[j].kind \in {"DATA", "FIN"}
      PROVE  Reaches(t, j - 1, more, t[j].seq)
  <2>1. j + 1 \in 1..Len(s) /\ t[j] = s[j + 1] /\ (j + 1) - 1 = j /\ j \in 1..Len(s)
    BY <1>1
  <2>2. Reaches(s, j, r, s[j + 1].seq) /\ s[j + 1].seq \in Nat
    BY <1>2, <2>1, WireNumbers DEF InOrder
  <2>3. Reaches(Tail(s), j - 1, more, s[j + 1].seq)
    BY <2>1, <2>2, ReachesTail
  <2> QED
    BY <2>1, <2>3 DEF t
<1> QED
  BY <1>2 DEF InOrder, t

\* A wire stays in order when what is written continues it.
LEMMA InOrderAppend ==
    ASSUME NEW s \in Seq(Frame), NEW f \in Frame, NEW r \in Nat, InOrder(s, r),
           f.kind \in {"DATA", "FIN"} => Reaches(s, Len(s), r, f.seq)
    PROVE  InOrder(Append(s, f), r)
<1> DEFINE t == Append(s, f)
<1>1. /\ Len(s) \in Nat /\ Len(t) = Len(s) + 1
      /\ \A i \in 1..Len(s) : t[i] = s[i]
      /\ t[Len(s) + 1] = f
  BY WireAppend
<1> HIDE DEF t
<1>2. ASSUME NEW j \in 1..Len(t), t[j].kind \in {"DATA", "FIN"}
      PROVE  Reaches(t, j - 1, r, t[j].seq)
  <2>1. CASE j \in 1..Len(s)
    <3>1. Reaches(s, j - 1, r, s[j].seq) /\ t[j] = s[j] /\ j - 1 \in 0..Len(s)
      BY <1>1, <1>2, <2>1 DEF InOrder
    <3> QED
      BY <3>1, ReachesAppend DEF t
  <2>2. CASE j = Len(s) + 1
    <3>1. Reaches(s, Len(s), r, f.seq) /\ t[j] = f /\ j - 1 = Len(s) /\ Len(s) \in 0..Len(s)
      BY <1>1, <1>2, <2>2
    <3> QED
      BY <3>1, ReachesAppend DEF t
  <2> QED
    BY <1>1, <2>1, <2>2
<1> QED
  BY <1>2 DEF InOrder, t

\* An empty wire.
LEMMA InOrderEmpty ==
    ASSUME NEW r PROVE InOrder(<<>>, r)
BY DEF InOrder

\* What the wire of carrier d towards x may become in a step that writes neither
\* bytes nor half-close on it: it is untouched, closed, read or written to.
TameAt(u, d, x) ==
    \/ u = net[d][x]
    \/ u = <<>> /\ link'[d] # "up"
    \/ /\ net[d][x] # <<>> /\ u = Tail(net[d][x])
       /\ Head(net[d][x]).kind = "DATA" =>
            Disposition(x, d) = "ignore" \/ End(Head(net[d][x])) <= recvNext'[x]
    \/ \E f \in Frame : f.kind \notin {"DATA", "FIN"} /\ u = Append(net[d][x], f)

\* No bytes are written, and none are read that are not received.
Tame(n) == \A d \in Carriers, x \in Endpoints : TameAt(n[d][x], d, x)

\* The network as it is.
LEMMA TameNet == Tame(net)
BY DEF Tame, TameAt

\* A frame is read.
LEMMA TamePop ==
    ASSUME net \in Wires, NEW e \in Endpoints, NEW c \in Carriers, net[c][e] # <<>>,
           Head(net[c][e]).kind = "DATA" =>
             Disposition(e, c) = "ignore" \/ End(Head(net[c][e])) <= recvNext'[e]
    PROVE  Tame(Pop(net, e, c))
<1>1. ASSUME NEW d \in Carriers, NEW x \in Endpoints PROVE TameAt(Pop(net, e, c)[d][x], d, x)
  <2>1. Pop(net, e, c)[d][x] = IF d = c /\ x = e THEN Tail(net[d][x]) ELSE net[d][x]
    BY PopAt
  <2> QED
    BY <2>1 DEF TameAt
<1> QED
  BY <1>1 DEF Tame

\* A frame that carries no bytes is written.
LEMMA TamePush ==
    ASSUME NEW n \in Wires, Tame(n), NEW e \in Endpoints, NEW c \in Carriers, NEW f \in Frame,
           f.kind \notin {"DATA", "FIN"}, n[c][Peer(e)] = net[c][Peer(e)]
    PROVE  Tame(Push(n, e, c, f))
<1>1. ASSUME NEW d \in Carriers, NEW x \in Endpoints PROVE TameAt(Push(n, e, c, f)[d][x], d, x)
  <2>1. Push(n, e, c, f)[d][x] =
          IF d = c /\ x = Peer(e) /\ link[c] = "up" THEN Append(n[d][x], f) ELSE n[d][x]
    BY PushAt
  <2>2. TameAt(n[d][x], d, x)
    BY DEF Tame
  <2>3. CASE d = c /\ x = Peer(e) /\ link[c] = "up"
    BY <2>1, <2>3 DEF TameAt
  <2> QED
    BY <2>1, <2>2, <2>3
<1> QED
  BY <1>1 DEF Tame

\* Carriers are closed.
LEMMA TameClose ==
    ASSUME NEW n \in Wires, Tame(n), NEW e \in Endpoints, NEW S,
           \A d \in Carriers : d \in S => link'[d] # "up"
    PROVE  Tame(CloseNet(n, e, S))
<1>1. ASSUME NEW d \in Carriers, NEW x \in Endpoints PROVE TameAt(CloseNet(n, e, S)[d][x], d, x)
  <2>1. CloseNet(n, e, S)[d][x] = IF d \in S /\ x = e THEN <<>> ELSE n[d][x]
    BY CloseAt
  <2>2. TameAt(n[d][x], d, x)
    BY DEF Tame
  <2>3. CASE d \in S /\ x = e
    BY <2>1, <2>3 DEF TameAt
  <2> QED
    BY <2>1, <2>2, <2>3
<1> QED
  BY <1>1 DEF Tame

\* RESET is written.
LEMMA TameReset ==
    ASSUME net \in Wires, NEW e \in Endpoints, NEW S
    PROVE  Tame(ResetNet(net, e, S))
<1> DEFINE f == Header("RESET", 0, <<>>)
<1>0. f \in Frame /\ f.kind \notin {"DATA", "FIN"}
  BY DEF Header, Frame, FrameKinds
<1>1. ASSUME NEW d \in Carriers, NEW x \in Endpoints PROVE TameAt(ResetNet(net, e, S)[d][x], d, x)
  <2>1. ResetNet(net, e, S)[d][x] =
             IF d \in S /\ link[d] = "up" /\ x = Peer(e) THEN Append(net[d][x], f) ELSE net[d][x]
    BY ResetAt
  <2> HIDE DEF f
  <2>2. CASE d \in S /\ link[d] = "up" /\ x = Peer(e)
    BY <1>0, <2>1, <2>2 DEF TameAt
  <2>3. CASE ~(d \in S /\ link[d] = "up" /\ x = Peer(e))
    BY <2>1, <2>3 DEF TameAt
  <2> QED
    BY <2>2, <2>3
<1> QED
  BY <1>1 DEF Tame

\* One wire in a step that writes no bytes on it: its sender goes on writing
\* where it was, or starts anew.
LEMMA OrderAtStep ==
    ASSUME TypeOK, TypeOK', NEW e \in Endpoints, NEW d \in Carriers, OrderAt(e, d),
           TameAt(net'[d][e], d, e), recvNext[e] <= recvNext'[e],
           Disposition(e, d) = "ignore" => Disposition(e, d)' = "ignore",
           active'[Peer(e)] = d /\ link'[d] = "up" =>
             \/ writeOffset'[Peer(e)] = 0
             \/ /\ active[Peer(e)] = d /\ link[d] = "up"
                /\ writeOffset'[Peer(e)] = writeOffset[Peer(e)]
    PROVE  OrderAt(e, d)'
<1> DEFINE p == Peer(e)
           s == net[d][e]
           t == net'[d][e]
           r == recvNext[e]
           more == recvNext'[e]
<1>0. /\ p \in Endpoints /\ s \in Seq(Frame) /\ t \in Seq(Frame) /\ r \in Nat /\ more \in Nat
      /\ writeOffset[p] \in Nat /\ writeOffset'[p] \in Nat /\ Len(s) \in Nat /\ Len(t) \in Nat
  <2>1. p \in Endpoints
    BY PeerIsOther
  <2>2. s \in Seq(Frame) /\ t \in Seq(Frame)
    BY DEF TypeOK, Wires
  <2>3. r \in Nat /\ more \in Nat /\ writeOffset[p] \in Nat /\ writeOffset'[p] \in Nat
    BY <2>1 DEF TypeOK
  <2> HIDE DEF p, s, t, r, more
  <2> QED
    BY <2>1, <2>2, <2>3
<1>1. CASE Disposition(e, d) = "ignore"
  BY <1>1 DEF OrderAt
<1>2. ASSUME Disposition(e, d) # "ignore"
      PROVE  /\ InOrder(t, more)
             /\ active'[p] = d /\ link'[d] = "up" => Reaches(t, Len(t), more, writeOffset'[p])
  <2>1. /\ InOrder(s, r)
        /\ active[p] = d /\ link[d] = "up" => Reaches(s, Len(s), r, writeOffset[p])
    BY <1>2 DEF OrderAt
  <2>2. r <= more
    OBVIOUS
  <2>3. CASE writeOffset'[p] = 0
    <3>1. Reaches(t, Len(t), more, writeOffset'[p])
      BY <1>0, <2>3 DEF Reaches
    <3>2. InOrder(t, more)
      <4>1. CASE t = s
        BY <1>0, <2>1, <2>2, <4>1, InOrderMore
      <4>2. CASE t = <<>>
        BY <4>2, InOrderEmpty
      <4>3. CASE s # <<>> /\ t = Tail(s) /\ (Head(s).kind = "DATA" => End(Head(s)) <= more)
        BY <1>0, <2>1, <2>2, <4>3, InOrderTail
      <4>4. ASSUME NEW f \in Frame, f.kind \notin {"DATA", "FIN"}, t = Append(s, f)
            PROVE  InOrder(t, more)
        <5>1. InOrder(s, more)
          BY <1>0, <2>1, <2>2, InOrderMore
        <5> QED
          BY <1>0, <4>4, <5>1, InOrderAppend
      <4> QED
        BY <1>2, <4>1, <4>2, <4>3, <4>4 DEF TameAt
    <3> QED
      BY <3>1, <3>2
  <2>4. CASE writeOffset'[p] # 0
    <3> DEFINE live == active'[p] = d /\ link'[d] = "up"
    <3>0. live => Reaches(s, Len(s), r, writeOffset'[p])
      BY <2>1, <2>4
    <3> HIDE DEF live
    <3>1. CASE t = s
      <4>1. InOrder(t, more)
        BY <1>0, <2>1, <2>2, <3>1, InOrderMore
      <4>2. Len(s) \in 0..Len(s) /\ writeOffset'[p] <= writeOffset'[p]
        BY <1>0
      <4>3. live => Reaches(t, Len(t), more, writeOffset'[p])
        BY <1>0, <2>2, <3>0, <3>1, <4>2, ReachesLess
      <4> QED
        BY <4>1, <4>3 DEF live
    <3>2. CASE t = <<>> /\ link'[d] # "up"
      BY <3>2, InOrderEmpty
    <3>3. CASE s # <<>> /\ t = Tail(s) /\ (Head(s).kind = "DATA" => End(Head(s)) <= more)
      <4>1. InOrder(t, more)
        BY <1>0, <2>1, <2>2, <3>3, InOrderTail
      <4>2. Len(s) \in 1..Len(s) /\ Len(t) = Len(s) - 1
        BY <1>0, <3>3, WireTail
      <4>3. live => Reaches(t, Len(t), more, writeOffset'[p])
        BY <1>0, <2>2, <3>0, <3>3, <4>2, ReachesTail
      <4> QED
        BY <4>1, <4>3 DEF live
    <3>4. ASSUME NEW f \in Frame, f.kind \notin {"DATA", "FIN"}, t = Append(s, f)
          PROVE  /\ InOrder(t, more)
                 /\ live => Reaches(t, Len(t), more, writeOffset'[p])
      <4>1. InOrder(s, more)
        BY <1>0, <2>1, <2>2, InOrderMore
      <4>2. InOrder(t, more)
        BY <1>0, <3>4, <4>1, InOrderAppend
      <4>3. Len(s) \in 0..Len(s) /\ writeOffset'[p] <= writeOffset'[p] /\ Len(t) = Len(s) + 1
        BY <1>0, <3>4, WireAppend
      <4>4. live => Reaches(s, Len(s), more, writeOffset'[p])
        BY <1>0, <2>2, <3>0, <4>3, ReachesLess
      <4>5. live => Reaches(t, Len(s), more, writeOffset'[p])
        BY <1>0, <3>4, <4>3, <4>4, ReachesAppend
      <4>6. \A i \in 1..Len(s) : i \in 1..Len(t)
        BY <1>0, <4>3
      <4> QED
        BY <4>2, <4>5, <4>6 DEF Reaches
    <3> QED
      BY <1>2, <3>1, <3>2, <3>3, <3>4 DEF TameAt, live
  <2> QED
    BY <2>3, <2>4
<1> QED
  BY <1>1, <1>2 DEF OrderAt

\* A carrier whose frames are dropped does not come back.
LEMMA IgnoreStays ==
    ASSUME NEW e, NEW d, CalmSlots(e, d), Disposition(e, d) = "ignore"
    PROVE  Disposition(e, d)' = "ignore"
BY DEF CalmSlots, Disposition

\* A step that prepares and commits nothing and writes no bytes.
LEMMA OrderCalm ==
    ASSUME TypeOK, TypeOK', OrderInv, Calm, Tame(net'), UNCHANGED writeOffset,
           \A e \in Endpoints : recvNext[e] <= recvNext'[e]
    PROVE  OrderInv'
<1> SUFFICES ASSUME NEW e \in Endpoints, NEW d \in Carriers PROVE OrderAt(e, d)'
  BY DEF OrderInv
<1>1. CalmSlots(e, d) /\ CalmSlots(Peer(e), d)
  BY DEF Calm, Endpoints, Peer
<1>2. /\ OrderAt(e, d) /\ TameAt(net'[d][e], d, e)
      /\ Disposition(e, d) = "ignore" => Disposition(e, d)' = "ignore"
  BY <1>1, IgnoreStays DEF OrderInv, Tame
<1>3. active'[Peer(e)] = d /\ link'[d] = "up" => active[Peer(e)] = d /\ link[d] = "up"
  BY <1>1 DEF CalmSlots
<1> QED
  BY <1>2, <1>3, OrderAtStep

\* The same when nothing is received either.
LEMMA OrderQuiet ==
    ASSUME TypeOK, TypeOK', OrderInv, Calm, Tame(net'), UNCHANGED <<writeOffset, recvNext>>
    PROVE  OrderInv'
<1>1. \A e \in Endpoints : recvNext[e] <= recvNext'[e]
  BY DEF TypeOK
<1> QED
  BY <1>1, OrderCalm

\* A carrier that is not yet committed is not one whose frames are dropped.
LEMMA ProposedNotIgnored ==
    ASSUME NEW e, NEW d, state[e][d] \in {"none", "provisional", "prepared", "committing"}
    PROVE  Disposition(e, d) # "ignore"
BY DEF Disposition

\* A step of a carrier that is not yet committed.
LEMMA OrderProposed ==
    ASSUME TypeOK, TypeOK', OrderInv, Tame(net'),
           UNCHANGED <<writeOffset, recvNext, active, retained>>,
           \A e \in Endpoints, d \in Carriers :
             /\ state'[e][d] = state[e][d] \/ Disposition(e, d) # "ignore"
             /\ link'[d] = "up" => link[d] = "up" \/ active[e] # d
    PROVE  OrderInv'
<1> SUFFICES ASSUME NEW e \in Endpoints, NEW d \in Carriers PROVE OrderAt(e, d)'
  BY DEF OrderInv
<1>1. /\ OrderAt(e, d) /\ TameAt(net'[d][e], d, e)
      /\ Disposition(e, d) = "ignore" => Disposition(e, d)' = "ignore"
  BY DEF OrderInv, Tame, Disposition
<1>2. recvNext[e] <= recvNext'[e] /\ Peer(e) \in Endpoints
  <2>1. recvNext[e] \in Nat /\ recvNext' = recvNext
    BY DEF TypeOK
  <2> QED
    BY <2>1, PeerIsOther
<1> QED
  BY <1>1, <1>2, OrderAtStep

\* A carrier becomes the active one: its writer starts anew.
LEMMA OrderActivate ==
    ASSUME TypeOK, TypeOK', CarrierInv, OrderInv, NEW e \in Endpoints, NEW c \in Carriers,
           Activate(e, c), state[e][c] \in {"prepared", "committing"}, Tame(net'),
           UNCHANGED <<link, recvNext>>
    PROVE  OrderInv'
<1> SUFFICES ASSUME NEW x \in Endpoints, NEW d \in Carriers PROVE OrderAt(x, d)'
  BY DEF OrderInv
<1>0. recvNext[x] <= recvNext'[x] /\ Peer(x) \in Endpoints /\ (e = I \/ e = R)
  <2>1. recvNext[x] \in Nat /\ recvNext' = recvNext
    BY DEF TypeOK
  <2> QED
    BY <2>1, PeerIsOther DEF Endpoints
<1>1. OrderAt(x, d) /\ TameAt(net'[d][x], d, x)
  BY DEF OrderInv, Tame
<1>2. ASSUME Disposition(x, d) = "ignore" PROVE Disposition(x, d)' = "ignore"
  <2>1. CASE x # e
    BY <1>2, <2>1, ActivateAt DEF Disposition
  <2>2. CASE x = e
    <3>1. active[e] = d => state[e][d] = "active"
      BY <1>0 DEF CarrierInv, SlotAt
    <3>2. d # c /\ active[e] # d
      BY <1>2, <2>2, <3>1 DEF Disposition
    <3>3. state'[e][d] = state[e][d] /\ active'[e] # d /\ retained'[e] # d
      BY <3>2, ActivateAt
    <3> QED
      BY <1>2, <2>2, <3>3 DEF Disposition
  <2> QED
    BY <2>1, <2>2
<1>3. active'[Peer(x)] = d =>
        \/ writeOffset'[Peer(x)] = 0
        \/ active[Peer(x)] = d /\ writeOffset'[Peer(x)] = writeOffset[Peer(x)]
  BY <1>0, ActivateAt
<1> QED
  BY <1>0, <1>1, <1>2, <1>3, OrderAtStep

\* Ending a stream only closes wires.
LEMMA TameEnd ==
    ASSUME TypeOK, NEW e \in Endpoints, NEW n \in Wires, Tame(n),
           link' = CloseLinks(Attached(e)), net' = CloseNet(n, e, Attached(e))
    PROVE  Tame(net')
<1>1. \A d \in Carriers : d \in Attached(e) => link'[d] # "up"
  BY CloseAt DEF CloseLinks
<1> QED
  BY <1>1, TameClose

\* The application.
LEMMA OrderApplication ==
    ASSUME TypeOK, TypeOK', CarrierInv, OrderInv, NEW e \in Endpoints, Application(e)
    PROVE  OrderInv'
<1>0. net \in Wires /\ ResetNet(net, e, Attached(e)) \in Wires
  BY ResetNetType DEF TypeOK
<1>1. CASE Write(e) \/ (\E n \in 1..Window : Read(e, n)) \/ ReadEOF(e) \/ CloseWrite(e)
  <2>1. net' = net /\ UNCHANGED <<writeOffset, recvNext>>
    BY <1>1 DEF Write, Read, ReadEOF, CloseWrite, linkVars, sendVars, recvVars
  <2> QED
    BY <1>1, <2>1, TameNet, CalmApplication, OrderQuiet
<1>2. CASE Close(e) \/ Abort(e) \/ ContextDone(e)
  <2>1. UNCHANGED <<writeOffset, recvNext>>
    BY <1>2 DEF Close, Abort, ContextDone, dataVars, sendVars, recvVars
  <2>2. link' = CloseLinks(Attached(e))
    BY <1>2 DEF Close, Abort, ContextDone, FailTerminal
  <2>3. \/ net' = CloseNet(net, e, Attached(e))
        \/ net' = CloseNet(ResetNet(net, e, Attached(e)), e, Attached(e))
    BY <1>2 DEF Close, Abort, ContextDone, FailTerminal
  <2>4. Tame(net')
    BY <1>0, <2>2, <2>3, TameNet, TameReset, TameEnd
  <2> QED
    BY <1>2, <2>1, <2>4, CalmEnds, OrderQuiet
<1> QED
  BY <1>1, <1>2 DEF Application

\* The handshake of the initiator.
LEMMA OrderPrepare ==
    ASSUME TypeOK, TypeOK', CarrierInv, OrderInv, NEW c \in Carriers,
           PrepareCarrier(c) \/ PrepareRefused(c) \/ PrepareReady(c) \/ PrepareFailed(c)
    PROVE  OrderInv'
<1>0. /\ I \in Endpoints /\ R \in Endpoints /\ I # R /\ net \in Wires
      /\ nextEpoch[I] \in Nat /\ committedEpoch[I] \in Nat /\ Acknowledged(I) \in Nat
  BY BothEndpoints DEF TypeOK, Acknowledged, I, R
<1>1. CASE PrepareCarrier(c)
  <2> DEFINE f == Hello("PREPARE", nextEpoch[I] + 1, committedEpoch[I], Acknowledged(I))
  <2>1. f \in Frame /\ f.kind \notin {"DATA", "FIN"}
    BY <1>0 DEF Hello, Frame, FrameKinds
  <2>2. /\ net' = Push(net, I, c, f)
        /\ UNCHANGED <<writeOffset, recvNext, active, retained, state, link>>
    BY <1>1 DEF PrepareCarrier, slotVars, dataVars, sendVars, recvVars
  <2> HIDE DEF f
  <2>3. Tame(net')
    BY <1>0, <2>1, <2>2, TameNet, TamePush
  <2> QED
    BY <2>2, <2>3, OrderProposed
<1>2. CASE PrepareRefused(c) \/ PrepareFailed(c)
  <2>1. /\ net' = CloseNet(net, I, {c}) /\ link' = CloseLinks({c})
        /\ UNCHANGED <<writeOffset, recvNext>>
    BY <1>2 DEF PrepareRefused, PrepareFailed, dataVars, sendVars, recvVars
  <2>2. \A d \in Carriers : d \in {c} => link'[d] # "up"
    BY <2>1 DEF CloseLinks
  <2>3. Tame(net')
    BY <1>0, <2>1, <2>2, TameNet, TameClose
  <2> QED
    BY <1>2, <2>1, <2>3, CalmHandshake, OrderQuiet
<1>3. CASE PrepareReady(c)
  <2>1. /\ op[I] = "prepare" /\ opCarrier[I] = c /\ net[c][I] # <<>> /\ Head(net[c][I]).kind = "READY"
        /\ net' = Pop(net, I, c) /\ state' = [state EXCEPT ![I][c] = "prepared"]
        /\ UNCHANGED <<writeOffset, recvNext, active, retained, link>>
    BY <1>3 DEF PrepareReady, Ready, Usable, recvVars
  <2>2. state[I][c] = "none"
    BY <2>1 DEF CarrierInv, FreshAt
  <2>3. \A e \in Endpoints, d \in Carriers :
          state'[e][d] = state[e][d] \/ Disposition(e, d) # "ignore"
    <3>1. \A e \in Endpoints, d \in Carriers : state'[e][d] = state[e][d] \/ (e = I /\ d = c)
      BY <1>0, <2>1 DEF TypeOK
    <3> QED
      BY <2>2, <3>1, ProposedNotIgnored
  <2>4. Tame(net')
    BY <1>0, <2>1, TamePop
  <2> QED
    BY <2>1, <2>3, <2>4, OrderProposed
<1> QED
  BY <1>1, <1>2, <1>3

\* The handshake of the responder.
LEMMA OrderAccept ==
    ASSUME TypeOK, TypeOK', CarrierInv, OrderInv, NEW c \in Carriers,
           \/ AcceptCarrier(c) \/ AcceptHello(c) \/ AcceptRefused(c) \/ AcceptReady(c)
           \/ AcceptReadyFailed(c)
    PROVE  OrderInv'
<1>0. /\ I \in Endpoints /\ R \in Endpoints /\ I # R /\ Peer(R) = I /\ net \in Wires
      /\ epoch[c] \in Nat /\ committedEpoch[R] \in Nat /\ Acknowledged(R) \in Nat
  BY BothEndpoints DEF TypeOK, Acknowledged, I, R
<1>1. CASE AcceptCarrier(c)
  <2>1. /\ net' = net /\ UNCHANGED <<writeOffset, recvNext, active, retained, state, link>>
    BY <1>1 DEF AcceptCarrier, slotVars, dataVars, sendVars, recvVars, linkVars
  <2> QED
    BY <2>1, TameNet, OrderProposed
<1>2. CASE AcceptRefused(c)
  <2>1. /\ net' = CloseNet(net, R, {c}) /\ link' = CloseLinks({c})
        /\ UNCHANGED <<writeOffset, recvNext>>
    BY <1>2 DEF AcceptRefused, dataVars, sendVars, recvVars
  <2>2. \A d \in Carriers : d \in {c} => link'[d] # "up"
    BY <2>1 DEF CloseLinks
  <2>3. Tame(net')
    BY <1>0, <2>1, <2>2, TameNet, TameClose
  <2> QED
    BY <1>2, <2>1, <2>3, CalmHandshake, OrderQuiet
<1>3. CASE AcceptReady(c)
  <2>0. UNCHANGED <<writeOffset, recvNext, active, retained>>
    BY <1>3 DEF AcceptReady, dataVars, sendVars, recvVars
  <2>1. CASE prepared[R] = c /\ state[R][c] = "provisional"
    <3>1. net' = net /\ UNCHANGED link /\ state' = [state EXCEPT ![R][c] = "prepared"]
      BY <1>3, <2>1 DEF AcceptReady
    <3>2. \A e \in Endpoints, d \in Carriers :
            state'[e][d] = state[e][d] \/ Disposition(e, d) # "ignore"
      <4>1. \A e \in Endpoints, d \in Carriers : state'[e][d] = state[e][d] \/ (e = R /\ d = c)
        BY <1>0, <3>1 DEF TypeOK
      <4> QED
        BY <2>1, <4>1, ProposedNotIgnored
    <3> QED
      BY <2>0, <3>1, <3>2, TameNet, OrderProposed
  <2>2. CASE ~(prepared[R] = c /\ state[R][c] = "provisional")
    <3>1. net' = CloseNet(net, R, {c}) /\ link' = CloseLinks({c})
      BY <1>3, <2>2 DEF AcceptReady
    <3>2. \A d \in Carriers : d \in {c} => link'[d] # "up"
      BY <3>1 DEF CloseLinks
    <3>3. Tame(net')
      BY <1>0, <3>1, <3>2, TameNet, TameClose
    <3> QED
      BY <1>3, <2>0, <2>2, <3>3, CalmHandshake, OrderQuiet
  <2> QED
    BY <2>1, <2>2
<1>4. CASE AcceptReadyFailed(c)
  <2>1. /\ net' = [net EXCEPT ![c] = [e \in Endpoints |-> <<>>]] /\ link' = link /\ link[c] = "down"
        /\ UNCHANGED <<writeOffset, recvNext>>
    BY <1>4 DEF AcceptReadyFailed, dataVars, sendVars, recvVars
  <2>2. ASSUME NEW d \in Carriers, NEW x \in Endpoints PROVE TameAt(net'[d][x], d, x)
    <3>1. net'[d][x] = IF d = c THEN <<>> ELSE net[d][x]
      BY <1>0, <2>1 DEF Wires
    <3> QED
      BY <2>1, <3>1 DEF TameAt
  <2> QED
    BY <1>4, <2>1, <2>2, CalmReadyFailed, OrderQuiet DEF Tame
<1>5. CASE AcceptHello(c)
  <2> DEFINE f == Hello("READY", epoch[c], committedEpoch[R], Acknowledged(R))
             old == {prepared[R]} \ {None}
  <2>1. f \in Frame /\ f.kind \notin {"DATA", "FIN"}
    BY <1>0 DEF Hello, Frame, FrameKinds
  <2>2. /\ op[R] = "accept" /\ opCarrier[R] = c /\ net[c][R] # <<>> /\ Head(net[c][R]).kind = "PREPARE"
        /\ net' = CloseNet(Push(Pop(net, R, c), R, c, f), R, old)
        /\ link' = CloseLinks(old)
        /\ state' = [state EXCEPT ![R] = [d \in Carriers |->
                        IF d = c THEN "provisional"
                        ELSE IF d \in old THEN "superseded" ELSE state[R][d]]]
        /\ UNCHANGED <<writeOffset, recvNext, active, retained>>
    BY <1>5 DEF AcceptHello, Acceptable, recvVars
  <2>3. state[R][c] = "none"
    BY <2>2 DEF CarrierInv, FreshAt
  <2>4. \A d \in Carriers : d \in old => state[R][d] \in {"provisional", "prepared"}
    BY DEF CarrierInv, SlotAt
  <2> HIDE DEF f, old
  <2>5. \A e \in Endpoints, d \in Carriers :
          state'[e][d] = state[e][d] \/ Disposition(e, d) # "ignore"
    <3>1. \A e \in Endpoints, d \in Carriers :
            state'[e][d] = state[e][d] \/ (e = R /\ (d = c \/ d \in old))
      BY <1>0, <2>2 DEF TypeOK
    <3> QED
      BY <2>3, <2>4, <3>1, ProposedNotIgnored
  <2>6. \A d \in Carriers : link'[d] = IF d \in old THEN "down" ELSE link[d]
    BY <2>2 DEF CloseLinks
  <2>7. Pop(net, R, c) \in Wires /\ Tame(Pop(net, R, c)) /\ Pop(net, R, c)[c][I] = net[c][I]
    BY <1>0, <2>2, PopType, TamePop, PopAt
  <2>8. Push(Pop(net, R, c), R, c, f) \in Wires /\ Tame(Push(Pop(net, R, c), R, c, f))
    BY <1>0, <2>1, <2>7, PushType, TamePush
  <2>9. Tame(net')
    BY <1>0, <2>2, <2>6, <2>8, TameClose
  <2> QED
    BY <2>2, <2>5, <2>6, <2>9, OrderProposed
<1> QED
  BY <1>1, <1>2, <1>3, <1>4, <1>5

\* The coordinator, and the writers of COMMIT_ACK and CONFIRM.
LEMMA OrderCoordinator ==
    ASSUME TypeOK, TypeOK', CarrierInv, OrderInv, NEW c \in Carriers,
           \/ OpenLink(c) \/ LinkFail(c) \/ PromoteCarrier(c) \/ DropPrepared(c)
           \/ SendCommitAck(c) \/ ConfirmCarrier(c)
    PROVE  OrderInv'
<1>0. /\ I \in Endpoints /\ R \in Endpoints /\ I # R /\ net \in Wires /\ epoch[c] \in Nat
      /\ \A e \in Endpoints : e = I \/ e = R
  BY BothEndpoints DEF TypeOK, I, R, Endpoints
<1> DEFINE f(k) == Header(k, epoch[c], <<>>)
<1>a. \A k \in {"COMMIT", "COMMIT_ACK", "CONFIRM", "DISCARD"} :
        f(k) \in Frame /\ f(k).kind \notin {"DATA", "FIN"}
  BY <1>0 DEF Header, Frame, FrameKinds
<1>1. CASE OpenLink(c)
  <2>1. /\ net' = net /\ link[c] = "unused" /\ link' = [link EXCEPT ![c] = "up"]
        /\ UNCHANGED <<writeOffset, recvNext, active, retained, state>>
    BY <1>1 DEF OpenLink, slotVars, dataVars, sendVars, recvVars
  <2>2. \A e \in Endpoints : active[e] # c
    BY <1>0, <2>1 DEF CarrierInv, FreshAt, SlotAt
  <2>3. \A d \in Carriers : link'[d] = "up" => link[d] = "up" \/ d = c
    BY <2>1 DEF TypeOK
  <2> QED
    BY <2>1, <2>2, <2>3, TameNet, OrderProposed
<1>2. CASE LinkFail(c)
  <2>1. /\ net' = net /\ UNCHANGED <<writeOffset, recvNext>>
    BY <1>2 DEF LinkFail, dataVars, sendVars, recvVars
  <2> QED
    BY <1>2, <2>1, TameNet, CalmHandshake, OrderQuiet
<1>3. CASE PromoteCarrier(c)
  <2>1. /\ net' = Push(net, I, c, f("COMMIT")) /\ state[I][c] = "prepared"
        /\ state' = [state EXCEPT ![I][c] = "committing"]
        /\ UNCHANGED <<writeOffset, recvNext, active, retained, link>>
    BY <1>3 DEF PromoteCarrier, dataVars, sendVars, recvVars
  <2> HIDE DEF f
  <2>2. Tame(net')
    BY <1>0, <1>a, <2>1, TameNet, TamePush
  <2>3. \A e \in Endpoints, d \in Carriers : state'[e][d] = state[e][d] \/ (e = I /\ d = c)
    BY <1>0, <2>1 DEF TypeOK
  <2> QED
    BY <2>1, <2>2, <2>3, ProposedNotIgnored, OrderProposed
<1>4. CASE DropPrepared(c) \/ SendCommitAck(c)
  <2>1. /\ net' = Push(net, I, c, f("DISCARD")) \/ net' = Push(net, R, c, f("COMMIT_ACK"))
        /\ UNCHANGED <<writeOffset, recvNext, active, retained, link, state>>
    BY <1>4 DEF DropPrepared, SendCommitAck, dataVars, sendVars, recvVars, slotVars
  <2> HIDE DEF f
  <2>2. Tame(net')
    BY <1>0, <1>a, <2>1, TameNet, TamePush
  <2> QED
    BY <2>1, <2>2, OrderProposed
<1>5. CASE ConfirmCarrier(c)
  <2>1. PICK old : /\ link' = CloseLinks(old) /\ net' = CloseNet(Push(net, I, c, f("CONFIRM")), I, old)
    BY <1>5 DEF ConfirmCarrier
  <2>2. UNCHANGED <<writeOffset, recvNext>>
    BY <1>5 DEF ConfirmCarrier, dataVars, sendVars, recvVars
  <2> HIDE DEF f
  <2>3. \A d \in Carriers : d \in old => link'[d] # "up"
    BY <2>1 DEF CloseLinks
  <2>4. Push(net, I, c, f("CONFIRM")) \in Wires /\ Tame(Push(net, I, c, f("CONFIRM")))
    BY <1>0, <1>a, PushType, TameNet, TamePush
  <2>5. Tame(net')
    BY <1>0, <2>1, <2>3, <2>4, TameClose
  <2> QED
    BY <1>5, <2>2, <2>5, CalmConfirm, OrderQuiet
<1> QED
  BY <1>1, <1>2, <1>3, <1>4, <1>5

\* DATA continues what the carrier has carried; FIN comes behind all of it.
LEMMA OrderWriters ==
    ASSUME TypeOK, TypeOK', DataInv, CarrierInv, OrderInv, NEW e \in Endpoints,
           SendData(e) \/ SendFin(e)
    PROVE  OrderInv'
<1>a. PICK a \in Carriers : a = active[e]
  BY DEF TypeOK, SendData, SendFin, DataDue, FinDue, Writing, Slots
<1>p. PICK p \in Endpoints : p = Peer(e) /\ Peer(p) = e /\ p # e
  BY PeerIsOther
<1> DEFINE s == net[a][p]
<1>0. /\ p \in Endpoints /\ Peer(p) = e /\ p # e /\ a \in Carriers /\ net \in Wires
      /\ a = active[e] /\ p = Peer(e)
  BY <1>a, <1>p DEF TypeOK
<1>1. /\ writeOffset[e] \in Nat /\ sendBase[e] \in Nat /\ sendNext[e] \in Nat
      /\ recvBase[p] \in Nat /\ recvNext[p] \in Nat /\ Len(recv[p]) \in Nat /\ Len(send[e]) \in Nat
  BY <1>0, DataTypes
<1>2. /\ sendBase[e] <= recvBase[p] /\ recvBase[p] + Len(recv[p]) = recvNext[p]
      /\ writeOffset[e] <= sendNext[e] /\ sendBase[e] + Len(send[e]) = sendNext[e]
  BY <1>0 DEF DataInv, AckedWasConsumed, RecvShape, SendShape
<1>3. Offset(e) \in Nat /\ (Offset(e) = writeOffset[e] \/ Offset(e) <= recvNext[p])
  BY <1>1, <1>2 DEF Offset
<1>4. s \in Seq(Frame) /\ Len(s) \in Nat
  <2>1. s \in Seq(Frame)
    BY <1>0 DEF Wires
  <2> HIDE DEF s
  <2> QED
    BY <2>1
<1> HIDE DEF s
\* What has been written so far reaches the writer's offset.
<1>5. Disposition(p, a) # "ignore" /\ link[a] = "up" =>
        InOrder(s, recvNext[p]) /\ Reaches(s, Len(s), recvNext[p], Offset(e))
  <2>1. Disposition(p, a) # "ignore" /\ link[a] = "up" =>
          InOrder(s, recvNext[p]) /\ Reaches(s, Len(s), recvNext[p], writeOffset[e])
    BY <1>0 DEF OrderInv, OrderAt, s
  <2> QED
    BY <1>3, <2>1 DEF Reaches
<1>6. UNCHANGED <<recvNext, active, retained, state, link>>
  BY DEF SendData, SendFin, controlVars, slotVars, recvVars
<1>7. PICK f \in Frame :
        /\ net' = Push(net, e, a, f)
        /\ \A x \in Endpoints : x # e => writeOffset'[x] = writeOffset[x]
        /\ \/ f.kind = "DATA" /\ f.seq = Offset(e) /\ writeOffset'[e] = End(f)
           \/ f.kind = "FIN" /\ f.seq <= Offset(e) /\ writeOffset'[e] = writeOffset[e]
  <2>1. CASE SendData(e)
    <3>1. PICK data \in Seq(Nat) :
             /\ net' = Push(net, e, active[e], Header("DATA", Offset(e), data))
             /\ writeOffset' = [writeOffset EXCEPT ![e] = Offset(e) + Len(data)]
      BY <2>1, SentData
    <3> DEFINE f == Header("DATA", Offset(e), data)
    <3>2. f \in Frame /\ f.kind = "DATA" /\ f.seq = Offset(e) /\ End(f) = Offset(e) + Len(data)
      BY <1>3, <3>1 DEF Header, Frame, FrameKinds, End
    <3>3. net' = Push(net, e, a, f)
      BY <1>0, <3>1
    <3> HIDE DEF f
    <3>4. writeOffset'[e] = End(f) /\ \A x \in Endpoints : x # e => writeOffset'[x] = writeOffset[x]
      BY <3>1, <3>2 DEF TypeOK
    <3> QED
      BY <3>2, <3>3, <3>4
  <2>2. CASE SendFin(e)
    <3> DEFINE f == Header("FIN", sendNext[e], <<>>)
    <3>1. f \in Frame /\ f.kind = "FIN" /\ f.seq = sendNext[e]
      BY <1>1 DEF Header, Frame, FrameKinds
    <3>2. net' = Push(net, e, a, f) /\ UNCHANGED writeOffset /\ Offset(e) >= sendNext[e]
      BY <1>0, <2>2 DEF SendFin, FinDue, sendVars
    <3> HIDE DEF f
    <3>3. f.seq <= Offset(e)
      BY <1>1, <1>3, <3>1, <3>2
    <3> QED
      BY <3>1, <3>2, <3>3
  <2> QED
    BY <2>1, <2>2
<1>8. ASSUME NEW x \in Endpoints, NEW d \in Carriers, ~(x = p /\ d = a /\ link[a] = "up")
      PROVE  OrderAt(x, d)'
  <2>1. net'[d][x] = net[d][x]
    BY <1>0, <1>7, <1>8, PushAt
  <2>2. /\ OrderAt(x, d) /\ Disposition(x, d)' = Disposition(x, d)
        /\ recvNext'[x] = recvNext[x] /\ recvNext[x] \in Nat
    BY <1>6 DEF OrderInv, Disposition, TypeOK
  <2>3. active'[Peer(x)] = d /\ link'[d] = "up" => writeOffset'[Peer(x)] = writeOffset[Peer(x)]
    <3>1. CASE Peer(x) = e
      <4>1. x = p
        BY <1>0, <3>1, PeerIsOther
      <4> QED
        BY <1>0, <1>6, <1>8, <3>1, <4>1
    <3>2. CASE Peer(x) # e
      BY <1>7, <3>2, PeerIsOther
    <3> QED
      BY <3>1, <3>2
  <2>4. active'[Peer(x)] = active[Peer(x)] /\ link'[d] = link[d]
    BY <1>6
  <2> QED
    BY <2>1, <2>2, <2>3, <2>4 DEF OrderAt
<1>9. ASSUME link[a] = "up" PROVE OrderAt(p, a)'
  <2> DEFINE t == net'[a][p]
             r == recvNext[p]
  <2>1. t = Append(s, f)
    <3>1. Push(net, e, a, f)[a][p] =
            IF a = a /\ p = Peer(e) /\ link[a] = "up" THEN Append(net[a][p], f) ELSE net[a][p]
      BY <1>0, PushAt
    <3> QED
      BY <1>0, <1>7, <1>9, <3>1 DEF s
  <2>2. Disposition(p, a)' = Disposition(p, a) /\ recvNext'[p] = r
    BY <1>6 DEF Disposition
  <2>3. CASE Disposition(p, a) = "ignore"
    BY <2>2, <2>3 DEF OrderAt
  <2>4. CASE Disposition(p, a) # "ignore"
    <3>1. InOrder(s, r) /\ Reaches(s, Len(s), r, Offset(e))
      BY <1>5, <1>9, <2>4
    <3>2. f.seq \in Nat /\ End(f) \in Nat /\ f.seq <= Offset(e)
      BY <1>3, <1>7, FrameNumbers
    <3>3. Len(s) \in 0..Len(s) /\ r <= r
      BY <1>1, <1>4
    <3>4. Reaches(s, Len(s), r, f.seq)
      BY <1>1, <1>3, <1>4, <3>1, <3>2, <3>3, ReachesLess
    <3>5. InOrder(t, r)
      BY <1>1, <1>4, <2>1, <3>1, <3>4, InOrderAppend
    <3>6. Len(t) = Len(s) + 1 /\ t[Len(s) + 1] = f
      BY <1>4, <2>1, WireAppend
    <3>7. Reaches(t, Len(t), r, writeOffset'[e])
      <4>1. CASE f.kind = "DATA"
        <5>1. Len(t) \in 1..Len(t) /\ t[Len(t)] = f /\ writeOffset'[e] <= End(f)
          BY <1>4, <1>7, <3>2, <3>6, <4>1
        <5> QED
          BY <4>1, <5>1 DEF Reaches
      <4>2. CASE f.kind = "FIN"
        <5>1. writeOffset'[e] = writeOffset[e] /\ writeOffset[e] <= Offset(e)
          BY <1>1, <1>7, <4>2 DEF Offset
        <5>2. Reaches(s, Len(s), r, writeOffset[e])
          BY <1>1, <1>3, <1>4, <3>1, <3>3, <5>1, ReachesLess
        <5>3. Reaches(t, Len(s), r, writeOffset[e])
          BY <1>4, <2>1, <3>3, <5>2, ReachesAppend
        <5>4. \A i \in 1..Len(s) : i \in 1..Len(t)
          BY <1>4, <3>6
        <5> QED
          BY <5>1, <5>3, <5>4 DEF Reaches
      <4> QED
        BY <1>7, <4>1, <4>2
    <3> QED
      BY <1>0, <2>2, <3>5, <3>7 DEF OrderAt
  <2> QED
    BY <2>3, <2>4
<1> QED
  BY <1>8, <1>9 DEF OrderInv

\* The readers of bytes, acknowledgements and half-closes.
LEMMA OrderDataFrames ==
    ASSUME TypeOK, TypeOK', CarrierInv, OrderInv, NEW e \in Endpoints, NEW c \in Carriers,
           \/ RecvLate(e, c) \/ RecvData(e, c) \/ RecvAck(e, c) \/ RecvFin(e, c)
           \/ RecvFinAck(e, c)
    PROVE  OrderInv'
<1> DEFINE f == Head(net[c][e])
           reply == Header("FINACK", f.seq, <<>>)
<1>0. /\ net \in Wires /\ net[c][e] # <<>> /\ f \in Frame /\ Peer(e) \in Endpoints /\ Peer(e) # e
  <2>1. net[c][e] # <<>> /\ net \in Wires
    BY DEF RecvLate, RecvData, RecvAck, RecvFin, RecvFinAck, ReadsAs, Readable, TypeOK
  <2> QED
    BY <2>1, HeadKind, PeerIsOther
<1>1. f.seq \in Nat /\ End(f) \in Nat /\ Len(f.data) \in Nat /\ recvNext[e] \in Nat
  BY <1>0, FrameNumbers DEF TypeOK
<1>2. UNCHANGED writeOffset
  BY DEF RecvLate, RecvData, RecvAck, RecvFin, RecvFinAck, dataVars, sendVars
<1>3. \A x \in Endpoints : recvNext[x] <= recvNext'[x]
  <2>1. \A x \in Endpoints : recvNext[x] \in Nat
    BY DEF TypeOK
  <2>2. CASE RecvData(e, c) /\ End(f) > recvNext[e]
    <3>1. recvNext' = [recvNext EXCEPT ![e] = End(f)]
      BY <2>2 DEF RecvData, End
    <3> HIDE DEF f
    <3>2. \A x \in Endpoints : recvNext'[x] = IF x = e THEN End(f) ELSE recvNext[x]
      BY <3>1 DEF TypeOK
    <3> QED
      BY <1>1, <2>1, <2>2, <3>2
  <2>3. CASE ~(RecvData(e, c) /\ End(f) > recvNext[e])
    <3>1. recvNext' = recvNext
      BY <2>3 DEF RecvLate, RecvData, RecvAck, RecvFin, RecvFinAck, dataVars, recvVars, End
    <3> QED
      BY <2>1, <3>1
  <2> QED
    BY <2>2, <2>3
<1>4. f.kind = "DATA" => Disposition(e, c) = "ignore" \/ End(f) <= recvNext'[e]
  <2>1. CASE RecvLate(e, c) \/ RecvAck(e, c) \/ RecvFin(e, c) \/ RecvFinAck(e, c)
    BY <2>1 DEF RecvLate, RecvAck, RecvFin, RecvFinAck, ReadsAs
  <2>2. CASE RecvData(e, c)
    <3>1. CASE End(f) > recvNext[e]
      <4>1. recvNext' = [recvNext EXCEPT ![e] = End(f)]
        BY <2>2, <3>1 DEF RecvData, End
      <4> HIDE DEF f
      <4>2. recvNext'[e] = End(f)
        BY <4>1 DEF TypeOK
      <4> QED
        BY <1>1, <4>2
    <3>2. CASE ~(End(f) > recvNext[e])
      <4>1. recvNext' = recvNext
        BY <2>2, <3>2 DEF RecvData, End
      <4> HIDE DEF f
      <4> QED
        BY <1>1, <3>2, <4>1
    <3> QED
      BY <3>1, <3>2
  <2> QED
    BY <2>1, <2>2
<1>5. Pop(net, e, c) \in Wires /\ Tame(Pop(net, e, c))
  BY <1>0, <1>4, PopType, TamePop
<1>6. net' = Pop(net, e, c) \/ net' = Push(Pop(net, e, c), e, c, reply)
  BY DEF RecvLate, RecvData, RecvAck, RecvFin, RecvFinAck
<1>7. reply \in Frame /\ reply.kind \notin {"DATA", "FIN"}
  BY <1>1 DEF Header, Frame, FrameKinds
<1> HIDE DEF f, reply
<1>8. Pop(net, e, c)[c][Peer(e)] = net[c][Peer(e)]
  BY <1>0, PopAt
<1>9. Tame(net')
  BY <1>5, <1>6, <1>7, <1>8, TamePush
<1> QED
  BY <1>2, <1>3, <1>9, CalmFrames, OrderCalm

\* The readers of the other frames.
LEMMA OrderControlFrames ==
    ASSUME TypeOK, TypeOK', CarrierInv, OrderInv, NEW e \in Endpoints, NEW c \in Carriers,
           \/ RecvReset(e, c) \/ RecvCommit(c) \/ RecvCommitAck(c) \/ RecvConfirm(c)
           \/ RecvDiscard(c) \/ RecvDiscardAck(c)
    PROVE  OrderInv'
<1>0. /\ I \in Endpoints /\ R \in Endpoints /\ I # R /\ net \in Wires /\ epoch[c] \in Nat
  BY BothEndpoints DEF TypeOK, I, R
<1>1. CASE RecvReset(e, c)
  <2>1. /\ net[c][e] # <<>> /\ Head(net[c][e]).kind = "RESET" /\ UNCHANGED <<writeOffset, recvNext>>
    BY <1>1 DEF RecvReset, ReadsAs, Readable, dataVars, sendVars, recvVars
  <2>2. Pop(net, e, c) \in Wires /\ Tame(Pop(net, e, c))
    BY <1>0, <2>1, PopType, TamePop
  <2>3. CASE RemoteFinished(e)
    BY <1>1, <2>1, <2>2, <2>3, CalmReset, OrderQuiet DEF RecvReset
  <2>4. CASE ~RemoteFinished(e)
    <3>1. link' = CloseLinks(Attached(e)) /\ net' = CloseNet(Pop(net, e, c), e, Attached(e))
      BY <1>1, <2>4 DEF RecvReset, FailTerminal
    <3>2. Tame(net')
      BY <2>2, <3>1, TameEnd
    <3> QED
      BY <1>1, <2>1, <3>2, CalmReset, OrderQuiet
  <2> QED
    BY <2>3, <2>4
<1>2. CASE RecvCommit(c)
  <2>1. /\ Readable(R, c) /\ net[c][R] # <<>> /\ Head(net[c][R]).kind = "COMMIT" /\ Activate(R, c)
        /\ net' = Pop(net, R, c) /\ UNCHANGED <<link, recvNext>>
    BY <1>2 DEF RecvCommit, ReadsAs, Readable, recvVars
  <2>2. state[R][c] = "prepared"
    BY <1>0, <2>1, ControlLawful
  <2>3. Tame(net')
    BY <1>0, <2>1, TamePop
  <2> QED
    BY <1>0, <2>1, <2>2, <2>3, OrderActivate
<1>3. CASE RecvCommitAck(c)
  <2>1. /\ Readable(I, c) /\ net[c][I] # <<>> /\ Head(net[c][I]).kind = "COMMIT_ACK" /\ Activate(I, c)
        /\ net' = Pop(net, I, c) /\ UNCHANGED <<link, recvNext>>
    BY <1>3 DEF RecvCommitAck, ReadsAs, Readable, recvVars
  <2>2. state[I][c] = "committing"
    BY <1>0, <2>1, ControlLawful
  <2>3. Tame(net')
    BY <1>0, <2>1, TamePop
  <2> QED
    BY <1>0, <2>1, <2>2, <2>3, OrderActivate
<1>4. CASE RecvConfirm(c)
  <2>1. /\ net[c][R] # <<>> /\ Head(net[c][R]).kind = "CONFIRM" /\ UNCHANGED <<writeOffset, recvNext>>
    BY <1>4 DEF RecvConfirm, ReadsAs, Readable, dataVars, sendVars, recvVars
  <2>2. PICK old : link' = CloseLinks(old) /\ net' = CloseNet(Pop(net, R, c), R, old)
    BY <1>4 DEF RecvConfirm
  <2>3. \A d \in Carriers : d \in old => link'[d] # "up"
    BY <2>2 DEF CloseLinks
  <2>4. Pop(net, R, c) \in Wires /\ Tame(Pop(net, R, c))
    BY <1>0, <2>1, PopType, TamePop
  <2>5. Tame(net')
    BY <1>0, <2>2, <2>3, <2>4, TameClose
  <2> QED
    BY <1>4, <2>1, <2>5, CalmConfirmed, OrderQuiet
<1>5. CASE RecvDiscard(c)
  <2> DEFINE f == Header("DISCARD_ACK", epoch[c], <<>>)
  <2>1. f \in Frame /\ f.kind \notin {"DATA", "FIN"}
    BY <1>0 DEF Header, Frame, FrameKinds
  <2>2. /\ link' = CloseLinks({c}) /\ net' = CloseNet(Push(net, R, c, f), R, {c})
        /\ UNCHANGED <<writeOffset, recvNext>>
    BY <1>5 DEF RecvDiscard, dataVars, sendVars, recvVars
  <2> HIDE DEF f
  <2>3. \A d \in Carriers : d \in {c} => link'[d] # "up"
    BY <2>2 DEF CloseLinks
  <2>4. Push(net, R, c, f) \in Wires /\ Tame(Push(net, R, c, f))
    BY <1>0, <2>1, PushType, TameNet, TamePush
  <2>5. Tame(net')
    BY <1>0, <2>2, <2>3, <2>4, TameClose
  <2> QED
    BY <1>5, <2>2, <2>5, CalmDiscard, OrderQuiet
<1>6. CASE RecvDiscardAck(c)
  <2>1. /\ link' = CloseLinks({c}) /\ net' = CloseNet(net, I, {c})
        /\ UNCHANGED <<writeOffset, recvNext>>
    BY <1>6 DEF RecvDiscardAck, dataVars, sendVars, recvVars
  <2>2. \A d \in Carriers : d \in {c} => link'[d] # "up"
    BY <2>1 DEF CloseLinks
  <2>3. Tame(net')
    BY <1>0, <2>1, <2>2, TameNet, TameClose
  <2> QED
    BY <1>6, <2>1, <2>3, CalmDiscard, OrderQuiet
<1> QED
  BY <1>1, <1>2, <1>3, <1>4, <1>5, <1>6

\* ACK, failCarrier, expireDetached, and a step of nobody.
LEMMA OrderRest ==
    ASSUME TypeOK, TypeOK', DataInv, CarrierInv, OrderInv, NEW e \in Endpoints,
           \/ SendAck(e) \/ (\E c \in Carriers : FailCarrier(e, c))
           \/ ExpireDetached(e) \/ FailExpired(e) \/ UNCHANGED vars
    PROVE  OrderInv'
<1>0. net \in Wires
  BY DEF TypeOK
<1>1. CASE SendAck(e)
  <2> DEFINE f == Header("ACK", Acknowledged(e), <<>>)
  <2>1. Acknowledged(e) \in Nat /\ active[e] \in Carriers
    BY <1>1 DEF SendAck, AckDue, TypeOK, Acknowledged, Slots
  <2>2. f \in Frame /\ f.kind \notin {"DATA", "FIN"}
    BY <2>1 DEF Header, Frame, FrameKinds
  <2>3. net' = Push(net, e, active[e], f) /\ UNCHANGED <<writeOffset, recvNext>>
    BY <1>1 DEF SendAck, sendVars, recvVars
  <2> HIDE DEF f
  <2>4. Tame(net')
    BY <1>0, <2>1, <2>2, <2>3, TameNet, TamePush
  <2> QED
    BY <1>1, <2>3, <2>4, CalmWriters, OrderQuiet
<1>2. ASSUME NEW c \in Carriers, FailCarrier(e, c) PROVE OrderInv'
  <2>1. /\ net' = CloseNet(net, e, {c}) /\ link' = link /\ link[c] = "down"
        /\ UNCHANGED <<writeOffset, recvNext>>
    BY <1>2 DEF FailCarrier, dataVars, sendVars, recvVars
  <2>2. Tame(net')
    BY <1>0, <2>1, TameNet, TameClose
  <2> QED
    BY <1>2, <2>1, <2>2, CalmFailCarrier, OrderQuiet
<1>3. CASE ExpireDetached(e)
  <2>1. net' = net /\ UNCHANGED <<writeOffset, recvNext>>
    BY <1>3 DEF ExpireDetached, linkVars, dataVars, sendVars, recvVars
  <2> QED
    BY <1>3, <2>1, TameNet, CalmExpire, OrderQuiet
<1>4. CASE FailExpired(e)
  <2>1. /\ link' = CloseLinks(Attached(e)) /\ net' = CloseNet(net, e, Attached(e))
        /\ UNCHANGED <<writeOffset, recvNext>>
    BY <1>4 DEF FailExpired, FailTerminal, dataVars, sendVars, recvVars
  <2>2. Tame(net')
    BY <1>0, <2>1, TameNet, TameEnd
  <2> QED
    BY <1>4, <2>1, <2>2, CalmEnds, OrderQuiet
<1>5. CASE UNCHANGED vars
  <2>1. net' = net /\ UNCHANGED <<writeOffset, recvNext>>
    BY <1>5 DEF vars, linkVars, dataVars, sendVars, recvVars
  <2> QED
    BY <1>5, <2>1, TameNet, CalmApplication, OrderQuiet
<1> QED
  BY <1>1, <1>2, <1>3, <1>4, <1>5

\* PrepareCarrier's reader starts.
LEMMA OrderStartReader ==
    ASSUME TypeOK, TypeOK', CarrierInv, OrderInv, StartReader
    PROVE  OrderInv'
<1>1. /\ net' = net /\ UNCHANGED <<writeOffset, recvNext, active, retained, state, link>>
  BY DEF StartReader, linkVars, slotVars, dataVars, sendVars, recvVars
<1> QED
  BY <1>1, TameNet, OrderProposed

\* Nothing is in flight at the start.
LEMMA OrderInit == Init => OrderInv
<1> SUFFICES ASSUME Init, NEW e \in Endpoints, NEW c \in Carriers PROVE OrderAt(e, c)
  BY DEF OrderInv
<1>1. net[c][e] = <<>> /\ active[Peer(e)] = None /\ c # None
  BY PeerIsOther, CarriersAssumption DEF Init
<1> QED
  BY <1>1, InOrderEmpty DEF OrderAt

\* Every step keeps the wires in order.
LEMMA OrderStep ==
    ASSUME TypeOK, TypeOK', DataInv, CarrierInv, OrderInv, [Next]_vars
    PROVE  OrderInv'
<1>1. CASE UNCHANGED vars
  BY <1>1, OrderRest, BothEndpoints
<1>2. ASSUME NEW e \in Endpoints, Application(e) PROVE OrderInv'
  BY <1>2, OrderApplication
<1>3. ASSUME NEW c \in Carriers, Handshake(c) PROVE OrderInv'
  BY <1>3, OrderPrepare, OrderAccept, OrderCoordinator DEF Handshake
<1>4. ASSUME NEW c \in Carriers,
             OpenLink(c) \/ LinkFail(c) \/ PromoteCarrier(c) \/ DropPrepared(c)
      PROVE  OrderInv'
  BY <1>4, OrderCoordinator
<1>5. CASE StartReader
  BY <1>5, OrderStartReader
<1>6. ASSUME NEW e \in Endpoints, SendData(e) \/ SendFin(e) \/ SendAck(e) PROVE OrderInv'
  BY <1>6, OrderWriters, OrderRest
<1>7. ASSUME NEW e \in Endpoints, NEW c \in Carriers, RecvFrame(e, c) PROVE OrderInv'
  BY <1>7, FrameIsLegal, OrderDataFrames, OrderControlFrames DEF LegalFrame
<1>8. ASSUME NEW e \in Endpoints, NEW c \in Carriers, FailCarrier(e, c) PROVE OrderInv'
  BY <1>8, OrderRest
<1>9. ASSUME NEW e \in Endpoints, ExpireDetached(e) \/ FailExpired(e) PROVE OrderInv'
  BY <1>9, OrderRest
<1> QED
  BY <1>1, <1>2, <1>3, <1>4, <1>5, <1>6, <1>7, <1>8, <1>9 DEF Next

(***************************************************************************)
(* How a stream ends.                                                      *)
(***************************************************************************)
\* No stream ends in a protocol failure, and none that has the peer's
\* half-close ends by the peer's RESET.
EndInv == NoProtocolFailure /\ ResetInv

\* A step that ends no stream and records no half-close at one that has ended.
LEMMA EndKept ==
    ASSUME EndInv, UNCHANGED terminalErr,
           \A e \in Endpoints : remoteFIN'[e] => remoteFIN[e] \/ terminalErr[e] # "reset"
    PROVE  EndInv'
BY DEF EndInv, NoProtocolFailure, ResetInv

\* A stream that ends does so by RESET, by expiry or by its owner (failTerminal).
LEMMA EndNamed ==
    ASSUME TypeOK, EndInv, NEW e \in Endpoints, NEW reason \in {"reset", "expired", "aborted"},
           reason = "reset" => ~remoteFIN[e], NEW n, FailTerminal(e, reason, n), UNCHANGED remoteFIN
    PROVE  EndInv'
<1>1. /\ terminalErr \in [Endpoints -> TerminalErrors]
      /\ terminalErr' = [terminalErr EXCEPT ![e] = IF terminalErr[e] = "none" THEN reason ELSE terminalErr[e]]
  BY DEF TypeOK, FailTerminal
<1>2. \A x \in Endpoints : x # e => terminalErr'[x] = terminalErr[x]
  BY <1>1
<1>3. terminalErr'[e] = terminalErr[e] \/ terminalErr'[e] = reason
  BY <1>1
<1>4. reason \notin ProtocolFailures
  BY DEF ProtocolFailures
<1> QED
  BY <1>2, <1>3, <1>4 DEF EndInv, NoProtocolFailure, ResetInv

\* A carrier whose frames are applied belongs to an open stream.
LEMMA AcceptedIsOpen ==
    ASSUME CarrierInv, NEW e \in Endpoints, NEW c \in Carriers, Disposition(e, c) = "accept"
    PROVE  Open(e)
<1>1. (active[e] = c \/ retained[e] = c) /\ c # None
  BY CarriersAssumption DEF Disposition
<1> QED
  BY <1>1 DEF CarrierInv, EndedInv

\* The frames: a RESET behind the half-close does not end the stream, and a
\* half-close is only recorded at an open stream (readCarrier).
LEMMA EndFrames ==
    ASSUME TypeOK, DataInv, CarrierInv, EndInv, NEW e \in Endpoints, NEW c \in Carriers,
           LegalFrame(e, c)
    PROVE  EndInv'
<1>1. CASE RecvFin(e, c)
  <2>1. Open(e) /\ UNCHANGED terminalErr
    BY <1>1, AcceptedIsOpen DEF RecvFin, controlVars, lifeVars
  <2>2. \A x \in Endpoints : x # e => remoteFIN'[x] = remoteFIN[x]
    <3>1. remoteFIN' = remoteFIN \/ remoteFIN' = [remoteFIN EXCEPT ![e] = TRUE]
      BY <1>1 DEF RecvFin, remoteVars
    <3>2. remoteFIN \in [Endpoints -> BOOLEAN]
      BY DEF TypeOK
    <3> QED
      BY <3>1, <3>2
  <2> QED
    BY <2>1, <2>2, EndKept DEF Open
<1>2. CASE RecvReset(e, c)
  <2>1. UNCHANGED remoteFIN
    BY <1>2 DEF RecvReset, dataVars, remoteVars
  <2>2. CASE RemoteFinished(e)
    BY <1>2, <2>1, <2>2, EndKept DEF RecvReset, lifeVars
  <2>3. CASE ~RemoteFinished(e)
    <3>1. remoteFIN[e] => recvNext[e] = remoteFINAt[e]
      BY DEF DataInv, EofIsTheEnd
    <3>2. recvNext[e] \in Nat /\ remoteFINAt[e] \in Nat
      BY DEF TypeOK
    <3>3. ~remoteFIN[e]
      BY <2>3, <3>1, <3>2 DEF RemoteFinished
    <3> QED
      BY <1>2, <2>1, <2>3, <3>3, EndNamed DEF RecvReset
  <2> QED
    BY <2>2, <2>3
<1>3. CASE RecvLate(e, c) \/ RecvData(e, c) \/ RecvAck(e, c) \/ RecvFinAck(e, c)
  BY <1>3, EndKept DEF RecvLate, RecvData, RecvAck, RecvFinAck, dataVars, remoteVars, controlVars, lifeVars
<1>4. CASE RecvCommit(c) \/ RecvCommitAck(c)
  BY <1>4, EndKept DEF RecvCommit, RecvCommitAck, remoteVars
<1>5. CASE RecvConfirm(c) \/ RecvDiscard(c) \/ RecvDiscardAck(c)
  BY <1>5, EndKept DEF RecvConfirm, RecvDiscard, RecvDiscardAck, dataVars, remoteVars, lifeVars
<1> QED
  BY <1>1, <1>2, <1>3, <1>4, <1>5 DEF LegalFrame

\* At the start both streams are open.
LEMMA EndInit == Init => EndInv
BY DEF Init, EndInv, NoProtocolFailure, ResetInv, ProtocolFailures

\* Every step ends a stream only for a reason that is no protocol failure.
LEMMA EndStep ==
    ASSUME TypeOK, DataInv, CarrierInv, OrderInv, EndInv, [Next]_vars
    PROVE  EndInv'
<1>1. CASE UNCHANGED vars
  BY <1>1, EndKept DEF vars, dataVars, remoteVars, controlVars, lifeVars
<1>2. ASSUME NEW e \in Endpoints, Application(e) PROVE EndInv'
  <2>1. CASE Write(e) \/ (\E n \in 1..Window : Read(e, n)) \/ ReadEOF(e) \/ CloseWrite(e)
    BY <2>1, EndKept DEF Write, Read, ReadEOF, CloseWrite, remoteVars, controlVars, lifeVars
  <2>2. CASE Close(e)
    BY <2>2, EndKept DEF Close, dataVars, remoteVars
  <2>3. CASE Abort(e) \/ ContextDone(e)
    BY <2>3, EndNamed DEF Abort, ContextDone, dataVars, remoteVars
  <2> QED
    BY <1>2, <2>1, <2>2, <2>3 DEF Application
<1>3. ASSUME NEW c \in Carriers, Handshake(c) PROVE EndInv'
  <2>1. CASE PrepareCarrier(c) \/ PrepareRefused(c) \/ PrepareFailed(c)
    BY <2>1, EndKept DEF PrepareCarrier, PrepareRefused, PrepareFailed, dataVars, remoteVars, lifeVars
  <2>2. CASE PrepareReady(c) \/ AcceptHello(c)
    BY <2>2, EndKept DEF PrepareReady, AcceptHello, remoteVars, lifeVars
  <2>3. CASE AcceptCarrier(c) \/ AcceptRefused(c) \/ AcceptReady(c) \/ AcceptReadyFailed(c)
    BY <2>3, EndKept
       DEF AcceptCarrier, AcceptRefused, AcceptReady, AcceptReadyFailed, dataVars, remoteVars, lifeVars
  <2>4. CASE ConfirmCarrier(c) \/ SendCommitAck(c)
    BY <2>4, EndKept DEF ConfirmCarrier, SendCommitAck, dataVars, remoteVars, lifeVars
  <2> QED
    BY <1>3, <2>1, <2>2, <2>3, <2>4 DEF Handshake
<1>4. ASSUME NEW c \in Carriers,
             OpenLink(c) \/ LinkFail(c) \/ PromoteCarrier(c) \/ DropPrepared(c)
      PROVE  EndInv'
  BY <1>4, EndKept DEF OpenLink, LinkFail, PromoteCarrier, DropPrepared, dataVars, remoteVars,
                       controlVars, lifeVars
<1>5. CASE StartReader
  BY <1>5, EndKept DEF StartReader, dataVars, remoteVars, lifeVars
<1>6. ASSUME NEW e \in Endpoints, SendData(e) \/ SendFin(e) \/ SendAck(e) PROVE EndInv'
  BY <1>6, EndKept DEF SendData, SendFin, SendAck, remoteVars, controlVars, lifeVars
<1>7. ASSUME NEW e \in Endpoints, NEW c \in Carriers, RecvFrame(e, c) PROVE EndInv'
  BY <1>7, FrameIsLegal, EndFrames
<1>8. ASSUME NEW e \in Endpoints, NEW c \in Carriers, FailCarrier(e, c) PROVE EndInv'
  BY <1>8, EndKept DEF FailCarrier, dataVars, remoteVars
<1>9. ASSUME NEW e \in Endpoints, ExpireDetached(e) \/ FailExpired(e) PROVE EndInv'
  <2>1. CASE ExpireDetached(e)
    BY <2>1, EndKept DEF ExpireDetached, dataVars, remoteVars
  <2>2. CASE FailExpired(e)
    BY <2>2, EndNamed DEF FailExpired, dataVars, remoteVars
  <2> QED
    BY <1>9, <2>1, <2>2
<1> QED
  BY <1>1, <1>2, <1>3, <1>4, <1>5, <1>6, <1>7, <1>8, <1>9 DEF Next

(***************************************************************************)
(* The theorems about carriers and endings.                                *)
(***************************************************************************)
\* Everything at once: types, data, carriers, order on the wires and endings.
StreamInv == TypeOK /\ DataInv /\ CarrierInv /\ OrderInv /\ EndInv

\* The stream's inductive invariant.  None of its parts is inductive alone: that
\* a frame is legal needs the carriers, the order and the data, and what a
\* frame does to the carriers needs it to be legal (Conn, readCarrier).
THEOREM CarriersInvariance == Spec => []StreamInv
<1>1. Init => StreamInv
  BY TypeInit, DataInvInit, CarrierInit, OrderInit, EndInit DEF StreamInv
<1>2. StreamInv /\ [Next]_vars => StreamInv'
  <2> SUFFICES ASSUME StreamInv, [Next]_vars PROVE StreamInv'
    OBVIOUS
  <2>1. TypeOK /\ DataInv /\ CarrierInv /\ OrderInv /\ EndInv
    BY DEF StreamInv
  <2>2. TypeOK'
    BY <2>1, TypeStep
  <2>3. DataInv'
    BY <2>1, <2>2, DataInvStep
  <2>4. CarrierInv'
    BY <2>1, <2>2, CarrierStep
  <2>5. OrderInv'
    BY <2>1, <2>2, OrderStep
  <2>6. EndInv'
    BY <2>1, EndStep
  <2> QED
    BY <2>2, <2>3, <2>4, <2>5, <2>6 DEF StreamInv
<1> QED
  BY <1>1, <1>2, PTL DEF Spec

\* Whatever fails and however carriers overlap, neither endpoint ever takes a
\* frame of the other for a protocol violation: no gap, no overrun, no frame of
\* a carrier in the wrong state (readCarrier, failFrameProtocol).
THEOREM NoFalseAlarm == Spec => []NoProtocolFailure
<1>1. StreamInv => NoProtocolFailure
  BY DEF StreamInv, EndInv
<1> QED
  BY <1>1, CarriersInvariance, PTL

\* The endpoints agree on the committed epoch, except while the COMMIT of the
\* next carrier is applied and not yet acknowledged (PromoteCarrier).
THEOREM Agreement == Spec => []CommitAgreement
<1>1. StreamInv => CommitAgreement
  BY DEF StreamInv, CarrierInv
<1> QED
  BY <1>1, CarriersInvariance, PTL

\* A writer whose half-close is acknowledged knows that the peer does not lose
\* what it has received to a RESET (WaitWriteClosed, readCarrier RESET).
THEOREM FinishedIsKept == Spec => []NoResetAfterFinAck
<1>1. StreamInv => NoResetAfterFinAck
  <2> SUFFICES ASSUME StreamInv, NEW e \in Endpoints, terminalErr[e] = "reset"
               PROVE  ~finAcked[Peer(e)]
    BY DEF NoResetAfterFinAck
  <2>1. ~remoteFIN[e]
    BY DEF StreamInv, EndInv, ResetInv
  <2>2. Peer(e) \in Endpoints /\ Peer(Peer(e)) = e
    BY PeerIsOther
  <2>3. finAcked[Peer(e)] => remoteFIN[Peer(Peer(e))]
    BY <2>2 DEF StreamInv, DataInv, EofIsTheEnd
  <2> QED
    BY <2>1, <2>2, <2>3
<1> QED
  BY <1>1, CarriersInvariance, PTL

\* The carrier an endpoint writes on is one whose frames the other applies, or
\* will once COMMIT_ACK arrives (Activate, applicationDisposition).
THEOREM WritesAreHeard == Spec => []ActiveIsAccepted
<1>1. StreamInv => ActiveIsAccepted
  <2> SUFFICES ASSUME StreamInv, NEW c \in Carriers, link[c] = "up"
               PROVE  /\ active[I] = c /\ Open(R) => Disposition(R, c) = "accept"
                      /\ active[R] = c /\ Open(I) =>
                            \/ Disposition(I, c) = "accept"
                            \/ prepared[I] = c /\ state[I][c] = "committing"
    BY DEF ActiveIsAccepted
  <2>1. /\ SlotAt(c) /\ WorkerAt(c) /\ DeadAt(c) /\ EpochAt(c) /\ CommittedAt(c)
        /\ committedEpoch[I] <= committedEpoch[R]
    BY DEF StreamInv, CarrierInv, EpochOrder
  <2>2. /\ epoch[c] \in Nat /\ committedEpoch[I] \in Nat /\ committedEpoch[R] \in Nat /\ c # None
    BY CarrierTypes DEF StreamInv
  <2>3. ASSUME active[I] = c, Open(R) PROVE Disposition(R, c) = "accept"
    <3>1. writer[I][c] # "none" /\ epoch[c] = committedEpoch[I]
      BY <2>1, <2>3 DEF SlotAt, WorkerAt, EpochAt
    <3>2. writer[R][c] = "run"
      BY <2>1, <3>1 DEF CommittedAt
    <3>3. active[R] = c \/ retained[R] = c \/ epoch[c] < committedEpoch[I]
      BY <2>1, <2>3, <3>2 DEF CommittedAt
    <3>4. active[R] = c \/ retained[R] = c
      BY <2>2, <3>1, <3>3
    <3> QED
      BY <2>1, <3>4 DEF SlotAt, Disposition
  <2>4. ASSUME active[R] = c, Open(I)
        PROVE  Disposition(I, c) = "accept" \/ (prepared[I] = c /\ state[I][c] = "committing")
    <3>1. writer[R][c] # "none" /\ epoch[c] = committedEpoch[R]
      BY <2>1, <2>4 DEF SlotAt, WorkerAt, EpochAt
    <3>2. state[I][c] \in {"committing", "failed", "active", "retained"}
      BY <2>1, <3>1 DEF CommittedAt
    <3>3. state[I][c] # "retained"
      <4>1. state[I][c] = "retained" => epoch[c] < committedEpoch[I]
        BY <2>1 DEF EpochAt
      <4> QED
        BY <2>1, <2>2, <3>1, <4>1
    <3>4. c \in Attached(I)
      BY <2>1, <3>2, <3>3 DEF DeadAt
    <3> QED
      BY <2>1, <3>2, <3>3, <3>4 DEF Attached, SlotAt, Disposition
  <2> QED
    BY <2>3, <2>4
<1> QED
  BY <1>1, CarriersInvariance, PTL

\* What one step may do to the committed epoch and the active carrier of e.
Advance(e) ==
    /\ committedEpoch'[e] >= committedEpoch[e]
    /\ active'[e] \notin {None, active[e]} => epoch[active'[e]] > committedEpoch[e]

\* A calm step commits nothing and activates nothing.
LEMMA AdvanceCalm ==
    ASSUME TypeOK, TypeOK', Calm, NEW e \in Endpoints
    PROVE  Advance(e)
<1>1. committedEpoch' = committedEpoch /\ committedEpoch[e] \in Nat
  BY DEF Calm, CalmOps, TypeOK
<1>2. active'[e] \in Carriers \cup {None}
  BY DEF TypeOK, Slots
<1>3. \A d \in Carriers : active'[e] = d => active[e] = d
  BY DEF Calm, CalmSlots, Endpoints
<1> QED
  BY <1>1, <1>2, <1>3 DEF Advance

\* Nor does a step that leaves both alone.
LEMMA AdvanceSame ==
    ASSUME TypeOK, UNCHANGED <<active, committedEpoch>>, NEW e \in Endpoints
    PROVE  Advance(e)
<1>1. committedEpoch[e] \in Nat
  BY DEF TypeOK
<1> QED
  BY <1>1 DEF Advance

\* Activating the prepared carrier advances the epoch (Activate).
LEMMA AdvanceActivate ==
    ASSUME TypeOK, CarrierInv, NEW x \in Endpoints, NEW c \in Carriers, prepared[x] = c,
           Activate(x, c), NEW e \in Endpoints
    PROVE  Advance(e)
<1>1. /\ committedEpoch \in [Endpoints -> Nat] /\ active \in [Endpoints -> Slots]
      /\ epoch[c] \in Nat
  BY DEF TypeOK
<1>2. epoch[c] > committedEpoch[x]
  BY DEF CarrierInv, EpochAt, Endpoints
<1>3. /\ committedEpoch' = [committedEpoch EXCEPT ![x] = epoch[c]]
      /\ active' = [active EXCEPT ![x] = c]
  BY DEF Activate
<1>4. committedEpoch[e] \in Nat
  BY <1>1
<1>5. CASE e = x
  <2>1. committedEpoch'[e] = epoch[c] /\ active'[e] = c
    BY <1>1, <1>3, <1>5
  <2> QED
    BY <1>1, <1>2, <1>4, <1>5, <2>1 DEF Advance
<1>6. CASE e # x
  <2>1. committedEpoch'[e] = committedEpoch[e] /\ active'[e] = active[e]
    BY <1>1, <1>3, <1>6
  <2> QED
    BY <1>4, <2>1 DEF Advance
<1> QED
  BY <1>5, <1>6

\* What readCarrier activates is the prepared carrier (COMMIT, COMMIT_ACK).
LEMMA AdvanceFrames ==
    ASSUME TypeOK, TypeOK', DataInv, CarrierInv, OrderInv, NEW x \in Endpoints, NEW c \in Carriers,
           RecvFrame(x, c), NEW e \in Endpoints
    PROVE  Advance(e)
<1>1. Violation(x, c, Head(net[c][x])) = "none" /\ LegalFrame(x, c)
  BY Lawful, FrameIsLegal DEF RecvFrame
<1>2. CASE RecvLate(x, c) \/ RecvData(x, c) \/ RecvAck(x, c) \/ RecvFin(x, c) \/ RecvFinAck(x, c)
  BY <1>2, CalmFrames, AdvanceCalm
<1>3. CASE RecvReset(x, c)
  BY <1>3, CalmReset, AdvanceCalm
<1>4. CASE RecvConfirm(c) \/ RecvDiscard(c) \/ RecvDiscardAck(c)
  BY <1>4, CalmConfirmed, CalmDiscard, AdvanceCalm
<1>5. CASE x = R /\ RecvCommit(c)
  <2>1. Head(net[c][R]).kind = "COMMIT" /\ Activate(R, c)
    BY <1>5 DEF RecvCommit, ReadsAs
  <2>2. prepared[R] = c
    BY <1>1, <1>5, <2>1 DEF Violation
  <2> QED
    BY <1>5, <2>1, <2>2, AdvanceActivate
<1>6. CASE x = I /\ RecvCommitAck(c)
  <2>1. Head(net[c][I]).kind = "COMMIT_ACK" /\ Activate(I, c)
    BY <1>6 DEF RecvCommitAck, ReadsAs
  <2>2. prepared[I] = c
    BY <1>1, <1>6, <2>1 DEF Violation
  <2> QED
    BY <1>6, <2>1, <2>2, AdvanceActivate
<1> QED
  BY <1>1, <1>2, <1>3, <1>4, <1>5, <1>6 DEF LegalFrame

\* Every step advances the epochs or leaves them.
LEMMA AdvanceStep ==
    ASSUME TypeOK, TypeOK', DataInv, CarrierInv, OrderInv, [Next]_vars, NEW e \in Endpoints
    PROVE  Advance(e)
<1>1. CASE UNCHANGED vars
  BY <1>1, AdvanceSame DEF vars, controlVars, slotVars
<1>2. ASSUME NEW x \in Endpoints, Application(x) PROVE Advance(e)
  BY <1>2, CalmApplication, CalmEnds, AdvanceCalm DEF Application
<1>3. ASSUME NEW c \in Carriers, Handshake(c) PROVE Advance(e)
  <2>1. CASE PrepareCarrier(c) \/ PrepareRefused(c) \/ PrepareFailed(c) \/ AcceptCarrier(c) \/ AcceptRefused(c)
    BY <2>1, AdvanceSame
       DEF PrepareCarrier, PrepareRefused, PrepareFailed, AcceptCarrier, AcceptRefused, slotVars
  <2>2. CASE PrepareReady(c) \/ AcceptHello(c) \/ AcceptReady(c) \/ AcceptReadyFailed(c)
    BY <2>2, AdvanceSame DEF PrepareReady, AcceptHello, AcceptReady, AcceptReadyFailed
  <2>3. CASE ConfirmCarrier(c) \/ SendCommitAck(c)
    BY <2>3, AdvanceSame DEF ConfirmCarrier, SendCommitAck, slotVars
  <2> QED
    BY <1>3, <2>1, <2>2, <2>3 DEF Handshake
<1>4. ASSUME NEW c \in Carriers,
             OpenLink(c) \/ LinkFail(c) \/ PromoteCarrier(c) \/ DropPrepared(c)
      PROVE  Advance(e)
  BY <1>4, AdvanceSame DEF OpenLink, LinkFail, PromoteCarrier, DropPrepared, controlVars, slotVars
<1>5. CASE StartReader
  BY <1>5, AdvanceSame DEF StartReader, slotVars
<1>6. ASSUME NEW x \in Endpoints, SendData(x) \/ SendFin(x) \/ SendAck(x) PROVE Advance(e)
  BY <1>6, AdvanceSame DEF SendData, SendFin, SendAck, controlVars, slotVars
<1>7. ASSUME NEW x \in Endpoints, NEW c \in Carriers, RecvFrame(x, c) PROVE Advance(e)
  BY <1>7, AdvanceFrames
<1>8. ASSUME NEW x \in Endpoints, NEW c \in Carriers, FailCarrier(x, c) PROVE Advance(e)
  BY <1>8, CalmFailCarrier, AdvanceCalm
<1>9. ASSUME NEW x \in Endpoints, ExpireDetached(x) \/ FailExpired(x) PROVE Advance(e)
  BY <1>9, CalmExpire, CalmEnds, AdvanceCalm
<1> QED
  BY <1>1, <1>2, <1>3, <1>4, <1>5, <1>6, <1>7, <1>8, <1>9 DEF Next

\* An endpoint never goes back to a carrier it has left: what it activates is
\* newer than everything it has committed (Activate, nextEpoch).
THEOREM Forward == Spec => EpochsAdvance
<1>1. StreamInv /\ StreamInv' /\ [Next]_vars =>
        [\A e \in Endpoints :
           /\ committedEpoch'[e] >= committedEpoch[e]
           /\ active'[e] \notin {None, active[e]} => epoch[active'[e]] > committedEpoch[e]]_vars
  BY AdvanceStep DEF StreamInv, Advance
<1> QED
  BY <1>1, CarriersInvariance, PTL DEF Spec, EpochsAdvance

=============================================================================
