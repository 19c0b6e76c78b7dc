----------------------- MODULE ConnectorSessionProofs -----------------------
(***************************************************************************)
(* The connector's control sessions for any number of sessions, generations*)
(* and events: the edge serves nothing the host does not run               *)
(* (ServedIsApplied), replaced sessions are fenced                         *)
(* (StaleSessionsAreFenced), and where the edge offers one configuration   *)
(* at a time the two ends agree (SettledOffersAgree).                      *)
(***************************************************************************)
EXTENDS ConnectorSession, NaturalOrder

\* The values of the fields of sessions, stores and frames.
Kinds == {"none", "snapshot", "delta"}
Statuses == {"none", "applied", "duplicate", "snapshot_required", "accepted", "rejected"}
FrameTypes == {"welcome", "config", "readyAck", "heartbeatAck", "drain",
               "ack", "ready", "heartbeat", "drainAck"}
EdgeStates == {"none", "reading", "awaiting_snapshot", "awaiting_ready", "ready", "draining",
               "closed"}
HostStates == {"new", "awaiting_snapshot", "awaiting_ready", "ready", "draining", "closed"}
Faults == {"none", "ack", "readiness", "heartbeat", "config", "readyAck", "drain", "overlap"}

\* The records a frame, an edge, a host and a store are.
Frames == [type : FrameTypes, kind : Kinds, status : Statuses, gen : Nat]

Edges == [state : EdgeStates, kind : Kinds, pending : Nat, active : Nat, candidate : Nat,
          ready : Nat, needs : BOOLEAN, drain : Nat, drainStatus : Statuses]

Hosts == [state : HostStates, active : Nat, candidate : Nat, ready : Nat, staging : Nat,
          kind : Kinds, waiting : Nat, result : Nat, drain : Nat]

Rollouts == [desired : Nat, applied : Nat, binding : Nat, carrier : Nat, want : Nat,
             step : {"idle", "prepared", "promoted"}]

\* Sessions, stores and wires are well formed.
TypeInv ==
    /\ desired \in Nat
    /\ registry \in Nat
    /\ edge \in [Sessions -> Edges]
    /\ host \in [Sessions -> Hosts]
    /\ rollout \in [Sessions -> Rollouts]
    /\ up \in [Sessions -> Seq(Frames)]
    /\ down \in [Sessions -> Seq(Frames)]
    /\ link \in [Sessions -> BOOLEAN]
    /\ events \in 0..MaxEvents
    /\ overlapped \in [Sessions -> BOOLEAN]
    /\ fault \in [Sessions -> Faults]

\* The generations of a host only grow: what is staged or waited for is newer than
\* what is active, and a readiness result is already durable and published.
HostInv(h, r) ==
    /\ h.active <= r.applied /\ h.active <= r.carrier
    /\ h.candidate # 0 => h.active < h.candidate
    /\ h.staging # 0 => h.active < h.staging
    /\ h.waiting # 0 => h.waiting = h.candidate
    /\ h.result # 0 => /\ h.result = h.waiting
                       /\ h.result <= r.applied /\ h.result <= r.carrier

\* The store and the carriers only move forward, also while one is being prepared.
RolloutInv(r) ==
    /\ r.applied <= r.desired /\ r.carrier <= r.desired
    /\ r.step # "idle" => r.carrier <= r.want /\ r.want <= r.desired

\* A readiness on the wire names what the host has made active.
WireInv(u, active) == \A i \in 1..Len(u) : u[i].type = "ready" => u[i].gen <= active

\* One session: the edge is never ahead of its host.
SessionInv(e, h, r, u) ==
    /\ e.active <= h.active
    /\ HostInv(h, r) /\ RolloutInv(r) /\ WireInv(u, h.active)

\* The inductive invariant behind ServedIsApplied and StaleSessionsAreFenced.
ConnectorInv ==
    /\ TypeInv
    /\ \A s \in Sessions : SessionInv(edge[s], host[s], rollout[s], up[s])

-----------------------------------------------------------------------------
(* Frames and wires. *)

\* A frame is well formed and names what it was built from.
LEMMA FrameType ==
    ASSUME NEW t \in FrameTypes, NEW k \in Kinds, NEW x \in Statuses, NEW g \in Nat
    PROVE  /\ Frame(t, k, x, g) \in Frames
           /\ Frame(t, k, x, g).type = t /\ Frame(t, k, x, g).gen = g
PROOF BY DEF Frame, Frames

\* The frames the edge writes are well formed.
LEMMA FramesWritten ==
    ASSUME NEW g \in Nat
    PROVE  /\ Frame("welcome", "none", "none", 0) \in Frames
           /\ Frame("config", "snapshot", "none", g) \in Frames
           /\ Frame("config", "delta", "none", g) \in Frames
           /\ Frame("drain", "none", "none", g) \in Frames
           /\ Frame("readyAck", "none", "applied", g) \in Frames
           /\ Frame("heartbeatAck", "none", "none", 0) \in Frames
PROOF
  <1>1. /\ "none" \in Kinds /\ "snapshot" \in Kinds /\ "delta" \in Kinds
        /\ "none" \in Statuses /\ "applied" \in Statuses
        /\ {"welcome", "config", "drain", "readyAck", "heartbeatAck"} \subseteq FrameTypes
        /\ 0 \in Nat
    BY DEF Kinds, Statuses, FrameTypes
  <1> QED BY <1>1, FrameType

\* A wire stays truthful when a frame that is true is written to it.
LEMMA AppendWire ==
    ASSUME NEW u \in Seq(Frames), NEW f \in Frames, NEW n \in Nat, WireInv(u, n),
           f.type = "ready" => f.gen <= n
    PROVE  Append(u, f) \in Seq(Frames) /\ WireInv(Append(u, f), n)
PROOF BY DEF WireInv

\* A wire stays truthful when its first frame is read, which was true.
LEMMA TailWire ==
    ASSUME NEW u \in Seq(Frames), u # <<>>, NEW n \in Nat, WireInv(u, n)
    PROVE  /\ Tail(u) \in Seq(Frames) /\ WireInv(Tail(u), n)
           /\ Head(u) \in Frames /\ (Head(u).type = "ready" => Head(u).gen <= n)
PROOF
  <1>1. /\ Len(u) \in Nat /\ Len(u) >= 1 /\ Head(u) = u[1] /\ u[1] \in Frames
        /\ Tail(u) \in Seq(Frames) /\ Len(Tail(u)) = Len(u) - 1
        /\ \A i \in 1..Len(Tail(u)) : Tail(u)[i] = u[i + 1]
    OBVIOUS
  <1>2. \A i \in 1..Len(Tail(u)) : i + 1 \in 1..Len(u)
    BY <1>1
  <1>3. 1 \in 1..Len(u)
    BY <1>1
  <1> QED BY <1>1, <1>2, <1>3 DEF WireInv

\* What was true of an older generation is true of a newer one.
LEMMA WireGrows ==
    ASSUME NEW u \in Seq(Frames), NEW m \in Nat, NEW n \in Nat, m <= n, WireInv(u, m)
    PROVE  WireInv(u, n)
PROOF
  <1>1. \A i \in 1..Len(u) : u[i] \in Frames
    OBVIOUS
  <1>2. \A i \in 1..Len(u) : u[i].gen \in Nat
    BY <1>1 DEF Frames
  <1> QED BY <1>2 DEF WireInv

\* An empty wire says nothing.
LEMMA EmptyWire ==
    ASSUME NEW n \in Nat
    PROVE  <<>> \in Seq(Frames) /\ WireInv(<<>>, n)
PROOF BY DEF WireInv

\* One session moves.
LEMMA OneSession ==
    ASSUME ConnectorInv, NEW s \in Sessions, TypeInv',
           \A t \in Sessions : t # s => /\ edge'[t] = edge[t] /\ host'[t] = host[t]
                                        /\ rollout'[t] = rollout[t] /\ up'[t] = up[t],
           SessionInv(edge'[s], host'[s], rollout'[s], up'[s])
    PROVE  ConnectorInv'
PROOF
  <1>1. \A t \in Sessions : SessionInv(edge'[t], host'[t], rollout'[t], up'[t])
    BY DEF ConnectorInv
  <1> QED BY <1>1 DEF ConnectorInv, SessionInv, HostInv, RolloutInv, WireInv

\* What the invariant says of one session.
LEMMA Types ==
    ASSUME ConnectorInv, NEW s \in Sessions
    PROVE  /\ edge[s] \in Edges /\ host[s] \in Hosts /\ rollout[s] \in Rollouts
           /\ up[s] \in Seq(Frames) /\ down[s] \in Seq(Frames)
           /\ edge[s].active \in Nat /\ host[s].active \in Nat
           /\ s \in Nat /\ s # 0
           /\ SessionInv(edge[s], host[s], rollout[s], up[s])
PROOF
  <1>1. /\ edge[s] \in Edges /\ host[s] \in Hosts /\ rollout[s] \in Rollouts
        /\ up[s] \in Seq(Frames) /\ down[s] \in Seq(Frames)
        /\ SessionInv(edge[s], host[s], rollout[s], up[s])
    BY DEF ConnectorInv, TypeInv
  <1>2. edge[s].active \in Nat /\ host[s].active \in Nat
    BY <1>1 DEF Edges, Hosts
  <1>3. s \in Nat /\ s # 0
    BY BoundsAssumption DEF Sessions
  <1> QED BY <1>1, <1>2, <1>3

\* The initial records are well formed and name no generation.
LEMMA InitFacts ==
    /\ EdgeInit \in Edges /\ EdgeInit.active = 0
    /\ HostInit \in Hosts /\ HostInit.active = 0 /\ HostInit.candidate = 0
    /\ HostInit.staging = 0 /\ HostInit.waiting = 0 /\ HostInit.result = 0
    /\ RolloutInit \in Rollouts /\ RolloutInit.applied = 0 /\ RolloutInit.carrier = 0
    /\ RolloutInit.desired = 0 /\ RolloutInit.step = "idle"
PROOF
  <1>1. EdgeInit \in Edges /\ EdgeInit.active = 0
    BY DEF EdgeInit, Edges, EdgeStates, Kinds, Statuses
  <1>2. /\ HostInit \in Hosts /\ HostInit.active = 0 /\ HostInit.candidate = 0
        /\ HostInit.staging = 0 /\ HostInit.waiting = 0 /\ HostInit.result = 0
    BY DEF HostInit, Hosts, HostStates, Kinds
  <1>3. /\ RolloutInit \in Rollouts /\ RolloutInit.applied = 0 /\ RolloutInit.carrier = 0
        /\ RolloutInit.desired = 0 /\ RolloutInit.step = "idle"
    BY DEF RolloutInit, Rollouts
  <1> QED BY <1>1, <1>2, <1>3

\* The invariant holds when nothing has connected yet.
LEMMA ConnectorInvInit ==
    Init => ConnectorInv
PROOF
  <1> SUFFICES ASSUME Init PROVE ConnectorInv
    OBVIOUS
  <1>1. TypeInv
    <2>1. edge \in [Sessions -> Edges] /\ host \in [Sessions -> Hosts]
      BY InitFacts DEF Init
    <2>2. rollout \in [Sessions -> Rollouts]
      BY InitFacts DEF Init
    <2>3. up \in [Sessions -> Seq(Frames)] /\ down \in [Sessions -> Seq(Frames)]
      BY EmptyWire DEF Init
    <2>4. /\ link \in [Sessions -> BOOLEAN] /\ overlapped \in [Sessions -> BOOLEAN]
          /\ fault \in [Sessions -> Faults]
      BY DEF Init, Faults
    <2>5. desired \in Nat /\ registry \in Nat /\ events \in 0..MaxEvents
      BY BoundsAssumption DEF Init
    <2> QED BY <2>1, <2>2, <2>3, <2>4, <2>5 DEF TypeInv
  <1>2. ASSUME NEW s \in Sessions
        PROVE  SessionInv(edge[s], host[s], rollout[s], up[s])
    <2>1. edge[s] = EdgeInit /\ host[s] = HostInit /\ rollout[s] = RolloutInit /\ up[s] = <<>>
      BY DEF Init
    <2>2. WireInv(<<>>, 0)
      BY EmptyWire
    <2> QED BY <2>1, <2>2, InitFacts DEF SessionInv, HostInv, RolloutInv
  <1> QED BY <1>1, <1>2 DEF ConnectorInv

-----------------------------------------------------------------------------
(* The edge. *)

\* A step of the edge in session s: it reads from the wire or forgets it, and makes
\* nothing active that the host has not.
LEMMA EdgeMoves ==
    ASSUME ConnectorInv, NEW s \in Sessions, UNCHANGED <<host, rollout>>, TypeInv',
           \A t \in Sessions : t # s => edge'[t] = edge[t] /\ up'[t] = up[t],
           edge'[s].active <= host[s].active,
           \/ up'[s] = up[s]
           \/ up'[s] = <<>>
           \/ up[s] # <<>> /\ up'[s] = Tail(up[s])
    PROVE  ConnectorInv'
PROOF
  <1>1. /\ SessionInv(edge[s], host[s], rollout[s], up[s]) /\ host[s].active \in Nat
        /\ up[s] \in Seq(Frames)
    BY Types
  <1>2. WireInv(up'[s], host[s].active)
    BY <1>1, TailWire, EmptyWire DEF SessionInv
  <1>3. SessionInv(edge'[s], host'[s], rollout'[s], up'[s])
    BY <1>1, <1>2 DEF SessionInv
  <1> QED BY <1>3, OneSession

\* Writing a frame keeps the wires to the hosts well formed.
LEMMA ToHostType ==
    ASSUME ConnectorInv, NEW s \in Sessions, NEW f \in Frames, ToHost(s, f)
    PROVE  down' \in [Sessions -> Seq(Frames)]
PROOF
  <1>1. down \in [Sessions -> Seq(Frames)] /\ Append(down[s], f) \in Seq(Frames)
    BY DEF ConnectorInv, TypeInv
  <1> QED BY <1>1 DEF ToHost

\* Noting a fault keeps the faults well formed.
LEMMA NoteType ==
    ASSUME ConnectorInv, NEW s \in Sessions, NEW f \in Faults, Note(s, f)
    PROVE  fault' \in [Sessions -> Faults]
PROOF BY DEF Note, ConnectorInv, TypeInv

\* Events stay within their bound.
LEMMA EventType ==
    ASSUME ConnectorInv, Event
    PROVE  events' \in 0..MaxEvents
PROOF BY BoundsAssumption DEF Event, ConnectorInv, TypeInv

\* The generation the edge reads is a number.
LEMMA ReadsType ==
    ASSUME ConnectorInv, NEW g, Reads(g)
    PROVE  g \in Nat /\ desired' \in Nat
PROOF BY DEF Reads, ConnectorInv, TypeInv

\* A session that closes at the edge is forgotten, and only it leaves the registry.
LEMMA EdgeClosesFacts ==
    ASSUME ConnectorInv, NEW s \in Sessions, EdgeCloses(s)
    PROVE  /\ edge' \in [Sessions -> Edges] /\ up' \in [Sessions -> Seq(Frames)]
           /\ registry' \in Nat /\ registry' = Disconnect(s)
           /\ edge'[s].active = 0 /\ edge'[s].state = "closed" /\ up'[s] = <<>>
           /\ \A t \in Sessions : t # s => edge'[t] = edge[t] /\ up'[t] = up[t]
PROOF
  <1> DEFINE e == [EdgeInit EXCEPT !.state = "closed"]
  <1>1. e \in Edges /\ e.active = 0 /\ e.state = "closed"
    BY DEF EdgeInit, Edges, EdgeStates, Kinds, Statuses
  <1>2. /\ edge \in [Sessions -> Edges] /\ up \in [Sessions -> Seq(Frames)] /\ registry \in Nat
    BY DEF ConnectorInv, TypeInv
  <1>3. edge' = [edge EXCEPT ![s] = e] /\ up' = [up EXCEPT ![s] = <<>>] /\ registry' = Disconnect(s)
    BY DEF EdgeCloses
  <1> HIDE DEF e
  <1>4. registry' \in Nat
    BY <1>2, <1>3 DEF Disconnect
  <1> QED BY <1>1, <1>2, <1>3, <1>4, EmptyWire

\* A handler that goes on consumes one frame of its own session.
LEMMA EdgeProceedsFacts ==
    ASSUME ConnectorInv, NEW s \in Sessions, up[s] # <<>>, NEW e \in Edges, EdgeProceeds(s, e)
    PROVE  /\ edge' \in [Sessions -> Edges] /\ up' \in [Sessions -> Seq(Frames)]
           /\ registry' = registry
           /\ edge'[s] = e /\ up'[s] = Tail(up[s])
           /\ \A t \in Sessions : t # s => edge'[t] = edge[t] /\ up'[t] = up[t]
PROOF
  <1>1. /\ edge \in [Sessions -> Edges] /\ up \in [Sessions -> Seq(Frames)]
        /\ Tail(up[s]) \in Seq(Frames)
    BY DEF ConnectorInv, TypeInv
  <1> QED BY <1>1 DEF EdgeProceeds

\* Both outcomes of a handler that does not make anything new active.
EdgeAnswers(s, e) ==
    /\ edge' \in [Sessions -> Edges] /\ up' \in [Sessions -> Seq(Frames)] /\ registry' \in Nat
    /\ edge'[s].active \in {0, e.active}
    /\ up'[s] = <<>> \/ up'[s] = Tail(up[s])
    /\ \A t \in Sessions : t # s => edge'[t] = edge[t] /\ up'[t] = up[t]
    /\ registry' # registry => registry = s /\ edge'[s].state = "closed"

\* A handler that refuses or goes on makes nothing new active.
LEMMA EdgeRefusesFacts ==
    ASSUME ConnectorInv, NEW s \in Sessions, up[s] # <<>>, NEW e \in Edges,
           EdgeRefuses(s, e) \/ EdgeProceeds(s, e)
    PROVE  EdgeAnswers(s, e)
PROOF
  <1>1. CASE EdgeCloses(s)
    <2>1. registry' # registry => registry = s
      BY <1>1, EdgeClosesFacts DEF Disconnect
    <2> QED BY <1>1, <2>1, EdgeClosesFacts DEF EdgeAnswers
  <1>2. CASE EdgeProceeds(s, e)
    <2>1. registry \in Nat
      BY DEF ConnectorInv, TypeInv
    <2> QED BY <1>2, <2>1, EdgeProceedsFacts DEF EdgeAnswers
  <1>3. EdgeRefuses(s, e) => EdgeCloses(s) \/ EdgeProceeds(s, e)
    BY DEF EdgeRefuses, EdgeProceeds
  <1> QED BY <1>1, <1>2, <1>3

\* What the edge's handler of a frame leaves.
EdgeHandled(s) ==
    /\ edge' \in [Sessions -> Edges] /\ up' \in [Sessions -> Seq(Frames)] /\ registry' \in Nat
    /\ down' \in [Sessions -> Seq(Frames)] /\ fault' \in [Sessions -> Faults]
    /\ edge'[s].active <= host[s].active
    /\ up'[s] = <<>> \/ up'[s] = Tail(up[s])
    /\ \A t \in Sessions : t # s => edge'[t] = edge[t] /\ up'[t] = up[t]
    /\ registry' # registry => registry = s /\ edge'[s].state = "closed"

\* Such an answer is a handled frame.
LEMMA AnswersHandled ==
    ASSUME ConnectorInv, NEW s \in Sessions, NEW e \in Edges, EdgeAnswers(s, e),
           e.active <= host[s].active,
           down' \in [Sessions -> Seq(Frames)], fault' \in [Sessions -> Faults]
    PROVE  EdgeHandled(s)
PROOF
  <1>1. host[s].active \in Nat
    BY Types
  <1>2. edge'[s].active <= host[s].active
    BY <1>1 DEF EdgeAnswers
  <1> QED BY <1>2 DEF EdgeHandled, EdgeAnswers

\* HandleAck makes nothing active.
LEMMA HandleAckHandled ==
    ASSUME ConnectorInv, NEW s \in Sessions, up[s] # <<>>, NEW f \in Frames,
           HandleAck(s, f), UNCHANGED down
    PROVE  EdgeHandled(s)
PROOF
  <1> DEFINE e == edge[s]
             settled == [e EXCEPT !.pending = 0, !.kind = "none"]
             withdrawn == [settled EXCEPT !.needs = TRUE]
             staged == [settled EXCEPT !.candidate = f.gen,
                          !.needs = IF e.kind = "snapshot" THEN FALSE ELSE @,
                          !.state = IF e.active # 0 /\ e.ready = e.active THEN @
                                    ELSE "awaiting_ready"]
             refused == [withdrawn EXCEPT !.state = restoreState(withdrawn)]
  <1>1. e \in Edges /\ e.active <= host[s].active
    BY Types DEF SessionInv
  <1>2. f.gen \in Nat
    BY DEF Frames
  <1> HIDE DEF e
  <1>3. settled \in Edges /\ settled.active = e.active
    BY <1>1 DEF Edges, Kinds
  <1> HIDE DEF settled
  <1>4. withdrawn \in Edges /\ withdrawn.active = e.active
    BY <1>3 DEF Edges
  <1>5. staged \in Edges /\ staged.active = e.active
    BY <1>2, <1>3 DEF Edges, EdgeStates
  <1> HIDE DEF withdrawn, staged
  <1>6. refused \in Edges /\ refused.active = e.active
    <2>1. restoreState(withdrawn) \in EdgeStates
      BY DEF restoreState, EdgeStates
    <2> QED BY <1>4, <2>1 DEF Edges
  <1> HIDE DEF refused
  <1>7. \E x \in {staged, refused, e} : EdgeRefuses(s, x) \/ EdgeProceeds(s, x)
    BY DEF HandleAck, e, settled, withdrawn, staged, refused
  <1>8. UNCHANGED fault \/ Note(s, "ack")
    BY DEF HandleAck
  <1>9. fault' \in [Sessions -> Faults] /\ down' \in [Sessions -> Seq(Frames)]
    BY <1>8, NoteType DEF ConnectorInv, TypeInv, Faults
  <1>10. PICK x \in {staged, refused, e} : EdgeRefuses(s, x) \/ EdgeProceeds(s, x)
    BY <1>7
  <1>11. x \in Edges /\ x.active <= host[s].active
    BY <1>1, <1>5, <1>6
  <1> QED BY <1>9, <1>10, <1>11, EdgeRefusesFacts, AnswersHandled

\* HandleReadiness makes active what the host has made active before.
LEMMA HandleReadinessHandled ==
    ASSUME ConnectorInv, NEW s \in Sessions, up[s] # <<>>, NEW f \in Frames,
           f.gen <= host[s].active, HandleReadiness(s, f)
    PROVE  EdgeHandled(s)
PROOF
  <1> DEFINE e == edge[s]
             promoted == [e EXCEPT !.active = f.gen, !.candidate = 0, !.needs = FALSE,
                                   !.ready = f.gen, !.state = "ready"]
             answer == Frame("readyAck", "none", "applied", f.gen)
  <1>1. e \in Edges /\ e.active <= host[s].active
    BY Types DEF SessionInv
  <1>2. f.gen \in Nat
    BY DEF Frames
  <1>3. promoted \in Edges /\ promoted.active = f.gen
    BY <1>1, <1>2 DEF Edges, EdgeStates
  <1>4. answer \in Frames
    BY <1>2, FramesWritten
  <1>5. \/ EdgeProceeds(s, promoted) /\ ToHost(s, answer) /\ UNCHANGED fault
        \/ EdgeRefuses(s, e) /\ Note(s, "readiness") /\ UNCHANGED down
    BY DEF HandleReadiness
  <1>6. fault' \in [Sessions -> Faults]
    BY <1>5, NoteType DEF ConnectorInv, TypeInv, Faults
  <1>7. down' \in [Sessions -> Seq(Frames)]
    <2>1. UNCHANGED down => down' \in [Sessions -> Seq(Frames)]
      BY DEF ConnectorInv, TypeInv
    <2> HIDE DEF answer
    <2> QED BY <1>4, <1>5, <2>1, ToHostType
  <1> HIDE DEF e, promoted, answer
  <1>8. CASE EdgeProceeds(s, promoted)
    BY <1>3, <1>6, <1>7, <1>8, EdgeRefusesFacts, AnswersHandled
  <1>9. CASE EdgeRefuses(s, e)
    BY <1>1, <1>6, <1>7, <1>9, EdgeRefusesFacts, AnswersHandled
  <1> QED BY <1>5, <1>8, <1>9

\* HandleHeartbeat makes nothing active.
LEMMA HandleHeartbeatHandled ==
    ASSUME ConnectorInv, NEW s \in Sessions, up[s] # <<>>, NEW f \in Frames,
           HandleHeartbeat(s, f)
    PROVE  EdgeHandled(s)
PROOF
  <1> DEFINE e == edge[s]
             unready == [e EXCEPT !.needs = TRUE, !.ready = 0, !.state = "awaiting_snapshot"]
             x == IF e.active = 0 THEN e ELSE unready
             answer == Frame("heartbeatAck", "none", "none", 0)
  <1>1. e \in Edges /\ e.active <= host[s].active
    BY Types DEF SessionInv
  <1>2. unready \in Edges /\ unready.active = e.active
    BY <1>1 DEF Edges, EdgeStates
  <1>3. answer \in Frames
    BY FramesWritten
  <1>4. \/ EdgeProceeds(s, e) /\ ToHost(s, answer) /\ UNCHANGED fault
        \/ EdgeRefuses(s, x) /\ Note(s, "heartbeat") /\ UNCHANGED down
    BY DEF HandleHeartbeat
  <1>5. fault' \in [Sessions -> Faults]
    BY <1>4, NoteType DEF ConnectorInv, TypeInv, Faults
  <1>6. down' \in [Sessions -> Seq(Frames)]
    <2>1. UNCHANGED down => down' \in [Sessions -> Seq(Frames)]
      BY DEF ConnectorInv, TypeInv
    <2> HIDE DEF answer
    <2> QED BY <1>3, <1>4, <2>1, ToHostType
  <1> HIDE DEF unready
  <1>7. x \in Edges /\ x.active = e.active
    BY <1>1, <1>2
  <1> HIDE DEF e, x, answer
  <1>8. CASE EdgeProceeds(s, e)
    BY <1>1, <1>5, <1>6, <1>8, EdgeRefusesFacts, AnswersHandled
  <1>9. CASE EdgeRefuses(s, x)
    BY <1>1, <1>7, <1>5, <1>6, <1>9, EdgeRefusesFacts, AnswersHandled
  <1> QED BY <1>4, <1>8, <1>9

\* HandleDrainAck makes nothing active.
LEMMA HandleDrainAckHandled ==
    ASSUME ConnectorInv, NEW s \in Sessions, up[s] # <<>>, NEW f \in Frames,
           HandleDrainAck(s, f), UNCHANGED <<down, fault>>
    PROVE  EdgeHandled(s)
PROOF
  <1> DEFINE e == edge[s]
             answered == [e EXCEPT !.drainStatus = f.status]
             restored == [answered EXCEPT !.state = restoreState(e)]
  <1>1. e \in Edges /\ e.active <= host[s].active /\ f.status \in Statuses
    BY Types DEF SessionInv, Frames
  <1>2. answered \in Edges /\ answered.active = e.active
    BY <1>1 DEF Edges
  <1>3. EdgeProceeds(s, answered) \/ EdgeRefuses(s, restored)
    BY DEF HandleDrainAck
  <1> HIDE DEF answered
  <1>4. restored \in Edges /\ restored.active = e.active
    <2>1. restoreState(e) \in EdgeStates
      BY DEF restoreState, EdgeStates
    <2> QED BY <1>2, <2>1 DEF Edges
  <1>5. fault' \in [Sessions -> Faults] /\ down' \in [Sessions -> Seq(Frames)]
    BY DEF ConnectorInv, TypeInv
  <1> HIDE DEF restored, e
  <1>6. CASE EdgeProceeds(s, answered)
    BY <1>1, <1>2, <1>5, <1>6, EdgeRefusesFacts, AnswersHandled
  <1>7. CASE EdgeRefuses(s, restored)
    BY <1>1, <1>4, <1>5, <1>7, EdgeRefusesFacts, AnswersHandled
  <1> QED BY <1>3, <1>6, <1>7

\* Every frame the edge reads is handled so, in the current session only.
LEMMA EdgeReceivesHandled ==
    ASSUME ConnectorInv, NEW s \in Sessions, EdgeReceives(s)
    PROVE  EdgeHandled(s) /\ up[s] # <<>> /\ EdgeActive(s)
PROOF
  <1> DEFINE f == Head(up[s])
  <1>1. up[s] # <<>> /\ EdgeActive(s)
    BY DEF EdgeReceives
  <1>2. f \in Frames /\ (f.type = "ready" => f.gen <= host[s].active)
    BY <1>1, Types, TailWire DEF SessionInv
  <1>3. \/ HandleAck(s, f) /\ UNCHANGED down
        \/ f.type = "ready" /\ HandleReadiness(s, f)
        \/ HandleHeartbeat(s, f)
        \/ HandleDrainAck(s, f) /\ UNCHANGED <<down, fault>>
    BY DEF EdgeReceives
  <1> HIDE DEF f
  <1> QED BY <1>1, <1>2, <1>3, HandleAckHandled, HandleReadinessHandled, HandleHeartbeatHandled,
             HandleDrainAckHandled

\* A step of the edge other than the handling of a frame.
LEMMA EdgeStep ==
    ASSUME ConnectorInv, NEW s \in Sessions, EdgeNext(s)
    PROVE  ConnectorInv'
PROOF
  <1>1. /\ edge[s] \in Edges /\ edge[s].active <= host[s].active /\ host[s].active \in Nat
        /\ edge[s].active \in Nat /\ s \in Nat /\ down[s] \in Seq(Frames)
    BY Types DEF SessionInv
  <1>2. /\ desired \in Nat /\ registry \in Nat /\ edge \in [Sessions -> Edges]
        /\ host \in [Sessions -> Hosts] /\ rollout \in [Sessions -> Rollouts]
        /\ up \in [Sessions -> Seq(Frames)] /\ down \in [Sessions -> Seq(Frames)]
        /\ link \in [Sessions -> BOOLEAN] /\ events \in 0..MaxEvents
        /\ overlapped \in [Sessions -> BOOLEAN] /\ fault \in [Sessions -> Faults]
    BY DEF ConnectorInv, TypeInv
  <1>3. ASSUME NEW g \in Generations, AcceptReads(s, g) PROVE ConnectorInv'
    <2> DEFINE e == [edge[s] EXCEPT !.state = "reading", !.kind = "snapshot", !.pending = g]
    <2>1. g \in Nat /\ desired' \in Nat
      BY <1>3, ReadsType DEF AcceptReads
    <2>2. e \in Edges /\ e.active = edge[s].active
      BY <1>1, <2>1 DEF Edges, EdgeStates, Kinds
    <2>3. edge' = [edge EXCEPT ![s] = e]
      BY <1>2, <1>3 DEF AcceptReads
    <2> HIDE DEF e
    <2>4. edge' \in [Sessions -> Edges] /\ edge'[s] = e /\ \A t \in Sessions : t # s => edge'[t] = edge[t]
      BY <1>2, <2>2, <2>3
    <2>5. TypeInv'
      BY <1>2, <1>3, <2>1, <2>4, EventType DEF AcceptReads, TypeInv
    <2> QED BY <1>1, <1>3, <2>2, <2>4, <2>5, EdgeMoves DEF AcceptReads
  <1>4. CASE AcceptAttaches(s)
    <2> DEFINE e == [edge[s] EXCEPT !.state = "awaiting_snapshot"]
               c == [EdgeInit EXCEPT !.state = "closed"]
               w == <<Frame("welcome", "none", "none", 0),
                      Frame("config", "snapshot", "none", edge[s].pending)>>
    <2>1. e \in Edges /\ e.active = edge[s].active
      BY <1>1 DEF Edges, EdgeStates
    <2>2. c \in Edges /\ c.active = 0
      BY DEF EdgeInit, Edges, EdgeStates, Kinds, Statuses
    <2>3. w \in Seq(Frames)
      <3>1. edge[s].pending \in Nat
        BY <1>1 DEF Edges
      <3>2. /\ Frame("welcome", "none", "none", 0) \in Frames
            /\ Frame("config", "snapshot", "none", edge[s].pending) \in Frames
        BY <3>1, FramesWritten
      <3> QED BY <3>2
    <2>4. /\ edge' = [edge EXCEPT ![s] = e] \/ edge' = [edge EXCEPT ![s] = c]
          /\ registry' \in {registry, s}
          /\ \/ down' = down
             \/ down' = [down EXCEPT ![s] = IF host[s].state = "closed" THEN @ ELSE @ \o w]
      BY <1>2, <1>4 DEF AcceptAttaches
    <2> HIDE DEF e, c, w
    <2>5. /\ edge' \in [Sessions -> Edges] /\ edge'[s].active \in {edge[s].active, 0}
          /\ \A t \in Sessions : t # s => edge'[t] = edge[t]
      BY <1>2, <2>1, <2>2, <2>4
    <2>6. down' \in [Sessions -> Seq(Frames)]
      <3>1. down[s] \o w \in Seq(Frames)
        BY <1>1, <2>3
      <3> QED BY <1>2, <2>4, <3>1
    <2>7. TypeInv'
      BY <1>1, <1>2, <1>4, <2>4, <2>5, <2>6 DEF AcceptAttaches, TypeInv
    <2>8. edge'[s].active <= host[s].active
      BY <1>1, <2>5
    <2> QED BY <1>4, <2>5, <2>7, <2>8, EdgeMoves DEF AcceptAttaches
  <1>5. ASSUME NEW g \in Generations, OfferSnapshot(s, g) PROVE ConnectorInv'
    <2> DEFINE e == [edge[s] EXCEPT !.kind = "snapshot", !.pending = g,
                       !.state = IF edge[s].active = 0 THEN "awaiting_snapshot" ELSE @]
    <2>1. g \in Nat /\ desired' \in Nat
      BY <1>5, ReadsType DEF OfferSnapshot
    <2>2. e \in Edges /\ e.active = edge[s].active
      BY <1>1, <2>1 DEF Edges, EdgeStates, Kinds
    <2>3. edge' = [edge EXCEPT ![s] = e]
      BY <1>2, <1>5 DEF OfferSnapshot
    <2> HIDE DEF e
    <2>4. edge' \in [Sessions -> Edges] /\ edge'[s] = e /\ \A t \in Sessions : t # s => edge'[t] = edge[t]
      BY <1>2, <2>2, <2>3
    <2>5. Frame("config", "snapshot", "none", g) \in Frames
      BY <2>1, FramesWritten
    <2>6. down' \in [Sessions -> Seq(Frames)]
      BY <1>5, <2>5, ToHostType DEF OfferSnapshot
    <2>7. overlapped' \in [Sessions -> BOOLEAN]
      BY <1>2, <1>5 DEF OfferSnapshot, Unsettled
    <2>8. TypeInv'
      BY <1>2, <1>5, <2>1, <2>4, <2>6, <2>7, EventType DEF OfferSnapshot, TypeInv
    <2> QED BY <1>1, <1>5, <2>2, <2>4, <2>8, EdgeMoves DEF OfferSnapshot
  <1>6. ASSUME NEW g \in Generations, OfferDelta(s, g) PROVE ConnectorInv'
    <2> DEFINE e == [edge[s] EXCEPT !.kind = "delta", !.pending = g]
    <2>1. g \in Nat /\ desired' \in Nat
      BY <1>6, ReadsType DEF OfferDelta
    <2>2. e \in Edges /\ e.active = edge[s].active
      BY <1>1, <2>1 DEF Edges, Kinds
    <2>3. edge' = [edge EXCEPT ![s] = e]
      BY <1>2, <1>6 DEF OfferDelta
    <2> HIDE DEF e
    <2>4. edge' \in [Sessions -> Edges] /\ edge'[s] = e /\ \A t \in Sessions : t # s => edge'[t] = edge[t]
      BY <1>2, <2>2, <2>3
    <2>5. Frame("config", "delta", "none", g) \in Frames
      BY <2>1, FramesWritten
    <2>6. down' \in [Sessions -> Seq(Frames)]
      BY <1>6, <2>5, ToHostType DEF OfferDelta
    <2>7. TypeInv'
      BY <1>2, <1>6, <2>1, <2>4, <2>6, EventType DEF OfferDelta, TypeInv
    <2> QED BY <1>1, <1>6, <2>2, <2>4, <2>7, EdgeMoves DEF OfferDelta
  <1>7. CASE BeginDrain(s)
    <2> DEFINE e == [edge[s] EXCEPT !.drain = edge[s].active, !.drainStatus = "accepted",
                                    !.state = "draining"]
    <2>1. e \in Edges /\ e.active = edge[s].active
      BY <1>1 DEF Edges, EdgeStates, Statuses
    <2>2. edge' = [edge EXCEPT ![s] = e]
      BY <1>2, <1>7 DEF BeginDrain
    <2> HIDE DEF e
    <2>3. edge' \in [Sessions -> Edges] /\ edge'[s] = e /\ \A t \in Sessions : t # s => edge'[t] = edge[t]
      BY <1>2, <2>1, <2>2
    <2>4. Frame("drain", "none", "none", edge[s].active) \in Frames
      BY <1>1, FramesWritten
    <2>5. down' \in [Sessions -> Seq(Frames)]
      BY <1>7, <2>4, ToHostType DEF BeginDrain
    <2>6. overlapped' \in [Sessions -> BOOLEAN]
      BY <1>2, <1>7 DEF BeginDrain, Unsettled
    <2>7. TypeInv'
      BY <1>2, <1>7, <2>3, <2>5, <2>6, EventType DEF BeginDrain, TypeInv
    <2> QED BY <1>1, <1>7, <2>1, <2>3, <2>7, EdgeMoves DEF BeginDrain
  <1>8. CASE EdgeReceives(s)
    <2>1. EdgeHandled(s) /\ up[s] # <<>>
      BY <1>8, EdgeReceivesHandled
    <2>2. TypeInv'
      BY <1>2, <1>8, <2>1 DEF EdgeReceives, EdgeHandled, TypeInv
    <2> QED BY <1>8, <2>1, <2>2, EdgeMoves DEF EdgeReceives, EdgeHandled
  <1>9. CASE EdgeFenced(s) \/ EdgeExpires(s) \/ EdgeReadFails(s)
    <2>1. EdgeCloses(s) /\ UNCHANGED <<desired, host, rollout, down, link, overlapped, fault>>
      BY <1>9 DEF EdgeFenced, EdgeExpires, EdgeReadFails
    <2>2. events' \in 0..MaxEvents
      BY <1>2, <1>9, EventType DEF EdgeFenced, EdgeExpires, EdgeReadFails
    <2>3. TypeInv'
      BY <1>2, <2>1, <2>2, EdgeClosesFacts DEF TypeInv
    <2> QED BY <1>1, <2>1, <2>3, EdgeClosesFacts, EdgeMoves
  <1> QED BY <1>3, <1>4, <1>5, <1>6, <1>7, <1>8, <1>9 DEF EdgeNext

-----------------------------------------------------------------------------
(* The host. *)

\* What the invariant says of one host and its store.
LEMMA HostFields ==
    ASSUME ConnectorInv, NEW s \in Sessions
    PROVE  /\ host[s].active \in Nat /\ host[s].candidate \in Nat /\ host[s].staging \in Nat
           /\ host[s].waiting \in Nat /\ host[s].result \in Nat /\ host[s].kind \in Kinds
           /\ host[s].state \in HostStates
           /\ rollout[s].desired \in Nat /\ rollout[s].applied \in Nat
           /\ rollout[s].carrier \in Nat /\ rollout[s].want \in Nat
           /\ HostInv(host[s], rollout[s]) /\ RolloutInv(rollout[s])
           /\ WireInv(up[s], host[s].active) /\ edge[s].active <= host[s].active
PROOF
  <1>1. /\ host[s] \in Hosts /\ rollout[s] \in Rollouts
        /\ SessionInv(edge[s], host[s], rollout[s], up[s])
    BY Types
  <1>2. /\ host[s].active \in Nat /\ host[s].candidate \in Nat /\ host[s].staging \in Nat
        /\ host[s].waiting \in Nat /\ host[s].result \in Nat /\ host[s].kind \in Kinds
        /\ host[s].state \in HostStates
    BY <1>1 DEF Hosts
  <1>3. /\ rollout[s].desired \in Nat /\ rollout[s].applied \in Nat
        /\ rollout[s].carrier \in Nat /\ rollout[s].want \in Nat
    BY <1>1 DEF Rollouts
  <1> QED BY <1>1, <1>2, <1>3 DEF SessionInv

\* What a step of the host's loop leaves.
HostMoved(s) ==
    /\ host' \in [Sessions -> Hosts] /\ up' \in [Sessions -> Seq(Frames)]
    /\ down' \in [Sessions -> Seq(Frames)] /\ fault' \in [Sessions -> Faults]
    /\ \A t \in Sessions : t # s => host'[t] = host[t] /\ up'[t] = up[t]
    /\ host'[s].active >= host[s].active
    /\ HostInv(host'[s], rollout[s])
    /\ WireInv(up'[s], host'[s].active)

\* A step of the host that is well formed keeps the invariant.
LEMMA HostMoves ==
    ASSUME ConnectorInv, NEW s \in Sessions, HostMoved(s),
           UNCHANGED <<desired, registry, edge, rollout, link, overlapped>>,
           events' \in 0..MaxEvents
    PROVE  ConnectorInv'
PROOF
  <1>1. TypeInv'
    BY DEF ConnectorInv, TypeInv, HostMoved
  <1>2. edge'[s].active <= host'[s].active
    <2>1. host'[s].active \in Nat
      BY DEF HostMoved, Hosts
    <2>2. edge[s].active \in Nat /\ host[s].active \in Nat /\ edge[s].active <= host[s].active
      BY Types DEF SessionInv
    <2> QED BY <2>1, <2>2 DEF HostMoved
  <1>3. SessionInv(edge'[s], host'[s], rollout'[s], up'[s])
    BY <1>2, HostFields DEF HostMoved, SessionInv
  <1> QED BY <1>1, <1>3, OneSession DEF HostMoved

\* A frame is written to the edge by a host that has made n active.
LEMMA ToEdgeFacts ==
    ASSUME ConnectorInv, NEW s \in Sessions, NEW n \in Nat, host[s].active <= n,
           NEW f \in Frames, f.type = "ready" => f.gen <= n, ToEdge(s, f) \/ UNCHANGED up
    PROVE  /\ up' \in [Sessions -> Seq(Frames)] /\ WireInv(up'[s], n)
           /\ \A t \in Sessions : t # s => up'[t] = up[t]
PROOF
  <1>1. up \in [Sessions -> Seq(Frames)] /\ up[s] \in Seq(Frames)
    BY DEF ConnectorInv, TypeInv
  <1>2. WireInv(up[s], n)
    BY <1>1, HostFields, WireGrows
  <1>3. Append(up[s], f) \in Seq(Frames) /\ WireInv(Append(up[s], f), n)
    BY <1>1, <1>2, AppendWire
  <1>4. \/ up' = up
        \/ up' = [up EXCEPT ![s] = Append(up[s], f)]
    BY <1>1 DEF ToEdge
  <1> QED BY <1>1, <1>2, <1>3, <1>4

\* The frames a host writes, but for readiness, say nothing of what is active.
LEMMA AnswersWritten ==
    ASSUME NEW g \in Nat, NEW k \in Kinds, NEW x \in Statuses
    PROVE  /\ Frame("ack", k, x, g) \in Frames /\ Frame("ack", k, x, g).type # "ready"
           /\ Frame("drainAck", "none", x, g) \in Frames
           /\ Frame("drainAck", "none", x, g).type # "ready"
           /\ Frame("heartbeat", "none", "none", g) \in Frames
           /\ Frame("heartbeat", "none", "none", g).type # "ready"
           /\ Frame("ready", "none", "none", g) \in Frames
           /\ Frame("ready", "none", "none", g).gen = g
PROOF BY DEF Frame, Frames, FrameTypes, Kinds, Statuses

\* A loop that ends keeps what it has made active and nothing else.
LEMMA HostEndsFacts ==
    ASSUME ConnectorInv, NEW s \in Sessions, HostEnds(s)
    PROVE  /\ host' \in [Sessions -> Hosts] /\ down' \in [Sessions -> Seq(Frames)]
           /\ host'[s].active = host[s].active /\ HostInv(host'[s], rollout[s])
           /\ \A t \in Sessions : t # s => host'[t] = host[t]
PROOF
  <1> DEFINE h == [HostInit EXCEPT !.state = "closed", !.active = host[s].active]
  <1>1. host[s].active \in Nat /\ HostInv(host[s], rollout[s])
    BY HostFields
  <1>2. /\ h \in Hosts /\ h.active = host[s].active /\ h.candidate = 0 /\ h.staging = 0
        /\ h.waiting = 0 /\ h.result = 0
    BY <1>1 DEF HostInit, Hosts, HostStates, Kinds
  <1>3. host' = [host EXCEPT ![s] = h] /\ down' = [down EXCEPT ![s] = <<>>]
    BY DEF HostEnds
  <1> HIDE DEF h
  <1>4. host \in [Sessions -> Hosts] /\ down \in [Sessions -> Seq(Frames)]
    BY DEF ConnectorInv, TypeInv
  <1>5. HostInv(h, rollout[s])
    BY <1>1, <1>2 DEF HostInv
  <1> QED BY <1>2, <1>3, <1>4, <1>5, EmptyWire

\* A handler of the host consumes one frame of its own session.
LEMMA HostProceedsFacts ==
    ASSUME ConnectorInv, NEW s \in Sessions, down[s] # <<>>, NEW h \in Hosts, HostProceeds(s, h)
    PROVE  /\ host' \in [Sessions -> Hosts] /\ down' \in [Sessions -> Seq(Frames)]
           /\ host'[s] = h
           /\ \A t \in Sessions : t # s => host'[t] = host[t]
PROOF
  <1>1. /\ host \in [Sessions -> Hosts] /\ down \in [Sessions -> Seq(Frames)]
        /\ Tail(down[s]) \in Seq(Frames)
    BY DEF ConnectorInv, TypeInv
  <1> QED BY <1>1 DEF HostProceeds

\* Faults stay well formed whether one is noted or not.
LEMMA FaultType ==
    ASSUME ConnectorInv, NEW s \in Sessions, NEW f \in Faults, Note(s, f) \/ UNCHANGED fault
    PROVE  fault' \in [Sessions -> Faults]
PROOF BY NoteType DEF ConnectorInv, TypeInv

\* The loop ends, after an answer or without one.
LEMMA HostEndsMoved ==
    ASSUME ConnectorInv, NEW s \in Sessions, HostEnds(s),
           NEW f \in Frames, f.type # "ready", ToEdge(s, f) \/ UNCHANGED up,
           NEW x \in Faults, Note(s, x) \/ UNCHANGED fault
    PROVE  HostMoved(s)
PROOF
  <1>1. host[s].active \in Nat
    BY HostFields
  <1>2. /\ up' \in [Sessions -> Seq(Frames)] /\ WireInv(up'[s], host[s].active)
        /\ \A t \in Sessions : t # s => up'[t] = up[t]
    BY <1>1, ToEdgeFacts
  <1> QED BY <1>1, <1>2, HostEndsFacts, FaultType DEF HostMoved

\* The loop goes on with what it had, or with a configuration to stage.
LEMMA HostProceedsMoved ==
    ASSUME ConnectorInv, NEW s \in Sessions, down[s] # <<>>, NEW h \in Hosts, HostProceeds(s, h),
           h.active = host[s].active, h.candidate = host[s].candidate,
           h.waiting = host[s].waiting, h.result = host[s].result,
           h.staging = host[s].staging \/ h.active < h.staging,
           NEW f \in Frames, f.type # "ready", ToEdge(s, f) \/ UNCHANGED up,
           UNCHANGED fault
    PROVE  HostMoved(s)
PROOF
  <1>1. host[s].active \in Nat /\ HostInv(host[s], rollout[s])
    BY HostFields
  <1>2. /\ up' \in [Sessions -> Seq(Frames)] /\ WireInv(up'[s], host[s].active)
        /\ \A t \in Sessions : t # s => up'[t] = up[t]
    BY <1>1, ToEdgeFacts
  <1>3. HostInv(h, rollout[s])
    BY <1>1 DEF HostInv
  <1>4. fault' \in [Sessions -> Faults]
    BY DEF ConnectorInv, TypeInv
  <1> QED BY <1>1, <1>2, <1>3, <1>4, HostProceedsFacts DEF HostMoved

\* A configuration that is staged is newer than what is active.
LEMMA ReceiveConfigMoved ==
    ASSUME ConnectorInv, NEW s \in Sessions, down[s] # <<>>, NEW f \in Frames, ReceiveConfig(s, f)
    PROVE  HostMoved(s)
PROOF
  <1> DEFINE h == host[s]
             staged == [h EXCEPT !.staging = f.gen, !.kind = f.kind]
             current == IF h.candidate # 0 THEN h.candidate ELSE h.active
             follows == IF f.kind = "snapshot" THEN f.gen > current
                        ELSE h.active # 0 /\ h.candidate = 0 /\ f.gen = h.active + 1
             duplicate == Frame("ack", "snapshot", "duplicate", f.gen)
  <1>1. h \in Hosts /\ f.gen \in Nat /\ f.kind \in Kinds
    BY Types DEF Frames
  <1>2. /\ staged \in Hosts /\ staged.active = h.active /\ staged.candidate = h.candidate
        /\ staged.waiting = h.waiting /\ staged.result = h.result /\ staged.staging = f.gen
    BY <1>1 DEF Hosts
  <1>3. follows => h.active < f.gen
    BY <1>1, HostFields DEF HostInv
  <1>4. \/ follows /\ HostProceeds(s, staged) /\ UNCHANGED <<up, fault>>
        \/ HostProceeds(s, h) /\ ToEdge(s, duplicate) /\ UNCHANGED fault
        \/ /\ HostEnds(s) /\ Note(s, "config")
           /\ \E x \in {"snapshot_required", "rejected"} : ToEdge(s, Frame("ack", f.kind, x, f.gen))
    BY DEF ReceiveConfig
  <1>5. duplicate \in Frames /\ duplicate.type # "ready"
    BY <1>1, AnswersWritten DEF Kinds, Statuses
  <1> HIDE DEF follows, staged, duplicate
  <1>6. CASE follows /\ HostProceeds(s, staged) /\ UNCHANGED <<up, fault>>
    BY <1>2, <1>3, <1>5, <1>6, HostProceedsMoved
  <1>7. CASE HostProceeds(s, h) /\ ToEdge(s, duplicate) /\ UNCHANGED fault
    BY <1>1, <1>5, <1>7, HostProceedsMoved
  <1>8. CASE /\ HostEnds(s) /\ Note(s, "config")
             /\ \E x \in {"snapshot_required", "rejected"} : ToEdge(s, Frame("ack", f.kind, x, f.gen))
    <2>1. PICK x \in {"snapshot_required", "rejected"} : ToEdge(s, Frame("ack", f.kind, x, f.gen))
      BY <1>8
    <2>2. x \in Statuses /\ "config" \in Faults
      BY DEF Statuses, Faults
    <2>3. Frame("ack", f.kind, x, f.gen) \in Frames /\ Frame("ack", f.kind, x, f.gen).type # "ready"
      BY <1>1, <2>2, AnswersWritten
    <2> QED BY <1>8, <2>1, <2>2, <2>3, HostEndsMoved
  <1> QED BY <1>4, <1>6, <1>7, <1>8

\* A drain changes no generation.
LEMMA HandleDrainMoved ==
    ASSUME ConnectorInv, NEW s \in Sessions, down[s] # <<>>, NEW f \in Frames, HandleDrain(s, f)
    PROVE  HostMoved(s)
PROOF
  <1> DEFINE h == host[s]
             drained == [h EXCEPT !.drain = f.gen, !.state = "draining"]
             yes == Frame("drainAck", "none", "accepted", f.gen)
             no == Frame("drainAck", "none", "rejected", f.gen)
  <1>1. h \in Hosts /\ f.gen \in Nat
    BY Types DEF Frames
  <1>2. /\ drained \in Hosts /\ drained.active = h.active /\ drained.candidate = h.candidate
        /\ drained.waiting = h.waiting /\ drained.result = h.result /\ drained.staging = h.staging
    BY <1>1 DEF Hosts, HostStates
  <1>3. "drain" \in Faults /\ "none" \in Kinds /\ "accepted" \in Statuses /\ "rejected" \in Statuses
    BY DEF Faults, Kinds, Statuses
  <1>4. yes \in Frames /\ yes.type # "ready" /\ no \in Frames /\ no.type # "ready"
    BY <1>1, <1>3, AnswersWritten
  <1>5. \/ HostProceeds(s, drained) /\ ToEdge(s, yes) /\ UNCHANGED fault
        \/ HostEnds(s) /\ ToEdge(s, no) /\ (Note(s, "drain") \/ UNCHANGED fault)
    BY DEF HandleDrain
  <1> HIDE DEF drained, yes, no
  <1>6. CASE HostProceeds(s, drained) /\ ToEdge(s, yes) /\ UNCHANGED fault
    BY <1>2, <1>4, <1>6, HostProceedsMoved
  <1>7. CASE HostEnds(s) /\ ToEdge(s, no) /\ (Note(s, "drain") \/ UNCHANGED fault)
    BY <1>3, <1>4, <1>7, HostEndsMoved
  <1> QED BY <1>5, <1>6, <1>7

\* The host reads a frame.
LEMMA HostReceivesStep ==
    ASSUME ConnectorInv, NEW s \in Sessions, HostReceives(s)
    PROVE  ConnectorInv'
PROOF
  <1> DEFINE f == Head(down[s])
             h == host[s]
             welcomed == [h EXCEPT !.state = "awaiting_snapshot"]
             any == Frame("heartbeat", "none", "none", 0)
  <1>1. down[s] # <<>> /\ down[s] \in Seq(Frames) /\ h \in Hosts
    BY Types DEF HostReceives
  <1>2. f \in Frames
    BY <1>1
  <1>3. /\ welcomed \in Hosts /\ welcomed.active = h.active /\ welcomed.candidate = h.candidate
        /\ welcomed.waiting = h.waiting /\ welcomed.result = h.result
        /\ welcomed.staging = h.staging
    BY <1>1 DEF Hosts, HostStates
  <1>4. any \in Frames /\ any.type # "ready" /\ "readyAck" \in Faults
    BY AnswersWritten DEF Kinds, Statuses, Faults
  <1>5. \/ HostProceeds(s, welcomed) /\ UNCHANGED <<up, fault>>
        \/ HostProceeds(s, h) /\ UNCHANGED <<up, fault>>
        \/ HostEnds(s) /\ Note(s, "readyAck") /\ UNCHANGED up
        \/ ReceiveConfig(s, f)
        \/ HandleDrain(s, f)
    BY DEF HostReceives, AcceptWelcome, ReceiveReadyAck
  <1>6. UNCHANGED <<desired, registry, edge, rollout, link, events, overlapped>>
    BY DEF HostReceives
  <1> HIDE DEF f, welcomed, any
  <1>7. HostMoved(s)
    <2>1. CASE HostProceeds(s, welcomed) /\ UNCHANGED <<up, fault>>
      BY <1>1, <1>3, <1>4, <2>1, HostProceedsMoved
    <2>2. CASE HostProceeds(s, h) /\ UNCHANGED <<up, fault>>
      BY <1>1, <1>4, <2>2, HostProceedsMoved
    <2>3. CASE HostEnds(s) /\ Note(s, "readyAck") /\ UNCHANGED up
      BY <1>4, <2>3, HostEndsMoved
    <2> QED BY <1>1, <1>2, <1>5, <2>1, <2>2, <2>3, ReceiveConfigMoved, HandleDrainMoved
  <1>8. events' \in 0..MaxEvents
    BY <1>6 DEF ConnectorInv, TypeInv
  <1> QED BY <1>6, <1>7, <1>8, HostMoves

\* A refusal ends the loop.
LEMMA RejectsMoved ==
    ASSUME ConnectorInv, NEW s \in Sessions,
           Rejects(s, [kind |-> host[s].kind, gen |-> host[s].staging]),
           NEW x \in Faults, Note(s, x) \/ UNCHANGED fault
    PROVE  HostMoved(s)
PROOF
  <1> DEFINE r == Frame("ack", host[s].kind, "rejected", host[s].staging)
  <1>1. r \in Frames /\ r.type # "ready"
    <2>1. "rejected" \in Statuses
      BY DEF Statuses
    <2> QED BY <2>1, HostFields, AnswersWritten
  <1>2. HostEnds(s) /\ ToEdge(s, r)
    BY DEF Rejects
  <1> HIDE DEF r
  <1> QED BY <1>1, <1>2, HostEndsMoved

\* The store or the carriers of a session move forward.
LEMMA RolloutMoves ==
    ASSUME ConnectorInv, NEW s \in Sessions, NEW r \in Rollouts,
           rollout' = [rollout EXCEPT ![s] = r],
           UNCHANGED <<desired, registry, edge, host, up, down, link, overlapped, fault>>,
           events' \in 0..MaxEvents,
           RolloutInv(r), rollout[s].applied <= r.applied, rollout[s].carrier <= r.carrier
    PROVE  ConnectorInv'
PROOF
  <1>1. rollout \in [Sessions -> Rollouts]
    BY DEF ConnectorInv, TypeInv
  <1>2. /\ rollout' \in [Sessions -> Rollouts] /\ rollout'[s] = r
        /\ \A t \in Sessions : t # s => rollout'[t] = rollout[t]
    BY <1>1
  <1>3. TypeInv'
    BY <1>2 DEF ConnectorInv, TypeInv
  <1>4. r.applied \in Nat /\ r.carrier \in Nat
    BY DEF Rollouts
  <1>5. HostInv(host[s], r)
    BY <1>4, HostFields DEF HostInv
  <1>6. SessionInv(edge'[s], host'[s], rollout'[s], up'[s])
    BY <1>2, <1>5, HostFields DEF SessionInv
  <1> QED BY <1>2, <1>3, <1>6, OneSession

\* The applier commits the configuration in the store.
LEMMA StageStep ==
    ASSUME ConnectorInv, NEW s \in Sessions, Stage(s)
    PROVE  ConnectorInv'
PROOF
  <1> DEFINE r == [rollout[s] EXCEPT !.desired = host[s].staging]
  <1>1. /\ rollout[s] \in Rollouts /\ host[s].staging \in Nat
        /\ rollout \in [Sessions -> Rollouts]
    BY Types, HostFields DEF ConnectorInv, TypeInv
  <1>2. /\ r \in Rollouts /\ r.desired = host[s].staging /\ r.applied = rollout[s].applied
        /\ r.carrier = rollout[s].carrier /\ r.want = rollout[s].want /\ r.step = rollout[s].step
    BY <1>1 DEF Rollouts
  <1>3. rollout' = [rollout EXCEPT ![s] = r]
    BY <1>1 DEF Stage
  <1> HIDE DEF r
  <1>4. RolloutInv(r) /\ rollout[s].applied <= r.applied /\ rollout[s].carrier <= r.carrier
    BY <1>1, <1>2, HostFields DEF Stage, RolloutInv
  <1>5. events' \in 0..MaxEvents
    BY DEF Stage, ConnectorInv, TypeInv
  <1> QED BY <1>2, <1>3, <1>4, <1>5, RolloutMoves DEF Stage

\* The applier binds the manager and the session adopts the candidate.
LEMMA BindStep ==
    ASSUME ConnectorInv, NEW s \in Sessions, Bind(s)
    PROVE  ConnectorInv'
PROOF
  <1> DEFINE g == host[s].staging
             r == [rollout[s] EXCEPT !.binding = g]
             h == [host[s] EXCEPT !.staging = 0, !.candidate = g, !.ready = 0,
                                  !.state = "awaiting_ready", !.waiting = g, !.result = 0]
             ack == Frame("ack", host[s].kind, "applied", g)
  <1>1. /\ rollout[s] \in Rollouts /\ g \in Nat /\ host[s] \in Hosts
        /\ rollout \in [Sessions -> Rollouts] /\ host \in [Sessions -> Hosts]
        /\ down \in [Sessions -> Seq(Frames)] /\ events \in 0..MaxEvents
        /\ host[s].active \in Nat
    BY Types, HostFields DEF ConnectorInv, TypeInv
  <1>2. /\ r \in Rollouts /\ r.desired = rollout[s].desired /\ r.applied = rollout[s].applied
        /\ r.carrier = rollout[s].carrier /\ r.want = rollout[s].want /\ r.step = rollout[s].step
    BY <1>1 DEF Rollouts
  <1>3. /\ rollout' = [rollout EXCEPT ![s] = r] /\ g # 0
        /\ UNCHANGED <<desired, registry, edge, link, events, overlapped>>
    BY <1>1 DEF Bind
  <1> HIDE DEF r
  <1>4. /\ rollout' \in [Sessions -> Rollouts] /\ rollout'[s] = r
        /\ \A t \in Sessions : t # s => rollout'[t] = rollout[t]
    BY <1>1, <1>2, <1>3
  <1>5. HostMoved(s)
    <2>1. CASE Rejects(s, [kind |-> host[s].kind, gen |-> g]) /\ Note(s, "overlap")
      <3>1. "overlap" \in Faults
        BY DEF Faults
      <3> QED BY <2>1, <3>1, RejectsMoved
    <2>2. CASE /\ host[s].candidate = 0 /\ host' = [host EXCEPT ![s] = h] /\ ToEdge(s, ack)
               /\ UNCHANGED <<down, fault>>
      <3>1. /\ h \in Hosts /\ h.active = host[s].active /\ h.candidate = g /\ h.staging = 0
            /\ h.waiting = g /\ h.result = 0
        BY <1>1 DEF Hosts, HostStates
      <3>2. ack \in Frames /\ ack.type # "ready"
        <4>1. "applied" \in Statuses /\ host[s].kind \in Kinds
          BY HostFields DEF Statuses
        <4> QED BY <1>1, <4>1, AnswersWritten
      <3>3. host[s].active < g /\ HostInv(host[s], rollout[s])
        BY <1>3, HostFields DEF HostInv
      <3> HIDE DEF h, ack, g
      <3>4. HostInv(h, rollout[s])
        BY <3>1, <3>3 DEF HostInv
      <3>5. /\ host' \in [Sessions -> Hosts] /\ host'[s] = h
            /\ \A t \in Sessions : t # s => host'[t] = host[t]
        BY <1>1, <2>2, <3>1
      <3>6. /\ up' \in [Sessions -> Seq(Frames)] /\ WireInv(up'[s], host[s].active)
            /\ \A t \in Sessions : t # s => up'[t] = up[t]
        BY <1>1, <2>2, <3>2, ToEdgeFacts
      <3>7. fault' \in [Sessions -> Faults] /\ down' \in [Sessions -> Seq(Frames)]
        BY <1>1, <2>2 DEF ConnectorInv, TypeInv
      <3>8. host'[s].active >= host[s].active
        BY <1>1, <3>1, <3>5
      <3> QED BY <3>1, <3>4, <3>5, <3>6, <3>7, <3>8 DEF HostMoved
    <2>3. \/ Rejects(s, [kind |-> host[s].kind, gen |-> g]) /\ Note(s, "overlap")
          \/ /\ host[s].candidate = 0 /\ host' = [host EXCEPT ![s] = h] /\ ToEdge(s, ack)
             /\ UNCHANGED <<down, fault>>
      BY <1>1 DEF Bind
    <2> QED BY <2>1, <2>2, <2>3
  <1>6. TypeInv'
    BY <1>3, <1>4, <1>5 DEF ConnectorInv, TypeInv, HostMoved
  <1>7. edge'[s].active <= host'[s].active
    <2>1. host'[s].active \in Nat
      BY <1>5 DEF HostMoved, Hosts
    <2>2. edge[s].active \in Nat /\ edge[s].active <= host[s].active
      BY Types DEF SessionInv
    <2> QED BY <1>1, <1>3, <1>5, <2>1, <2>2 DEF HostMoved
  <1>8. HostInv(host'[s], r) /\ RolloutInv(r)
    BY <1>2, <1>5, HostFields DEF HostMoved, HostInv, RolloutInv
  <1>9. SessionInv(edge'[s], host'[s], rollout'[s], up'[s])
    BY <1>4, <1>5, <1>7, <1>8 DEF HostMoved, SessionInv
  <1> QED BY <1>3, <1>4, <1>5, <1>6, <1>9, OneSession DEF HostMoved

\* The readiness worker has seen the store and the carrier at its generation.
LEMMA WaitReadyStep ==
    ASSUME ConnectorInv, NEW s \in Sessions, WaitReady(s)
    PROVE  ConnectorInv'
PROOF
  <1> DEFINE h == [host[s] EXCEPT !.result = host[s].waiting]
             any == Frame("heartbeat", "none", "none", 0)
  <1>1. host[s] \in Hosts /\ host \in [Sessions -> Hosts] /\ host[s].active \in Nat
    BY Types, HostFields DEF ConnectorInv, TypeInv
  <1>2. /\ h \in Hosts /\ h.active = host[s].active /\ h.candidate = host[s].candidate
        /\ h.staging = host[s].staging /\ h.waiting = host[s].waiting
        /\ h.result = host[s].waiting
    BY <1>1 DEF Hosts
  <1>3. host' = [host EXCEPT ![s] = h]
    BY <1>1 DEF WaitReady
  <1> HIDE DEF h
  <1>4. /\ host' \in [Sessions -> Hosts] /\ host'[s] = h
        /\ \A t \in Sessions : t # s => host'[t] = host[t]
    BY <1>1, <1>2, <1>3
  <1>5. HostInv(h, rollout[s])
    BY <1>2, HostFields DEF HostInv, WaitReady
  <1>6. /\ UNCHANGED <<desired, registry, edge, rollout, up, down, link, events, overlapped, fault>>
    BY DEF WaitReady
  <1>7. h.active >= host[s].active /\ WireInv(up[s], h.active)
    BY <1>1, <1>2, HostFields
  <1>8. HostMoved(s)
    BY <1>4, <1>5, <1>6, <1>7 DEF HostMoved, ConnectorInv, TypeInv
  <1>9. events' \in 0..MaxEvents
    BY <1>6 DEF ConnectorInv, TypeInv
  <1> QED BY <1>6, <1>8, <1>9, HostMoves

\* The candidate becomes active and is reported.
LEMMA MarkReadyStep ==
    ASSUME ConnectorInv, NEW s \in Sessions, MarkReady(s)
    PROVE  ConnectorInv'
PROOF
  <1> DEFINE g == host[s].result
             h == [host[s] EXCEPT !.active = g, !.candidate = 0, !.ready = g, !.state = "ready",
                                  !.waiting = 0, !.result = 0]
             ready == Frame("ready", "none", "none", g)
             any == Frame("heartbeat", "none", "none", 0)
  <1>1. /\ host[s] \in Hosts /\ host \in [Sessions -> Hosts] /\ host[s].active \in Nat /\ g \in Nat
        /\ down \in [Sessions -> Seq(Frames)] /\ fault \in [Sessions -> Faults]
    BY Types, HostFields DEF ConnectorInv, TypeInv
  <1>2. /\ UNCHANGED <<desired, registry, edge, rollout, link, events, overlapped, fault>>
        /\ g # 0 /\ host[s].staging = 0
    BY DEF MarkReady, InSelect
  <1>3. \/ host' = [host EXCEPT ![s] = h] /\ ToEdge(s, ready) /\ UNCHANGED down
        \/ HostEnds(s) /\ UNCHANGED up
    BY <1>1 DEF MarkReady
  <1>4. "none" \in Kinds /\ "none" \in Statuses /\ "none" \in Faults /\ 0 \in Nat
    BY DEF Kinds, Statuses, Faults
  <1>5. any \in Frames /\ any.type # "ready" /\ ready \in Frames /\ ready.gen = g
    BY <1>1, <1>4, AnswersWritten
  <1>6. /\ h \in Hosts /\ h.active = g /\ h.candidate = 0 /\ h.staging = host[s].staging
        /\ h.waiting = 0 /\ h.result = 0
    BY <1>1 DEF Hosts, HostStates
  <1>7. /\ host[s].active <= g /\ g <= rollout[s].applied /\ g <= rollout[s].carrier
    BY <1>2, HostFields DEF HostInv
  <1> HIDE DEF g, h, ready, any
  <1>8. HostMoved(s)
    <2>1. CASE host' = [host EXCEPT ![s] = h] /\ ToEdge(s, ready) /\ UNCHANGED down
      <3>1. /\ host' \in [Sessions -> Hosts] /\ host'[s] = h
            /\ \A t \in Sessions : t # s => host'[t] = host[t]
        BY <1>1, <1>6, <2>1
      <3>2. HostInv(h, rollout[s])
        BY <1>2, <1>6, <1>7 DEF HostInv
      <3>3. /\ up' \in [Sessions -> Seq(Frames)] /\ WireInv(up'[s], g)
            /\ \A t \in Sessions : t # s => up'[t] = up[t]
        <4>1. ready.type = "ready" => ready.gen <= g
          BY <1>1, <1>5
        <4>2. ToEdge(s, ready) \/ UNCHANGED up
          BY <2>1
        <4>3. g \in Nat /\ ready \in Frames /\ host[s].active <= g
          BY <1>1, <1>5, <1>7
        <4> QED BY <4>1, <4>2, <4>3, ToEdgeFacts, Zenon
      <3>4. h.active >= host[s].active
        BY <1>1, <1>6, <1>7
      <3> QED BY <1>1, <1>2, <1>6, <2>1, <3>1, <3>2, <3>3, <3>4 DEF HostMoved
    <2>2. CASE HostEnds(s) /\ UNCHANGED up
      BY <1>2, <1>4, <1>5, <2>2, HostEndsMoved
    <2> QED BY <1>3, <2>1, <2>2
  <1>9. events' \in 0..MaxEvents
    BY <1>2 DEF ConnectorInv, TypeInv
  <1> QED BY <1>2, <1>8, <1>9, HostMoves

\* The loop ends by itself, or the applier has failed.
LEMMA HostEndSteps ==
    ASSUME ConnectorInv, NEW s \in Sessions,
           StageFails(s) \/ WaitReadyFails(s) \/ HostReadFails(s) \/ HostStops(s)
    PROVE  ConnectorInv'
PROOF
  <1> DEFINE any == Frame("heartbeat", "none", "none", 0)
  <1>1. "none" \in Kinds /\ "none" \in Statuses /\ "none" \in Faults /\ 0 \in Nat
    BY DEF Kinds, Statuses, Faults
  <1>2. any \in Frames /\ any.type # "ready"
    BY <1>1, AnswersWritten
  <1>3. /\ UNCHANGED <<desired, registry, edge, rollout, link, overlapped, fault>>
        /\ \/ HostEnds(s) /\ UNCHANGED up
           \/ Rejects(s, [kind |-> host[s].kind, gen |-> host[s].staging])
        /\ Event \/ UNCHANGED events
    BY DEF StageFails, WaitReadyFails, HostReadFails, HostStops
  <1> HIDE DEF any
  <1>4. HostMoved(s)
    BY <1>1, <1>2, <1>3, HostEndsMoved, RejectsMoved
  <1>5. events' \in 0..MaxEvents
    BY <1>3, EventType DEF ConnectorInv, TypeInv
  <1> QED BY <1>3, <1>4, <1>5, HostMoves

\* A heartbeat changes no generation.
LEMMA HeartbeatStep ==
    ASSUME ConnectorInv, NEW s \in Sessions, Heartbeat(s)
    PROVE  ConnectorInv'
PROOF
  <1> DEFINE g == currentCandidate(host[s])
             f == Frame("heartbeat", "none", "none", g)
  <1>1. /\ host[s].active \in Nat /\ g \in Nat /\ host \in [Sessions -> Hosts]
        /\ down \in [Sessions -> Seq(Frames)] /\ fault \in [Sessions -> Faults]
        /\ events \in 0..MaxEvents
    BY HostFields DEF currentCandidate, ConnectorInv, TypeInv
  <1>2. f \in Frames /\ f.type # "ready"
    <2>1. "none" \in Kinds /\ "none" \in Statuses
      BY DEF Kinds, Statuses
    <2> HIDE DEF g
    <2> QED BY <1>1, <2>1, AnswersWritten
  <1>3. /\ ToEdge(s, f)
        /\ UNCHANGED <<desired, registry, edge, host, rollout, down, link, events, overlapped, fault>>
    BY DEF Heartbeat
  <1> HIDE DEF f, g
  <1>4. /\ up' \in [Sessions -> Seq(Frames)] /\ WireInv(up'[s], host[s].active)
        /\ \A t \in Sessions : t # s => up'[t] = up[t]
    <2>1. host[s].active <= host[s].active
      BY <1>1
    <2>2. f.type = "ready" => f.gen <= host[s].active
      BY <1>2
    <2>3. ToEdge(s, f) \/ UNCHANGED up
      BY <1>3
    <2> QED BY <1>1, <1>2, <2>1, <2>2, <2>3, ToEdgeFacts, Zenon
  <1>5. HostMoved(s)
    BY <1>1, <1>3, <1>4, HostFields DEF HostMoved
  <1> QED BY <1>1, <1>3, <1>5, HostMoves

\* The steps of the host keep the invariant.
LEMMA HostStep ==
    ASSUME ConnectorInv, NEW s \in Sessions, HostNext(s)
    PROVE  ConnectorInv'
PROOF
  BY HostReceivesStep, StageStep, BindStep, WaitReadyStep, MarkReadyStep, HostEndSteps,
     HeartbeatStep DEF HostNext

-----------------------------------------------------------------------------
(* The tunnel manager. *)

\* The tunnel manager only moves the store and the carrier forward.
LEMMA ManagerStep ==
    ASSUME ConnectorInv, NEW s \in Sessions, ManagerNext(s)
    PROVE  ConnectorInv'
PROOF
  <1> DEFINE r == rollout[s]
             prepared == [r EXCEPT !.want = r.desired, !.step = "prepared"]
             promoted == [r EXCEPT !.applied = r.want, !.step = "promoted"]
             idle == [r EXCEPT !.want = 0, !.step = "idle"]
             swapped == [r EXCEPT !.carrier = r.want, !.want = 0, !.step = "idle"]
  <1>1. /\ r \in Rollouts /\ RolloutInv(r) /\ rollout \in [Sessions -> Rollouts]
        /\ events \in 0..MaxEvents
    BY Types, HostFields DEF ConnectorInv, TypeInv
  <1>2. /\ r.desired \in Nat /\ r.applied \in Nat /\ r.carrier \in Nat /\ r.want \in Nat
    BY <1>1 DEF Rollouts
  <1>3. /\ UNCHANGED <<desired, registry, edge, host, up, down, link, overlapped, fault>>
        /\ Event \/ UNCHANGED events
        /\ \/ rollout' = [rollout EXCEPT ![s] = prepared]
           \/ /\ r.step = "prepared" /\ r.desired = r.want
              /\ rollout' = [rollout EXCEPT ![s] = promoted]
           \/ rollout' = [rollout EXCEPT ![s] = idle]
           \/ r.step = "promoted" /\ rollout' = [rollout EXCEPT ![s] = swapped]
    <2>1. CASE StartApply(s)
      BY <1>1, <2>1 DEF StartApply
    <2>2. CASE PromoteApplied(s)
      BY <1>1, <2>2 DEF PromoteApplied
    <2>3. CASE SwapActive(s)
      BY <1>1, <2>3 DEF SwapActive
    <2>4. CASE ApplyFails(s)
      BY <1>1, <2>4 DEF ApplyFails
    <2> QED BY <2>1, <2>2, <2>3, <2>4 DEF ManagerNext
  <1>4. events' \in 0..MaxEvents
    BY <1>1, <1>3, EventType
  <1>5. /\ prepared \in Rollouts /\ prepared.desired = r.desired /\ prepared.applied = r.applied
        /\ prepared.carrier = r.carrier /\ prepared.want = r.desired
    BY <1>1, <1>2 DEF Rollouts
  <1>6. /\ promoted \in Rollouts /\ promoted.desired = r.desired /\ promoted.applied = r.want
        /\ promoted.carrier = r.carrier /\ promoted.want = r.want
    BY <1>1, <1>2 DEF Rollouts
  <1>7. /\ idle \in Rollouts /\ idle.desired = r.desired /\ idle.applied = r.applied
        /\ idle.carrier = r.carrier /\ idle.step = "idle"
    BY <1>1 DEF Rollouts
  <1>8. /\ swapped \in Rollouts /\ swapped.desired = r.desired /\ swapped.applied = r.applied
        /\ swapped.carrier = r.want /\ swapped.step = "idle"
    BY <1>1, <1>2 DEF Rollouts
  <1> HIDE DEF prepared, promoted, idle, swapped
  <1>9. CASE rollout' = [rollout EXCEPT ![s] = prepared]
    <2>1. RolloutInv(prepared) /\ r.applied <= prepared.applied /\ r.carrier <= prepared.carrier
      BY <1>1, <1>2, <1>5 DEF RolloutInv
    <2> QED BY <1>3, <1>4, <1>5, <1>9, <2>1, RolloutMoves
  <1>10. CASE /\ r.step = "prepared" /\ r.desired = r.want
              /\ rollout' = [rollout EXCEPT ![s] = promoted]
    <2>1. RolloutInv(promoted) /\ r.applied <= promoted.applied /\ r.carrier <= promoted.carrier
      BY <1>1, <1>2, <1>6, <1>10 DEF RolloutInv
    <2> QED BY <1>3, <1>4, <1>6, <1>10, <2>1, RolloutMoves
  <1>11. CASE rollout' = [rollout EXCEPT ![s] = idle]
    <2>1. RolloutInv(idle) /\ r.applied <= idle.applied /\ r.carrier <= idle.carrier
      BY <1>1, <1>2, <1>7 DEF RolloutInv
    <2> QED BY <1>3, <1>4, <1>7, <1>11, <2>1, RolloutMoves
  <1>12. CASE r.step = "promoted" /\ rollout' = [rollout EXCEPT ![s] = swapped]
    <2>1. RolloutInv(swapped) /\ r.applied <= swapped.applied /\ r.carrier <= swapped.carrier
      BY <1>1, <1>2, <1>8, <1>12 DEF RolloutInv
    <2> QED BY <1>3, <1>4, <1>8, <1>12, <2>1, RolloutMoves
  <1> QED BY <1>3, <1>9, <1>10, <1>11, <1>12

\* A failing link changes neither end.
LEMMA LinkFailsStep ==
    ASSUME ConnectorInv, NEW s \in Sessions, LinkFails(s)
    PROVE  ConnectorInv'
PROOF
  <1>1. link' \in [Sessions -> BOOLEAN]
    BY DEF LinkFails, ConnectorInv, TypeInv
  <1>2. events' \in 0..MaxEvents
    BY EventType DEF LinkFails
  <1>3. UNCHANGED <<desired, registry, edge, host, rollout, up, down, overlapped, fault>>
    BY DEF LinkFails
  <1>4. TypeInv'
    BY <1>1, <1>2, <1>3 DEF ConnectorInv, TypeInv
  <1>5. SessionInv(edge'[s], host'[s], rollout'[s], up'[s])
    BY <1>3, Types
  <1> QED BY <1>3, <1>4, <1>5, OneSession

-----------------------------------------------------------------------------

\* Every step keeps the invariant.
LEMMA ConnectorInvStep ==
    ConnectorInv /\ [Next]_vars => ConnectorInv'
PROOF
  <1> SUFFICES ASSUME ConnectorInv, [Next]_vars PROVE ConnectorInv'
    OBVIOUS
  <1>1. CASE Next
    <2>1. PICK s \in Sessions : EdgeNext(s) \/ HostNext(s) \/ ManagerNext(s) \/ LinkFails(s)
      BY <1>1 DEF Next
    <2> QED BY <2>1, EdgeStep, HostStep, ManagerStep, LinkFailsStep
  <1>2. CASE UNCHANGED vars
    BY <1>2 DEF vars, ConnectorInv, TypeInv, SessionInv, HostInv, RolloutInv, WireInv
  <1> QED BY <1>1, <1>2

\* The inductive invariant of the control sessions: sessions, stores and wires are well
\* formed, generations only grow, and a readiness on the wire is true.
THEOREM ConnectorInvariance ==
    Spec => []ConnectorInv
PROOF BY ConnectorInvInit, ConnectorInvStep, PTL DEF Spec

\* The edge serves a generation only after the host has made it durable, published its
\* carrier and reported it (HandleReadiness, WaitReady, MarkReadyContext): ServedIsApplied.
THEOREM ServedNeverAhead ==
    Spec => []ServedIsApplied
PROOF
  <1>1. ConnectorInv => ServedIsApplied
    <2> SUFFICES ASSUME ConnectorInv, NEW s \in Sessions
                 PROVE  /\ edge[s].active <= host[s].active
                        /\ edge[s].active <= rollout[s].applied
                        /\ edge[s].active <= rollout[s].carrier
      BY DEF ServedIsApplied
    <2>1. edge[s].active \in Nat /\ edge[s].active <= host[s].active
      BY Types DEF SessionInv
    <2>2. host[s].active <= rollout[s].applied /\ host[s].active <= rollout[s].carrier
      BY HostFields DEF HostInv
    <2> QED BY <2>1, <2>2, HostFields
  <1> QED BY <1>1, ConnectorInvariance, PTL

\* The action of StaleSessionsAreFenced.
Fenced ==
    /\ \A s \in Sessions : edge'[s].active > edge[s].active => registry = s
    /\ registry' # registry =>
         \/ registry' > registry
         \/ edge'[registry].state = "closed" /\ edge[registry].state # "closed"

\* The steps of the edge are fenced.
LEMMA EdgeFencedStep ==
    ASSUME ConnectorInv, NEW s \in Sessions, EdgeNext(s)
    PROVE  Fenced
PROOF
  <1>1. edge \in [Sessions -> Edges] /\ registry \in Nat /\ s \in Nat
    BY Types DEF ConnectorInv, TypeInv
  <1>2. \A t \in Sessions : edge[t].active \in Nat
    BY <1>1 DEF Edges
  <1>3. CASE EdgeReceives(s)
    <2>1. EdgeHandled(s) /\ EdgeOpen(s) /\ registry = s
      BY <1>3, EdgeReceivesHandled DEF EdgeActive
    <2>2. \A t \in Sessions : t # s => edge'[t] = edge[t]
      BY <2>1 DEF EdgeHandled
    <2> QED BY <1>2, <2>1, <2>2 DEF Fenced, EdgeHandled, EdgeOpen
  <1>4. CASE EdgeFenced(s) \/ EdgeExpires(s) \/ EdgeReadFails(s)
    <2>1. EdgeCloses(s) /\ EdgeOpen(s)
      BY <1>4 DEF EdgeFenced, EdgeExpires, EdgeReadFails
    <2>2. /\ registry' = Disconnect(s) /\ edge'[s].active = 0 /\ edge'[s].state = "closed"
          /\ \A t \in Sessions : t # s => edge'[t] = edge[t]
      BY <2>1, EdgeClosesFacts
    <2>3. registry' # registry => registry = s
      BY <2>2 DEF Disconnect
    <2> QED BY <1>2, <2>1, <2>2, <2>3 DEF Fenced, EdgeOpen
  <1>5. CASE AcceptAttaches(s)
    <2>1. /\ \A t \in Sessions : edge'[t].active \in {0, edge[t].active}
          /\ registry' = registry \/ registry' > registry
      <3> DEFINE e == [edge[s] EXCEPT !.state = "awaiting_snapshot"]
                 c == [EdgeInit EXCEPT !.state = "closed"]
      <3>1. \/ edge' = [edge EXCEPT ![s] = e] \/ edge' = [edge EXCEPT ![s] = c]
        BY <1>1, <1>5 DEF AcceptAttaches
      <3>2. registry' = registry \/ (registry' = s /\ s > registry)
        BY <1>1, <1>5 DEF AcceptAttaches
      <3>3. e.active = edge[s].active /\ c.active = 0
        BY <1>1 DEF EdgeInit, Edges
      <3> HIDE DEF e, c
      <3>4. \A t \in Sessions : edge'[t].active \in {0, edge[t].active}
        BY <1>1, <3>1, <3>3
      <3>5. registry' = registry \/ registry' > registry
        BY <1>1, <3>2
      <3> QED BY <3>4, <3>5
    <2> QED BY <1>2, <2>1 DEF Fenced
  <1>6. CASE \/ \E g \in Generations : AcceptReads(s, g) \/ OfferSnapshot(s, g) \/ OfferDelta(s, g)
             \/ BeginDrain(s)
    <2>1. registry' = registry
      BY <1>6 DEF AcceptReads, OfferSnapshot, OfferDelta, BeginDrain
    <2>2. \A t \in Sessions : edge'[t].active = edge[t].active
      <3>1. ASSUME NEW g \in Generations, AcceptReads(s, g)
            PROVE  \A t \in Sessions : edge'[t].active = edge[t].active
        BY <1>1, <3>1 DEF AcceptReads, Edges
      <3>2. ASSUME NEW g \in Generations, OfferSnapshot(s, g)
            PROVE  \A t \in Sessions : edge'[t].active = edge[t].active
        BY <1>1, <3>2 DEF OfferSnapshot, Edges
      <3>3. ASSUME NEW g \in Generations, OfferDelta(s, g)
            PROVE  \A t \in Sessions : edge'[t].active = edge[t].active
        BY <1>1, <3>3 DEF OfferDelta, Edges
      <3>4. CASE BeginDrain(s)
        BY <1>1, <3>4 DEF BeginDrain, Edges
      <3> QED BY <1>6, <3>1, <3>2, <3>3, <3>4
    <2> QED BY <1>2, <2>1, <2>2 DEF Fenced
  <1> QED BY <1>3, <1>4, <1>5, <1>6 DEF EdgeNext

\* Only the session in the registry makes a generation active, and a session leaves the
\* registry only by its own end or for a newer one (ensureActiveLocked,
\* SessionRegistry.Attach and Disconnect): StaleSessionsAreFenced.
THEOREM SessionsFenced ==
    Spec => StaleSessionsAreFenced
PROOF
  <1>1. ConnectorInv /\ [Next]_vars => [Fenced]_vars
    <2> SUFFICES ASSUME ConnectorInv, Next PROVE Fenced
      OBVIOUS
    <2>1. PICK s \in Sessions : EdgeNext(s) \/ HostNext(s) \/ ManagerNext(s) \/ LinkFails(s)
      BY DEF Next
    <2>2. CASE EdgeNext(s)
      BY <2>2, EdgeFencedStep
    <2>3. CASE HostNext(s) \/ ManagerNext(s) \/ LinkFails(s)
      <3>1. UNCHANGED <<edge, registry>>
        BY <2>3 DEF HostNext, ManagerNext, LinkFails, HostReceives, Stage, StageFails, Bind,
                    WaitReady, WaitReadyFails, MarkReady, Heartbeat, HostReadFails, HostStops,
                    StartApply, PromoteApplied, SwapActive, ApplyFails
      <3>2. \A t \in Sessions : edge[t].active \in Nat
        BY Types
      <3> QED BY <3>1, <3>2 DEF Fenced
    <2> QED BY <2>1, <2>2, <2>3
  <1>2. ConnectorInv /\ [Next]_vars =>
          [/\ \A s \in Sessions : edge'[s].active > edge[s].active => registry = s
           /\ registry' # registry =>
                \/ registry' > registry
                \/ edge'[registry].state = "closed" /\ edge[registry].state # "closed"]_vars
    BY <1>1 DEF Fenced
  <1> QED BY <1>2, ConnectorInvariance, PTL DEF Spec, StaleSessionsAreFenced

-----------------------------------------------------------------------------
(* One offer at a time: what the two ends and the frames between them say of  *)
(* a session whose edge began nothing before a cutover had settled.           *)

\* A frame of this type is on the wire.
Carries(u, type) == \E i \in 1..Len(u) : u[i].type = type

\* No two frames of this type are.
Single(u, type) ==
    \A i, j \in 1..Len(u) : u[i].type = type /\ u[j].type = type => i = j

\* A frame of this type is on the wire in front of the i-th one.
Ahead(u, i, type) == \E j \in 1..(i - 1) : u[j].type = type

\* The generation under way at the edge, 0 if none is.
Target(e) == IF e.candidate # 0 THEN e.candidate ELSE e.pending

\* The generation HandleHeartbeat expects.
Expected(e) == IF e.active # 0 THEN e.active
               ELSE IF e.candidate # 0 THEN e.candidate
               ELSE IF e.kind = "snapshot" THEN e.pending ELSE 0

\* One configuration is under way at most, the first one as a snapshot.
EdgeInv(e) ==
    /\ e.pending = 0 \/ e.candidate = 0
    /\ e.pending # 0 /\ e.active = 0 => e.kind = "snapshot"

\* The frames towards an edge in state e: the answer to what is pending, the
\* readiness behind it, and heartbeats that name what the edge will have made
\* active when it reads them.  After a refusal nothing follows.
UpInv(e, u) ==
    /\ Single(u, "ack") /\ Single(u, "ready")
    /\ \A i \in 1..Len(u) : u[i].type = "ack" =>
         /\ e.pending # 0 /\ e.candidate = 0 /\ u[i].kind = e.kind /\ u[i].gen = e.pending
         /\ u[i].status = "applied" \/ i = Len(u)
    /\ \A i \in 1..Len(u) : u[i].type = "ready" =>
         /\ Target(e) # 0 /\ u[i].gen = Target(e)
         /\ e.candidate = 0 => Ahead(u, i, "ack")
    /\ \A i \in 1..Len(u) : u[i].type = "heartbeat" =>
         IF Ahead(u, i, "ready") THEN u[i].gen = Target(e)
         ELSE u[i].gen = Expected(e) /\ Expected(e) # 0

\* The host has nothing under way.
Settled(h) == h.staging = 0 /\ h.candidate = 0

\* The frames towards a host in state h: a configuration that follows what is
\* active, and before it only what concerns the active one.
DownInv(h, d) ==
    /\ h.staging = 0 \/ h.candidate = 0
    /\ h.candidate = 0 /\ h.active # 0 => h.ready = h.active
    /\ Single(d, "config")
    /\ \A i \in 1..Len(d) : d[i].type = "config" =>
         /\ Settled(h) /\ d[i].gen > h.active
         /\ \/ d[i].kind = "snapshot"
            \/ d[i].kind = "delta" /\ h.active # 0 /\ d[i].gen = h.active + 1
    /\ \A i \in 1..Len(d) : d[i].type \in {"readyAck", "drain"} =>
         /\ Settled(h) /\ h.active # 0 /\ d[i].gen = h.active
         /\ ~Ahead(d, i, "config")

\* Both ends are there: where the configuration under way is.
Between(e, h, u, d) ==
    /\ IF Carries(u, "ready") THEN h.active = Target(e) /\ Settled(h)
       ELSE h.active = e.active
    /\ h.candidate # 0 =>
         h.candidate = Target(e) /\ (e.candidate = 0 => Carries(u, "ack"))
    /\ h.staging # 0 =>
         /\ e.pending = h.staging /\ e.candidate = 0 /\ h.kind = e.kind
         /\ ~Carries(u, "ack")
    /\ \A i \in 1..Len(d) : d[i].type = "config" =>
         /\ e.pending = d[i].gen /\ e.candidate = 0 /\ d[i].kind = e.kind
         /\ ~Carries(u, "ack")
    /\ \A i \in 1..Len(u) : u[i].type = "ack" => u[i].status = "applied"

\* Before the edge has attached the session nothing was written.
Unattached(e, h, u, d) ==
    /\ u = <<>> /\ d = <<>> /\ h.active = 0 /\ Settled(h)
    /\ e.active = 0 /\ e.candidate = 0
    /\ IF e.state = "reading" THEN e.pending # 0 /\ e.kind = "snapshot" ELSE e.pending = 0

\* The session is open at the edge (EdgeOpen).
Attached(e) == e.state \notin {"none", "reading", "closed"}

\* How the two ends of a session and its wires agree.
AgreeInv(e, h, u, d) ==
    /\ EdgeInv(e)
    /\ h.state = "closed" => Settled(h)
    /\ e.state \in {"none", "reading"} => Unattached(e, h, u, d)
    /\ Attached(e) => UpInv(e, u)
    /\ h.state # "closed" => DownInv(h, d)
    /\ Attached(e) /\ h.state # "closed" => Between(e, h, u, d)

\* A session in which nothing overlapped has met no protocol error, and agrees.
SettledInv ==
    \A s \in Sessions :
        overlapped[s] \/ (fault[s] = "none" /\ AgreeInv(edge[s], host[s], up[s], down[s]))

\* What is on a wire after one more frame was written.
LEMMA Written ==
    ASSUME NEW u \in Seq(Frames), NEW f \in Frames
    PROVE  /\ Append(u, f) \in Seq(Frames) /\ Len(u) \in Nat
           /\ Len(Append(u, f)) = Len(u) + 1
           /\ \A i \in 1..Len(u) : Append(u, f)[i] = u[i]
           /\ Append(u, f)[Len(u) + 1] = f
           /\ 1..Len(Append(u, f)) = (1..Len(u)) \cup {Len(u) + 1}
PROOF
  <1>1. /\ Append(u, f) \in Seq(Frames) /\ Len(u) \in Nat
        /\ Len(Append(u, f)) = Len(u) + 1
        /\ \A i \in 1..Len(u) : Append(u, f)[i] = u[i]
        /\ Append(u, f)[Len(u) + 1] = f
    OBVIOUS
  <1>2. \A n \in Nat : 1..(n + 1) = (1..n) \cup {n + 1}
    OBVIOUS
  <1> QED BY <1>1, <1>2

\* What is on a wire after its first frame was read.
LEMMA Read ==
    ASSUME NEW u \in Seq(Frames), u # <<>>
    PROVE  /\ Tail(u) \in Seq(Frames) /\ Head(u) \in Frames /\ Head(u) = u[1]
           /\ Len(u) \in Nat /\ Len(u) >= 1 /\ 1 \in 1..Len(u)
           /\ Len(Tail(u)) = Len(u) - 1 /\ Len(Tail(u)) \in Nat
           /\ \A i \in 1..Len(Tail(u)) : Tail(u)[i] = u[i + 1] /\ i + 1 \in 1..Len(u)
           /\ \A i \in 1..Len(u) : i = 1 \/ (i - 1 \in 1..Len(Tail(u)) /\ u[i] = Tail(u)[i - 1])
PROOF
  <1>1. /\ Len(u) \in Nat /\ Len(u) >= 1 /\ Head(u) = u[1] /\ u[1] \in Frames
        /\ Tail(u) \in Seq(Frames) /\ Len(Tail(u)) = Len(u) - 1
        /\ \A i \in 1..Len(Tail(u)) : Tail(u)[i] = u[i + 1]
    OBVIOUS
  <1>2. /\ \A i \in 1..Len(Tail(u)) : i + 1 \in 1..Len(u)
        /\ \A i \in 1..Len(u) : i = 1 \/ i - 1 \in 1..Len(Tail(u))
        /\ 1 \in 1..Len(u) /\ Len(Tail(u)) \in Nat
    BY <1>1
  <1>3. \A i \in 1..Len(u) : i = 1 \/ u[i] = Tail(u)[i - 1]
    <2> SUFFICES ASSUME NEW i \in 1..Len(u), i # 1 PROVE u[i] = Tail(u)[i - 1]
      OBVIOUS
    <2>1. i - 1 \in 1..Len(Tail(u)) /\ (i - 1) + 1 = i
      BY <1>1, <1>2
    <2> QED BY <1>1, <2>1
  <1> QED BY <1>1, <1>2, <1>3

\* Writing a frame: what the wire carries, and what is in front of what.
LEMMA WrittenCarries ==
    ASSUME NEW u \in Seq(Frames), NEW f \in Frames, NEW t
    PROVE  /\ Carries(Append(u, f), t) <=> (Carries(u, t) \/ f.type = t)
           /\ Ahead(Append(u, f), Len(u) + 1, t) <=> Carries(u, t)
           /\ \A i \in 1..Len(u) : Ahead(Append(u, f), i, t) <=> Ahead(u, i, t)
           /\ Single(u, t) /\ (f.type = t => ~Carries(u, t)) => Single(Append(u, f), t)
PROOF
  <1> DEFINE v == Append(u, f)
  <1>1. /\ Len(u) \in Nat /\ Len(v) = Len(u) + 1 /\ v[Len(u) + 1] = f
        /\ \A i \in 1..Len(u) : v[i] = u[i]
        /\ 1..Len(v) = (1..Len(u)) \cup {Len(u) + 1}
    BY Written
  <1> HIDE DEF v
  <1>2. Carries(v, t) <=> (Carries(u, t) \/ f.type = t)
    BY <1>1 DEF Carries
  <1>3. Ahead(v, Len(u) + 1, t) <=> Carries(u, t)
    <2>1. (Len(u) + 1) - 1 = Len(u)
      BY <1>1
    <2> QED BY <1>1, <2>1 DEF Ahead, Carries
  <1>4. ASSUME NEW i \in 1..Len(u) PROVE Ahead(v, i, t) <=> Ahead(u, i, t)
    <2>1. 1..(i - 1) \subseteq 1..Len(u)
      BY <1>1
    <2> QED BY <1>1, <2>1 DEF Ahead
  <1>5. ASSUME Single(u, t), f.type = t => ~Carries(u, t) PROVE Single(v, t)
    <2> SUFFICES ASSUME NEW i \in 1..Len(v), NEW j \in 1..Len(v), v[i].type = t, v[j].type = t
                 PROVE  i = j
      BY DEF Single
    <2>1. CASE i \in 1..Len(u) /\ j \in 1..Len(u)
      BY <1>1, <1>5, <2>1 DEF Single
    <2>2. CASE i = Len(u) + 1 /\ j \in 1..Len(u)
      BY <1>1, <1>5, <2>2 DEF Carries
    <2>3. CASE i \in 1..Len(u) /\ j = Len(u) + 1
      BY <1>1, <1>5, <2>3 DEF Carries
    <2> QED BY <1>1, <2>1, <2>2, <2>3
  <1> QED BY <1>2, <1>3, <1>4, <1>5 DEF v

\* Reading a frame: what the wire still carries, and what was in front of what.
LEMMA ReadCarries ==
    ASSUME NEW u \in Seq(Frames), u # <<>>, NEW t
    PROVE  /\ Carries(u, t) <=> (Head(u).type = t \/ Carries(Tail(u), t))
           /\ ~Ahead(u, 1, t)
           /\ \A i \in 1..Len(Tail(u)) :
                Ahead(u, i + 1, t) <=> (Head(u).type = t \/ Ahead(Tail(u), i, t))
           /\ Single(u, t) => Single(Tail(u), t) /\ (Head(u).type = t => ~Carries(Tail(u), t))
PROOF
  <1> DEFINE v == Tail(u)
             f == Head(u)
  <1>1. /\ f = u[1] /\ Len(u) \in Nat /\ Len(u) >= 1 /\ 1 \in 1..Len(u)
        /\ Len(v) = Len(u) - 1 /\ Len(v) \in Nat
        /\ \A i \in 1..Len(v) : v[i] = u[i + 1] /\ i + 1 \in 1..Len(u)
        /\ \A i \in 1..Len(u) : i = 1 \/ (i - 1 \in 1..Len(v) /\ u[i] = v[i - 1])
    BY Read
  <1> HIDE DEF v, f
  <1>2. Carries(u, t) <=> (f.type = t \/ Carries(v, t))
    BY <1>1 DEF Carries
  <1>3. ~Ahead(u, 1, t)
    BY DEF Ahead
  <1>4. ASSUME NEW i \in 1..Len(v) PROVE Ahead(u, i + 1, t) <=> (f.type = t \/ Ahead(v, i, t))
    <2>1. i \in Nat /\ i >= 1 /\ i <= Len(v) /\ (i + 1) - 1 = i /\ 1 \in 1..i
      BY <1>1
    <2>2. ASSUME Ahead(u, i + 1, t) PROVE f.type = t \/ Ahead(v, i, t)
      <3>1. PICK j \in 1..i : u[j].type = t
        BY <2>1, <2>2 DEF Ahead
      <3>2. CASE j = 1
        BY <1>1, <3>1, <3>2
      <3>3. CASE j # 1
        <4>1. j \in 1..Len(u) /\ j - 1 \in 1..(i - 1)
          BY <1>1, <2>1, <3>3
        <4>2. u[j] = v[j - 1]
          BY <1>1, <3>3, <4>1
        <4> QED BY <3>1, <4>1, <4>2 DEF Ahead
      <3> QED BY <3>2, <3>3
    <2>3. ASSUME f.type = t PROVE Ahead(u, i + 1, t)
      BY <1>1, <2>1, <2>3 DEF Ahead
    <2>4. ASSUME Ahead(v, i, t) PROVE Ahead(u, i + 1, t)
      <3>1. PICK j \in 1..(i - 1) : v[j].type = t
        BY <2>4 DEF Ahead
      <3>2. j \in 1..Len(v) /\ j + 1 \in 1..i
        BY <1>1, <2>1
      <3>3. u[j + 1].type = t
        BY <1>1, <3>1, <3>2
      <3> QED BY <2>1, <3>2, <3>3 DEF Ahead
    <2> QED BY <2>2, <2>3, <2>4
  <1>5. ASSUME Single(u, t) PROVE Single(v, t) /\ (f.type = t => ~Carries(v, t))
    <2>1. ASSUME NEW i \in 1..Len(v), NEW j \in 1..Len(v), v[i].type = t, v[j].type = t
          PROVE  i = j
      <3>1. i + 1 = j + 1
        BY <1>1, <1>5, <2>1 DEF Single
      <3> QED BY <3>1
    <2>2. ASSUME f.type = t, NEW i \in 1..Len(v), v[i].type = t PROVE FALSE
      <3>1. 1 = i + 1
        BY <1>1, <1>5, <2>2 DEF Single
      <3> QED BY <3>1
    <2>3. Single(v, t)
      BY <2>1 DEF Single
    <2> QED BY <2>2, <2>3 DEF Carries
  <1> QED BY <1>2, <1>3, <1>4, <1>5 DEF v, f

\* What is in front of a frame is on the wire.
LEMMA AheadCarries ==
    ASSUME NEW u \in Seq(Frames), NEW i \in 1..Len(u), NEW t, Ahead(u, i, t)
    PROVE  Carries(u, t)
PROOF
  <1>1. 1..(i - 1) \subseteq 1..Len(u)
    OBVIOUS
  <1> QED BY <1>1 DEF Ahead, Carries

-----------------------------------------------------------------------------
(* The frames towards the edge. *)

\* The fields of an edge that the agreement is about.
SameEdge(e, x) ==
    /\ x.pending = e.pending /\ x.candidate = e.candidate
    /\ x.active = e.active /\ x.kind = e.kind

\* No answer on the wire refuses anything.
NoRefusal(u) == \A i \in 1..Len(u) : u[i].type = "ack" => u[i].status = "applied"

\* The frames towards the edge depend on those fields of the edge only.
LEMMA UpSame ==
    ASSUME NEW e, NEW x, NEW u, SameEdge(e, x), UpInv(e, u)
    PROVE  UpInv(x, u)
PROOF
  <1>1. Target(x) = Target(e) /\ Expected(x) = Expected(e)
    BY DEF SameEdge, Target, Expected
  <1> QED BY <1>1 DEF UpInv, SameEdge

\* A wire with nothing on it agrees with every edge.
LEMMA UpEmpty ==
    ASSUME NEW e
    PROVE  UpInv(e, <<>>)
PROOF BY DEF UpInv, Single

\* A readiness in front of which nothing is under way, or a second answer, cannot be.
LEMMA UpReady ==
    ASSUME NEW e, NEW u \in Seq(Frames), UpInv(e, u), Carries(u, "ready")
    PROVE  /\ Target(e) # 0
           /\ e.candidate = 0 => Carries(u, "ack")
PROOF
  <1>1. PICK i \in 1..Len(u) : u[i].type = "ready"
    BY DEF Carries
  <1>2. Target(e) # 0 /\ (e.candidate = 0 => Ahead(u, i, "ack"))
    BY <1>1 DEF UpInv
  <1> QED BY <1>2, AheadCarries

\* The host writes its answer to what is pending.
LEMMA UpWriteAck ==
    ASSUME NEW e, NEW u \in Seq(Frames), NEW f \in Frames, UpInv(e, u), ~Carries(u, "ack"),
           f.type = "ack", e.pending # 0, e.candidate = 0, f.kind = e.kind, f.gen = e.pending
    PROVE  UpInv(e, Append(u, f))
PROOF
  <1> DEFINE v == Append(u, f)
             n == Len(u) + 1
  <1>1. /\ Len(u) \in Nat /\ Len(v) = n /\ v[n] = f /\ \A i \in 1..Len(u) : v[i] = u[i]
        /\ 1..Len(v) = (1..Len(u)) \cup {n}
    BY Written
  <1>2. \A t : \A i \in 1..Len(u) : Ahead(v, i, t) <=> Ahead(u, i, t)
    BY WrittenCarries
  <1>3. Single(v, "ack") /\ Single(v, "ready")
    BY WrittenCarries DEF UpInv
  <1> HIDE DEF v, n
  <1>4. \A i \in 1..Len(u) : v[i].type # "ack"
    BY <1>1 DEF Carries
  <1>5. ASSUME NEW i \in 1..Len(v), v[i].type = "ack"
        PROVE  /\ e.pending # 0 /\ e.candidate = 0 /\ v[i].kind = e.kind /\ v[i].gen = e.pending
               /\ v[i].status = "applied" \/ i = Len(v)
    BY <1>1, <1>4, <1>5
  <1>6. ASSUME NEW i \in 1..Len(v), v[i].type = "ready"
        PROVE  /\ Target(e) # 0 /\ v[i].gen = Target(e)
               /\ e.candidate = 0 => Ahead(v, i, "ack")
    BY <1>1, <1>2, <1>6 DEF UpInv
  <1>7. ASSUME NEW i \in 1..Len(v), v[i].type = "heartbeat"
        PROVE  IF Ahead(v, i, "ready") THEN v[i].gen = Target(e)
               ELSE v[i].gen = Expected(e) /\ Expected(e) # 0
    BY <1>1, <1>2, <1>7 DEF UpInv
  <1> QED BY <1>3, <1>5, <1>6, <1>7 DEF UpInv, v

\* The host writes something else, and has refused nothing.
LEMMA UpWrite ==
    ASSUME NEW e, NEW u \in Seq(Frames), NEW f \in Frames, UpInv(e, u), NoRefusal(u),
           f.type # "ack",
           f.type = "ready" => /\ ~Carries(u, "ready")
                               /\ Target(e) # 0 /\ f.gen = Target(e)
                               /\ e.candidate = 0 => Carries(u, "ack"),
           f.type = "heartbeat" => IF Carries(u, "ready") THEN f.gen = Target(e)
                                   ELSE f.gen = Expected(e) /\ Expected(e) # 0
    PROVE  UpInv(e, Append(u, f)) /\ NoRefusal(Append(u, f))
PROOF
  <1> DEFINE v == Append(u, f)
             n == Len(u) + 1
  <1>1. /\ Len(u) \in Nat /\ Len(v) = n /\ v[n] = f /\ \A i \in 1..Len(u) : v[i] = u[i]
        /\ 1..Len(v) = (1..Len(u)) \cup {n}
    BY Written
  <1>2. /\ \A t : \A i \in 1..Len(u) : Ahead(v, i, t) <=> Ahead(u, i, t)
        /\ \A t : Ahead(v, n, t) <=> Carries(u, t)
    BY WrittenCarries
  <1>3. Single(v, "ack") /\ Single(v, "ready")
    BY WrittenCarries DEF UpInv
  <1> HIDE DEF v, n
  <1>4. ASSUME NEW i \in 1..Len(v), v[i].type = "ack"
        PROVE  /\ e.pending # 0 /\ e.candidate = 0 /\ v[i].kind = e.kind /\ v[i].gen = e.pending
               /\ v[i].status = "applied"
    <2>1. i \in 1..Len(u) /\ v[i] = u[i]
      BY <1>1, <1>4
    <2> QED BY <1>4, <2>1 DEF UpInv, NoRefusal
  <1>5. ASSUME NEW i \in 1..Len(v), v[i].type = "ready"
        PROVE  /\ Target(e) # 0 /\ v[i].gen = Target(e)
               /\ e.candidate = 0 => Ahead(v, i, "ack")
    <2>1. CASE i = n
      BY <1>1, <1>2, <1>5, <2>1
    <2>2. CASE i \in 1..Len(u)
      BY <1>1, <1>2, <1>5, <2>2 DEF UpInv
    <2> QED BY <1>1, <2>1, <2>2
  <1>6. ASSUME NEW i \in 1..Len(v), v[i].type = "heartbeat"
        PROVE  IF Ahead(v, i, "ready") THEN v[i].gen = Target(e)
               ELSE v[i].gen = Expected(e) /\ Expected(e) # 0
    <2>1. CASE i = n
      BY <1>1, <1>2, <1>6, <2>1
    <2>2. CASE i \in 1..Len(u)
      BY <1>1, <1>2, <1>6, <2>2 DEF UpInv
    <2> QED BY <1>1, <2>1, <2>2
  <1> QED BY <1>3, <1>4, <1>5, <1>6 DEF UpInv, NoRefusal, v

\* What the edge finds at the head of the wire.
LEMMA UpHead ==
    ASSUME NEW e, NEW u \in Seq(Frames), u # <<>>, UpInv(e, u)
    PROVE  /\ Head(u).type = "ack" =>
                /\ e.pending # 0 /\ e.candidate = 0
                /\ Head(u).kind = e.kind /\ Head(u).gen = e.pending
                /\ Head(u).status = "applied" \/ Tail(u) = <<>>
           /\ Head(u).type = "ready" => e.candidate # 0 /\ Head(u).gen = e.candidate
           /\ Head(u).type = "heartbeat" => Head(u).gen = Expected(e) /\ Expected(e) # 0
PROOF
  <1>1. /\ Head(u) = u[1] /\ 1 \in 1..Len(u) /\ Len(Tail(u)) = Len(u) - 1
        /\ Len(u) \in Nat /\ Tail(u) \in Seq(Frames)
    BY Read
  <1>2. ~Ahead(u, 1, "ack") /\ ~Ahead(u, 1, "ready")
    BY ReadCarries
  <1>3. 1 = Len(u) => Tail(u) = <<>>
    <2>1. \A v \in Seq(Frames) : Len(v) = 0 => v = <<>>
      OBVIOUS
    <2>2. \A m, n \in Nat : 1 = n /\ m = n - 1 => m = 0
      OBVIOUS
    <2>3. Len(Tail(u)) \in Nat
      BY Read
    <2> QED BY <1>1, <2>1, <2>2, <2>3
  <1>4. Head(u).type = "ready" => e.candidate # 0 /\ Head(u).gen = e.candidate
    BY <1>1, <1>2 DEF UpInv, Target
  <1>5. Head(u).type = "heartbeat" => Head(u).gen = Expected(e) /\ Expected(e) # 0
    BY <1>1, <1>2 DEF UpInv
  <1>6. Head(u).type = "ack" =>
            /\ e.pending # 0 /\ e.candidate = 0
            /\ Head(u).kind = e.kind /\ Head(u).gen = e.pending
            /\ Head(u).status = "applied" \/ Tail(u) = <<>>
    BY <1>1, <1>3 DEF UpInv
  <1> QED BY <1>4, <1>5, <1>6

\* The edge reads a frame and goes on as x.
LEMMA UpRead ==
    ASSUME NEW e, NEW x, NEW u \in Seq(Frames), u # <<>>, UpInv(e, u), EdgeInv(e),
           \/ Head(u).type \notin {"ack", "ready"} /\ SameEdge(e, x)
           \/ /\ Head(u).type = "ack"
              /\ x.pending = 0 /\ x.candidate = e.pending /\ x.active = e.active
           \/ /\ Head(u).type = "ready"
              /\ x.pending = e.pending /\ x.candidate = 0 /\ x.active = e.candidate
    PROVE  UpInv(x, Tail(u))
PROOF
  <1> DEFINE v == Tail(u)
             f == Head(u)
  <1>1. \A i \in 1..Len(v) : v[i] = u[i + 1] /\ i + 1 \in 1..Len(u)
    BY Read
  <1>2. /\ \A t : \A i \in 1..Len(v) :
             Ahead(u, i + 1, t) <=> (f.type = t \/ Ahead(v, i, t))
        /\ Single(v, "ack") /\ Single(v, "ready")
        /\ f.type = "ack" => ~Carries(v, "ack")
        /\ f.type = "ready" => ~Carries(v, "ready")
    BY ReadCarries DEF UpInv
  <1>3. /\ f.type = "ack" => e.pending # 0 /\ e.candidate = 0
        /\ f.type = "ready" => e.candidate # 0
    BY UpHead
  <1>4. Len(v) = Len(u) - 1 /\ Len(u) \in Nat
    BY Read
  <1>5. /\ f.type \notin {"ack", "ready"} =>
             SameEdge(e, x) /\ Target(x) = Target(e) /\ Expected(x) = Expected(e)
        /\ f.type = "ack" => Target(x) = Target(e) /\ Expected(x) = Expected(e)
        /\ f.type = "ready" => Expected(x) = Target(e)
    <2>1. f.type \notin {"ack", "ready"} => SameEdge(e, x)
      OBVIOUS
    <2>2. SameEdge(e, x) => Target(x) = Target(e) /\ Expected(x) = Expected(e)
      BY DEF SameEdge, Target, Expected
    <2>3. f.type = "ack" => Target(x) = Target(e) /\ Expected(x) = Expected(e)
      BY <1>3 DEF Target, Expected, EdgeInv
    <2>4. f.type = "ready" => Expected(x) = Target(e)
      BY <1>3 DEF Target, Expected
    <2> QED BY <2>1, <2>2, <2>3, <2>4
  <1> HIDE DEF v, f
  <1>6. ASSUME NEW i \in 1..Len(v), v[i].type = "ack"
        PROVE  /\ x.pending # 0 /\ x.candidate = 0 /\ v[i].kind = x.kind /\ v[i].gen = x.pending
               /\ v[i].status = "applied" \/ i = Len(v)
    <2>1. f.type # "ack"
      BY <1>2, <1>6 DEF Carries
    <2>2. /\ e.pending # 0 /\ e.candidate = 0 /\ v[i].kind = e.kind /\ v[i].gen = e.pending
          /\ v[i].status = "applied" \/ i + 1 = Len(u)
      BY <1>1, <1>6 DEF UpInv
    <2>3. f.type # "ready"
      BY <1>3, <2>2
    <2> QED BY <1>4, <1>5, <2>1, <2>2, <2>3 DEF SameEdge
  <1>7. ASSUME NEW i \in 1..Len(v), v[i].type = "ready"
        PROVE  /\ Target(x) # 0 /\ v[i].gen = Target(x)
               /\ x.candidate = 0 => Ahead(v, i, "ack")
    <2>1. f.type # "ready"
      BY <1>2, <1>7 DEF Carries
    <2>2. /\ Target(e) # 0 /\ v[i].gen = Target(e)
          /\ e.candidate = 0 => Ahead(u, i + 1, "ack")
      BY <1>1, <1>7 DEF UpInv
    <2>3. CASE f.type = "ack"
      BY <1>3, <1>5, <2>2, <2>3 DEF f
    <2>4. CASE f.type # "ack"
      BY <1>2, <1>5, <2>1, <2>2, <2>4 DEF SameEdge
    <2> QED BY <2>3, <2>4
  <1>8. ASSUME NEW i \in 1..Len(v), v[i].type = "heartbeat"
        PROVE  IF Ahead(v, i, "ready") THEN v[i].gen = Target(x)
               ELSE v[i].gen = Expected(x) /\ Expected(x) # 0
    <2>1. IF Ahead(u, i + 1, "ready") THEN v[i].gen = Target(e)
          ELSE v[i].gen = Expected(e) /\ Expected(e) # 0
      BY <1>1, <1>8 DEF UpInv
    <2>2. CASE f.type = "ready"
      <3>1. ~Ahead(v, i, "ready")
        <4>1. Ahead(v, i, "ready") => Carries(v, "ready")
          BY Read, AheadCarries DEF v
        <4> QED BY <1>2, <2>2, <4>1
      <3>2. v[i].gen = Target(e) /\ Target(e) # 0
        BY <1>2, <1>3, <2>1, <2>2 DEF Target
      <3> QED BY <1>5, <2>2, <3>1, <3>2
    <2>3. CASE f.type # "ready"
      BY <1>2, <1>5, <2>1, <2>3
    <2> QED BY <2>2, <2>3
  <1> QED BY <1>2, <1>6, <1>7, <1>8 DEF UpInv, v

-----------------------------------------------------------------------------
(* The frames towards the host. *)

\* The fields of a host that the agreement is about.
SameHost(h, x) ==
    /\ x.active = h.active /\ x.candidate = h.candidate /\ x.staging = h.staging
    /\ x.ready = h.ready /\ x.kind = h.kind

\* The frames towards the host depend on those fields of the host only.
LEMMA DownSame ==
    ASSUME NEW h, NEW x, NEW d, SameHost(h, x), DownInv(h, d)
    PROVE  DownInv(x, d)
PROOF BY DEF SameHost, DownInv, Settled

\* The edge writes a frame.
LEMMA DownWrite ==
    ASSUME NEW h, NEW d \in Seq(Frames), NEW f \in Frames, DownInv(h, d),
           f.type \in {"config", "readyAck", "drain"} => Settled(h) /\ ~Carries(d, "config"),
           f.type = "config" => /\ f.gen > h.active
                                /\ \/ f.kind = "snapshot"
                                   \/ f.kind = "delta" /\ h.active # 0 /\ f.gen = h.active + 1,
           f.type \in {"readyAck", "drain"} => h.active # 0 /\ f.gen = h.active
    PROVE  DownInv(h, Append(d, f))
PROOF
  <1> DEFINE v == Append(d, f)
             n == Len(d) + 1
  <1>1. /\ v[n] = f /\ \A i \in 1..Len(d) : v[i] = d[i]
        /\ 1..Len(v) = (1..Len(d)) \cup {n}
    BY Written
  <1>2. /\ \A i \in 1..Len(d) : Ahead(v, i, "config") <=> Ahead(d, i, "config")
        /\ Ahead(v, n, "config") <=> Carries(d, "config")
        /\ Single(v, "config")
    BY WrittenCarries DEF DownInv
  <1> HIDE DEF v, n
  <1>3. ASSUME NEW i \in 1..Len(v), v[i].type = "config"
        PROVE  /\ Settled(h) /\ v[i].gen > h.active
               /\ \/ v[i].kind = "snapshot"
                  \/ v[i].kind = "delta" /\ h.active # 0 /\ v[i].gen = h.active + 1
    <2>1. CASE i = n
      BY <1>1, <1>3, <2>1
    <2>2. CASE i \in 1..Len(d)
      BY <1>1, <1>3, <2>2 DEF DownInv
    <2> QED BY <1>1, <2>1, <2>2
  <1>4. ASSUME NEW i \in 1..Len(v), v[i].type \in {"readyAck", "drain"}
        PROVE  /\ Settled(h) /\ h.active # 0 /\ v[i].gen = h.active
               /\ ~Ahead(v, i, "config")
    <2>1. CASE i = n
      BY <1>1, <1>2, <1>4, <2>1
    <2>2. CASE i \in 1..Len(d)
      BY <1>1, <1>2, <1>4, <2>2 DEF DownInv
    <2> QED BY <1>1, <2>1, <2>2
  <1> QED BY <1>2, <1>3, <1>4 DEF DownInv, v

\* What the host finds at the head of the wire.
LEMMA DownHead ==
    ASSUME NEW h, NEW d \in Seq(Frames), d # <<>>, DownInv(h, d)
    PROVE  /\ Head(d).type = "config" =>
                /\ Settled(h) /\ Head(d).gen > h.active
                /\ \/ Head(d).kind = "snapshot"
                   \/ Head(d).kind = "delta" /\ h.active # 0 /\ Head(d).gen = h.active + 1
           /\ Head(d).type \in {"readyAck", "drain"} =>
                Settled(h) /\ h.active # 0 /\ Head(d).gen = h.active
PROOF
  <1>1. Head(d) = d[1] /\ 1 \in 1..Len(d)
    BY Read
  <1> QED BY <1>1 DEF DownInv

\* The host reads a frame; a configuration it begins to stage.
LEMMA DownRead ==
    ASSUME NEW h, NEW x, NEW d \in Seq(Frames), d # <<>>, DownInv(h, d),
           \/ SameHost(h, x)
           \/ /\ Head(d).type = "config"
              /\ x.active = h.active /\ x.candidate = h.candidate /\ x.ready = h.ready
    PROVE  DownInv(x, Tail(d))
PROOF
  <1> DEFINE v == Tail(d)
             f == Head(d)
  <1>1. \A i \in 1..Len(v) : v[i] = d[i + 1] /\ i + 1 \in 1..Len(d)
    BY Read
  <1>2. /\ \A i \in 1..Len(v) :
             Ahead(d, i + 1, "config") <=> (f.type = "config" \/ Ahead(v, i, "config"))
        /\ Single(v, "config")
        /\ f.type = "config" => ~Carries(v, "config")
    BY ReadCarries DEF DownInv
  <1>3. f.type = "config" => Settled(h)
    BY DownHead
  <1>4. SameHost(h, x) \/ (f.type = "config" /\ x.active = h.active
                             /\ x.candidate = h.candidate /\ x.ready = h.ready)
    OBVIOUS
  <1> HIDE DEF v, f
  <1>5. /\ x.staging = 0 \/ x.candidate = 0
        /\ x.candidate = 0 /\ x.active # 0 => x.ready = x.active
    BY <1>3, <1>4 DEF DownInv, SameHost, Settled
  <1>6. ASSUME NEW i \in 1..Len(v), v[i].type = "config"
        PROVE  /\ Settled(x) /\ v[i].gen > x.active
               /\ \/ v[i].kind = "snapshot"
                  \/ v[i].kind = "delta" /\ x.active # 0 /\ v[i].gen = x.active + 1
    <2>1. SameHost(h, x)
      BY <1>2, <1>4, <1>6 DEF Carries
    <2> QED BY <1>1, <1>6, <2>1 DEF DownInv, SameHost, Settled
  <1>7. ASSUME NEW i \in 1..Len(v), v[i].type \in {"readyAck", "drain"}
        PROVE  /\ Settled(x) /\ x.active # 0 /\ v[i].gen = x.active
               /\ ~Ahead(v, i, "config")
    <2>1. /\ Settled(h) /\ h.active # 0 /\ v[i].gen = h.active
          /\ ~Ahead(d, i + 1, "config")
      BY <1>1, <1>7 DEF DownInv
    <2>2. SameHost(h, x)
      BY <1>2, <1>4, <2>1
    <2> QED BY <1>2, <2>1, <2>2 DEF SameHost, Settled
  <1> QED BY <1>2, <1>5, <1>6, <1>7 DEF DownInv, v

\* A host with something under way has only welcomes and heartbeat answers to read.
LEMMA DownBusy ==
    ASSUME NEW h, NEW x, NEW d, DownInv(h, d), ~Settled(h),
           x.staging = 0 \/ x.candidate = 0,
           x.candidate = 0 /\ x.active # 0 => x.ready = x.active
    PROVE  /\ DownInv(x, d)
           /\ \A i \in 1..Len(d) : d[i].type # "config"
PROOF BY DEF DownInv

-----------------------------------------------------------------------------
(* The steps of the edge, on the state of one session. *)

\* So does what lies between the two ends.
LEMMA BetweenSame ==
    ASSUME NEW e, NEW x, NEW h, NEW y, NEW u, NEW d,
           SameEdge(e, x), SameHost(h, y), Between(e, h, u, d)
    PROVE  Between(x, y, u, d)
PROOF
  <1>1. Target(x) = Target(e) /\ (Settled(y) <=> Settled(h))
    BY DEF SameEdge, SameHost, Target, Settled
  <1> QED BY <1>1 DEF Between, SameEdge, SameHost

\* And what is said of the edge alone.
LEMMA EdgeSame ==
    ASSUME NEW e, NEW x, SameEdge(e, x), EdgeInv(e)
    PROVE  EdgeInv(x)
PROOF BY DEF SameEdge, EdgeInv

\* Where the configuration under way is does not depend on the other frames.
LEMMA BetweenWires ==
    ASSUME NEW e, NEW h, NEW u \in Seq(Frames), NEW v \in Seq(Frames),
           NEW d \in Seq(Frames), NEW w \in Seq(Frames), Between(e, h, u, d),
           Carries(v, "ready") <=> Carries(u, "ready"),
           Carries(v, "ack") <=> Carries(u, "ack"),
           NoRefusal(v),
           \A i \in 1..Len(w) : w[i].type = "config" => \E j \in 1..Len(d) : w[i] = d[j]
    PROVE  Between(e, h, v, w)
PROOF
  <1>1. ASSUME NEW i \in 1..Len(w), w[i].type = "config"
        PROVE  /\ e.pending = w[i].gen /\ e.candidate = 0 /\ w[i].kind = e.kind
               /\ ~Carries(v, "ack")
    <2>1. PICK j \in 1..Len(d) : w[i] = d[j]
      BY <1>1
    <2>2. d[j].type = "config"
      BY <1>1, <2>1
    <2> QED BY <2>1, <2>2 DEF Between
  <1> QED BY <1>1 DEF Between, NoRefusal

\* After a frame was read from a wire or another one written to it, the same
\* configurations are on it at most.
LEMMA ConfigsRead ==
    ASSUME NEW d \in Seq(Frames), d # <<>>
    PROVE  \A i \in 1..Len(Tail(d)) :
             Tail(d)[i].type = "config" => \E j \in 1..Len(d) : Tail(d)[i] = d[j]
PROOF BY Read

\* Writing another frame adds no configuration.
LEMMA ConfigsWritten ==
    ASSUME NEW d \in Seq(Frames), NEW f \in Frames, f.type # "config"
    PROVE  \A i \in 1..Len(Append(d, f)) :
             Append(d, f)[i].type = "config" => \E j \in 1..Len(d) : Append(d, f)[i] = d[j]
PROOF
  <1> DEFINE v == Append(d, f)
             n == Len(d) + 1
  <1>1. /\ v[n] = f /\ \A i \in 1..Len(d) : v[i] = d[i]
        /\ 1..Len(v) = (1..Len(d)) \cup {n}
    BY Written
  <1> HIDE DEF v, n
  <1>2. \A i \in 1..Len(v) : v[i].type = "config" => \E j \in 1..Len(d) : v[i] = d[j]
    BY <1>1
  <1> QED BY <1>2 DEF v

\* Reading a frame adds no refusal.
LEMMA NoRefusalRead ==
    ASSUME NEW u \in Seq(Frames), u # <<>>, NoRefusal(u)
    PROVE  NoRefusal(Tail(u))
PROOF BY Read DEF NoRefusal

\* The edge closes the session and forgets it.
LEMMA AgreeClosed ==
    ASSUME NEW e, NEW h, NEW u, NEW d, NEW x, AgreeInv(e, h, u, d),
           x.state = "closed", x.pending = 0
    PROVE  AgreeInv(x, h, <<>>, d)
PROOF BY DEF AgreeInv, EdgeInv, Attached

\* The edge reads its snapshot before it attaches the session.
LEMMA AgreeReads ==
    ASSUME NEW e, NEW h, NEW u, NEW d, NEW x, AgreeInv(e, h, u, d), e.state = "none",
           x.state = "reading", x.pending # 0, x.kind = "snapshot",
           x.active = e.active, x.candidate = e.candidate
    PROVE  AgreeInv(x, h, u, d)
PROOF
  <1>1. Unattached(e, h, u, d)
    BY DEF AgreeInv
  <1>2. Unattached(x, h, u, d) /\ EdgeInv(x)
    BY <1>1 DEF Unattached, EdgeInv
  <1> QED BY <1>2 DEF AgreeInv, Attached

\* The edge attaches the session and writes its welcome and the snapshot.
LEMMA AgreeAttaches ==
    ASSUME NEW e, NEW h \in Hosts, NEW u, NEW d, NEW x, NEW w, AgreeInv(e, h, u, d),
           e \in Edges, e.state = "reading", x.state = "awaiting_snapshot", SameEdge(e, x),
           IF h.state = "closed" THEN w = d
           ELSE w = d \o <<Frame("welcome", "none", "none", 0),
                           Frame("config", "snapshot", "none", e.pending)>>
    PROVE  AgreeInv(x, h, u, w)
PROOF
  <1> DEFINE a == Frame("welcome", "none", "none", 0)
             c == Frame("config", "snapshot", "none", e.pending)
  <1>1. /\ u = <<>> /\ d = <<>> /\ h.active = 0 /\ Settled(h) /\ e.active = 0 /\ e.candidate = 0
        /\ e.pending # 0 /\ e.kind = "snapshot"
    BY DEF AgreeInv, Unattached
  <1>2. EdgeInv(x) /\ UpInv(x, u) /\ Attached(x)
    BY <1>1, UpEmpty, EdgeSame DEF AgreeInv, Attached
  <1>3. CASE h.state # "closed"
    <2>1. e.pending \in Nat /\ e.pending > 0
      BY <1>1 DEF Edges
    <2>2. a \in Frames /\ c \in Frames
      BY <2>1, FramesWritten
    <2>3. a.type = "welcome" /\ c.type = "config" /\ c.kind = "snapshot" /\ c.gen = e.pending
      BY DEF Frame
    <2>4. w = <<>> \o <<a, c>>
      BY <1>1, <1>3
    <2> HIDE DEF a, c
    <2>5. w = <<a, c>> /\ w \in Seq(Frames)
      BY <2>2, <2>4
    <2>6. Len(w) = 2 /\ w[1] = a /\ w[2] = c
      BY <2>5
    <2>7. \A i \in 1..Len(w) : i = 1 \/ i = 2
      BY <2>6
    <2>8. \A i \in 1..Len(w) : \/ w[i].type = "welcome"
                               \/ i = 2 /\ w[i].type = "config" /\ w[i].kind = "snapshot" /\ w[i].gen = e.pending
      BY <2>3, <2>6, <2>7
    <2>9. DownInv(h, w)
      <3>1. DownInv(h, d)
        BY <1>3 DEF AgreeInv
      <3>2. Single(w, "config")
        BY <2>8 DEF Single
      <3>3. \A i \in 1..Len(w) : w[i].type = "config" =>
              /\ Settled(h) /\ w[i].gen > h.active
              /\ w[i].kind = "snapshot"
        BY <1>1, <2>1, <2>8
      <3>4. \A i \in 1..Len(w) : w[i].type \notin {"readyAck", "drain"}
        BY <2>8
      <3> QED BY <3>1, <3>2, <3>3, <3>4 DEF DownInv
    <2>10. ~Carries(u, "ready") /\ ~Carries(u, "ack") /\ Len(u) = 0
      BY <1>1 DEF Carries
    <2>11. Between(x, h, u, w)
      BY <1>1, <2>8, <2>10 DEF Between, Settled, SameEdge
    <2> QED BY <1>2, <2>9, <2>11 DEF AgreeInv, Attached
  <1>4. CASE h.state = "closed"
    BY <1>2, <1>4 DEF AgreeInv, Attached
  <1> QED BY <1>3, <1>4

\* Nothing is under way: what both ends and the wires are like.
LEMMA Quiet ==
    ASSUME NEW e, NEW h, NEW u \in Seq(Frames), NEW d \in Seq(Frames), h \in Hosts,
           AgreeInv(e, h, u, d), Attached(e), e.pending = 0, e.candidate = 0
    PROVE  /\ ~Carries(u, "ack") /\ ~Carries(u, "ready")
           /\ h.state # "closed" =>
                h.active = e.active /\ Settled(h) /\ ~Carries(d, "config")
PROOF
  <1>1. UpInv(e, u) /\ Target(e) = 0
    BY DEF AgreeInv, Target
  <1>2. ~Carries(u, "ack") /\ ~Carries(u, "ready")
    BY <1>1 DEF UpInv, Carries
  <1>3. ASSUME h.state # "closed"
        PROVE  h.active = e.active /\ Settled(h) /\ ~Carries(d, "config")
    <2>1. Between(e, h, u, d) /\ DownInv(h, d)
      BY <1>3 DEF AgreeInv
    <2>2. h.active = e.active /\ Settled(h)
      BY <1>1, <1>2, <2>1 DEF Between, Settled
    <2>3. h.active \in Nat
      BY DEF Hosts
    <2>4. ASSUME NEW i \in 1..Len(d), d[i].type = "config" PROVE FALSE
      <3>1. d[i].gen = 0 /\ d[i].gen > h.active
        BY <2>1, <2>4 DEF Between, DownInv
      <3> QED BY <2>3, <3>1
    <2> QED BY <2>2, <2>4 DEF Carries
  <1> QED BY <1>2, <1>3

\* The edge offers a configuration while nothing is under way.
LEMMA AgreeOffers ==
    ASSUME NEW e, NEW h \in Hosts, NEW u \in Seq(Frames), NEW d \in Seq(Frames),
           NEW x, NEW w, NEW f \in Frames,
           AgreeInv(e, h, u, d), Attached(e), e.pending = 0, e.candidate = 0, e.active \in Nat,
           Attached(x), x.pending = f.gen, x.kind = f.kind,
           x.active = e.active, x.candidate = e.candidate,
           f.type = "config", f.gen > e.active,
           \/ f.kind = "snapshot"
           \/ f.kind = "delta" /\ e.active # 0 /\ f.gen = e.active + 1,
           w = IF h.state = "closed" THEN d ELSE Append(d, f)
    PROVE  AgreeInv(x, h, u, w)
PROOF
  <1>1. /\ ~Carries(u, "ack") /\ ~Carries(u, "ready")
        /\ h.state # "closed" => h.active = e.active /\ Settled(h) /\ ~Carries(d, "config")
    BY Quiet
  <1>2. f.gen \in Nat /\ f.gen # 0
    BY DEF Frames
  <1>3. EdgeInv(x)
    BY DEF EdgeInv
  <1>4. UpInv(x, u)
    <2>1. UpInv(e, u)
      BY DEF AgreeInv
    <2>2. Expected(e) # 0 => Expected(x) = Expected(e)
      BY DEF Expected
    <2>3. \A i \in 1..Len(u) : u[i].type # "ack" /\ u[i].type # "ready"
      BY <1>1 DEF Carries
    <2>4. \A i \in 1..Len(u) : Ahead(u, i, "ready") => Carries(u, "ready")
      BY AheadCarries
    <2>5. \A i \in 1..Len(u) : u[i].type = "heartbeat" =>
            ~Ahead(u, i, "ready") /\ u[i].gen = Expected(e) /\ Expected(e) # 0
      BY <1>1, <2>1, <2>4 DEF UpInv
    <2> QED BY <2>1, <2>2, <2>3, <2>5 DEF UpInv
  <1>5. CASE h.state # "closed"
    <2>1. DownInv(h, d) /\ Between(e, h, u, d)
      BY <1>5 DEF AgreeInv
    <2>2. w = Append(d, f)
      BY <1>5
    <2>3. DownInv(h, w)
      BY <1>1, <1>5, <2>1, <2>2, DownWrite
    <2>4. \A i \in 1..Len(w) : w[i].type = "config" => w[i] = f
      <3> DEFINE n == Len(d) + 1
      <3>1. /\ w[n] = f /\ \A i \in 1..Len(d) : w[i] = d[i]
            /\ 1..Len(w) = (1..Len(d)) \cup {n}
        BY <2>2, Written
      <3> QED BY <1>1, <1>5, <3>1 DEF Carries
    <2>5. Between(x, h, u, w)
      BY <1>1, <1>5, <2>1, <2>4 DEF Between, Settled
    <2> QED BY <1>3, <1>4, <2>3, <2>5 DEF AgreeInv, Attached
  <1>6. CASE h.state = "closed"
    BY <1>3, <1>4, <1>6 DEF AgreeInv, Attached
  <1> QED BY <1>5, <1>6

\* The edge drains while nothing is under way.
LEMMA AgreeDrains ==
    ASSUME NEW e, NEW h \in Hosts, NEW u \in Seq(Frames), NEW d \in Seq(Frames),
           NEW x, NEW w, NEW f \in Frames,
           AgreeInv(e, h, u, d), Attached(e), e.pending = 0, e.candidate = 0,
           Attached(x), SameEdge(e, x),
           f.type = "drain", e.active # 0, f.gen = e.active,
           w = IF h.state = "closed" THEN d ELSE Append(d, f)
    PROVE  AgreeInv(x, h, u, w)
PROOF
  <1>1. /\ h.state # "closed" => h.active = e.active /\ Settled(h) /\ ~Carries(d, "config")
    BY Quiet
  <1>2. EdgeInv(x) /\ UpInv(x, u)
    BY EdgeSame, UpSame DEF AgreeInv
  <1>3. CASE h.state # "closed"
    <2>1. DownInv(h, d) /\ Between(e, h, u, d) /\ w = Append(d, f)
      BY <1>3 DEF AgreeInv
    <2>2. DownInv(h, w)
      BY <1>1, <1>3, <2>1, DownWrite
    <2>3. w \in Seq(Frames) /\ NoRefusal(u)
      BY <2>1 DEF Between, NoRefusal
    <2>4. Between(e, h, u, w)
      <3>1. \A i \in 1..Len(w) : w[i].type = "config" => \E j \in 1..Len(d) : w[i] = d[j]
        BY <2>1, ConfigsWritten
      <3> QED BY <2>1, <2>3, <3>1, BetweenWires
    <2>5. Between(x, h, u, w)
      BY <2>4, BetweenSame DEF SameHost
    <2> QED BY <1>2, <2>2, <2>5 DEF AgreeInv, Attached
  <1>4. CASE h.state = "closed"
    BY <1>2, <1>4 DEF AgreeInv, Attached
  <1> QED BY <1>3, <1>4

\* What the edge's handlers write is on the wire, unless nobody reads it.
Reply(h, d, w, f) == w = IF h.state = "closed" THEN d ELSE Append(d, f)

\* The edge reads a heartbeat or the answer to a drain; a heartbeat it answers.
LEMMA AgreeHeard ==
    ASSUME NEW e, NEW h \in Hosts, NEW u \in Seq(Frames), u # <<>>, NEW d \in Seq(Frames),
           NEW x, NEW w, NEW f \in Frames,
           AgreeInv(e, h, u, d), Attached(e), Attached(x), SameEdge(e, x),
           Head(u).type \notin {"ack", "ready"},
           f.type = "heartbeatAck", w = d \/ Reply(h, d, w, f)
    PROVE  AgreeInv(x, h, Tail(u), w)
PROOF
  <1>1. EdgeInv(e) /\ UpInv(e, u)
    BY DEF AgreeInv
  <1>2. EdgeInv(x) /\ UpInv(x, Tail(u))
    BY <1>1, EdgeSame, UpRead
  <1>3. CASE h.state # "closed"
    <2>1. DownInv(h, d) /\ Between(e, h, u, d)
      BY <1>3 DEF AgreeInv
    <2>2. w = d \/ w = Append(d, f)
      BY <1>3 DEF Reply
    <2>3. DownInv(h, w)
      <3>1. DownInv(h, Append(d, f))
        BY <2>1, DownWrite
      <3> QED BY <2>1, <2>2, <3>1
    <2>4. /\ w \in Seq(Frames) /\ Tail(u) \in Seq(Frames)
          /\ \A i \in 1..Len(w) : w[i].type = "config" => \E j \in 1..Len(d) : w[i] = d[j]
      <3>1. \A i \in 1..Len(Append(d, f)) :
              Append(d, f)[i].type = "config" => \E j \in 1..Len(d) : Append(d, f)[i] = d[j]
        BY ConfigsWritten
      <3>2. Append(d, f) \in Seq(Frames) /\ Tail(u) \in Seq(Frames)
        BY Written, Read
      <3> QED BY <2>2, <3>1, <3>2
    <2>5. NoRefusal(Tail(u))
      BY <2>1, NoRefusalRead DEF Between, NoRefusal
    <2>6. /\ Carries(Tail(u), "ready") <=> Carries(u, "ready")
          /\ Carries(Tail(u), "ack") <=> Carries(u, "ack")
      BY ReadCarries
    <2>7. Between(e, h, Tail(u), w)
      BY <2>1, <2>4, <2>5, <2>6, BetweenWires
    <2>8. Between(x, h, Tail(u), w)
      BY <2>7, BetweenSame DEF SameHost
    <2> QED BY <1>2, <2>3, <2>8 DEF AgreeInv, Attached
  <1>4. CASE h.state = "closed"
    BY <1>2, <1>4 DEF AgreeInv, Attached
  <1> QED BY <1>3, <1>4

\* The edge reads the acknowledgement of what is pending, which becomes the candidate.
LEMMA AgreeAcked ==
    ASSUME NEW e, NEW h \in Hosts, NEW u \in Seq(Frames), u # <<>>, NEW d \in Seq(Frames), NEW x,
           AgreeInv(e, h, u, d), Attached(e), Attached(x), Head(u).type = "ack",
           x.pending = 0, x.candidate = e.pending, x.active = e.active
    PROVE  AgreeInv(x, h, Tail(u), d)
PROOF
  <1>1. EdgeInv(e) /\ UpInv(e, u)
    BY DEF AgreeInv
  <1>2. e.pending # 0 /\ e.candidate = 0
    BY <1>1, UpHead
  <1>3. EdgeInv(x) /\ UpInv(x, Tail(u))
    BY <1>1, UpRead DEF EdgeInv
  <1>4. CASE h.state # "closed"
    <2>1. DownInv(h, d) /\ Between(e, h, u, d)
      BY <1>4 DEF AgreeInv
    <2>2. NoRefusal(Tail(u))
      BY <2>1, NoRefusalRead DEF Between, NoRefusal
    <2>3. Carries(u, "ack") /\ (Carries(Tail(u), "ready") <=> Carries(u, "ready"))
      BY ReadCarries
    <2>4. Target(x) = Target(e)
      BY <1>2 DEF Target
    <2>5. h.staging = 0 /\ \A i \in 1..Len(d) : d[i].type # "config"
      BY <2>1, <2>3 DEF Between
    <2>6. Between(x, h, Tail(u), d)
      BY <1>2, <2>1, <2>2, <2>3, <2>4, <2>5 DEF Between, NoRefusal
    <2> QED BY <1>3, <2>1, <2>6 DEF AgreeInv, Attached
  <1>5. CASE h.state = "closed"
    BY <1>3, <1>5 DEF AgreeInv, Attached
  <1> QED BY <1>4, <1>5

\* The edge reads a refusal, which was the last frame of its host.
LEMMA AgreeRefused ==
    ASSUME NEW e, NEW h, NEW u \in Seq(Frames), u # <<>>, NEW d, NEW x,
           AgreeInv(e, h, u, d), Attached(e), Attached(x),
           Head(u).type = "ack", Head(u).status # "applied", x.pending = 0
    PROVE  AgreeInv(x, h, Tail(u), d)
PROOF
  <1>1. Tail(u) = <<>>
    BY UpHead DEF AgreeInv
  <1>2. h.state = "closed"
    <2>1. ~NoRefusal(u)
      BY Read DEF NoRefusal
    <2> QED BY <2>1 DEF AgreeInv, Between, NoRefusal
  <1> QED BY <1>1, <1>2, UpEmpty DEF AgreeInv, EdgeInv, Attached

\* The edge reads a readiness and makes the candidate active.
LEMMA AgreePromoted ==
    ASSUME NEW e, NEW h \in Hosts, NEW u \in Seq(Frames), u # <<>>, NEW d \in Seq(Frames),
           NEW x, NEW w, NEW f \in Frames,
           AgreeInv(e, h, u, d), Attached(e), Attached(x), Head(u).type = "ready",
           x.pending = e.pending, x.candidate = 0, x.active = e.candidate,
           f.type = "readyAck", f.gen = e.candidate, Reply(h, d, w, f)
    PROVE  AgreeInv(x, h, Tail(u), w)
PROOF
  <1>1. EdgeInv(e) /\ UpInv(e, u)
    BY DEF AgreeInv
  <1>2. e.candidate # 0 /\ Target(e) = e.candidate
    BY <1>1, UpHead DEF Target
  <1>3. e.pending = 0
    BY <1>1, <1>2 DEF EdgeInv
  <1>4. EdgeInv(x) /\ UpInv(x, Tail(u))
    BY <1>1, <1>3, UpRead DEF EdgeInv
  <1>5. CASE h.state # "closed"
    <2>1. DownInv(h, d) /\ Between(e, h, u, d) /\ w = Append(d, f)
      BY <1>5 DEF AgreeInv, Reply
    <2>2. Carries(u, "ready") /\ ~Carries(Tail(u), "ready")
      BY <1>1, ReadCarries DEF UpInv
    <2>3. h.active = e.candidate /\ Settled(h)
      BY <1>2, <2>1, <2>2 DEF Between
    <2>4. \A i \in 1..Len(d) : d[i].type # "config"
      BY <1>2, <2>1 DEF Between
    <2>5. DownInv(h, w)
      <3>1. ~Carries(d, "config")
        BY <2>4 DEF Carries
      <3> QED BY <1>2, <2>1, <2>3, <3>1, DownWrite
    <2>6. \A i \in 1..Len(w) : w[i].type # "config"
      <3>1. \A i \in 1..Len(w) : w[i].type = "config" => \E j \in 1..Len(d) : w[i] = d[j]
        BY <2>1, ConfigsWritten
      <3> QED BY <2>4, <3>1
    <2>7. NoRefusal(Tail(u))
      BY <2>1, NoRefusalRead DEF Between, NoRefusal
    <2>8. Between(x, h, Tail(u), w)
      BY <2>2, <2>3, <2>6, <2>7 DEF Between, NoRefusal, Settled
    <2> QED BY <1>4, <2>5, <2>8 DEF AgreeInv, Attached
  <1>6. CASE h.state = "closed"
    BY <1>4, <1>6 DEF AgreeInv, Attached
  <1> QED BY <1>5, <1>6

-----------------------------------------------------------------------------
(* The steps of the host, on the state of one session. *)

\* What the host writes is on the wire, unless nobody reads it.
Sent(e, u, v, f) == v = IF e.state = "closed" THEN u ELSE Append(u, f)

\* The edge of a session whose host has something to read or under way has attached it.
LEMMA Reached ==
    ASSUME NEW e, NEW h, NEW u, NEW d, AgreeInv(e, h, u, d), h.state # "closed",
           d # <<>> \/ ~Settled(h) \/ h.active # 0
    PROVE  /\ e.state \notin {"none", "reading"} /\ DownInv(h, d)
           /\ e.state # "closed" => Attached(e) /\ UpInv(e, u) /\ Between(e, h, u, d)
PROOF BY DEF AgreeInv, Unattached, Attached

\* The loop ends without an answer.
LEMMA AgreeEnds ==
    ASSUME NEW e, NEW h, NEW u, NEW d, NEW y, AgreeInv(e, h, u, d),
           y.state = "closed", y.active = h.active, Settled(y)
    PROVE  AgreeInv(e, y, u, <<>>)
PROOF BY DEF AgreeInv, Unattached

\* The loop ends with an answer.
LEMMA AgreeEndsWith ==
    ASSUME NEW e, NEW h, NEW u, NEW d, NEW y, NEW v, AgreeInv(e, h, u, d),
           y.state = "closed", Settled(y), e.state \notin {"none", "reading"},
           v = u \/ UpInv(e, v)
    PROVE  AgreeInv(e, y, v, <<>>)
PROOF BY DEF AgreeInv

\* The host reads a frame that changes nothing of its configurations.
LEMMA AgreeReadsDown ==
    ASSUME NEW e, NEW h, NEW u \in Seq(Frames), NEW d \in Seq(Frames), d # <<>>,
           NEW y, NEW v, NEW f \in Frames,
           AgreeInv(e, h, u, d), h.state # "closed", y.state # "closed", SameHost(h, y),
           f.type = "drainAck", v = u \/ Sent(e, u, v, f)
    PROVE  AgreeInv(e, y, v, Tail(d))
PROOF
  <1>1. /\ e.state \notin {"none", "reading"} /\ DownInv(h, d)
        /\ e.state # "closed" => Attached(e) /\ UpInv(e, u) /\ Between(e, h, u, d)
    BY Reached
  <1>2. DownInv(y, Tail(d)) /\ EdgeInv(e)
    BY <1>1, DownRead DEF AgreeInv
  <1>3. CASE e.state # "closed"
    <2>1. NoRefusal(u) /\ UpInv(e, u) /\ Between(e, h, u, d)
      BY <1>1, <1>3 DEF Between, NoRefusal
    <2>2. UpInv(e, Append(u, f)) /\ NoRefusal(Append(u, f)) /\ Append(u, f) \in Seq(Frames)
      BY <2>1, UpWrite, Written
    <2>3. v = u \/ v = Append(u, f)
      BY <1>3 DEF Sent
    <2>4. /\ Carries(v, "ready") <=> Carries(u, "ready")
          /\ Carries(v, "ack") <=> Carries(u, "ack")
      <3>1. /\ Carries(Append(u, f), "ready") <=> Carries(u, "ready")
            /\ Carries(Append(u, f), "ack") <=> Carries(u, "ack")
        BY WrittenCarries
      <3> QED BY <2>3, <3>1
    <2>5. UpInv(e, v) /\ NoRefusal(v) /\ v \in Seq(Frames)
      BY <2>1, <2>2, <2>3
    <2>6. Tail(d) \in Seq(Frames)
      BY Read
    <2>7. Between(e, h, v, Tail(d))
      BY <2>1, <2>4, <2>5, <2>6, ConfigsRead, BetweenWires
    <2>8. Between(e, y, v, Tail(d))
      BY <2>7, BetweenSame DEF SameEdge
    <2> QED BY <1>1, <1>2, <2>5, <2>8 DEF AgreeInv
  <1>4. CASE e.state = "closed"
    BY <1>2, <1>4 DEF AgreeInv, Attached
  <1> QED BY <1>3, <1>4

\* The host reads a configuration and begins to stage it.
LEMMA AgreeStages ==
    ASSUME NEW e, NEW h, NEW u \in Seq(Frames), NEW d \in Seq(Frames), d # <<>>, NEW y,
           AgreeInv(e, h, u, d), h.state # "closed", y.state # "closed",
           Head(d).type = "config",
           y.staging = Head(d).gen, y.kind = Head(d).kind,
           y.active = h.active, y.candidate = h.candidate, y.ready = h.ready
    PROVE  AgreeInv(e, y, u, Tail(d))
PROOF
  <1>1. /\ e.state \notin {"none", "reading"} /\ DownInv(h, d)
        /\ e.state # "closed" => Attached(e) /\ UpInv(e, u) /\ Between(e, h, u, d)
    BY Reached
  <1>2. DownInv(y, Tail(d)) /\ EdgeInv(e)
    BY <1>1, DownRead DEF AgreeInv
  <1>3. Settled(h)
    BY <1>1, DownHead
  <1>4. CASE e.state # "closed"
    <2>1. UpInv(e, u) /\ Between(e, h, u, d) /\ Head(d) = d[1] /\ 1 \in 1..Len(d)
      BY <1>1, <1>4, Read
    <2>2. /\ e.pending = Head(d).gen /\ e.candidate = 0 /\ Head(d).kind = e.kind
          /\ ~Carries(u, "ack")
      BY <2>1 DEF Between
    <2>3. ~Carries(u, "ready")
      BY <2>1, <2>2, UpReady
    <2>4. \A i \in 1..Len(Tail(d)) : Tail(d)[i].type # "config"
      BY <1>1, ReadCarries DEF DownInv, Carries
    <2>5. Between(e, y, u, Tail(d))
      BY <1>3, <2>1, <2>2, <2>3, <2>4 DEF Between, Settled
    <2> QED BY <1>1, <1>2, <2>1, <2>5 DEF AgreeInv
  <1>5. CASE e.state = "closed"
    BY <1>2, <1>5 DEF AgreeInv, Attached
  <1> QED BY <1>4, <1>5

\* The host's answer to what it was staging.
LEMMA AgreeAnswer ==
    ASSUME NEW e, NEW h, NEW u \in Seq(Frames), NEW d, NEW v, NEW f \in Frames,
           AgreeInv(e, h, u, d), h.state # "closed", h.staging # 0,
           f.type = "ack", f.kind = h.kind, f.gen = h.staging, Sent(e, u, v, f)
    PROVE  /\ e.state \notin {"none", "reading"}
           /\ e.state # "closed" =>
                /\ v = Append(u, f) /\ UpInv(e, v) /\ Between(e, h, u, d)
                /\ ~Carries(u, "ready") /\ e.pending = h.staging /\ e.candidate = 0
                /\ ~Carries(u, "ack")
PROOF
  <1>1. ~Settled(h)
    BY DEF Settled
  <1>2. /\ e.state \notin {"none", "reading"}
        /\ e.state # "closed" => UpInv(e, u) /\ Between(e, h, u, d)
    BY <1>1, Reached
  <1>3. ASSUME e.state # "closed"
        PROVE  /\ v = Append(u, f) /\ UpInv(e, v) /\ Between(e, h, u, d)
               /\ ~Carries(u, "ready") /\ e.pending = h.staging /\ e.candidate = 0
               /\ ~Carries(u, "ack")
    <2>1. UpInv(e, u) /\ Between(e, h, u, d) /\ v = Append(u, f)
      BY <1>2, <1>3 DEF Sent
    <2>2. /\ e.pending = h.staging /\ e.candidate = 0 /\ h.kind = e.kind /\ ~Carries(u, "ack")
      BY <2>1 DEF Between
    <2>3. ~Carries(u, "ready")
      BY <1>1, <2>1 DEF Between
    <2>4. UpInv(e, v)
      BY <2>1, <2>2, UpWriteAck
    <2> QED BY <2>1, <2>2, <2>3, <2>4
  <1> QED BY <1>2, <1>3

\* The host adopts what it staged as its candidate and acknowledges it.
LEMMA AgreeBinds ==
    ASSUME NEW e, NEW h, NEW u \in Seq(Frames), NEW d \in Seq(Frames), NEW y, NEW v,
           NEW f \in Frames,
           AgreeInv(e, h, u, d), h.state # "closed", h.staging # 0, y.state # "closed",
           f.type = "ack", f.status = "applied", f.kind = h.kind, f.gen = h.staging,
           Sent(e, u, v, f),
           y.staging = 0, y.candidate = h.staging, y.active = h.active
    PROVE  AgreeInv(e, y, v, d)
PROOF
  <1>1. ~Settled(h) /\ DownInv(h, d) /\ EdgeInv(e)
    BY DEF Settled, AgreeInv
  <1>2. DownInv(y, d) /\ \A i \in 1..Len(d) : d[i].type # "config"
    BY <1>1, DownBusy
  <1>3. /\ e.state \notin {"none", "reading"}
        /\ e.state # "closed" =>
             /\ v = Append(u, f) /\ UpInv(e, v) /\ Between(e, h, u, d)
             /\ ~Carries(u, "ready") /\ e.pending = h.staging /\ e.candidate = 0
             /\ ~Carries(u, "ack")
    BY AgreeAnswer
  <1>4. CASE e.state # "closed"
    <2>1. /\ v = Append(u, f) /\ UpInv(e, v) /\ Between(e, h, u, d)
          /\ ~Carries(u, "ready") /\ e.pending = h.staging /\ e.candidate = 0
          /\ ~Carries(u, "ack")
      BY <1>3, <1>4
    <2>2. ~Carries(v, "ready") /\ Carries(v, "ack")
      BY <2>1, WrittenCarries
    <2>3. \A i \in 1..Len(v) : v[i].type = "ack" => v[i].status = "applied"
      <3> DEFINE n == Len(u) + 1
      <3>1. /\ v[n] = f /\ \A i \in 1..Len(u) : v[i] = u[i]
            /\ 1..Len(v) = (1..Len(u)) \cup {n}
        BY <2>1, Written
      <3> QED BY <2>1, <3>1 DEF Carries
    <2>4. Target(e) = h.staging
      BY <2>1 DEF Target
    <2>5. Between(e, y, v, d)
      BY <1>2, <2>1, <2>2, <2>3, <2>4 DEF Between
    <2> QED BY <1>1, <1>2, <1>3, <2>1, <2>5 DEF AgreeInv
  <1>5. CASE e.state = "closed"
    BY <1>1, <1>2, <1>5 DEF AgreeInv, Attached
  <1> QED BY <1>4, <1>5

\* The host makes its candidate active and reports it.
LEMMA AgreeReady ==
    ASSUME NEW e, NEW h, NEW u \in Seq(Frames), NEW d \in Seq(Frames), NEW y, NEW v,
           NEW f \in Frames,
           AgreeInv(e, h, u, d), h.state # "closed", h.staging = 0, h.candidate # 0,
           y.state # "closed", f.type = "ready", f.gen = h.candidate, Sent(e, u, v, f),
           y.staging = 0, y.candidate = 0, y.active = h.candidate, y.ready = h.candidate
    PROVE  AgreeInv(e, y, v, d)
PROOF
  <1>1. ~Settled(h) /\ DownInv(h, d) /\ EdgeInv(e) /\ Settled(y)
    BY DEF Settled, AgreeInv
  <1>2. DownInv(y, d) /\ \A i \in 1..Len(d) : d[i].type # "config"
    BY <1>1, DownBusy
  <1>3. /\ e.state \notin {"none", "reading"}
        /\ e.state # "closed" => UpInv(e, u) /\ Between(e, h, u, d)
    BY <1>1, Reached
  <1>4. CASE e.state # "closed"
    <2>1. UpInv(e, u) /\ Between(e, h, u, d) /\ v = Append(u, f)
      BY <1>3, <1>4 DEF Sent
    <2>2. /\ ~Carries(u, "ready") /\ h.candidate = Target(e)
          /\ e.candidate = 0 => Carries(u, "ack")
      BY <1>1, <2>1 DEF Between
    <2>3. NoRefusal(u)
      BY <2>1 DEF Between, NoRefusal
    <2>4. UpInv(e, v) /\ NoRefusal(v)
      BY <2>1, <2>2, <2>3, UpWrite
    <2>5. Carries(v, "ready") /\ (Carries(v, "ack") <=> Carries(u, "ack"))
      BY <2>1, WrittenCarries
    <2>6. Between(e, y, v, d)
      BY <1>1, <1>2, <2>1, <2>2, <2>4, <2>5 DEF Between, NoRefusal, Settled
    <2> QED BY <1>1, <1>2, <1>3, <2>4, <2>6 DEF AgreeInv
  <1>5. CASE e.state = "closed"
    BY <1>1, <1>2, <1>5 DEF AgreeInv, Attached
  <1> QED BY <1>4, <1>5

\* The host writes something that answers nothing.
LEMMA AgreeAppended ==
    ASSUME NEW e, NEW h, NEW u \in Seq(Frames), NEW d \in Seq(Frames), NEW f \in Frames,
           AgreeInv(e, h, u, d), h.state # "closed", e.state \notin {"none", "reading"},
           f.type \notin {"ack", "ready"}, NoRefusal(Append(u, f)), UpInv(e, Append(u, f))
    PROVE  AgreeInv(e, h, Append(u, f), d)
PROOF
  <1>1. /\ Carries(Append(u, f), "ready") <=> Carries(u, "ready")
        /\ Carries(Append(u, f), "ack") <=> Carries(u, "ack")
        /\ Append(u, f) \in Seq(Frames)
    BY WrittenCarries, Written
  <1>2. Between(e, h, u, d) => Between(e, h, Append(u, f), d)
    BY <1>1, BetweenWires
  <1> QED BY <1>2 DEF AgreeInv

\* The host names in a heartbeat what it serves, or its first candidate.
LEMMA AgreeBeats ==
    ASSUME NEW e, NEW h, NEW u \in Seq(Frames), NEW d \in Seq(Frames), NEW v,
           NEW f \in Frames,
           AgreeInv(e, h, u, d), h.state # "closed", h.staging = 0,
           f.type = "heartbeat", f.gen = currentCandidate(h), f.gen # 0, Sent(e, u, v, f)
    PROVE  AgreeInv(e, h, v, d)
PROOF
  <1>1. ~Settled(h) \/ h.active # 0
    BY DEF Settled, currentCandidate
  <1>2. /\ e.state \notin {"none", "reading"}
        /\ e.state # "closed" => UpInv(e, u) /\ Between(e, h, u, d)
    BY <1>1, Reached
  <1>3. CASE e.state # "closed"
    <2>1. UpInv(e, u) /\ Between(e, h, u, d) /\ v = Append(u, f) /\ EdgeInv(e)
      BY <1>2, <1>3 DEF Sent, AgreeInv
    <2>2. NoRefusal(u)
      BY <2>1 DEF Between, NoRefusal
    <2>3. CASE Carries(u, "ready")
      <3>1. h.active = Target(e) /\ Target(e) # 0
        BY <2>1, <2>3, UpReady DEF Between
      <3>2. f.gen = Target(e)
        BY <3>1 DEF currentCandidate
      <3>3. UpInv(e, Append(u, f)) /\ NoRefusal(Append(u, f))
        BY <2>1, <2>2, <2>3, <3>2, UpWrite
      <3> QED BY <1>2, <2>1, <3>3, AgreeAppended
    <2>4. CASE ~Carries(u, "ready")
      <3>1. h.active = e.active
        BY <2>1, <2>4 DEF Between
      <3>2. f.gen = Expected(e)
        <4>1. CASE h.active # 0
          BY <3>1, <4>1 DEF currentCandidate, Expected
        <4>2. CASE h.active = 0
          <5>1. f.gen = h.candidate /\ h.candidate = Target(e)
            BY <2>1, <4>2 DEF currentCandidate, Between
          <5> QED BY <2>1, <3>1, <4>2, <5>1 DEF Target, Expected, EdgeInv
        <4> QED BY <4>1, <4>2
      <3>3. UpInv(e, Append(u, f)) /\ NoRefusal(Append(u, f))
        BY <2>1, <2>2, <2>4, <3>2, UpWrite
      <3> QED BY <1>2, <2>1, <3>3, AgreeAppended
    <2> QED BY <2>3, <2>4
  <1>4. CASE e.state = "closed"
    BY <1>4 DEF Sent
  <1> QED BY <1>3, <1>4

-----------------------------------------------------------------------------
(* The steps of the specification. *)

\* One session moves; the others agree as they did.
LEMMA OneAgrees ==
    ASSUME SettledInv, NEW s \in Sessions,
           \A t \in Sessions : t # s =>
             /\ edge'[t] = edge[t] /\ host'[t] = host[t] /\ up'[t] = up[t] /\ down'[t] = down[t]
             /\ overlapped'[t] = overlapped[t] /\ fault'[t] = fault[t],
           overlapped'[s] \/ (fault'[s] = "none" /\ AgreeInv(edge'[s], host'[s], up'[s], down'[s]))
    PROVE  SettledInv'
PROOF
  <1>1. \A t \in Sessions :
          overlapped'[t] \/ (fault'[t] = "none" /\ AgreeInv(edge'[t], host'[t], up'[t], down'[t]))
    BY DEF SettledInv
  <1> QED BY <1>1 DEF SettledInv

\* The sessions agree before anything was written.
LEMMA SettledInit ==
    ASSUME Init
    PROVE  SettledInv
PROOF
  <1> SUFFICES ASSUME NEW s \in Sessions
               PROVE  fault[s] = "none" /\ AgreeInv(edge[s], host[s], up[s], down[s])
    BY DEF SettledInv
  <1>1. /\ edge[s] = EdgeInit /\ host[s] = HostInit /\ up[s] = <<>> /\ down[s] = <<>>
        /\ fault[s] = "none"
    BY DEF Init
  <1>2. /\ EdgeInit.state = "none" /\ EdgeInit.pending = 0 /\ EdgeInit.active = 0
        /\ EdgeInit.candidate = 0
        /\ HostInit.active = 0 /\ HostInit.candidate = 0 /\ HostInit.staging = 0
    BY DEF EdgeInit, HostInit
  <1>3. /\ EdgeInv(EdgeInit) /\ Unattached(EdgeInit, HostInit, <<>>, <<>>) /\ ~Attached(EdgeInit)
        /\ Settled(HostInit)
    BY <1>2 DEF EdgeInv, Unattached, Settled, Attached
  <1>4. DownInv(HostInit, <<>>)
    BY <1>2 DEF DownInv, Single
  <1> QED BY <1>1, <1>3, <1>4 DEF AgreeInv

\* A step leaves the sessions other than s alone.
Untouched(s) ==
    \A t \in Sessions : t # s =>
        /\ edge'[t] = edge[t] /\ host'[t] = host[t] /\ up'[t] = up[t] /\ down'[t] = down[t]
        /\ overlapped'[t] = overlapped[t] /\ fault'[t] = fault[t]

\* Writing to a wire, or noting a fault, concerns one session.
LEMMA WritesFrame ==
    ASSUME ConnectorInv, NEW s \in Sessions, NEW f
    PROVE  /\ ToHost(s, f) =>
                /\ down'[s] = IF host[s].state = "closed" THEN down[s] ELSE Append(down[s], f)
                /\ \A t \in Sessions : t # s => down'[t] = down[t]
           /\ ToEdge(s, f) =>
                /\ up'[s] = IF edge[s].state = "closed" THEN up[s] ELSE Append(up[s], f)
                /\ \A t \in Sessions : t # s => up'[t] = up[t]
           /\ Note(s, f) => \A t \in Sessions : t # s => fault'[t] = fault[t]
PROOF
  <1>1. /\ down \in [Sessions -> Seq(Frames)] /\ up \in [Sessions -> Seq(Frames)]
        /\ fault \in [Sessions -> Faults]
    BY DEF ConnectorInv, TypeInv
  <1>2. ToHost(s, f) =>
          /\ down'[s] = IF host[s].state = "closed" THEN down[s] ELSE Append(down[s], f)
          /\ \A t \in Sessions : t # s => down'[t] = down[t]
    BY <1>1 DEF ToHost
  <1>3. ToEdge(s, f) =>
          /\ up'[s] = IF edge[s].state = "closed" THEN up[s] ELSE Append(up[s], f)
          /\ \A t \in Sessions : t # s => up'[t] = up[t]
    BY <1>1 DEF ToEdge
  <1>4. Note(s, f) => \A t \in Sessions : t # s => fault'[t] = fault[t]
    BY <1>1 DEF Note
  <1> QED BY <1>2, <1>3, <1>4

\* The types of what the agreement is about.
LEMMA EdgeFields ==
    ASSUME ConnectorInv, NEW s \in Sessions
    PROVE  /\ edge[s] \in Edges /\ edge[s].state \in EdgeStates /\ edge[s].kind \in Kinds
           /\ edge[s].pending \in Nat /\ edge[s].active \in Nat /\ edge[s].candidate \in Nat
           /\ host[s] \in Hosts /\ up[s] \in Seq(Frames) /\ down[s] \in Seq(Frames)
PROOF
  <1>1. edge[s] \in Edges /\ host[s] \in Hosts /\ up[s] \in Seq(Frames) /\ down[s] \in Seq(Frames)
    BY Types
  <1> QED BY <1>1 DEF Edges

\* The session closes at the edge.
LEMMA ClosesAgrees ==
    ASSUME ConnectorInv, NEW s \in Sessions, EdgeCloses(s), UNCHANGED <<host, down>>,
           AgreeInv(edge[s], host[s], up[s], down[s])
    PROVE  AgreeInv(edge'[s], host'[s], up'[s], down'[s])
PROOF
  <1>1. edge'[s].state = "closed" /\ up'[s] = <<>>
    BY EdgeClosesFacts
  <1>2. edge'[s].pending = 0
    BY EdgeFields DEF EdgeCloses, EdgeInit, ConnectorInv, TypeInv
  <1> QED BY <1>1, <1>2, AgreeClosed

\* A handler that refuses closes the session or goes on.
LEMMA RefusesCases ==
    ASSUME NEW s, NEW e, EdgeRefuses(s, e)
    PROVE  EdgeCloses(s) \/ EdgeProceeds(s, e)
PROOF BY DEF EdgeRefuses, EdgeProceeds

\* The acknowledgement the edge reads answers what is pending.
LEMMA HandleAckAgrees ==
    ASSUME ConnectorInv, NEW s \in Sessions, up[s] # <<>>, Attached(edge[s]),
           AgreeInv(edge[s], host[s], up[s], down[s]),
           Head(up[s]).type = "ack", HandleAck(s, Head(up[s])), UNCHANGED <<host, down>>
    PROVE  UNCHANGED fault /\ AgreeInv(edge'[s], host'[s], up'[s], down'[s])
PROOF
  <1> DEFINE e == edge[s]
             f == Head(up[s])
             settled == [e EXCEPT !.pending = 0, !.kind = "none"]
             withdrawn == [settled EXCEPT !.needs = TRUE]
             staged == [settled EXCEPT !.candidate = f.gen,
                          !.needs = IF e.kind = "snapshot" THEN FALSE ELSE @,
                          !.state = IF e.active # 0 /\ e.ready = e.active THEN @
                                    ELSE "awaiting_ready"]
             refused == [withdrawn EXCEPT !.state = restoreState(withdrawn)]
  <1>1. /\ e \in Edges /\ up[s] \in Seq(Frames) /\ down[s] \in Seq(Frames) /\ host[s] \in Hosts
        /\ f \in Frames
    BY EdgeFields, Read
  <1>2. f.gen \in Nat
    BY <1>1 DEF Frames
  <1>3. UpInv(e, up[s])
    BY DEF AgreeInv
  <1>4. e.pending # 0 /\ f.kind = e.kind /\ f.gen = e.pending
    BY <1>1, <1>3, UpHead
  <1>5. IF f.status \in {"applied", "duplicate"}
          THEN EdgeProceeds(s, staged) /\ UNCHANGED fault
          ELSE EdgeRefuses(s, refused) /\ UNCHANGED fault
    BY <1>4 DEF HandleAck
  <1> HIDE DEF e, f
  <1>6. /\ settled \in Edges /\ settled.pending = 0 /\ settled.active = e.active
        /\ settled.state = e.state
    BY <1>1 DEF Edges, Kinds
  <1> HIDE DEF settled
  <1>7. withdrawn \in Edges /\ withdrawn.pending = 0
    BY <1>6 DEF Edges
  <1>8. /\ staged \in Edges /\ staged.pending = 0 /\ staged.candidate = f.gen
        /\ staged.active = e.active /\ staged.state \in {e.state, "awaiting_ready"}
    BY <1>2, <1>6 DEF Edges, EdgeStates
  <1> HIDE DEF withdrawn, staged
  <1>9. restoreState(withdrawn) \in {"ready", "awaiting_snapshot"}
    BY DEF restoreState
  <1>10. refused \in Edges /\ refused.pending = 0 /\ refused.state \in {"ready", "awaiting_snapshot"}
    BY <1>7, <1>9 DEF Edges, EdgeStates
  <1> HIDE DEF refused
  <1>11. CASE f.status \in {"applied", "duplicate"}
    <2>1. edge'[s] = staged /\ up'[s] = Tail(up[s])
      BY <1>5, <1>8, <1>11, EdgeProceedsFacts
    <2>2. Attached(staged)
      BY <1>8 DEF Attached, e
    <2>3. AgreeInv(staged, host[s], Tail(up[s]), down[s])
      BY <1>1, <1>4, <1>8, <2>2, AgreeAcked DEF e, f
    <2> QED BY <1>5, <1>11, <2>1, <2>3
  <1>12. CASE f.status \notin {"applied", "duplicate"}
    <2>1. CASE EdgeCloses(s)
      BY <1>5, <1>12, <2>1, ClosesAgrees
    <2>2. CASE EdgeProceeds(s, refused)
      <3>1. edge'[s] = refused /\ up'[s] = Tail(up[s])
        BY <1>10, <2>2, EdgeProceedsFacts
      <3>2. Attached(refused) /\ f.status # "applied"
        BY <1>10, <1>12 DEF Attached
      <3>3. AgreeInv(refused, host[s], Tail(up[s]), down[s])
        BY <1>1, <1>10, <3>2, AgreeRefused DEF e, f
      <3> QED BY <1>5, <1>12, <3>1, <3>3
    <2> QED BY <1>5, <1>12, <2>1, <2>2, RefusesCases
  <1> QED BY <1>11, <1>12

\* The readiness the edge reads names its candidate.
LEMMA HandleReadinessAgrees ==
    ASSUME ConnectorInv, NEW s \in Sessions, up[s] # <<>>, Attached(edge[s]),
           AgreeInv(edge[s], host[s], up[s], down[s]),
           Head(up[s]).type = "ready", HandleReadiness(s, Head(up[s])), UNCHANGED host
    PROVE  UNCHANGED fault /\ AgreeInv(edge'[s], host'[s], up'[s], down'[s])
PROOF
  <1> DEFINE e == edge[s]
             f == Head(up[s])
             promoted == [e EXCEPT !.active = f.gen, !.candidate = 0, !.needs = FALSE,
                                   !.ready = f.gen, !.state = "ready"]
             answer == Frame("readyAck", "none", "applied", f.gen)
  <1>1. /\ e \in Edges /\ up[s] \in Seq(Frames) /\ down[s] \in Seq(Frames) /\ host[s] \in Hosts
        /\ f \in Frames
    BY EdgeFields, Read
  <1>2. f.gen \in Nat
    BY <1>1 DEF Frames
  <1>3. e.candidate # 0 /\ f.gen = e.candidate
    BY <1>1, UpHead DEF AgreeInv
  <1>4. EdgeProceeds(s, promoted) /\ ToHost(s, answer) /\ UNCHANGED fault
    BY <1>3 DEF HandleReadiness
  <1>5. answer \in Frames /\ answer.type = "readyAck" /\ answer.gen = f.gen
    BY <1>2, FramesWritten DEF Frame
  <1> HIDE DEF e, f
  <1>6. /\ promoted \in Edges /\ promoted.pending = e.pending /\ promoted.candidate = 0
        /\ promoted.active = f.gen /\ promoted.state = "ready"
    BY <1>1, <1>2 DEF Edges, EdgeStates
  <1> HIDE DEF promoted, answer
  <1>7. edge'[s] = promoted /\ up'[s] = Tail(up[s])
    BY <1>4, <1>6, EdgeProceedsFacts
  <1>8. Reply(host[s], down[s], down'[s], answer)
    BY <1>4, WritesFrame DEF Reply
  <1>9. Attached(promoted)
    BY <1>6 DEF Attached
  <1>10. AgreeInv(promoted, host[s], Tail(up[s]), down'[s])
    BY <1>1, <1>3, <1>5, <1>6, <1>8, <1>9, AgreePromoted DEF e, f
  <1> QED BY <1>4, <1>7, <1>10

\* The heartbeat the edge reads names what the edge expects.
LEMMA HandleHeartbeatAgrees ==
    ASSUME ConnectorInv, NEW s \in Sessions, up[s] # <<>>, Attached(edge[s]),
           AgreeInv(edge[s], host[s], up[s], down[s]),
           Head(up[s]).type = "heartbeat", HandleHeartbeat(s, Head(up[s])), UNCHANGED host
    PROVE  UNCHANGED fault /\ AgreeInv(edge'[s], host'[s], up'[s], down'[s])
PROOF
  <1> DEFINE answer == Frame("heartbeatAck", "none", "none", 0)
  <1>1. /\ edge[s] \in Edges /\ up[s] \in Seq(Frames) /\ down[s] \in Seq(Frames)
        /\ host[s] \in Hosts
    BY EdgeFields
  <1>2. Head(up[s]).gen = Expected(edge[s]) /\ Expected(edge[s]) # 0
    BY <1>1, UpHead DEF AgreeInv
  <1>3. EdgeProceeds(s, edge[s]) /\ ToHost(s, answer) /\ UNCHANGED fault
    BY <1>2 DEF HandleHeartbeat, Expected
  <1>4. answer \in Frames /\ answer.type = "heartbeatAck"
    BY FramesWritten DEF Frame
  <1> HIDE DEF answer
  <1>5. edge'[s] = edge[s] /\ up'[s] = Tail(up[s])
    BY <1>1, <1>3, EdgeProceedsFacts
  <1>6. Reply(host[s], down[s], down'[s], answer)
    BY <1>3, WritesFrame DEF Reply
  <1>7. AgreeInv(edge[s], host[s], Tail(up[s]), down'[s])
    BY <1>1, <1>4, <1>6, AgreeHeard DEF SameEdge
  <1> QED BY <1>3, <1>5, <1>7

\* The answer to a drain leaves the configurations alone.
LEMMA HandleDrainAckAgrees ==
    ASSUME ConnectorInv, NEW s \in Sessions, up[s] # <<>>, Attached(edge[s]),
           AgreeInv(edge[s], host[s], up[s], down[s]),
           Head(up[s]).type = "drainAck", HandleDrainAck(s, Head(up[s])), UNCHANGED <<host, down>>
    PROVE  AgreeInv(edge'[s], host'[s], up'[s], down'[s])
PROOF
  <1> DEFINE e == edge[s]
             f == Head(up[s])
             answered == [e EXCEPT !.drainStatus = f.status]
             restored == [answered EXCEPT !.state = restoreState(e)]
             beat == Frame("heartbeatAck", "none", "none", 0)
  <1>1. /\ e \in Edges /\ up[s] \in Seq(Frames) /\ down[s] \in Seq(Frames) /\ host[s] \in Hosts
        /\ f \in Frames
    BY EdgeFields, Read
  <1>2. f.status \in Statuses
    BY <1>1 DEF Frames
  <1>3. EdgeProceeds(s, answered) \/ EdgeRefuses(s, restored)
    BY DEF HandleDrainAck
  <1>4. beat \in Frames /\ beat.type = "heartbeatAck"
    BY FramesWritten DEF Frame
  <1> HIDE DEF e, f, beat
  <1>5. answered \in Edges /\ SameEdge(e, answered) /\ answered.state = e.state
    BY <1>1, <1>2 DEF Edges, SameEdge
  <1> HIDE DEF answered
  <1>6. restoreState(e) \in {"ready", "awaiting_snapshot"}
    BY DEF restoreState
  <1>7. /\ restored \in Edges /\ SameEdge(answered, restored)
        /\ restored.state \in {"ready", "awaiting_snapshot"}
    BY <1>5, <1>6 DEF Edges, EdgeStates, SameEdge
  <1> HIDE DEF restored
  <1>8. /\ Attached(answered) /\ Attached(restored) /\ SameEdge(e, restored)
    BY <1>5, <1>7 DEF Attached, SameEdge, e
  <1>9. ASSUME NEW x \in Edges, SameEdge(e, x), Attached(x), EdgeProceeds(s, x)
        PROVE  AgreeInv(edge'[s], host'[s], up'[s], down'[s])
    <2>1. edge'[s] = x /\ up'[s] = Tail(up[s])
      BY <1>9, EdgeProceedsFacts
    <2>2. AgreeInv(x, host[s], Tail(up[s]), down[s])
      BY <1>1, <1>4, <1>9, AgreeHeard DEF e, f
    <2> QED BY <2>1, <2>2
  <1>10. CASE EdgeCloses(s)
    BY <1>10, ClosesAgrees
  <1> QED BY <1>3, <1>5, <1>7, <1>8, <1>9, <1>10, RefusesCases

\* The edge reads a frame.
LEMMA EdgeReceivesAgrees ==
    ASSUME ConnectorInv, SettledInv, NEW s \in Sessions, EdgeReceives(s)
    PROVE  SettledInv'
PROOF
  <1> DEFINE f == Head(up[s])
  <1>1. /\ up[s] # <<>> /\ Attached(edge[s]) /\ UNCHANGED <<host, overlapped>>
    BY DEF EdgeReceives, EdgeActive, EdgeOpen, Attached
  <1>2. \/ f.type = "ack" /\ HandleAck(s, f) /\ UNCHANGED down
        \/ f.type = "ready" /\ HandleReadiness(s, f)
        \/ f.type = "heartbeat" /\ HandleHeartbeat(s, f)
        \/ f.type = "drainAck" /\ HandleDrainAck(s, f) /\ UNCHANGED <<down, fault>>
    BY DEF EdgeReceives
  <1>3. \A t \in Sessions : t # s => edge'[t] = edge[t] /\ up'[t] = up[t]
    BY EdgeReceivesHandled DEF EdgeHandled
  <1>4. \A t \in Sessions : t # s => down'[t] = down[t] /\ fault'[t] = fault[t]
    <2>1. \/ UNCHANGED down
          \/ \E a : ToHost(s, a)
      BY <1>2 DEF HandleReadiness, HandleHeartbeat
    <2>2. \/ UNCHANGED fault
          \/ \E a : Note(s, a)
      BY <1>2 DEF HandleReadiness, HandleHeartbeat, HandleAck
    <2> QED BY <2>1, <2>2, WritesFrame
  <1>5. Untouched(s)
    BY <1>1, <1>3, <1>4 DEF Untouched
  <1>6. CASE ~overlapped[s]
    <2>1. fault[s] = "none" /\ AgreeInv(edge[s], host[s], up[s], down[s])
      BY <1>6 DEF SettledInv
    <2>2. UNCHANGED fault /\ AgreeInv(edge'[s], host'[s], up'[s], down'[s])
      BY <1>1, <1>2, <2>1, HandleAckAgrees, HandleReadinessAgrees, HandleHeartbeatAgrees,
         HandleDrainAckAgrees
    <2> QED BY <1>5, <2>1, <2>2, OneAgrees DEF Untouched
  <1>7. CASE overlapped[s]
    BY <1>1, <1>5, <1>7, OneAgrees DEF Untouched
  <1> QED BY <1>6, <1>7

\* The steps of the edge.
LEMMA EdgeAgrees ==
    ASSUME ConnectorInv, SettledInv, NEW s \in Sessions, EdgeNext(s)
    PROVE  SettledInv'
PROOF
  <1>1. /\ edge[s] \in Edges /\ host[s] \in Hosts /\ up[s] \in Seq(Frames)
        /\ down[s] \in Seq(Frames)
        /\ edge[s].pending \in Nat /\ edge[s].active \in Nat /\ edge[s].candidate \in Nat
    BY EdgeFields
  <1>2. /\ edge \in [Sessions -> Edges] /\ down \in [Sessions -> Seq(Frames)]
        /\ overlapped \in [Sessions -> BOOLEAN]
    BY DEF ConnectorInv, TypeInv
  <1>3. ~overlapped[s] => fault[s] = "none" /\ AgreeInv(edge[s], host[s], up[s], down[s])
    BY DEF SettledInv
  <1>4. ASSUME NEW g \in Generations, AcceptReads(s, g) PROVE SettledInv'
    <2> DEFINE x == [edge[s] EXCEPT !.state = "reading", !.kind = "snapshot", !.pending = g]
    <2>1. /\ edge' = [edge EXCEPT ![s] = x] /\ edge[s].state = "none"
          /\ UNCHANGED <<host, up, down, overlapped, fault>>
      BY <1>2, <1>4 DEF AcceptReads
    <2>2. g # 0
      BY DEF Generations
    <2>3. /\ x.state = "reading" /\ x.pending = g /\ x.kind = "snapshot"
          /\ x.active = edge[s].active /\ x.candidate = edge[s].candidate
      BY <1>1 DEF Edges
    <2> HIDE DEF x
    <2>4. edge'[s] = x /\ \A t \in Sessions : t # s => edge'[t] = edge[t]
      BY <1>2, <2>1
    <2>5. ~overlapped[s] => AgreeInv(x, host[s], up[s], down[s])
      BY <1>3, <2>1, <2>2, <2>3, AgreeReads
    <2> QED BY <1>3, <2>1, <2>4, <2>5, OneAgrees
  <1>5. CASE AcceptAttaches(s)
    <2> DEFINE x == [edge[s] EXCEPT !.state = "awaiting_snapshot"]
               c == [EdgeInit EXCEPT !.state = "closed"]
               w == <<Frame("welcome", "none", "none", 0),
                      Frame("config", "snapshot", "none", edge[s].pending)>>
    <2>1. edge[s].state = "reading" /\ UNCHANGED <<host, up, overlapped, fault>>
      BY <1>5 DEF AcceptAttaches
    <2>2. \/ /\ edge' = [edge EXCEPT ![s] = x]
             /\ down' = [down EXCEPT ![s] = IF host[s].state = "closed" THEN @ ELSE @ \o w]
          \/ edge' = [edge EXCEPT ![s] = c] /\ down' = down
      BY <1>2, <1>5 DEF AcceptAttaches
    <2>3. x.state = "awaiting_snapshot" /\ SameEdge(edge[s], x)
      BY <1>1 DEF Edges, SameEdge
    <2>4. c.state = "closed" /\ c.pending = 0
      BY DEF EdgeInit
    <2> HIDE DEF x, c
    <2>5. CASE /\ edge' = [edge EXCEPT ![s] = x]
               /\ down' = [down EXCEPT ![s] = IF host[s].state = "closed" THEN @ ELSE @ \o w]
      <3>1. /\ edge'[s] = x /\ \A t \in Sessions : t # s => edge'[t] = edge[t] /\ down'[t] = down[t]
            /\ IF host[s].state = "closed" THEN down'[s] = down[s] ELSE down'[s] = down[s] \o w
        BY <1>2, <2>5
      <3>2. ~overlapped[s] => AgreeInv(x, host[s], up[s], down'[s])
        BY <1>1, <1>3, <2>1, <2>3, <3>1, AgreeAttaches
      <3> HIDE DEF w
      <3> QED BY <1>3, <2>1, <3>1, <3>2, OneAgrees
    <2>6. CASE edge' = [edge EXCEPT ![s] = c] /\ down' = down
      <3>1. edge'[s] = c /\ \A t \in Sessions : t # s => edge'[t] = edge[t]
        BY <1>2, <2>6
      <3>2. ~overlapped[s] => up[s] = <<>>
        BY <1>3, <2>1 DEF AgreeInv, Unattached
      <3>3. ~overlapped[s] => AgreeInv(c, host[s], <<>>, down[s])
        BY <1>3, <2>4, AgreeClosed
      <3> QED BY <1>3, <2>1, <2>6, <3>1, <3>2, <3>3, OneAgrees
    <2> QED BY <2>2, <2>5, <2>6
  <1>6. ASSUME NEW g \in Generations, OfferSnapshot(s, g) PROVE SettledInv'
    <2> DEFINE x == [edge[s] EXCEPT !.kind = "snapshot", !.pending = g,
                       !.state = IF edge[s].active = 0 THEN "awaiting_snapshot" ELSE @]
               f == Frame("config", "snapshot", "none", g)
    <2>1. /\ edge' = [edge EXCEPT ![s] = x] /\ Attached(edge[s]) /\ g > edge[s].active
          /\ ToHost(s, f) /\ UNCHANGED <<host, up, fault>>
          /\ overlapped' = [overlapped EXCEPT ![s] = @ \/ Unsettled(s)]
      BY <1>2, <1>6 DEF OfferSnapshot, EdgeActive, EdgeOpen, Attached
    <2>2. f \in Frames /\ f.type = "config" /\ f.kind = "snapshot" /\ f.gen = g
      <3>1. g \in Nat
        BY DEF Generations
      <3>2. f \in Frames
        BY <3>1, FramesWritten
      <3> QED BY <3>2 DEF Frame
    <2>3. /\ x.kind = "snapshot" /\ x.pending = g /\ x.active = edge[s].active
          /\ x.candidate = edge[s].candidate /\ x.state \in {edge[s].state, "awaiting_snapshot"}
      BY <1>1 DEF Edges
    <2> HIDE DEF x, f
    <2>4. edge'[s] = x /\ \A t \in Sessions : t # s => edge'[t] = edge[t]
      BY <1>2, <2>1
    <2>5. /\ down'[s] = IF host[s].state = "closed" THEN down[s] ELSE Append(down[s], f)
          /\ \A t \in Sessions : t # s => down'[t] = down[t]
      BY <2>1, WritesFrame
    <2>6. /\ overlapped'[s] = (overlapped[s] \/ Unsettled(s))
          /\ \A t \in Sessions : t # s => overlapped'[t] = overlapped[t]
      BY <1>2, <2>1
    <2>7. Attached(x)
      BY <2>1, <2>3 DEF Attached
    <2>8. ASSUME ~overlapped'[s]
          PROVE  fault[s] = "none" /\ AgreeInv(x, host[s], up[s], down'[s])
      <3>1. ~overlapped[s] /\ edge[s].pending = 0 /\ edge[s].candidate = 0
        BY <2>6, <2>8 DEF Unsettled
      <3>2. fault[s] = "none" /\ AgreeInv(edge[s], host[s], up[s], down[s])
        BY <1>3, <3>1
      <3>3. x.pending = f.gen /\ x.kind = f.kind /\ f.gen > edge[s].active
        BY <2>1, <2>2, <2>3
      <3> QED BY <1>1, <2>1, <2>2, <2>3, <2>5, <2>7, <3>1, <3>2, <3>3, AgreeOffers
    <2> QED BY <2>1, <2>4, <2>5, <2>6, <2>8, OneAgrees
  <1>7. ASSUME NEW g \in Generations, OfferDelta(s, g) PROVE SettledInv'
    <2> DEFINE x == [edge[s] EXCEPT !.kind = "delta", !.pending = g]
               f == Frame("config", "delta", "none", g)
    <2>1. /\ edge' = [edge EXCEPT ![s] = x] /\ Attached(edge[s])
          /\ g = edge[s].active + 1 /\ edge[s].active # 0
          /\ edge[s].pending = 0 /\ edge[s].candidate = 0
          /\ ToHost(s, f) /\ UNCHANGED <<host, up, overlapped, fault>>
      BY <1>2, <1>7 DEF OfferDelta, EdgeActive, EdgeOpen, Attached, Unsettled
    <2>2. f \in Frames /\ f.type = "config" /\ f.kind = "delta" /\ f.gen = g
      <3>1. g \in Nat
        BY DEF Generations
      <3>2. f \in Frames
        BY <3>1, FramesWritten
      <3> QED BY <3>2 DEF Frame
    <2>3. /\ x.kind = "delta" /\ x.pending = g /\ x.active = edge[s].active
          /\ x.candidate = edge[s].candidate /\ x.state = edge[s].state
      BY <1>1 DEF Edges
    <2> HIDE DEF x, f
    <2>4. edge'[s] = x /\ \A t \in Sessions : t # s => edge'[t] = edge[t]
      BY <1>2, <2>1
    <2>5. /\ down'[s] = IF host[s].state = "closed" THEN down[s] ELSE Append(down[s], f)
          /\ \A t \in Sessions : t # s => down'[t] = down[t]
      BY <2>1, WritesFrame
    <2>6. Attached(x) /\ g > edge[s].active
      BY <1>1, <2>1, <2>3 DEF Attached
    <2>7. ASSUME ~overlapped[s] PROVE AgreeInv(x, host[s], up[s], down'[s])
      <3>1. AgreeInv(edge[s], host[s], up[s], down[s])
        BY <1>3, <2>7
      <3>2. /\ x.pending = f.gen /\ x.kind = f.kind /\ f.gen > edge[s].active
            /\ f.kind = "delta" /\ edge[s].active # 0 /\ f.gen = edge[s].active + 1
        BY <2>1, <2>2, <2>3, <2>6
      <3> QED BY <1>1, <2>1, <2>2, <2>3, <2>5, <2>6, <3>1, <3>2, AgreeOffers
    <2> QED BY <1>3, <2>1, <2>4, <2>5, <2>7, OneAgrees
  <1>8. CASE BeginDrain(s)
    <2> DEFINE x == [edge[s] EXCEPT !.drain = edge[s].active, !.drainStatus = "accepted",
                                    !.state = "draining"]
               f == Frame("drain", "none", "none", edge[s].active)
    <2>1. /\ edge' = [edge EXCEPT ![s] = x] /\ Attached(edge[s]) /\ edge[s].active # 0
          /\ ToHost(s, f) /\ UNCHANGED <<host, up, fault>>
          /\ overlapped' = [overlapped EXCEPT ![s] = @ \/ Unsettled(s)]
      BY <1>2, <1>8 DEF BeginDrain, EdgeActive, EdgeOpen, Attached
    <2>2. f \in Frames /\ f.type = "drain" /\ f.gen = edge[s].active
      BY <1>1, FramesWritten DEF Frame
    <2>3. SameEdge(edge[s], x) /\ x.state = "draining"
      BY <1>1 DEF Edges, SameEdge
    <2> HIDE DEF x, f
    <2>4. edge'[s] = x /\ \A t \in Sessions : t # s => edge'[t] = edge[t]
      BY <1>2, <2>1
    <2>5. /\ down'[s] = IF host[s].state = "closed" THEN down[s] ELSE Append(down[s], f)
          /\ \A t \in Sessions : t # s => down'[t] = down[t]
      BY <2>1, WritesFrame
    <2>6. /\ overlapped'[s] = (overlapped[s] \/ Unsettled(s))
          /\ \A t \in Sessions : t # s => overlapped'[t] = overlapped[t]
      BY <1>2, <2>1
    <2>7. Attached(x)
      BY <2>3 DEF Attached
    <2>8. ASSUME ~overlapped'[s]
          PROVE  fault[s] = "none" /\ AgreeInv(x, host[s], up[s], down'[s])
      <3>1. ~overlapped[s] /\ edge[s].pending = 0 /\ edge[s].candidate = 0
        BY <2>6, <2>8 DEF Unsettled
      <3>2. fault[s] = "none" /\ AgreeInv(edge[s], host[s], up[s], down[s])
        BY <1>3, <3>1
      <3> QED BY <1>1, <2>1, <2>2, <2>3, <2>5, <2>7, <3>1, <3>2, AgreeDrains
    <2> QED BY <2>1, <2>4, <2>5, <2>6, <2>8, OneAgrees
  <1>9. CASE EdgeReceives(s)
    BY <1>9, EdgeReceivesAgrees
  <1>10. CASE EdgeFenced(s) \/ EdgeExpires(s) \/ EdgeReadFails(s)
    <2>1. EdgeCloses(s) /\ UNCHANGED <<host, down, overlapped, fault>>
      BY <1>10 DEF EdgeFenced, EdgeExpires, EdgeReadFails
    <2>2. \A t \in Sessions : t # s => edge'[t] = edge[t] /\ up'[t] = up[t]
      BY <2>1, EdgeClosesFacts
    <2>3. ~overlapped[s] => AgreeInv(edge'[s], host'[s], up'[s], down'[s])
      BY <1>3, <2>1, ClosesAgrees
    <2> QED BY <1>3, <2>1, <2>2, <2>3, OneAgrees
  <1> QED BY <1>4, <1>5, <1>6, <1>7, <1>8, <1>9, <1>10 DEF EdgeNext

\* The loop of the host ends, after a frame or without one.
LEMMA EndsWith ==
    ASSUME ConnectorInv, NEW s \in Sessions, HostEnds(s)
    PROVE  /\ host'[s].state = "closed" /\ host'[s].active = host[s].active /\ Settled(host'[s])
           /\ down'[s] = <<>>
           /\ \A t \in Sessions : t # s => host'[t] = host[t] /\ down'[t] = down[t]
PROOF
  <1> DEFINE y == [HostInit EXCEPT !.state = "closed", !.active = host[s].active]
  <1>1. host' = [host EXCEPT ![s] = y] /\ down' = [down EXCEPT ![s] = <<>>]
    BY DEF HostEnds
  <1>2. y.state = "closed" /\ y.active = host[s].active /\ Settled(y)
    BY DEF HostInit, Settled
  <1> HIDE DEF y
  <1>3. host \in [Sessions -> Hosts] /\ down \in [Sessions -> Seq(Frames)]
    BY DEF ConnectorInv, TypeInv
  <1> QED BY <1>1, <1>2, <1>3

\* The loop of the host goes on after a frame.
LEMMA Proceeds ==
    ASSUME ConnectorInv, NEW s \in Sessions, NEW y, HostProceeds(s, y)
    PROVE  /\ host'[s] = y /\ down'[s] = Tail(down[s])
           /\ \A t \in Sessions : t # s => host'[t] = host[t] /\ down'[t] = down[t]
PROOF
  <1>1. host \in [Sessions -> Hosts] /\ down \in [Sessions -> Seq(Frames)]
    BY DEF ConnectorInv, TypeInv
  <1> QED BY <1>1 DEF HostProceeds

\* The host writes an answer to a drain.
LEMMA DrainAnswer ==
    ASSUME NEW g \in Nat, NEW x \in Statuses
    PROVE  Frame("drainAck", "none", x, g) \in Frames /\ Frame("drainAck", "none", x, g).type = "drainAck"
PROOF BY AnswersWritten DEF Frame, Kinds

\* The host reads a frame.
LEMMA HostReceivesAgrees ==
    ASSUME ConnectorInv, NEW s \in Sessions, HostReceives(s),
           AgreeInv(edge[s], host[s], up[s], down[s])
    PROVE  UNCHANGED fault /\ AgreeInv(edge'[s], host'[s], up'[s], down'[s])
PROOF
  <1> DEFINE f == Head(down[s])
             h == host[s]
             any == Frame("drainAck", "none", "accepted", 0)
  <1>1. /\ edge[s] \in Edges /\ h \in Hosts /\ up[s] \in Seq(Frames) /\ down[s] \in Seq(Frames)
        /\ down[s] # <<>> /\ h.state # "closed" /\ h.staging = 0 /\ UNCHANGED edge
    BY EdgeFields DEF HostReceives, InSelect
  <1>2. f \in Frames /\ f.gen \in Nat /\ f.kind \in Kinds
    <2>1. f \in Frames
      BY <1>1, Read
    <2> QED BY <2>1 DEF Frames
  <1>3. \/ f.type = "welcome" /\ AcceptWelcome(s)
        \/ f.type = "config" /\ ReceiveConfig(s, f)
        \/ f.type = "readyAck" /\ ReceiveReadyAck(s, f)
        \/ f.type = "heartbeatAck" /\ HostProceeds(s, host[s]) /\ UNCHANGED <<up, fault>>
        \/ f.type = "drain" /\ HandleDrain(s, f)
    BY DEF HostReceives
  <1>4. /\ edge[s].state \notin {"none", "reading"} /\ DownInv(h, down[s])
        /\ edge[s].state # "closed" =>
             Attached(edge[s]) /\ UpInv(edge[s], up[s]) /\ Between(edge[s], h, up[s], down[s])
    BY <1>1, Reached
  <1>5. /\ f.type = "config" =>
             /\ Settled(h) /\ f.gen > h.active
             /\ f.kind = "snapshot" \/ (f.kind = "delta" /\ h.active # 0 /\ f.gen = h.active + 1)
        /\ f.type \in {"readyAck", "drain"} => Settled(h) /\ h.active # 0 /\ f.gen = h.active
    BY <1>1, <1>4, DownHead
  <1>6. any \in Frames /\ any.type = "drainAck"
    BY DrainAnswer DEF Statuses
  <1>7. ASSUME NEW y, HostProceeds(s, y), SameHost(h, y), y.state # "closed", UNCHANGED up
        PROVE  AgreeInv(edge'[s], host'[s], up'[s], down'[s])
    <2>1. host'[s] = y /\ down'[s] = Tail(down[s])
      BY <1>7, Proceeds
    <2> HIDE DEF any, h, f
    <2>2. AgreeInv(edge[s], y, up[s], Tail(down[s]))
      BY <1>1, <1>6, <1>7, AgreeReadsDown DEF h
    <2> QED BY <1>1, <1>7, <2>1, <2>2
  <1>8. CASE f.type = "welcome" /\ AcceptWelcome(s)
    <2> DEFINE y == [h EXCEPT !.state = "awaiting_snapshot"]
    <2>1. HostProceeds(s, y) /\ UNCHANGED <<up, fault>>
      BY <1>8 DEF AcceptWelcome
    <2>2. SameHost(h, y) /\ y.state # "closed"
      BY <1>1 DEF Hosts, SameHost
    <2> HIDE DEF y
    <2> QED BY <1>7, <2>1, <2>2
  <1>9. CASE f.type = "config" /\ ReceiveConfig(s, f)
    <2> DEFINE y == [h EXCEPT !.staging = f.gen, !.kind = f.kind]
    <2>1. HostProceeds(s, y) /\ UNCHANGED <<up, fault>>
      <3> DEFINE current == IF h.candidate # 0 THEN h.candidate ELSE h.active
                 follows == IF f.kind = "snapshot" THEN f.gen > current
                            ELSE h.active # 0 /\ h.candidate = 0 /\ f.gen = h.active + 1
      <3>1. follows
        BY <1>5, <1>9 DEF Settled
      <3>2. ~(f.kind = "snapshot" /\ f.gen = current)
        <4>1. current = h.active /\ f.gen > h.active /\ h.active \in Nat
          BY <1>1, <1>5, <1>9 DEF Settled, Hosts
        <4> HIDE DEF f
        <4> QED BY <1>2, <4>1
      <3>3. ReceiveConfig(s, f)
        BY <1>9
      <3> HIDE DEF f
      <3> QED BY <3>1, <3>2, <3>3 DEF ReceiveConfig
    <2>2. /\ y.staging = f.gen /\ y.kind = f.kind /\ y.active = h.active
          /\ y.candidate = h.candidate /\ y.ready = h.ready /\ y.state = h.state
      BY <1>1 DEF Hosts
    <2>3. host'[s] = y /\ down'[s] = Tail(down[s])
      BY <2>1, Proceeds
    <2> HIDE DEF y
    <2>4. AgreeInv(edge[s], y, up[s], Tail(down[s]))
      BY <1>1, <1>9, <2>2, AgreeStages
    <2> QED BY <1>1, <2>1, <2>3, <2>4
  <1>10. CASE f.type = "readyAck" /\ ReceiveReadyAck(s, f)
    <2>1. HostProceeds(s, h) /\ UNCHANGED <<up, fault>>
      BY <1>5, <1>10 DEF ReceiveReadyAck
    <2> QED BY <1>1, <1>7, <2>1 DEF SameHost
  <1>11. CASE f.type = "heartbeatAck" /\ HostProceeds(s, host[s]) /\ UNCHANGED <<up, fault>>
    BY <1>1, <1>7, <1>11 DEF SameHost
  <1>12. CASE f.type = "drain" /\ HandleDrain(s, f)
    <2> DEFINE y == [h EXCEPT !.drain = f.gen, !.state = "draining"]
               a == Frame("drainAck", "none", "accepted", f.gen)
               r == Frame("drainAck", "none", "rejected", f.gen)
    <2>1. h.active # 0 /\ h.ready = h.active /\ f.gen = h.active
      BY <1>4, <1>5, <1>12 DEF DownInv, Settled
    <2>2. /\ UNCHANGED fault
          /\ \/ HostProceeds(s, y) /\ ToEdge(s, a)
             \/ HostEnds(s) /\ ToEdge(s, r)
      BY <1>12, <2>1 DEF HandleDrain
    <2>3. a \in Frames /\ a.type = "drainAck" /\ r \in Frames /\ r.type = "drainAck"
      BY <1>2, DrainAnswer DEF Statuses
    <2>4. SameHost(h, y) /\ y.state # "closed"
      BY <1>1 DEF Hosts, SameHost
    <2> HIDE DEF y, a, r, f, h, any
    <2>5. CASE HostProceeds(s, y) /\ ToEdge(s, a)
      <3>1. host'[s] = y /\ down'[s] = Tail(down[s])
        BY <2>5, Proceeds
      <3>2. Sent(edge[s], up[s], up'[s], a)
        BY <2>5, WritesFrame DEF Sent
      <3>3. AgreeInv(edge[s], y, up'[s], Tail(down[s]))
        BY <1>1, <2>3, <2>4, <3>2, AgreeReadsDown DEF h
      <3> QED BY <1>1, <2>2, <3>1, <3>3
    <2>6. CASE HostEnds(s) /\ ToEdge(s, r)
      <3>1. host'[s].state = "closed" /\ Settled(host'[s]) /\ down'[s] = <<>>
        BY <2>6, EndsWith
      <3>2. up'[s] = IF edge[s].state = "closed" THEN up[s] ELSE Append(up[s], r)
        BY <2>6, WritesFrame
      <3>3. edge[s].state # "closed" => UpInv(edge[s], Append(up[s], r))
        <4>1. edge[s].state # "closed" => NoRefusal(up[s]) /\ UpInv(edge[s], up[s])
          BY <1>4 DEF Between, NoRefusal
        <4> QED BY <1>1, <2>3, <4>1, UpWrite
      <3>4. up'[s] = up[s] \/ UpInv(edge[s], up'[s])
        BY <3>2, <3>3
      <3>5. AgreeInv(edge[s], host'[s], up'[s], <<>>)
        BY <1>4, <3>1, <3>4, AgreeEndsWith DEF h
      <3> QED BY <1>1, <2>2, <3>1, <3>5
    <2> QED BY <2>2, <2>5, <2>6
  <1> QED BY <1>3, <1>7, <1>8, <1>9, <1>10, <1>11, <1>12

\* What StageFails and Bind write.
LEMMA StagedAnswer ==
    ASSUME ConnectorInv, NEW s \in Sessions, NEW x \in Statuses
    PROVE  /\ Frame("ack", host[s].kind, x, host[s].staging) \in Frames
           /\ Frame("ack", host[s].kind, x, host[s].staging).type = "ack"
           /\ Frame("ack", host[s].kind, x, host[s].staging).kind = host[s].kind
           /\ Frame("ack", host[s].kind, x, host[s].staging).status = x
           /\ Frame("ack", host[s].kind, x, host[s].staging).gen = host[s].staging
PROOF
  <1>1. host[s].kind \in Kinds /\ host[s].staging \in Nat
    BY HostFields
  <1>2. Frame("ack", host[s].kind, x, host[s].staging) \in Frames
    BY <1>1, AnswersWritten
  <1> QED BY <1>2 DEF Frame


\* The applier fails: what was staged is refused and the loop ends.
LEMMA StageFailsAgrees ==
    ASSUME ConnectorInv, NEW s \in Sessions, host[s].staging # 0,
           Rejects(s, [kind |-> host[s].kind, gen |-> host[s].staging]), UNCHANGED edge,
           AgreeInv(edge[s], host[s], up[s], down[s])
    PROVE  AgreeInv(edge'[s], host'[s], up'[s], down'[s])
PROOF
  <1> DEFINE f == Frame("ack", host[s].kind, "rejected", host[s].staging)
  <1>1. HostEnds(s) /\ ToEdge(s, f)
    BY DEF Rejects
  <1>2. /\ f \in Frames /\ f.type = "ack" /\ f.kind = host[s].kind /\ f.gen = host[s].staging
    BY StagedAnswer DEF Statuses
  <1> HIDE DEF f
  <1>3. host[s].state # "closed" /\ up[s] \in Seq(Frames)
    BY EdgeFields DEF AgreeInv, Settled
  <1>4. host'[s].state = "closed" /\ Settled(host'[s]) /\ down'[s] = <<>>
    BY <1>1, EndsWith
  <1>5. Sent(edge[s], up[s], up'[s], f)
    BY <1>1, WritesFrame DEF Sent
  <1>6. /\ edge[s].state \notin {"none", "reading"}
        /\ edge[s].state # "closed" => UpInv(edge[s], up'[s])
    BY <1>2, <1>3, <1>5, AgreeAnswer
  <1>7. up'[s] = up[s] \/ UpInv(edge[s], up'[s])
    BY <1>5, <1>6 DEF Sent
  <1>8. AgreeInv(edge[s], host'[s], up'[s], <<>>)
    BY <1>4, <1>6, <1>7, AgreeEndsWith
  <1> QED BY <1>4, <1>8

\* The session adopts the candidate: it has no other one.
LEMMA BindAgrees ==
    ASSUME ConnectorInv, NEW s \in Sessions, Bind(s),
           AgreeInv(edge[s], host[s], up[s], down[s])
    PROVE  UNCHANGED fault /\ AgreeInv(edge'[s], host'[s], up'[s], down'[s])
PROOF
  <1> DEFINE h == host[s]
             g == host[s].staging
             y == [h EXCEPT !.staging = 0, !.candidate = g, !.ready = 0,
                            !.state = "awaiting_ready", !.waiting = g, !.result = 0]
             f == Frame("ack", host[s].kind, "applied", host[s].staging)
  <1>1. g # 0 /\ UNCHANGED edge
    BY DEF Bind
  <1>2. /\ h \in Hosts /\ up[s] \in Seq(Frames) /\ down[s] \in Seq(Frames)
        /\ host \in [Sessions -> Hosts]
    BY EdgeFields DEF ConnectorInv, TypeInv
  <1>3. h.state # "closed"
    BY <1>1 DEF AgreeInv, Settled
  <1>4. h.candidate = 0
    BY <1>1, <1>3 DEF AgreeInv, DownInv
  <1>5. host' = [host EXCEPT ![s] = y] /\ ToEdge(s, f) /\ UNCHANGED <<down, fault>>
    BY <1>2, <1>4 DEF Bind
  <1>6. /\ y.staging = 0 /\ y.candidate = g /\ y.active = h.active /\ y.state # "closed"
    BY <1>2 DEF Hosts
  <1>7. /\ f \in Frames /\ f.type = "ack" /\ f.kind = host[s].kind /\ f.gen = host[s].staging
        /\ f.status = "applied"
    BY StagedAnswer DEF Statuses
  <1> HIDE DEF y, f
  <1>8. host'[s] = y
    BY <1>2, <1>5
  <1>9. Sent(edge[s], up[s], up'[s], f)
    BY <1>5, WritesFrame DEF Sent
  <1>10. AgreeInv(edge[s], y, up'[s], down[s])
    BY <1>1, <1>2, <1>3, <1>6, <1>7, <1>9, AgreeBinds
  <1> QED BY <1>1, <1>5, <1>8, <1>10

\* The loop takes the result of its readiness worker.
LEMMA MarkReadyAgrees ==
    ASSUME ConnectorInv, NEW s \in Sessions, MarkReady(s),
           AgreeInv(edge[s], host[s], up[s], down[s])
    PROVE  AgreeInv(edge'[s], host'[s], up'[s], down'[s])
PROOF
  <1> DEFINE h == host[s]
             g == host[s].result
             y == [h EXCEPT !.active = g, !.candidate = 0, !.ready = g, !.state = "ready",
                            !.waiting = 0, !.result = 0]
             f == Frame("ready", "none", "none", g)
  <1>1. g # 0 /\ h.state # "closed" /\ h.staging = 0 /\ UNCHANGED edge
    BY DEF MarkReady, InSelect
  <1>2. /\ h \in Hosts /\ up[s] \in Seq(Frames) /\ down[s] \in Seq(Frames)
        /\ host \in [Sessions -> Hosts]
    BY EdgeFields DEF ConnectorInv, TypeInv
  <1>3. g = h.candidate /\ g \in Nat
    <2>1. HostInv(host[s], rollout[s]) /\ g \in Nat
      BY HostFields
    <2> QED BY <1>1, <2>1 DEF HostInv
  <1>4. \/ host' = [host EXCEPT ![s] = y] /\ ToEdge(s, f) /\ UNCHANGED down
        \/ HostEnds(s) /\ UNCHANGED up
    BY <1>2 DEF MarkReady
  <1>5. /\ y.staging = 0 /\ y.candidate = 0 /\ y.active = g /\ y.ready = g /\ y.state # "closed"
    BY <1>1, <1>2 DEF Hosts
  <1>6. f \in Frames /\ f.type = "ready" /\ f.gen = g
    <2>1. f \in Frames
      BY <1>3, AnswersWritten DEF Kinds, Statuses
    <2> QED BY <2>1 DEF Frame
  <1> HIDE DEF y, f
  <1>7. CASE host' = [host EXCEPT ![s] = y] /\ ToEdge(s, f) /\ UNCHANGED down
    <2>1. host'[s] = y
      BY <1>2, <1>7
    <2>2. Sent(edge[s], up[s], up'[s], f)
      BY <1>7, WritesFrame DEF Sent
    <2>3. AgreeInv(edge[s], y, up'[s], down[s])
      BY <1>1, <1>2, <1>3, <1>5, <1>6, <2>2, AgreeReady
    <2> QED BY <1>1, <1>7, <2>1, <2>3
  <1>8. CASE HostEnds(s) /\ UNCHANGED up
    <2>1. /\ host'[s].state = "closed" /\ host'[s].active = host[s].active /\ Settled(host'[s])
          /\ down'[s] = <<>>
      BY <1>8, EndsWith
    <2>2. AgreeInv(edge[s], host'[s], up[s], <<>>)
      BY <2>1, AgreeEnds
    <2> QED BY <1>1, <1>8, <2>1, <2>2
  <1> QED BY <1>4, <1>7, <1>8

\* The host sends a heartbeat.
LEMMA HeartbeatAgrees ==
    ASSUME ConnectorInv, NEW s \in Sessions, Heartbeat(s),
           AgreeInv(edge[s], host[s], up[s], down[s])
    PROVE  AgreeInv(edge'[s], host'[s], up'[s], down'[s])
PROOF
  <1> DEFINE g == currentCandidate(host[s])
             f == Frame("heartbeat", "none", "none", g)
  <1>1. /\ host[s].state # "closed" /\ host[s].staging = 0 /\ g # 0
        /\ ToEdge(s, f) /\ UNCHANGED <<edge, host, down>>
    BY DEF Heartbeat, InSelect
  <1>2. g \in Nat /\ up[s] \in Seq(Frames) /\ down[s] \in Seq(Frames)
    BY HostFields, EdgeFields DEF currentCandidate
  <1>3. f \in Frames /\ f.type = "heartbeat" /\ f.gen = g
    <2>1. f \in Frames
      BY <1>2, AnswersWritten DEF Kinds, Statuses
    <2> QED BY <2>1 DEF Frame
  <1> HIDE DEF f
  <1>4. Sent(edge[s], up[s], up'[s], f)
    BY <1>1, WritesFrame DEF Sent
  <1>5. AgreeInv(edge[s], host[s], up'[s], down[s])
    BY <1>1, <1>2, <1>3, <1>4, AgreeBeats
  <1> QED BY <1>1, <1>5

\* Where the readiness worker is does not matter to the agreement.
LEMMA WaitReadyAgrees ==
    ASSUME ConnectorInv, NEW s \in Sessions, WaitReady(s),
           AgreeInv(edge[s], host[s], up[s], down[s])
    PROVE  AgreeInv(edge'[s], host'[s], up'[s], down'[s])
PROOF
  <1> DEFINE y == [host[s] EXCEPT !.result = host[s].waiting]
  <1>1. host \in [Sessions -> Hosts] /\ host[s] \in Hosts
    BY EdgeFields DEF ConnectorInv, TypeInv
  <1>2. host' = [host EXCEPT ![s] = y] /\ UNCHANGED <<edge, up, down>>
    BY <1>1 DEF WaitReady
  <1>3. SameHost(host[s], y) /\ y.state = host[s].state
    BY <1>1 DEF Hosts, SameHost
  <1> HIDE DEF y
  <1>4. host'[s] = y
    BY <1>1, <1>2
  <1>5. /\ DownInv(host[s], down[s]) => DownInv(y, down[s])
        /\ Between(edge[s], host[s], up[s], down[s]) => Between(edge[s], y, up[s], down[s])
        /\ Settled(y) <=> Settled(host[s])
    BY <1>3, DownSame, BetweenSame DEF SameEdge, SameHost, Settled
  <1>6. Unattached(edge[s], host[s], up[s], down[s]) => Unattached(edge[s], y, up[s], down[s])
    BY <1>3, <1>5 DEF Unattached, SameHost
  <1>7. AgreeInv(edge[s], y, up[s], down[s])
    BY <1>3, <1>5, <1>6 DEF AgreeInv
  <1> QED BY <1>2, <1>4, <1>7

\* What a step of the host leaves alone.
LEMMA HostFrame ==
    ASSUME ConnectorInv, NEW s \in Sessions, HostNext(s)
    PROVE  Untouched(s) /\ UNCHANGED <<edge, overlapped>>
PROOF
  <1>1. UNCHANGED <<edge, overlapped>>
    BY DEF HostNext, HostReceives, Stage, StageFails, Bind, WaitReady, WaitReadyFails, MarkReady,
           Heartbeat, HostReadFails, HostStops
  <1>2. host \in [Sessions -> Hosts]
    BY DEF ConnectorInv, TypeInv
  <1>3. UNCHANGED up \/ \E f : ToEdge(s, f)
    BY DEF HostNext, HostReceives, Stage, StageFails, Bind, WaitReady, WaitReadyFails, MarkReady,
           Heartbeat, HostReadFails, HostStops, AcceptWelcome, ReceiveConfig, ReceiveReadyAck,
           HandleDrain, Rejects
  <1>4. UNCHANGED fault \/ \E f : Note(s, f)
    BY DEF HostNext, HostReceives, Stage, StageFails, Bind, WaitReady, WaitReadyFails, MarkReady,
           Heartbeat, HostReadFails, HostStops, AcceptWelcome, ReceiveConfig, ReceiveReadyAck,
           HandleDrain
  <1>5. \/ HostEnds(s)
        \/ \E y : HostProceeds(s, y)
        \/ UNCHANGED down /\ (UNCHANGED host \/ \E y : host' = [host EXCEPT ![s] = y])
    BY <1>2 DEF HostNext, HostReceives, Stage, StageFails, Bind, WaitReady, WaitReadyFails, MarkReady,
           Heartbeat, HostReadFails, HostStops, AcceptWelcome, ReceiveConfig, ReceiveReadyAck,
           HandleDrain, Rejects
  <1>6. \A t \in Sessions : t # s => host'[t] = host[t] /\ down'[t] = down[t]
    <2>1. ASSUME NEW y, host' = [host EXCEPT ![s] = y]
          PROVE  \A t \in Sessions : t # s => host'[t] = host[t]
      BY <1>2, <2>1
    <2> QED BY <1>5, <2>1, EndsWith, Proceeds
  <1> QED BY <1>1, <1>3, <1>4, <1>6, WritesFrame DEF Untouched

\* The steps of the host.
LEMMA HostAgrees ==
    ASSUME ConnectorInv, SettledInv, NEW s \in Sessions, HostNext(s)
    PROVE  SettledInv'
PROOF
  <1>1. Untouched(s) /\ UNCHANGED <<edge, overlapped>>
    BY HostFrame
  <1>2. ASSUME ~overlapped[s]
        PROVE  fault'[s] = "none" /\ AgreeInv(edge'[s], host'[s], up'[s], down'[s])
    <2>1. fault[s] = "none" /\ AgreeInv(edge[s], host[s], up[s], down[s])
      BY <1>2 DEF SettledInv
    <2>2. CASE HostReceives(s)
      BY <2>1, <2>2, HostReceivesAgrees
    <2>3. CASE Stage(s)
      BY <2>1, <2>3 DEF Stage
    <2>4. CASE StageFails(s)
      BY <2>1, <2>4, StageFailsAgrees DEF StageFails
    <2>5. CASE Bind(s)
      BY <2>1, <2>5, BindAgrees
    <2>6. CASE WaitReady(s)
      BY <2>1, <2>6, WaitReadyAgrees DEF WaitReady
    <2>7. CASE MarkReady(s)
      BY <2>1, <2>7, MarkReadyAgrees DEF MarkReady
    <2>8. CASE Heartbeat(s)
      BY <2>1, <2>8, HeartbeatAgrees DEF Heartbeat
    <2>9. CASE WaitReadyFails(s) \/ HostReadFails(s) \/ HostStops(s)
      <3>1. HostEnds(s) /\ UNCHANGED <<edge, up, fault>>
        BY <2>9 DEF WaitReadyFails, HostReadFails, HostStops
      <3>2. /\ host'[s].state = "closed" /\ host'[s].active = host[s].active
            /\ Settled(host'[s]) /\ down'[s] = <<>>
        BY <3>1, EndsWith
      <3>3. AgreeInv(edge[s], host'[s], up[s], <<>>)
        BY <2>1, <3>2, AgreeEnds
      <3> QED BY <2>1, <3>1, <3>2, <3>3
    <2> QED BY <2>2, <2>3, <2>4, <2>5, <2>6, <2>7, <2>8, <2>9 DEF HostNext
  <1> QED BY <1>1, <1>2, OneAgrees DEF Untouched

\* Every step keeps the agreement.
LEMMA SettledStep ==
    ASSUME ConnectorInv, SettledInv, [Next]_vars
    PROVE  SettledInv'
PROOF
  <1>1. CASE Next
    <2>1. PICK s \in Sessions : EdgeNext(s) \/ HostNext(s) \/ ManagerNext(s) \/ LinkFails(s)
      BY <1>1 DEF Next
    <2>2. ManagerNext(s) \/ LinkFails(s) => UNCHANGED <<edge, host, up, down, overlapped, fault>>
      BY DEF ManagerNext, LinkFails, StartApply, PromoteApplied, SwapActive, ApplyFails
    <2>3. UNCHANGED <<edge, host, up, down, overlapped, fault>> => SettledInv'
      BY DEF SettledInv
    <2> QED BY <2>1, <2>2, <2>3, EdgeAgrees, HostAgrees
  <1>2. CASE UNCHANGED vars
    BY <1>2 DEF vars, SettledInv
  <1> QED BY <1>1, <1>2

\* A session whose edge begins nothing before a cutover has settled meets no protocol
\* error: whatever is still on the wire, no acknowledgement, readiness, heartbeat, delta
\* or drain arrives for something else (HandleAck, HandleReadiness, HandleHeartbeat,
\* ApplyDelta, HandleDrain): SettledOffersAgree.
THEOREM OffersAgree ==
    Spec => []SettledOffersAgree
PROOF
  <1>1. Init => SettledInv
    BY SettledInit
  <1>2. ConnectorInv /\ SettledInv /\ [Next]_vars => SettledInv'
    BY SettledStep
  <1>3. SettledInv => SettledOffersAgree
    BY DEF SettledInv, SettledOffersAgree
  <1> QED BY <1>1, <1>2, <1>3, ConnectorInvariance, PTL DEF Spec
=============================================================================
