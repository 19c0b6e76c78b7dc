-------------------------- MODULE ConnectorSession --------------------------
(***************************************************************************)
(* The connector-v1 control protocol: how the edge hands configurations to *)
(* a host and learns that they are served.                                 *)
(*                                                                         *)
(*   edge      ServerSession and SessionRegistry (connectorprotocol)       *)
(*   host      ControlSession.Serve around a ClientSession                 *)
(*   rollout   the host's durable state and its tunnel manager, which turn *)
(*             a staged configuration into a running carrier               *)
(*                                                                         *)
(* A session is named by the process generation of its hello: a host       *)
(* process has one control session and a state root of its own             *)
(* (bootstrap_source.go), and a new process presents a higher generation.  *)
(* One connector of one tunnel; a configuration is its generation, 0 is    *)
(* none, and a generation has one content.  Time is left out: a lease, a   *)
(* heartbeat deadline or a credential may expire at any moment.            *)
(***************************************************************************)
EXTENDS Naturals, Sequences

CONSTANTS
    MaxSession,         \* bound: process generations that connect
    MaxGeneration,      \* bound: generations of the configuration
    MaxEvents,          \* bound: connections, offers, drains and failures together
    MaxHeartbeats       \* bound: heartbeats and their answers on a wire

ASSUME BoundsAssumption ==
    /\ MaxSession \in Nat \ {0}
    /\ MaxGeneration \in Nat \ {0}
    /\ MaxEvents \in Nat
    /\ MaxHeartbeats \in Nat

Sessions == 1..MaxSession
Generations == 1..MaxGeneration

VARIABLES
    desired,    \* the generation the edge's snapshot source returned last
    registry,   \* SessionRegistry.current of the connector, 0 for none
    edge,       \* the ServerSession of each session
    host,       \* the ClientSession and the Serve loop of each session
    rollout,    \* the host's store and tunnel manager in each process
    up, down,   \* frames on the carrier, host to edge and edge to host
    link,       \* whether the carrier of a session works
    events,     \* how many of the bounded events have happened
    overlapped, \* history: the edge began something before a cutover settled
    fault       \* history: the first protocol error of a session

vars == <<desired, registry, edge, host, rollout, up, down, link, events, overlapped, fault>>

Frame(type, kind, status, gen) ==
    [type |-> type, kind |-> kind, status |-> status, gen |-> gen]

EdgeInit ==
    [state |-> "none", kind |-> "none", pending |-> 0, active |-> 0, candidate |-> 0,
     ready |-> 0, needs |-> FALSE, drain |-> 0, drainStatus |-> "none"]

HostInit ==
    [state |-> "new", active |-> 0, candidate |-> 0, ready |-> 0, staging |-> 0,
     kind |-> "none", waiting |-> 0, result |-> 0, drain |-> 0]

RolloutInit ==
    [desired |-> 0, applied |-> 0, binding |-> 0, carrier |-> 0, want |-> 0,
     step |-> "idle"]

Init ==
    /\ desired = 1
    /\ registry = 0
    /\ edge = [s \in Sessions |-> EdgeInit]
    /\ host = [s \in Sessions |-> HostInit]
    /\ rollout = [s \in Sessions |-> RolloutInit]
    /\ up = [s \in Sessions |-> <<>>]
    /\ down = [s \in Sessions |-> <<>>]
    /\ link = [s \in Sessions |-> TRUE]
    /\ events = 0
    /\ overlapped = [s \in Sessions |-> FALSE]
    /\ fault = [s \in Sessions |-> "none"]

-----------------------------------------------------------------------------
(* The edge.                                                               *)

(* A frame written to a peer that has stopped reading goes nowhere.        *)
ToHost(s, f) ==
    down' = [down EXCEPT ![s] = IF host[s].state = "closed" THEN @ ELSE Append(@, f)]

EdgeOpen(s) == edge[s].state \notin {"none", "reading", "closed"}

(* What ensureActiveLocked asks for, apart from the clocks.                *)
EdgeActive(s) == EdgeOpen(s) /\ registry = s

Note(s, f) == fault' = [fault EXCEPT ![s] = IF @ = "none" THEN f ELSE @]

(* What the surroundings do: a process connects, the edge's owner offers   *)
(* or drains, something fails.                                             *)
Event == events < MaxEvents /\ events' = events + 1

(* A process whose session is over at both ends is not followed further.   *)
Followed(s) == edge[s].state # "closed" \/ host[s].state # "closed"

(* Mutant: whoever is attached is removed.                                 *)
Disconnect_Any(s) == 0

Disconnect(s) == IF registry = s THEN 0 ELSE registry

(* closeLocked, and the edge's transport with it: nothing is read any more *)
(* and nothing of a closed session is used again, so it is forgotten.      *)
EdgeCloses(s) ==
    /\ edge' = [edge EXCEPT ![s] = [EdgeInit EXCEPT !.state = "closed"]]
    /\ registry' = Disconnect(s)
    /\ up' = [up EXCEPT ![s] = <<>>]

(* A handler that returns an error leaves the session in e.  The read loop *)
(* around it is not in this repository: it may close the session or go on. *)
EdgeRefuses(s, e) ==
    \/ EdgeCloses(s)
    \/ /\ edge' = [edge EXCEPT ![s] = e]
       /\ up' = [up EXCEPT ![s] = Tail(@)]
       /\ UNCHANGED registry

EdgeProceeds(s, e) ==
    /\ edge' = [edge EXCEPT ![s] = e]
    /\ up' = [up EXCEPT ![s] = Tail(@)]
    /\ UNCHANGED registry

restoreState(e) ==
    IF e.active # 0 /\ e.ready = e.active /\ ~e.needs THEN "ready" ELSE "awaiting_snapshot"

(* A read of the snapshot source: the configuration may have moved on      *)
(* since the last one (bound: by one).                                     *)
Reads(g) ==
    /\ g \in {desired, desired + 1}
    /\ desired' = g

(* Accept reads the snapshot before it attaches the session.               *)
AcceptReads(s, g) ==
    /\ Event
    /\ Reads(g)
    /\ edge[s].state = "none"
    /\ host[s].state = "new"
    /\ edge' = [edge EXCEPT ![s].state = "reading", ![s].kind = "snapshot",
                            ![s].pending = g]
    /\ UNCHANGED <<registry, host, rollout, up, down, link, overlapped, fault>>

(* Attach admits only a higher process generation than the current one.    *)
AcceptAttaches(s) ==
    /\ edge[s].state = "reading"
    /\ IF s > registry
         THEN /\ registry' = s
              /\ edge' = [edge EXCEPT ![s].state = "awaiting_snapshot"]
              /\ down' = [down EXCEPT ![s] =
                           IF host[s].state = "closed" THEN @
                           ELSE @ \o <<Frame("welcome", "none", "none", 0),
                                       Frame("config", "snapshot", "none", edge[s].pending)>>]
         ELSE /\ edge' = [edge EXCEPT ![s] = [EdgeInit EXCEPT !.state = "closed"]]
              /\ UNCHANGED <<registry, down>>
    /\ UNCHANGED <<desired, host, rollout, up, link, events, overlapped, fault>>

Unsettled(s) == edge[s].pending # 0 \/ edge[s].candidate # 0

OfferSnapshot(s, g) ==
    /\ Event
    /\ EdgeActive(s)
    /\ Reads(g)
    /\ g > edge[s].active
    /\ g # edge[s].candidate
    /\ edge[s].kind = "snapshot" => g # edge[s].pending
    /\ edge' = [edge EXCEPT ![s].kind = "snapshot", ![s].pending = g,
                            ![s].state = IF edge[s].active = 0 THEN "awaiting_snapshot" ELSE @]
    /\ ToHost(s, Frame("config", "snapshot", "none", g))
    /\ overlapped' = [overlapped EXCEPT ![s] = @ \/ Unsettled(s)]
    /\ UNCHANGED <<registry, host, rollout, up, link, fault>>

(* A delta follows the active generation and nothing else is under way.    *)
OfferDelta(s, g) ==
    /\ Event
    /\ EdgeActive(s)
    /\ Reads(g)
    /\ edge[s].active # 0 /\ edge[s].ready = edge[s].active /\ ~edge[s].needs
    /\ ~Unsettled(s)
    /\ g = edge[s].active + 1
    /\ edge' = [edge EXCEPT ![s].kind = "delta", ![s].pending = g]
    /\ ToHost(s, Frame("config", "delta", "none", g))
    /\ UNCHANGED <<registry, host, rollout, up, link, overlapped, fault>>

BeginDrain(s) ==
    /\ Event
    /\ EdgeActive(s)
    /\ edge[s].drain = 0
    /\ edge[s].active # 0 /\ ~edge[s].needs
    /\ edge[s].ready = edge[s].active /\ edge[s].state = "ready"
    /\ edge' = [edge EXCEPT ![s].drain = edge[s].active, ![s].drainStatus = "accepted",
                            ![s].state = "draining"]
    /\ ToHost(s, Frame("drain", "none", "none", edge[s].active))
    /\ overlapped' = [overlapped EXCEPT ![s] = @ \/ Unsettled(s)]
    /\ UNCHANGED <<desired, registry, host, rollout, up, link, fault>>

(* An acknowledgement of what is pending makes it the candidate, a         *)
(* negative one withdraws it and is an error; so is any other one, unless  *)
(* it repeats what is known and nothing is pending.                        *)
HandleAck(s, f) ==
    LET e == edge[s]
        settled == [e EXCEPT !.pending = 0, !.kind = "none"]
        withdrawn == [settled EXCEPT !.needs = TRUE]
        staged == [settled EXCEPT !.candidate = f.gen,
                     !.needs = IF e.kind = "snapshot" THEN FALSE ELSE @,
                     !.state = IF e.active # 0 /\ e.ready = e.active THEN @
                               ELSE "awaiting_ready"]
        addressed == e.pending # 0 /\ f.kind = e.kind /\ f.gen = e.pending
        positive == f.status \in {"applied", "duplicate"}
        known == /\ e.pending = 0 /\ f.status = "duplicate"
                 /\ f.gen = IF e.candidate # 0 THEN e.candidate ELSE e.active
    IN CASE addressed /\ positive -> EdgeProceeds(s, staged) /\ UNCHANGED fault
         [] addressed /\ ~positive ->
              /\ EdgeRefuses(s, [withdrawn EXCEPT !.state = restoreState(withdrawn)])
              /\ UNCHANGED fault
         [] known -> EdgeProceeds(s, e) /\ UNCHANGED fault
         [] OTHER -> EdgeRefuses(s, e) /\ Note(s, "ack")

(* Readiness promotes the candidate it names; the answer is an ack.        *)
HandleReadiness(s, f) ==
    LET e == edge[s]
        named == IF e.candidate # 0 THEN e.candidate ELSE e.active
    IN IF named # 0 /\ f.gen = named
         THEN /\ EdgeProceeds(s, [e EXCEPT !.active = f.gen, !.candidate = 0,
                                           !.needs = FALSE, !.ready = f.gen,
                                           !.state = "ready"])
              /\ ToHost(s, Frame("readyAck", "none", "applied", f.gen))
              /\ UNCHANGED fault
         ELSE /\ EdgeRefuses(s, e)
              /\ Note(s, "readiness")
              /\ UNCHANGED down

(* A heartbeat must name the active generation or, before there is one,    *)
(* the candidate or the pending snapshot; otherwise readiness is withdrawn.*)
HandleHeartbeat(s, f) ==
    LET e == edge[s]
        expected == IF e.active # 0 THEN e.active
                    ELSE IF e.candidate # 0 THEN e.candidate
                    ELSE IF e.kind = "snapshot" THEN e.pending ELSE 0
    IN IF expected # 0 /\ f.gen = expected
         THEN /\ EdgeProceeds(s, e)
              /\ ToHost(s, Frame("heartbeatAck", "none", "none", 0))
              /\ UNCHANGED fault
         ELSE /\ EdgeRefuses(s, IF e.active = 0 THEN e
                                ELSE [e EXCEPT !.needs = TRUE, !.ready = 0,
                                               !.state = "awaiting_snapshot"])
              /\ Note(s, "heartbeat")
              /\ UNCHANGED down

HandleDrainAck(s, f) ==
    LET e == edge[s]
        answered == [e EXCEPT !.drainStatus = f.status]
    IN IF f.status = "accepted"
         THEN EdgeProceeds(s, answered)
         ELSE EdgeRefuses(s, [answered EXCEPT !.state = restoreState(e)])

(* The edge reads one frame and handles it in a session that is current.   *)
EdgeReceives(s) ==
    /\ EdgeActive(s)
    /\ up[s] # <<>>
    /\ LET f == Head(up[s])
       IN \/ f.type = "ack" /\ HandleAck(s, f) /\ UNCHANGED down
          \/ f.type = "ready" /\ HandleReadiness(s, f)
          \/ f.type = "heartbeat" /\ HandleHeartbeat(s, f)
          \/ f.type = "drainAck" /\ HandleDrainAck(s, f) /\ UNCHANGED <<down, fault>>
    /\ UNCHANGED <<desired, host, rollout, link, events, overlapped>>

(* Any call on a session that was replaced closes it.                      *)
EdgeFenced(s) ==
    /\ EdgeOpen(s)
    /\ registry # s
    /\ EdgeCloses(s)
    /\ UNCHANGED <<desired, host, rollout, down, link, events, overlapped, fault>>

(* The lease, the credential or the heartbeat deadline has passed.         *)
EdgeExpires(s) ==
    /\ Event
    /\ EdgeOpen(s)
    /\ EdgeCloses(s)
    /\ UNCHANGED <<desired, host, rollout, down, link, overlapped, fault>>

(* The read loop sees the carrier end and closes the session.              *)
EdgeReadFails(s) ==
    /\ EdgeOpen(s)
    /\ ~link[s] \/ host[s].state = "closed"
    /\ EdgeCloses(s)
    /\ UNCHANGED <<desired, host, rollout, down, link, events, overlapped, fault>>

-----------------------------------------------------------------------------
(* The host: one loop reads, writes and takes the readiness result.        *)

ToEdge(s, f) ==
    up' = [up EXCEPT ![s] = IF edge[s].state = "closed" THEN @ ELSE Append(@, f)]

(* The loop is in its select, not inside a handler.                        *)
InSelect(s) == host[s].state # "closed" /\ host[s].staging = 0

(* Serve returns: the carrier is closed and the readiness worker cancelled.*)
HostEnds(s) ==
    /\ host' = [host EXCEPT ![s] = [HostInit EXCEPT !.state = "closed",
                                                    !.active = host[s].active]]
    /\ down' = [down EXCEPT ![s] = <<>>]

HostProceeds(s, h) ==
    /\ host' = [host EXCEPT ![s] = h]
    /\ down' = [down EXCEPT ![s] = Tail(@)]

Rejects(s, f) ==
    /\ HostEnds(s)
    /\ ToEdge(s, Frame("ack", f.kind, "rejected", f.gen))

AcceptWelcome(s) ==
    /\ HostProceeds(s, [host[s] EXCEPT !.state = "awaiting_snapshot"])
    /\ UNCHANGED <<up, fault>>

(* ApplySnapshot and ApplyDelta up to the call of the applier, which runs  *)
(* without the session's lock but inside the loop's handler.  What does    *)
(* not follow is refused, and the error ends the loop after the answer; a  *)
(* snapshot that is already there is acknowledged as a duplicate.          *)
ReceiveConfig(s, f) ==
    LET h == host[s]
        current == IF h.candidate # 0 THEN h.candidate ELSE h.active
        follows == IF f.kind = "snapshot" THEN f.gen > current
                   ELSE h.active # 0 /\ h.candidate = 0 /\ f.gen = h.active + 1
        gap == f.kind = "delta" /\ (h.active = 0 \/ h.candidate # 0 \/ f.gen > h.active)
    IN CASE follows ->
              /\ HostProceeds(s, [h EXCEPT !.staging = f.gen, !.kind = f.kind])
              /\ UNCHANGED <<up, fault>>
         [] f.kind = "snapshot" /\ f.gen = current ->
              /\ HostProceeds(s, h)
              /\ ToEdge(s, Frame("ack", "snapshot", "duplicate", f.gen))
              /\ UNCHANGED fault
         [] OTHER ->
              /\ HostEnds(s)
              /\ ToEdge(s, Frame("ack", f.kind, IF gap THEN "snapshot_required" ELSE "rejected",
                                 f.gen))
              /\ Note(s, "config")

(* The answer to Ready must name the generation that is active by now.     *)
ReceiveReadyAck(s, f) ==
    IF f.gen = host[s].active
      THEN HostProceeds(s, host[s]) /\ UNCHANGED <<up, fault>>
      ELSE HostEnds(s) /\ Note(s, "readyAck") /\ UNCHANGED up

(* A drain must name the ready generation; StopNewStreams may fail when    *)
(* the manager has no carrier.                                             *)
HandleDrain(s, f) ==
    LET h == host[s]
        acceptable == h.active # 0 /\ h.ready = h.active /\ f.gen = h.active
    IN \/ /\ acceptable
          /\ HostProceeds(s, [h EXCEPT !.drain = f.gen, !.state = "draining"])
          /\ ToEdge(s, Frame("drainAck", "none", "accepted", f.gen))
          /\ UNCHANGED fault
       \/ /\ HostEnds(s)
          /\ ToEdge(s, Frame("drainAck", "none", "rejected", f.gen))
          /\ IF acceptable THEN UNCHANGED fault ELSE Note(s, "drain")

HostReceives(s) ==
    /\ InSelect(s)
    /\ down[s] # <<>>
    /\ LET f == Head(down[s])
       IN \/ f.type = "welcome" /\ AcceptWelcome(s)
          \/ f.type = "config" /\ ReceiveConfig(s, f)
          \/ f.type = "readyAck" /\ ReceiveReadyAck(s, f)
          \/ f.type = "heartbeatAck" /\ HostProceeds(s, host[s]) /\ UNCHANGED <<up, fault>>
          \/ f.type = "drain" /\ HandleDrain(s, f)
    /\ UNCHANGED <<desired, registry, edge, rollout, link, events, overlapped>>

(* The applier commits the configuration as desired in the store.          *)
Stage(s) ==
    /\ host[s].staging # 0
    /\ rollout[s].desired < host[s].staging
    /\ host[s].kind = "delta" => rollout[s].applied + 1 = host[s].staging
    /\ rollout' = [rollout EXCEPT ![s].desired = host[s].staging]
    /\ UNCHANGED <<desired, registry, edge, host, up, down, link, events, overlapped, fault>>

(* The applier fails: a read, a compare-and-set, a validation, or the      *)
(* apply timeout, which may pass after the commit.                         *)
StageFails(s) ==
    /\ Event
    /\ host[s].staging # 0
    /\ Rejects(s, [kind |-> host[s].kind, gen |-> host[s].staging])
    /\ UNCHANGED <<desired, registry, edge, rollout, link, overlapped, fault>>

(* The applier binds the manager to the session, then the session adopts   *)
(* the candidate, unless it still has one: that refuses the newer one,     *)
(* which stays desired in the store.                                       *)
Bind(s) ==
    LET g == host[s].staging
    IN /\ g # 0
       /\ rollout[s].desired = g
       /\ rollout' = [rollout EXCEPT ![s].binding = g]
       /\ IF host[s].candidate # 0
            THEN /\ Rejects(s, [kind |-> host[s].kind, gen |-> g])
                 /\ Note(s, "overlap")
            ELSE /\ host' = [host EXCEPT ![s].staging = 0, ![s].candidate = g,
                                         ![s].ready = 0, ![s].state = "awaiting_ready",
                                         ![s].waiting = g, ![s].result = 0]
                 /\ ToEdge(s, Frame("ack", host[s].kind, "applied", g))
                 /\ UNCHANGED <<down, fault>>
       /\ UNCHANGED <<desired, registry, edge, link, events, overlapped>>

(* Mutant: only the store is asked.                                        *)
WaitReady_Stored(s) ==
    /\ host[s].waiting # 0 /\ host[s].result = 0
    /\ rollout[s].desired = host[s].waiting
    /\ rollout[s].applied = host[s].waiting
    /\ host' = [host EXCEPT ![s].result = host[s].waiting]
    /\ UNCHANGED <<desired, registry, edge, rollout, up, down, link, events, overlapped, fault>>

(* The readiness worker: the carrier that runs and the durable last known  *)
(* good are both the generation it waits for, and nothing newer is desired.*)
WaitReady(s) ==
    /\ host[s].waiting # 0 /\ host[s].result = 0
    /\ rollout[s].desired = host[s].waiting
    /\ rollout[s].carrier = host[s].waiting
    /\ rollout[s].applied = host[s].waiting
    /\ host' = [host EXCEPT ![s].result = host[s].waiting]
    /\ UNCHANGED <<desired, registry, edge, rollout, up, down, link, events, overlapped, fault>>

(* WaitReady gave up: the store failed or wants something newer.           *)
WaitReadyFails(s) ==
    /\ Event
    /\ InSelect(s)
    /\ host[s].waiting # 0 /\ host[s].result = 0
    /\ HostEnds(s)
    /\ UNCHANGED <<desired, registry, edge, rollout, up, link, overlapped, fault>>

(* The loop takes the result: Activate asks the store again, the candidate *)
(* becomes active and Ready is written before anything else.               *)
MarkReady(s) ==
    LET g == host[s].result
    IN /\ InSelect(s)
       /\ g # 0
       /\ IF rollout[s].applied = g /\ rollout[s].desired = g
            THEN /\ host' = [host EXCEPT ![s].active = g, ![s].candidate = 0, ![s].ready = g,
                                         ![s].state = "ready", ![s].waiting = 0,
                                         ![s].result = 0]
                 /\ ToEdge(s, Frame("ready", "none", "none", g))
                 /\ UNCHANGED down
            ELSE HostEnds(s) /\ UNCHANGED up
       /\ UNCHANGED <<desired, registry, edge, rollout, link, events, overlapped, fault>>

HeartbeatsOnWire(s) ==
    Len(SelectSeq(up[s], LAMBDA f : f.type = "heartbeat"))
      + Len(SelectSeq(down[s], LAMBDA f : f.type = "heartbeatAck"))

(* Mutant: the newest configuration is named.                              *)
currentCandidate_Newest(h) == IF h.candidate # 0 THEN h.candidate ELSE h.active

currentCandidate(h) == IF h.active # 0 THEN h.active ELSE h.candidate

Heartbeat(s) ==
    /\ InSelect(s)
    /\ host[s].state # "new"
    /\ currentCandidate(host[s]) # 0
    /\ HeartbeatsOnWire(s) < MaxHeartbeats
    /\ edge[s].state # "closed"
    /\ ToEdge(s, Frame("heartbeat", "none", "none", currentCandidate(host[s])))
    /\ UNCHANGED <<desired, registry, edge, host, rollout, down, link, events, overlapped, fault>>

(* The carrier ended, or the edge closed it; frames in flight may be lost. *)
HostReadFails(s) ==
    /\ InSelect(s)
    /\ ~link[s] \/ edge[s].state = "closed"
    /\ HostEnds(s)
    /\ UNCHANGED <<desired, registry, edge, rollout, up, link, events, overlapped, fault>>

(* The host's own clocks, or the end of the process.                       *)
HostStops(s) ==
    /\ Event
    /\ host[s].state # "closed"
    /\ HostEnds(s)
    /\ UNCHANGED <<desired, registry, edge, rollout, up, link, overlapped, fault>>

LinkFails(s) ==
    /\ Event
    /\ link[s]
    /\ Followed(s)
    /\ link' = [link EXCEPT ![s] = FALSE]
    /\ UNCHANGED <<desired, registry, edge, host, rollout, up, down, overlapped, fault>>

-----------------------------------------------------------------------------
(* The tunnel manager: prepare a carrier, promote, publish.                *)

(* reconcileTunnel finds a desired generation that does not run yet.  (One *)
(* that runs for another session does not occur: a process has one.)       *)
StartApply(s) ==
    LET r == rollout[s]
    IN /\ r.step = "idle"
       /\ Followed(s)
       /\ r.desired # 0
       /\ r.carrier # r.desired
       /\ rollout' = [rollout EXCEPT ![s].want = r.desired, ![s].step = "prepared"]
       /\ UNCHANGED <<desired, registry, edge, host, up, down, link, events, overlapped, fault>>

(* Mutant: an apply that came before its binding is not tried again.       *)
PromoteApplied_Once(s) ==
    LET r == rollout[s]
        matches == r.binding = 0 \/ r.binding = r.want
    IN /\ r.step = "prepared"
       /\ rollout' = [rollout EXCEPT ![s] =
                       IF matches /\ r.desired = r.want
                         THEN [r EXCEPT !.applied = r.want, !.step = "promoted"]
                         ELSE [r EXCEPT !.step = "failed"]]
       /\ UNCHANGED <<desired, registry, edge, host, up, down, link, events, overlapped, fault>>

(* Activate, and promote: the carrier must match the recorded binding, and *)
(* the store must still desire what was prepared.                          *)
PromoteApplied(s) ==
    LET r == rollout[s]
        matches == r.binding = 0 \/ r.binding = r.want
    IN /\ r.step = "prepared"
       /\ rollout' = [rollout EXCEPT ![s] =
                       IF matches /\ r.desired = r.want
                         THEN [r EXCEPT !.applied = r.want, !.step = "promoted"]
                         ELSE [r EXCEPT !.want = 0, !.step = "idle"]]
       /\ UNCHANGED <<desired, registry, edge, host, up, down, link, events, overlapped, fault>>

(* swapActiveIfRunning publishes the carrier; the old one is drained.      *)
SwapActive(s) ==
    /\ rollout[s].step = "promoted"
    /\ rollout' = [rollout EXCEPT ![s].carrier = rollout[s].want, ![s].want = 0,
                                  ![s].step = "idle"]
    /\ UNCHANGED <<desired, registry, edge, host, up, down, link, events, overlapped, fault>>

(* Prepare, a probe of the origins or Activate fails; the next round       *)
(* tries again.                                                            *)
ApplyFails(s) ==
    /\ Event
    /\ rollout[s].step = "prepared"
    /\ rollout' = [rollout EXCEPT ![s].want = 0, ![s].step = "idle"]
    /\ UNCHANGED <<desired, registry, edge, host, up, down, link, overlapped, fault>>

-----------------------------------------------------------------------------
EdgeNext(s) ==
    \/ \E g \in Generations : AcceptReads(s, g) \/ OfferSnapshot(s, g) \/ OfferDelta(s, g)
    \/ AcceptAttaches(s)
    \/ BeginDrain(s)
    \/ EdgeReceives(s)
    \/ EdgeFenced(s)
    \/ EdgeExpires(s)
    \/ EdgeReadFails(s)

HostNext(s) ==
    \/ HostReceives(s)
    \/ Stage(s)
    \/ StageFails(s)
    \/ Bind(s)
    \/ WaitReady(s)
    \/ WaitReadyFails(s)
    \/ MarkReady(s)
    \/ Heartbeat(s)
    \/ HostReadFails(s)
    \/ HostStops(s)

ManagerNext(s) ==
    \/ StartApply(s)
    \/ PromoteApplied(s)
    \/ SwapActive(s)
    \/ ApplyFails(s)

Next ==
    \E s \in Sessions : EdgeNext(s) \/ HostNext(s) \/ ManagerNext(s) \/ LinkFails(s)

Spec == Init /\ [][Next]_vars

(* Each goroutine that can go on does: the edge's read loop, the host's    *)
(* loop, whose select takes a waiting result in the end, the readiness     *)
(* worker and the manager.  Nothing obliges an edge to offer, a link to    *)
(* last or a lease to expire.                                              *)
Fairness ==
    \A s \in Sessions :
        /\ WF_vars(AcceptAttaches(s) \/ EdgeReceives(s) \/ EdgeFenced(s) \/ EdgeReadFails(s))
        /\ WF_vars(HostReceives(s) \/ Stage(s) \/ Bind(s) \/ HostReadFails(s))
        /\ WF_vars(MarkReady(s))
        /\ WF_vars(WaitReady(s))
        /\ WF_vars(StartApply(s) \/ PromoteApplied(s) \/ SwapActive(s))

FairSpec == Spec /\ Fairness

-----------------------------------------------------------------------------
(* What the edge serves is what the host runs: a generation the edge has   *)
(* made active in a session is durable as the last known good of that      *)
(* host's store and is published as its carrier, or a later one is; the    *)
(* edge never runs ahead of the host (HandleReadiness, WaitReady,          *)
(* MarkReadyContext, promote).                                             *)
ServedIsApplied ==
    \A s \in Sessions :
        /\ edge[s].active <= host[s].active
        /\ edge[s].active <= rollout[s].applied
        /\ edge[s].active <= rollout[s].carrier

(* A session whose edge offers one configuration at a time, and drains     *)
(* between cutovers, meets no protocol error: no heartbeat names a         *)
(* generation the edge does not expect, no readiness or acknowledgement    *)
(* arrives for something else, no delta finds a gap, whatever else is on   *)
(* the wire (HandleHeartbeat, HandleReadiness, HandleAck, ApplyDelta,      *)
(* HandleDrain, Serve's single writer).                                    *)
SettledOffersAgree ==
    \A s \in Sessions : fault[s] # "none" => overlapped[s]

(* A replaced session is fenced: it promotes nothing, and its end never    *)
(* takes a newer session out of the registry (ensureActiveLocked,          *)
(* SessionRegistry.Attach and Disconnect).                                 *)
StaleSessionsAreFenced ==
    [][ /\ \A s \in Sessions : edge'[s].active > edge[s].active => registry = s
        /\ registry' # registry =>
             \/ registry' > registry
             \/ edge'[registry].state = "closed" /\ edge[registry].state # "closed" ]_vars

(* In a session that meets no protocol error every configuration the edge  *)
(* offers is settled: it becomes active, or is refused, or the session     *)
(* ends; no session waits for ever between an offer and its readiness      *)
(* (HandleAck, WaitReady, MarkReadyContext).  After an error that the      *)
(* edge's read loop passes over, a snapshot acknowledged as a duplicate    *)
(* can stay a candidate: the host has reported it ready already.           *)
OffersSettle ==
    \A s \in Sessions : []<>(EdgeOpen(s) /\ fault[s] = "none" => ~Unsettled(s))
=============================================================================
