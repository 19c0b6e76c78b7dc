--------------------------- MODULE ConnectionPool ---------------------------
(***************************************************************************)
(* The pool of peer carriers of one traffic class (connectionmanager.Pool) *)
(* with the race that feeds it (Racer, automatic mode).  One carrier is    *)
(* selected for new leases; a standby and a secondary wait behind it; one  *)
(* that lost its role while leased drains.  Every operation holds Pool.mu, *)
(* so the state is one record and an operation a function on such records; *)
(* what runs without the lock, a race, the carriers that finish after its  *)
(* winner, the opening of a standby and the health exchanges, is state too.*)
(*                                                                         *)
(* The interactive class as the command line configures it: the pool is    *)
(* closed when idle, and nobody calls Warm or Replace, so there are no     *)
(* warm holds.  A carrier that is closed and not leased can stand for the  *)
(* next one opened on its path.                                            *)
(***************************************************************************)
EXTENDS Integers, FiniteSets, FiniteSetsExt

CONSTANTS
    Connections,   \* the carriers that can exist at a time, as numbers
    PathOf(_),     \* the path of each: "direct", "relay" or "wss"
    Apps,          \* the applications, each with at most one lease
    None,
    MaxGeneration  \* bound: attempts, promotions, losses and network changes

Paths == {"direct", "relay", "wss"}

ASSUME PoolAssumption ==
    /\ Connections \subseteq Nat
    /\ \A c \in Connections : PathOf(c) \in Paths
    /\ None \notin Connections \cup Apps
    /\ MaxGeneration \in Nat

VARIABLES
    pool,   \* Pool.classes[interactive] and its entries, a record
    left    \* history: a race opened a carrier whose result nobody reads

vars == <<pool, left>>

Slot == Connections \cup {None}

\* A connection attempt: its paths still racing, its winner until the pool adopts
\* it, and who waits for it (None: startRecoveryLocked).
NoAttempt == [on |-> FALSE, app |-> None, running |-> {}, winner |-> None]
\* The rest of a race after its winner (standbyFuture, awaitWarmFallback).
NoFuture == [on |-> FALSE, running |-> {}]
\* The opening of a WSS carrier behind a relay (standbyReplenishment).
NoReplenishment == [state |-> "none", generation |-> 0, behind |-> None]
\* managedConnection, and StateTrusted of its connection.
Closed == [state |-> "closed", generation |-> 0, health |-> "off", trusted |-> FALSE]

\* Every part of the pool has its type, and a carrier that left the pool has no
\* monitor.
TypeOK ==
    /\ {pool.selected, pool.standby, pool.secondary, pool.draining, pool.announced} \subseteq Slot
    /\ pool.generation \in 0..MaxGeneration
    /\ pool.attempt \in [on : BOOLEAN, app : Apps \cup {None}, running : SUBSET Paths, winner : Slot]
    /\ pool.future \in [on : BOOLEAN, running : SUBSET Paths]
    /\ pool.replenishment \in [state : {"none", "opening", "retry"},
                               generation : 0..MaxGeneration, behind : Slot]
    /\ pool.lease \in [Apps -> Slot]
    /\ pool.entry \in [Connections ->
         [state : {"closed", "offered", "open"}, generation : 0..MaxGeneration,
          health : {"off", "on", "rebind"}, trusted : BOOLEAN]]
    /\ \A c \in Connections : pool.entry[c].state # "open" => pool.entry[c].health = "off"
    /\ pool.publishing \subseteq Connections
    /\ pool.closed \in BOOLEAN
    /\ left \in BOOLEAN

Init ==
    /\ left = FALSE
    /\ pool = [selected |-> None, standby |-> None, secondary |-> None, draining |-> None,
               generation |-> 0, attempt |-> NoAttempt, future |-> NoFuture,
               replenishment |-> NoReplenishment, lease |-> [a \in Apps |-> None],
               entry |-> [c \in Connections |-> Closed],
               announced |-> None, publishing |-> {}, closed |-> FALSE]

-----------------------------------------------------------------------------
(* Entries and roles; S is a state of the pool. *)

Open(S, c) == c # None /\ S.entry[c].state = "open"
Trusted(S, c) == S.entry[c].trusted
Roles(S) == {S.selected, S.standby, S.secondary} \ {None}
Leased(S, c) == \E a \in Apps : S.lease[a] = c
Owned(S, c) == c \in Roles(S) \/ Leased(S, c)

\* classLeasesLocked counts the leases of the carriers that have a place.
InUse(S) == \E a \in Apps : S.lease[a] \in Roles(S) \cup ({S.draining} \ {None})

CloseEntry(S, c) == IF Open(S, c) THEN [S EXCEPT !.entry[c] = Closed] ELSE S

CloseIfUnowned(S, c) == IF c = None \/ Owned(S, c) THEN S ELSE CloseEntry(S, c)

CloseUnowned(S, cs) == [S EXCEPT !.entry = [c \in Connections |->
                          IF c \in cs /\ Open(S, c) /\ ~Owned(S, c) THEN Closed ELSE @[c]]]

\* A carrier that never became an entry.
Reject(S, c) == IF c = None THEN S ELSE [S EXCEPT !.entry[c] = Closed]

\* startHealthLocked of some carriers: the entries afterwards.
Monitored(S, cs) ==
    [c \in Connections |->
        IF c \in cs /\ Open(S, c) /\ InUse(S)
          THEN [S.entry[c] EXCEPT !.health = IF @ = "off" THEN "on" ELSE @]
          ELSE S.entry[c]]

StopHealth(S, c) == IF c = None THEN S ELSE [S EXCEPT !.entry[c].health = "off"]

\* A new connection on a path.
Fresh(S, path) ==
    {c \in Connections : /\ PathOf(c) = path /\ S.entry[c] = Closed
                         /\ ~Leased(S, c) /\ c # S.draining /\ c \notin S.publishing}

Opened(S, c) == [S EXCEPT !.entry[c] = [state |-> "open", generation |-> S.generation,
                                        health |-> "off", trusted |-> TRUE]]

-----------------------------------------------------------------------------
(* Availability and redundancy. *)

\* publishAvailabilityLocked: which carrier the streams are told is selected.  Before
\* any news it is the one that the last race selected.
Announced(S) == IF Open(S, S.selected) /\ Trusted(S, S.selected) THEN S.selected ELSE S.announced

HasWSSFallback(S) ==
    \E c \in {S.standby, S.secondary} : Open(S, c) /\ PathOf(c) = "wss" /\ Trusted(S, c)

\* A relay in use with nothing behind it on the TCP path.
Exposed(S) ==
    /\ Open(S, S.selected) /\ PathOf(S.selected) = "relay"
    /\ ~HasWSSFallback(S) /\ InUse(S)

\* ensureStandbyReplenishmentLocked.
Replenishment(S) ==
    IF ~S.closed /\ S.replenishment.state = "none" /\ ~S.future.on /\ Exposed(S)
      THEN [state |-> "opening", generation |-> S.generation, behind |-> S.selected]
      ELSE S.replenishment

EnsureReplenishment(S) == [S EXCEPT !.replenishment = Replenishment(S)]

\* Monitors and the opening of a fallback, and with them the news for the streams.
Watch(S, cs) == [S EXCEPT !.entry = Monitored(S, cs), !.replenishment = Replenishment(S)]

Settle(S, cs) == [Watch(S, cs) EXCEPT !.announced = Announced(S)]

\* adoptStandbyLocked of a trusted carrier of the current generation.
AdoptStandby(S, c) ==
    LET T == Opened(S, c)
        U == CASE S.standby = None -> [T EXCEPT !.standby = c]
               [] S.standby # None /\ PathOf(S.standby) = "relay" /\ PathOf(c) = "wss"
                    /\ S.secondary = None -> [T EXCEPT !.secondary = c]
               [] OTHER -> CloseEntry(T, c)
    IN Settle(U, {U.standby, U.secondary})

-----------------------------------------------------------------------------
(* Loss of a carrier (failHealthLocked). *)

\* A carrier that can take over from one of generation g.
Ready(S, c, g) == Open(S, c) /\ S.entry[c].generation = g /\ Trusted(S, c)

FailStandby(S, c) ==
    LET next == IF Ready(S, S.secondary, S.entry[c].generation) THEN S.secondary ELSE None
        T == [S EXCEPT !.standby = next, !.secondary = IF next = None THEN @ ELSE None]
    IN Settle(CloseIfUnowned(T, c), {next})

FailSecondary(S, c) == EnsureReplenishment(CloseIfUnowned([S EXCEPT !.secondary = None], c))

\* The standby takes over; the carrier drains while it is leased.
FailOver(S, c) ==
    LET up == IF Ready(S, S.secondary, S.entry[c].generation) THEN S.secondary ELSE None
        T == [S EXCEPT !.selected = S.standby, !.standby = up,
                       !.secondary = IF up = None THEN @ ELSE None,
                       !.draining = IF Leased(S, c) THEN c ELSE @]
    IN Settle(CloseIfUnowned(T, c), {T.selected})

\* Mutant: the failed carrier is closed under its applications.
LoseSelected_Hard(S, c) ==
    LET T == [S EXCEPT !.selected = None, !.standby = None, !.secondary = None,
                       !.generation = @ + 1]
    IN CloseEntry(CloseUnowned(T, {S.standby, S.secondary}), c)

\* Nothing can take over: the generation ends.
LoseSelected(S, c) ==
    LET T == [S EXCEPT !.selected = None, !.standby = None, !.secondary = None,
                       !.draining = IF Leased(S, c) /\ @ = None THEN c ELSE @,
                       !.generation = @ + 1]
    IN CloseUnowned(T, {c, S.standby, S.secondary})

FailDraining(S, c) == CloseIfUnowned([S EXCEPT !.draining = None], c)

FailHealth(S, c) ==
    CASE c = S.selected -> IF Ready(S, S.standby, S.entry[c].generation)
                             THEN FailOver(S, c) ELSE LoseSelected(S, c)
      [] c # S.selected /\ c = S.standby -> FailStandby(S, c)
      [] c \notin {S.selected, S.standby} /\ c = S.secondary -> FailSecondary(S, c)
      [] c \notin Roles(S) /\ c = S.draining -> FailDraining(S, c)
      [] OTHER -> CloseIfUnowned(S, c)

\* startRecoveryLocked: a new race without the path that failed.
StartRecovery(S, excluded) ==
    IF S.closed \/ S.attempt.on \/ S.selected # None THEN S
    ELSE [S EXCEPT !.generation = @ + 1,
                   !.attempt = [NoAttempt EXCEPT !.on = TRUE, !.running = Paths \ {excluded}]]

\* Mutant: an unused pool keeps its carriers.
Idle_Never(S, c) == S

\* scheduleIdleLocked with CloseWhenIdle.
Idle(S, c) ==
    IF ~Open(S, c) \/ InUse(S) \/ S.selected # c THEN S
    ELSE CloseUnowned([S EXCEPT !.selected = None, !.standby = None, !.secondary = None],
                      {c, S.standby, S.secondary})

\* cancelConnectLocked: what the race still brings is refused and closed.
CancelConnect(S) == [Reject(S, S.attempt.winner) EXCEPT !.attempt = NoAttempt]

CancelReplenishment(S) == [S EXCEPT !.replenishment = NoReplenishment]

CancelWarm(S) == [CancelReplenishment(S) EXCEPT !.future = NoFuture]

-----------------------------------------------------------------------------
(* The operations. *)

Becomes(S) == \E T \in {S} : T.generation <= MaxGeneration /\ pool' = T

Set(S) == Becomes(S) /\ UNCHANGED left

\* Nobody reads the results of the paths that still race.  What they open stays
\* open; `some' says whether there can be such a carrier.
Leave(S, some) == Becomes(S) /\ left' \in {left, left \/ some}

\* Whether a race that is cancelled can leave a carrier: its winner, the first to
\* come up even then, is closed, the others are not.
Strays(S) == Cardinality(S.attempt.running) > IF S.attempt.winner = None THEN 1 ELSE 0

\* leaseLocked: the first lease of a carrier starts the monitors.
Lease(S, a, c) ==
    LET T == [S EXCEPT !.lease[a] = c]
    IN IF Leased(S, c) THEN T
       ELSE [T EXCEPT !.entry = Monitored(T, {c, T.standby, T.secondary}),
                      !.replenishment = Replenishment(T)]

Acquire(a) ==
    /\ ~pool.closed /\ pool.lease[a] = None /\ pool.attempt.app # a
    /\ Open(pool, pool.selected)
    /\ Set(Lease(pool, a, pool.selected))

\* Acquire without a selected carrier starts a race, unless one is under way; then
\* it waits and acquires after it.
Connect(a) ==
    /\ ~pool.closed /\ pool.lease[a] = None
    /\ ~Open(pool, pool.selected) /\ ~pool.attempt.on
    /\ Set([pool EXCEPT !.generation = @ + 1,
                        !.attempt = [on |-> TRUE, app |-> a, running |-> Paths, winner |-> None]])

\* The first path that comes up wins.
CandidateWins(path) ==
    /\ path \in pool.attempt.running /\ pool.attempt.winner = None
    /\ Fresh(pool, path) # {}
    /\ LET c == Min(Fresh(pool, path))
       IN Set([pool EXCEPT !.entry[c].state = "offered", !.entry[c].trusted = TRUE,
                           !.attempt.running = @ \ {path}, !.attempt.winner = c])

CandidateFails(path) ==
    /\ path \in pool.attempt.running /\ pool.attempt.winner = None
    /\ Set([pool EXCEPT !.attempt.running = @ \ {path}])

\* The attempt of Acquire selects the winner and leases it; that of
\* startRecoveryLocked selects it, and closes it again if nobody needs it.
AttemptDone ==
    /\ pool.attempt.winner # None
    /\ LET c == pool.attempt.winner
           a == pool.attempt.app
           trusted == Trusted(pool, c)
           T == [Opened(pool, c) EXCEPT !.attempt = NoAttempt, !.selected = c,
                    !.entry[c].trusted = trusted, !.announced = c,
                    !.future = [on |-> TRUE, running |-> pool.attempt.running]]
       IN Set(IF a # None THEN Lease(T, a, c) ELSE Idle(T, c))

AttemptFailed ==
    /\ pool.attempt.on /\ pool.attempt.winner = None /\ pool.attempt.running = {}
    /\ Set([pool EXCEPT !.attempt = NoAttempt])

\* promotePathOwned after its checks: carrier c takes over, generation g.  The lock is
\* released before the streams are told.  (A carrier that drains is leased, so there
\* is none to clean up first.)
Promote(S, c, g) ==
    LET old == {S.selected, S.standby, S.secondary} \ {None}
        relay == PathOf(S.selected) = "relay"
        rebind(e) == [e EXCEPT !.generation = g, !.health = IF @ = "on" THEN "rebind" ELSE @]
        T == [S EXCEPT !.generation = g,
                       !.entry = [d \in Connections |-> IF d \in old THEN rebind(@[d]) ELSE @[d]],
                       !.standby = S.selected,
                       !.secondary = IF relay THEN S.standby ELSE None,
                       !.draining = IF Leased(S, S.selected) THEN S.selected ELSE @,
                       !.selected = c]
        U == CloseUnowned(Opened(T, c), {S.standby, S.secondary})
    IN Watch([U EXCEPT !.publishing = @ \cup {c}], {c, U.standby, U.secondary})

Better(path, over) == (path = "direct" /\ over # "direct") \/ (path = "relay" /\ over = "wss")

MayPromote(S, path) ==
    /\ ~S.closed /\ ~S.attempt.on /\ Open(S, S.selected) /\ InUse(S)
    /\ Better(path, PathOf(S.selected))

\* Mutant: the carrier may have been replaced since.
Publish_Unchecked(c) ==
    /\ c \in pool.publishing
    /\ Set([pool EXCEPT !.publishing = @ \ {c}, !.announced = c])

\* promotePathOwned takes the lock again: the streams are told if the carrier is
\* still selected.
Publish(c) ==
    /\ c \in pool.publishing
    /\ LET S == [pool EXCEPT !.publishing = @ \ {c}]
       IN Set(IF S.selected = c THEN [S EXCEPT !.announced = Announced(S)] ELSE S)

\* PromoteDirect and PromoteRelayQUIC, with a carrier the probes opened.
PromoteProbe(path) ==
    /\ MayPromote(pool, path) /\ Fresh(pool, path) # {}
    /\ Set(Promote(pool, Min(Fresh(pool, path)), pool.generation + 1))

\* adoptStandbyFutureLocked: a late carrier is promoted, kept as a fallback, or closed.
FutureWins(path) ==
    /\ path \in pool.future.running /\ Fresh(pool, path) # {}
    /\ LET c == Min(Fresh(pool, path))
           S == [pool EXCEPT !.future.running = @ \ {path}]
           over == PathOf(S.selected)
       IN Set(CASE S.selected # None /\ Better(path, over) ->
                     IF MayPromote(S, path) THEN Promote(S, c, S.generation) ELSE S
                [] S.selected # None /\ Better(over, path) -> AdoptStandby(S, c)
                [] OTHER -> S)

FutureFails(path) ==
    /\ path \in pool.future.running
    /\ Set([pool EXCEPT !.future.running = @ \ {path}])

\* A failure that allows no fallback ends the race, whoever still runs, and closes
\* the selected carrier.
FutureDenied(path) ==
    /\ path \in pool.future.running
    /\ Leave([CloseEntry(pool, pool.selected) EXCEPT !.selected = None, !.future.running = {}],
             pool.future.running # {path})

\* All results are in, or the time of the race is over or its context cancelled.
FutureEnd ==
    /\ pool.future.on
    /\ Leave(EnsureReplenishment([pool EXCEPT !.future = NoFuture]), pool.future.running # {})

ReplenishOpened ==
    /\ pool.replenishment.state = "opening" /\ Fresh(pool, "wss") # {}
    /\ LET S == CancelReplenishment(pool)
           r == pool.replenishment
       IN Set(IF /\ S.generation = r.generation /\ S.selected = r.behind /\ Open(S, r.behind)
                 /\ ~HasWSSFallback(S)
                THEN AdoptStandby(S, Min(Fresh(S, "wss"))) ELSE S)

\* Mutant: a failed opening is not tried again.
ReplenishFailed_Forgets ==
    /\ pool.replenishment.state = "opening"
    /\ Set(CancelReplenishment(pool))

ReplenishFailed ==
    /\ pool.replenishment.state = "opening"
    /\ LET r == pool.replenishment
       IN Set(IF pool.generation = r.generation /\ pool.selected = r.behind /\ Exposed(pool)
                THEN [pool EXCEPT !.replenishment.state = "retry"]
                ELSE CancelReplenishment(pool))

ReplenishRetry ==
    /\ pool.replenishment.state = "retry"
    /\ Set(EnsureReplenishment(CancelReplenishment(pool)))

\* A carrier stops being trusted; nobody is told.
Break(c) ==
    /\ pool.entry[c].trusted
    /\ Set([pool EXCEPT !.entry[c].trusted = FALSE])

\* A monitor ends with an error; a suspect path starts a recovery.
HealthFails(c, suspect) ==
    /\ pool.entry[c].health = "on"
    /\ LET S == StopHealth(pool, c)
           T == FailHealth(S, c)
       IN Set(CASE pool.closed -> S
                [] ~pool.closed /\ suspect /\ pool.selected = c -> StartRecovery(T, PathOf(c))
                [] OTHER -> T)

\* A monitor asked to rebind ends, and a new one starts.
Rebound(c) ==
    /\ pool.entry[c].health = "rebind"
    /\ LET S == StopHealth(pool, c)
       IN Set(IF ~pool.closed /\ Owned(S, c) THEN [S EXCEPT !.entry = Monitored(S, {c})] ELSE S)

\* The application saw its carrier fail.
Retire(c) ==
    /\ ~pool.closed /\ Leased(pool, c) /\ pool.selected = c /\ Open(pool, c)
    /\ Set(FailHealth(pool, c))

Release(a) ==
    /\ pool.lease[a] # None
    /\ LET c == pool.lease[a]
           S == [pool EXCEPT !.lease[a] = None]
           T == IF InUse(S) THEN S ELSE CancelReplenishment(S)
           U == IF T.selected = c THEN StopHealth(T, c) ELSE T
           V == CloseIfUnowned([U EXCEPT !.draining = IF @ = c THEN None ELSE @], c)
       IN Set(IF Leased(S, c) THEN S ELSE Idle(V, V.selected))

-----------------------------------------------------------------------------
(* Changes of the network and the end. *)

\* preferWSSStandbyLocked.
PreferWSS(S) ==
    LET wss(c) == Open(S, c) /\ PathOf(c) = "wss" /\ Trusted(S, c)
    IN IF wss(S.standby) \/ ~wss(S.secondary) THEN S
       ELSE CloseUnowned([S EXCEPT !.standby = S.secondary, !.secondary = None], {S.standby})

\* NetworkChanged gives up a carrier over UDP: a recovery starts if nothing took over
\* and the class is in use; of a relay this was asked before.
GiveUp(S) ==
    LET T == FailHealth(S, S.selected)
    IN IF T.selected = None /\ (PathOf(S.selected) = "relay" \/ InUse(T))
         THEN StartRecovery(T, PathOf(S.selected)) ELSE T

NetworkChanged ==
    /\ ~pool.closed
    /\ LET S == CancelConnect(pool)
           on == IF S.selected = None THEN "none" ELSE PathOf(S.selected)
           changed == on = "direct" \/ (on = "relay" /\ (HasWSSFallback(S) \/ InUse(S)))
           T == CASE on = "direct" ->
                       LET U == GiveUp(S)
                       IN IF U.generation = S.generation THEN [U EXCEPT !.generation = @ + 1] ELSE U
                  [] on = "relay" /\ HasWSSFallback(S) -> FailHealth(PreferWSS(S), S.selected)
                  [] on = "relay" /\ ~HasWSSFallback(S) /\ InUse(S) -> GiveUp(S)
                  [] OTHER -> [S EXCEPT !.generation = @ + 1]
           restart == /\ T.selected # None /\ PathOf(T.selected) # "direct"
                      /\ InUse(T) /\ Leased(T, T.selected)
           V == IF restart THEN [T EXCEPT !.entry = Monitored(StopHealth(T, T.selected), {T.selected})]
                ELSE T
       IN Leave(IF changed THEN Idle(V, V.selected) ELSE V, Strays(pool))

\* What Invalidate and Close have in common.
Drop(S) ==
    LET T == CancelWarm(CancelConnect(S))
        gone == {S.selected, S.standby, S.secondary, S.draining}
    IN [T EXCEPT !.generation = @ + 1,
                 !.entry = [c \in Connections |->
                              IF c \in gone /\ Open(S, c) THEN Closed ELSE @[c]],
                 !.selected = None, !.standby = None, !.secondary = None, !.draining = None]

Abandoned(S) == Strays(S) \/ S.future.running # {}

Invalidate == ~pool.closed /\ Leave(Drop(pool), Abandoned(pool))

Close == ~pool.closed /\ Leave([Drop(pool) EXCEPT !.closed = TRUE], Abandoned(pool))

-----------------------------------------------------------------------------

Next ==
    \/ \E a \in Apps : Acquire(a) \/ Connect(a) \/ Release(a)
    \/ \E path \in Paths :
         \/ CandidateWins(path) \/ CandidateFails(path) \/ PromoteProbe(path)
         \/ FutureWins(path) \/ FutureFails(path) \/ FutureDenied(path)
    \/ AttemptDone \/ AttemptFailed \/ FutureEnd
    \/ ReplenishOpened \/ ReplenishFailed \/ ReplenishRetry
    \/ \E c \in Connections :
         \/ Break(c) \/ Rebound(c) \/ Retire(c) \/ Publish(c)
         \/ \E suspect \in BOOLEAN : HealthFails(c, suspect)
    \/ NetworkChanged \/ Invalidate \/ Close

Spec == Init /\ [][Next]_vars

\* Openings have deadlines and the retry a timer; an opening that is tried again and
\* again succeeds at last.
LiveSpec ==
    /\ Spec
    /\ WF_vars(ReplenishOpened \/ ReplenishFailed) /\ WF_vars(ReplenishRetry)
    /\ SF_vars(ReplenishOpened)

-----------------------------------------------------------------------------

\* No carrier that the pool was handed is forgotten: one that is open has a role, a
\* lease or is about to be adopted, whatever races, promotions, failures and releases
\* came before; one that drains is leased; and without a lease nothing stays selected
\* (CloseWhenIdle).  (A carrier that a race opens after its results are no longer read
\* never gets to the pool, and nobody closes it: `left'.)
OpenIsOwned ==
    /\ \A c \in Connections :
         /\ Open(pool, c) => Owned(pool, c)
         /\ pool.entry[c].state = "offered" => pool.attempt.winner = c
    /\ pool.draining # None => Leased(pool, pool.draining)
    /\ pool.selected # None => \E a \in Apps : pool.lease[a] # None

\* A carrier with leases is closed only when the pool is invalidated or closed, or
\* when a late path is denied: not by a failure, a promotion or a network change.
LeaseKeepsCarrier ==
    [][(\E a \in Apps : /\ Open(pool, pool.lease[a]) /\ pool'.lease[a] = pool.lease[a]
                        /\ ~Open(pool', pool.lease[a]))
       => Invalidate \/ Close \/ \E path \in Paths : FutureDenied(path)]_vars

\* The attached streams are told which carrier took over, or are about to be, also
\* when carriers are promoted, fail and are promoted again between a promotion and
\* its announcement: the last news is about the carrier that is selected, never about
\* one that has been replaced.  (It is no news when a race selects a carrier: who asked
\* for it gets it with its lease, and a recovery tells nobody.)
TakeoverIsAnnounced ==
    Open(pool, pool.selected) /\ Trusted(pool, pool.selected) =>
        pool.selected \in {pool.announced} \cup pool.publishing

\* While a carrier is being opened behind a relay that has nothing behind it, the relay
\* gets its fallback, loses its place or is no longer used, unless a promotion or a
\* network change starts a new generation (and the model has a carrier left to open).
FallbackRestored ==
    LET waiting(c, g) == /\ pool.selected = c /\ pool.generation = g
                         /\ Exposed(pool) /\ pool.standby = None
                         /\ Fresh(pool, "wss") # {}
        opening(g) == pool.replenishment.state # "none" /\ pool.replenishment.generation = g
    IN \A c \in {d \in Connections : PathOf(d) = "relay"}, g \in 1..MaxGeneration :
         (waiting(c, g) /\ opening(g)) ~> ~waiting(c, g)
=============================================================================
