----------------------- MODULE ConnectionPoolProofs -----------------------
(***************************************************************************)
(* The safety properties of the connection pool for every set of carriers  *)
(* and applications and every number of generations: no carrier it was     *)
(* handed is forgotten (OpenIsOwned), none is closed under a lease         *)
(* (LeaseKeepsCarrier), and takeovers are announced (TakeoverIsAnnounced). *)
(*                                                                         *)
(* The operations of the pool are functions on its states, one applied to  *)
(* the result of another, so the lemmas are about any state S: what each   *)
(* function leaves, from a state in which the carriers of a set X may have *)
(* lost their owner and are about to be closed.                            *)
(***************************************************************************)
EXTENDS ConnectionPool, NaturalOrder

Entries == [state : {"closed", "offered", "open"}, generation : Nat,
            health : {"off", "on", "rebind"}, trusted : BOOLEAN]

Attempts == [on : BOOLEAN, app : Apps \cup {None}, running : SUBSET Paths, winner : Slot]

Futures == [on : BOOLEAN, running : SUBSET Paths]

Replenishments == [state : {"none", "opening", "retry"}, generation : Nat, behind : Slot]

\* The states of the pool; the bound on the generation is the model's.
Pools == [selected : Slot, standby : Slot, secondary : Slot, draining : Slot,
          generation : Nat, attempt : Attempts, future : Futures,
          replenishment : Replenishments, lease : [Apps -> Slot],
          entry : [Connections -> Entries], announced : Slot,
          publishing : SUBSET Connections, closed : BOOLEAN]

\* A carrier with a place is open and has one place.
RolesOpen(S) == \A c \in Roles(S) : Open(S, c)
RolesApart(S) ==
    /\ S.selected # None => S.selected \notin {S.standby, S.secondary}
    /\ S.standby # None => S.standby # S.secondary

\* The carriers of X may have lost their owner.
OwnedBut(S, X) == \A c \in Connections : Open(S, c) => Owned(S, c) \/ c \in X

\* A race goes on only while nothing is selected; its winner is the one carrier that
\* is offered, and who waits for it has no lease.
RaceInv(S) ==
    /\ \A c \in Connections : S.entry[c].state = "offered" <=> S.attempt.winner = c
    /\ S.attempt.winner # None \/ S.attempt.running # {} => S.attempt.on
    /\ S.attempt.on => S.selected = None
    /\ S.attempt.app # None => S.attempt.on /\ S.lease[S.attempt.app] = None

Drains(S) == S.draining # None => Leased(S, S.draining)

\* Only open carriers are monitored, and nothing is of a later generation.
EntryInv(S) ==
    /\ \A c \in Connections :
         /\ S.entry[c].state # "open" => S.entry[c].health = "off"
         /\ S.entry[c].generation <= S.generation
    /\ S.replenishment.generation <= S.generation

Loose(S, X) ==
    /\ S \in Pools
    /\ RolesOpen(S) /\ RolesApart(S) /\ OwnedBut(S, X)
    /\ RaceInv(S) /\ Drains(S) /\ EntryInv(S)

\* Without a lease nothing is selected.
Used(S) == S.selected # None => \E a \in Apps : S.lease[a] # None

\* The last news, or the next, is about the carrier that is selected.
Current(S) ==
    S.selected # None /\ Trusted(S, S.selected) => S.selected \in {S.announced} \cup S.publishing

PoolInv ==
    /\ Loose(pool, {}) /\ Used(pool) /\ Current(pool)
    /\ pool.generation <= MaxGeneration /\ left \in BOOLEAN

\* The state of a carrier that is leased before and after a step.
Keeps(S, T) == \A a \in Apps : Open(S, S.lease[a]) /\ T.lease[a] = S.lease[a] => Open(T, S.lease[a])

\* Who takes over is announced, or is about to be.
Told(S, T) == Current(S) => Current(T)

\* T differs from S in its entries only.
SameButEntries(S, T) ==
    /\ T.selected = S.selected /\ T.standby = S.standby /\ T.secondary = S.secondary
    /\ T.draining = S.draining /\ T.generation = S.generation /\ T.attempt = S.attempt
    /\ T.future = S.future /\ T.replenishment = S.replenishment /\ T.lease = S.lease
    /\ T.announced = S.announced /\ T.publishing = S.publishing /\ T.closed = S.closed

\* T has the places, the leases, the race and the open carriers of S.
Like(S, T) ==
    /\ T \in Pools
    /\ T.selected = S.selected /\ T.standby = S.standby /\ T.secondary = S.secondary
    /\ T.draining = S.draining /\ T.attempt = S.attempt /\ T.lease = S.lease
    /\ T.generation >= S.generation
    /\ T.announced \in {S.announced, S.selected} /\ T.publishing = S.publishing
    /\ \A c \in Connections :
         /\ T.entry[c].state = S.entry[c].state
         /\ T.entry[c].trusted => S.entry[c].trusted
         /\ T.entry[c].state # "open" => T.entry[c].health = "off"
         /\ T.entry[c].generation <= T.generation
    /\ T.replenishment.generation <= T.generation

-----------------------------------------------------------------------------
(* The functions on entries. *)

LEMMA Slots ==
    /\ None \notin Connections /\ None \notin Apps
    /\ \A c \in Slot : c # None => c \in Connections
    /\ \A c \in Connections : c \in Slot /\ c # None
    /\ None \in Slot
PROOF BY PoolAssumption DEF Slot

LEMMA ClosedEntry ==
    /\ Closed \in Entries /\ Closed.state = "closed" /\ Closed.health = "off"
    /\ Closed.generation = 0
PROOF BY DEF Closed, Entries

\* What a change of the entries leaves.
LEMMA NewEntries ==
    ASSUME NEW S \in Pools, NEW f \in [Connections -> Entries]
    PROVE  /\ [S EXCEPT !.entry = f] \in Pools
           /\ SameButEntries(S, [S EXCEPT !.entry = f])
           /\ [S EXCEPT !.entry = f].entry = f
PROOF BY DEF Pools, SameButEntries

LEMMA CloseEntryFacts ==
    ASSUME NEW S \in Pools, NEW c \in Slot
    PROVE  /\ CloseEntry(S, c) \in Pools
           /\ SameButEntries(S, CloseEntry(S, c))
           /\ \A d \in Connections :
                CloseEntry(S, c).entry[d] = IF d = c /\ Open(S, c) THEN Closed ELSE S.entry[d]
PROOF
  <1>1. CASE Open(S, c)
    <2>1. c \in Connections
      BY <1>1, Slots DEF Open
    <2>2. CloseEntry(S, c) = [S EXCEPT !.entry = [S.entry EXCEPT ![c] = Closed]]
      BY <1>1, <2>1 DEF CloseEntry, Pools
    <2>3. S.entry \in [Connections -> Entries]
      BY DEF Pools
    <2>4. [S.entry EXCEPT ![c] = Closed] \in [Connections -> Entries]
      BY <2>3, ClosedEntry
    <2> QED BY <1>1, <2>1, <2>2, <2>3, <2>4, NewEntries
  <1>2. CASE ~Open(S, c)
    BY <1>2 DEF CloseEntry, SameButEntries
  <1> QED BY <1>1, <1>2

LEMMA CloseIfUnownedFacts ==
    ASSUME NEW S \in Pools, NEW c \in Slot
    PROVE  /\ CloseIfUnowned(S, c) \in Pools
           /\ SameButEntries(S, CloseIfUnowned(S, c))
           /\ \A d \in Connections : CloseIfUnowned(S, c).entry[d] =
                IF d = c /\ Open(S, c) /\ ~Owned(S, c) THEN Closed ELSE S.entry[d]
PROOF BY CloseEntryFacts DEF CloseIfUnowned, SameButEntries, Open

LEMMA CloseUnownedFacts ==
    ASSUME NEW S \in Pools, NEW cs
    PROVE  /\ CloseUnowned(S, cs) \in Pools
           /\ SameButEntries(S, CloseUnowned(S, cs))
           /\ \A d \in Connections : CloseUnowned(S, cs).entry[d] =
                IF d \in cs /\ Open(S, d) /\ ~Owned(S, d) THEN Closed ELSE S.entry[d]
PROOF
  <1> DEFINE f == [d \in Connections |->
                     IF d \in cs /\ Open(S, d) /\ ~Owned(S, d) THEN Closed ELSE S.entry[d]]
  <1>1. S.entry \in [Connections -> Entries]
    BY DEF Pools
  <1>2. f \in [Connections -> Entries]
    BY <1>1, ClosedEntry
  <1>3. CloseUnowned(S, cs) = [S EXCEPT !.entry = f]
    BY DEF CloseUnowned, Pools
  <1>4. \A d \in Connections :
          f[d] = IF d \in cs /\ Open(S, d) /\ ~Owned(S, d) THEN Closed ELSE S.entry[d]
    OBVIOUS
  <1> HIDE DEF f
  <1> QED BY <1>2, <1>3, <1>4, NewEntries

LEMMA RejectFacts ==
    ASSUME NEW S \in Pools, NEW c \in Slot
    PROVE  /\ Reject(S, c) \in Pools
           /\ SameButEntries(S, Reject(S, c))
           /\ \A d \in Connections : Reject(S, c).entry[d] = IF d = c THEN Closed ELSE S.entry[d]
PROOF
  <1>1. CASE c # None
    <2>1. c \in Connections
      BY <1>1, Slots
    <2>2. Reject(S, c) = [S EXCEPT !.entry = [S.entry EXCEPT ![c] = Closed]]
      BY <1>1, <2>1 DEF Reject, Pools
    <2>3. S.entry \in [Connections -> Entries]
      BY DEF Pools
    <2>4. [S.entry EXCEPT ![c] = Closed] \in [Connections -> Entries]
      BY <2>3, ClosedEntry
    <2> QED BY <2>1, <2>2, <2>3, <2>4, NewEntries
  <1>2. CASE c = None
    BY <1>2, Slots DEF Reject, SameButEntries
  <1> QED BY <1>1, <1>2

LEMMA StopHealthFacts ==
    ASSUME NEW S \in Pools, NEW c \in Slot
    PROVE  /\ StopHealth(S, c) \in Pools
           /\ SameButEntries(S, StopHealth(S, c))
           /\ \A d \in Connections :
                /\ StopHealth(S, c).entry[d].state = S.entry[d].state
                /\ StopHealth(S, c).entry[d].generation = S.entry[d].generation
                /\ StopHealth(S, c).entry[d].trusted = S.entry[d].trusted
                /\ StopHealth(S, c).entry[d].health \in {"off", S.entry[d].health}
PROOF
  <1>1. CASE c # None
    <2>1. c \in Connections
      BY <1>1, Slots
    <2> DEFINE f == [S.entry EXCEPT ![c].health = "off"]
    <2>2. StopHealth(S, c) = [S EXCEPT !.entry = f]
      BY <1>1, <2>1 DEF StopHealth, Pools
    <2>3. S.entry \in [Connections -> Entries]
      BY DEF Pools
    <2>4. /\ f \in [Connections -> Entries]
          /\ \A d \in Connections :
                /\ f[d].state = S.entry[d].state /\ f[d].generation = S.entry[d].generation
                /\ f[d].health \in {"off", S.entry[d].health}
      BY <2>1, <2>3 DEF Entries
    <2>6. \A d \in Connections : f[d].trusted = S.entry[d].trusted
      BY <2>1, <2>3 DEF Entries
    <2> HIDE DEF f
    <2>5. /\ StopHealth(S, c) \in Pools /\ SameButEntries(S, StopHealth(S, c))
          /\ StopHealth(S, c).entry = f
      BY <2>2, <2>4, NewEntries
    <2> QED BY <2>4, <2>5, <2>6
  <1>2. CASE c = None
    BY <1>2 DEF StopHealth, SameButEntries
  <1> QED BY <1>1, <1>2

LEMMA MonitoredFacts ==
    ASSUME NEW S \in Pools, NEW cs
    PROVE  /\ Monitored(S, cs) \in [Connections -> Entries]
           /\ \A d \in Connections :
                /\ Monitored(S, cs)[d].state = S.entry[d].state
                /\ Monitored(S, cs)[d].generation = S.entry[d].generation
                /\ Monitored(S, cs)[d].trusted = S.entry[d].trusted
                /\ S.entry[d].state # "open" => Monitored(S, cs)[d].health = S.entry[d].health
PROOF
  <1>1. S.entry \in [Connections -> Entries]
    BY DEF Pools
  <1>2. ASSUME NEW e \in Entries
        PROVE  /\ [e EXCEPT !.health = IF @ = "off" THEN "on" ELSE @] \in Entries
               /\ [e EXCEPT !.health = IF @ = "off" THEN "on" ELSE @].state = e.state
               /\ [e EXCEPT !.health = IF @ = "off" THEN "on" ELSE @].generation = e.generation
               /\ [e EXCEPT !.health = IF @ = "off" THEN "on" ELSE @].trusted = e.trusted
    BY DEF Entries
  <1> QED BY <1>1, <1>2 DEF Monitored, Open

\* A carrier is opened.
LEMMA OpenedFacts ==
    ASSUME NEW S \in Pools, NEW c \in Connections
    PROVE  /\ Opened(S, c) \in Pools
           /\ SameButEntries(S, Opened(S, c))
           /\ Opened(S, c).entry[c].state = "open" /\ Opened(S, c).entry[c].trusted
           /\ Opened(S, c).entry[c].generation = S.generation
           /\ \A d \in Connections : d # c => Opened(S, c).entry[d] = S.entry[d]
PROOF
  <1> DEFINE e == [state |-> "open", generation |-> S.generation, health |-> "off", trusted |-> TRUE]
  <1>1. S.entry \in [Connections -> Entries] /\ S.generation \in Nat
    BY DEF Pools
  <1>2. e \in Entries /\ e.state = "open" /\ e.generation = S.generation /\ e.trusted
    BY <1>1 DEF Entries
  <1>3. Opened(S, c) = [S EXCEPT !.entry = [S.entry EXCEPT ![c] = e]]
    BY DEF Opened, Pools
  <1> HIDE DEF e
  <1>4. [S.entry EXCEPT ![c] = e] \in [Connections -> Entries]
    BY <1>1, <1>2
  <1> QED BY <1>1, <1>2, <1>3, <1>4, NewEntries

-----------------------------------------------------------------------------
(* Steps between the states. *)

\* The same carrier is selected, it is not trusted again, and no news is lost.
LEMMA ToldSame ==
    ASSUME NEW S, NEW T, T.selected = S.selected, T.announced \in {S.announced, S.selected},
           T.publishing = S.publishing,
           S.selected # None => (T.entry[S.selected].trusted => S.entry[S.selected].trusted)
    PROVE  Told(S, T)
PROOF BY DEF Told, Current, Trusted

LEMMA ToldNone ==
    ASSUME NEW S, NEW T, T.selected = None
    PROVE  Told(S, T)
PROOF BY DEF Told, Current

LEMMA ToldTrans ==
    ASSUME NEW S, NEW T, NEW U, Told(S, T), Told(T, U)
    PROVE  Told(S, U)
PROOF BY DEF Told

\* A step that changes monitors, trust, the generation, the opening of a fallback,
\* the rest of a race or what was announced.
LEMMA LikeKeeps ==
    ASSUME NEW S, NEW X, Loose(S, X), NEW T, Like(S, T)
    PROVE  /\ Loose(T, X) /\ Keeps(S, T) /\ Told(S, T)
           /\ InUse(T) <=> InUse(S)
           /\ Used(S) => Used(T)
           /\ \A c : Open(T, c) /\ c \in Slot <=> Open(S, c) /\ c \in Slot
           /\ \A c : Leased(T, c) <=> Leased(S, c)
PROOF
  <1>1. S \in Pools /\ T \in Pools
    BY DEF Loose, Like
  <1>2. \A c \in Slot : Open(T, c) <=> Open(S, c)
    BY Slots DEF Like, Open
  <1>3. \A c : Leased(T, c) <=> Leased(S, c)
    BY DEF Like, Leased
  <1>4. Roles(T) = Roles(S) /\ Roles(S) \subseteq Slot
    BY <1>1 DEF Like, Roles, Pools
  <1>5. RolesOpen(T) /\ RolesApart(T)
    BY <1>2, <1>4 DEF Loose, Like, RolesOpen, RolesApart
  <1>6. OwnedBut(T, X)
    BY <1>2, <1>3, <1>4, Slots DEF Loose, OwnedBut, Owned
  <1>7. RaceInv(T)
    BY DEF Loose, Like, RaceInv
  <1>8. Drains(T)
    BY <1>3 DEF Loose, Like, Drains
  <1>9. EntryInv(T)
    BY DEF Like, EntryInv
  <1>10. Keeps(S, T)
    BY <1>1, <1>2 DEF Keeps, Pools
  <1>11. Told(S, T)
    <2>1. S.selected # None => S.selected \in Connections
      BY <1>1, Slots DEF Pools
    <2> QED BY <2>1, ToldSame DEF Like
  <1>12. InUse(T) <=> InUse(S)
    BY <1>4 DEF InUse, Like
  <1>13. Used(S) => Used(T)
    BY DEF Used, Like
  <1> QED
    BY <1>1, <1>2, <1>3, <1>5, <1>6, <1>7, <1>8, <1>9, <1>10, <1>11, <1>12, <1>13 DEF Loose

\* Carriers that lost their owner are closed, the leased ones are not.
LEMMA ShedKeeps ==
    ASSUME NEW S, NEW X, Loose(S, X), NEW T \in Pools, SameButEntries(S, T),
           \A d \in Connections :
             T.entry[d] = IF d \in X /\ Open(S, d) /\ ~Owned(S, d) THEN Closed ELSE S.entry[d]
    PROVE  /\ Loose(T, {}) /\ Keeps(S, T) /\ Told(S, T)
           /\ \A c \in Roles(S) : T.entry[c] = S.entry[c] /\ Open(T, c)
PROOF
  <1>1. S \in Pools
    BY DEF Loose
  <1>2. \A c : Leased(T, c) <=> Leased(S, c)
    BY DEF SameButEntries, Leased
  <1>3. Roles(T) = Roles(S) /\ Roles(S) \subseteq Connections
    BY <1>1, Slots DEF SameButEntries, Roles, Pools
  <1>4. \A c : Owned(T, c) <=> Owned(S, c)
    BY <1>2, <1>3 DEF Owned
  <1>5. \A c \in Connections : Open(T, c) <=> Open(S, c) /\ (c \in X => Owned(S, c))
    BY ClosedEntry, Slots DEF Open
  <1>6. \A c \in Roles(S) : T.entry[c] = S.entry[c] /\ Open(T, c)
    BY <1>3, <1>5 DEF Loose, RolesOpen, Owned
  <1>7. RolesOpen(T) /\ RolesApart(T)
    BY <1>3, <1>6 DEF Loose, RolesOpen, RolesApart, SameButEntries
  <1>8. OwnedBut(T, {})
    BY <1>4, <1>5 DEF Loose, OwnedBut
  <1>9. RaceInv(T)
    <2>1. \A c \in Connections : T.entry[c].state = "offered" <=> S.entry[c].state = "offered"
      BY ClosedEntry DEF Open
    <2> QED BY <2>1 DEF Loose, RaceInv, SameButEntries
  <1>10. Drains(T)
    BY <1>2 DEF Loose, Drains, SameButEntries
  <1>11. EntryInv(T)
    BY <1>1, ClosedEntry DEF Loose, EntryInv, SameButEntries, Pools
  <1>12. Keeps(S, T)
    BY <1>1, <1>4, <1>5, Slots DEF Keeps, Pools, Open, Owned, Leased
  <1>13. Told(S, T)
    <2>1. S.selected # None => T.entry[S.selected] = S.entry[S.selected]
      BY <1>6 DEF Roles
    <2> QED BY <2>1, ToldSame DEF SameButEntries
  <1> QED BY <1>6, <1>7, <1>8, <1>9, <1>10, <1>11, <1>12, <1>13 DEF Loose

LEMMA CloseIfUnownedKeeps ==
    ASSUME NEW S, NEW c \in Slot, Loose(S, {c})
    PROVE  /\ Loose(CloseIfUnowned(S, c), {}) /\ Keeps(S, CloseIfUnowned(S, c))
           /\ Told(S, CloseIfUnowned(S, c))
           /\ SameButEntries(S, CloseIfUnowned(S, c))
           /\ \A d \in Roles(S) : /\ CloseIfUnowned(S, c).entry[d] = S.entry[d]
                                  /\ Open(CloseIfUnowned(S, c), d)
PROOF
  <1>1. S \in Pools
    BY DEF Loose
  <1>2. \A d \in Connections : CloseIfUnowned(S, c).entry[d] =
          IF d \in {c} /\ Open(S, d) /\ ~Owned(S, d) THEN Closed ELSE S.entry[d]
    BY <1>1, CloseIfUnownedFacts
  <1> QED BY <1>1, <1>2, CloseIfUnownedFacts, ShedKeeps

LEMMA CloseUnownedKeeps ==
    ASSUME NEW S, NEW X, Loose(S, X)
    PROVE  /\ Loose(CloseUnowned(S, X), {}) /\ Keeps(S, CloseUnowned(S, X))
           /\ Told(S, CloseUnowned(S, X))
           /\ SameButEntries(S, CloseUnowned(S, X))
           /\ \A d \in Roles(S) : /\ CloseUnowned(S, X).entry[d] = S.entry[d]
                                  /\ Open(CloseUnowned(S, X), d)
PROOF
  <1>1. S \in Pools
    BY DEF Loose
  <1> QED BY <1>1, CloseUnownedFacts, ShedKeeps

LEMMA ReplenishmentType ==
    ASSUME NEW S \in Pools, S.replenishment.generation <= S.generation
    PROVE  /\ Replenishment(S) \in Replenishments
           /\ Replenishment(S).generation <= S.generation
PROOF
  <1>1. S.generation \in Nat /\ S.selected \in Slot /\ S.replenishment \in Replenishments
    BY DEF Pools
  <1>2. /\ [state |-> "opening", generation |-> S.generation, behind |-> S.selected]
             \in Replenishments
        /\ [state |-> "opening", generation |-> S.generation, behind |-> S.selected].generation
             = S.generation
    BY <1>1 DEF Replenishments
  <1> QED BY <1>1, <1>2 DEF Replenishment

LEMMA AnnouncedType ==
    ASSUME NEW S \in Pools
    PROVE  Announced(S) \in Slot
PROOF BY DEF Announced, Pools

LEMMA EnsureReplenishmentKeeps ==
    ASSUME NEW S, NEW X, Loose(S, X)
    PROVE  Like(S, EnsureReplenishment(S))
PROOF
  <1>1. /\ S \in Pools /\ S.replenishment.generation <= S.generation
        /\ \A c \in Connections :
             /\ S.entry[c].state # "open" => S.entry[c].health = "off"
             /\ S.entry[c].generation <= S.generation
    BY DEF Loose, EntryInv
  <1>2. Replenishment(S) \in Replenishments /\ Replenishment(S).generation <= S.generation
    BY <1>1, ReplenishmentType
  <1> QED BY <1>1, <1>2 DEF EnsureReplenishment, Like, Pools

LEMMA WatchKeeps ==
    ASSUME NEW S, NEW X, Loose(S, X), NEW cs
    PROVE  /\ Like(S, Watch(S, cs))
           /\ Watch(S, cs).announced = S.announced
           /\ Watch(S, cs).generation = S.generation
           /\ Watch(S, cs).closed = S.closed
PROOF
  <1>1. /\ S \in Pools /\ S.replenishment.generation <= S.generation
        /\ \A c \in Connections :
             /\ S.entry[c].state # "open" => S.entry[c].health = "off"
             /\ S.entry[c].generation <= S.generation
    BY DEF Loose, EntryInv
  <1>2. Replenishment(S) \in Replenishments /\ Replenishment(S).generation <= S.generation
    BY <1>1, ReplenishmentType
  <1>4. /\ Monitored(S, cs) \in [Connections -> Entries]
        /\ \A d \in Connections :
             /\ Monitored(S, cs)[d].state = S.entry[d].state
             /\ Monitored(S, cs)[d].trusted = S.entry[d].trusted
             /\ Monitored(S, cs)[d].generation = S.entry[d].generation
             /\ S.entry[d].state # "open" => Monitored(S, cs)[d].health = S.entry[d].health
    BY <1>1, MonitoredFacts
  <1>5. \A d \in Connections : S.entry[d].state # "open" => Monitored(S, cs)[d].health = "off"
    BY <1>1, <1>4
  <1> DEFINE T == Watch(S, cs)
  <1>6. /\ T \in Pools /\ T.entry = Monitored(S, cs) /\ T.announced = S.announced
        /\ T.publishing = S.publishing
        /\ T.replenishment = Replenishment(S) /\ T.generation = S.generation
        /\ T.selected = S.selected /\ T.standby = S.standby /\ T.secondary = S.secondary
        /\ T.draining = S.draining /\ T.attempt = S.attempt /\ T.lease = S.lease
        /\ T.closed = S.closed
    BY <1>1, <1>2, <1>4 DEF Watch, Pools
  <1>7. S.generation \in Nat
    BY <1>1 DEF Pools
  <1> HIDE DEF T
  <1>8. Like(S, T)
    BY <1>1, <1>2, <1>4, <1>5, <1>6, <1>7 DEF Like
  <1> QED BY <1>6, <1>8 DEF T

LEMMA SettleKeeps ==
    ASSUME NEW S, NEW X, Loose(S, X), NEW cs
    PROVE  /\ Like(S, Settle(S, cs))
           /\ Settle(S, cs).announced = Announced(S)
           /\ Settle(S, cs).generation = S.generation
           /\ Settle(S, cs).closed = S.closed
PROOF
  <1> DEFINE T == Watch(S, cs)
             U == Settle(S, cs)
  <1>1. /\ S \in Pools /\ Like(S, T) /\ T.announced = S.announced /\ T.generation = S.generation
        /\ T.closed = S.closed
    BY WatchKeeps DEF Loose
  <1>2. Announced(S) \in Slot /\ Announced(S) \in {S.announced, S.selected}
    BY <1>1, AnnouncedType DEF Announced
  <1>3. T \in Pools /\ U = [T EXCEPT !.announced = Announced(S)]
    BY <1>1 DEF Like, Settle
  <1> HIDE DEF T, U
  <1>4. /\ U \in Pools /\ U.announced = Announced(S) /\ U.entry = T.entry
        /\ U.selected = T.selected /\ U.standby = T.standby /\ U.secondary = T.secondary
        /\ U.draining = T.draining /\ U.attempt = T.attempt /\ U.lease = T.lease
        /\ U.generation = T.generation /\ U.replenishment = T.replenishment
        /\ U.publishing = T.publishing /\ U.closed = T.closed
    BY <1>2, <1>3 DEF Pools
  <1>5. Like(S, U)
    BY <1>1, <1>2, <1>4 DEF Like
  <1> QED BY <1>1, <1>4, <1>5 DEF U

\* The promotions that are still to be announced.
LEMMA PublishingKeeps ==
    ASSUME NEW S, NEW X, Loose(S, X), NEW P \in SUBSET Connections
    PROVE  LET T == [S EXCEPT !.publishing = P]
           IN /\ Loose(T, X) /\ Keeps(S, T) /\ (Used(S) => Used(T))
              /\ T.selected = S.selected /\ T.standby = S.standby /\ T.secondary = S.secondary
              /\ T.lease = S.lease /\ T.entry = S.entry
              /\ T.announced = S.announced /\ T.publishing = P
PROOF
  <1> DEFINE T == [S EXCEPT !.publishing = P]
  <1>1. S \in Pools
    BY DEF Loose
  <1>2. /\ T \in Pools /\ T.entry = S.entry /\ T.publishing = P
        /\ T.selected = S.selected /\ T.standby = S.standby /\ T.secondary = S.secondary
        /\ T.draining = S.draining /\ T.attempt = S.attempt /\ T.lease = S.lease
        /\ T.generation = S.generation /\ T.replenishment = S.replenishment
        /\ T.announced = S.announced
    BY <1>1 DEF Pools
  <1> HIDE DEF T
  <1>3. \A c : (Open(T, c) <=> Open(S, c)) /\ (Leased(T, c) <=> Leased(S, c))
    BY <1>2 DEF Open, Leased
  <1>4. Roles(T) = Roles(S)
    BY <1>2 DEF Roles
  <1>5. RolesOpen(T) /\ RolesApart(T) /\ OwnedBut(T, X)
    BY <1>2, <1>3, <1>4 DEF Loose, RolesOpen, RolesApart, OwnedBut, Owned
  <1>6. RaceInv(T) /\ Drains(T) /\ EntryInv(T)
    BY <1>2, <1>3 DEF Loose, RaceInv, Drains, EntryInv
  <1>7. Keeps(S, T) /\ (Used(S) => Used(T))
    BY <1>2, <1>3 DEF Keeps, Used
  <1> QED BY <1>2, <1>5, <1>6, <1>7 DEF Loose, T

-----------------------------------------------------------------------------
(* Loss of a carrier. *)

\* What the loss of a carrier leaves: every carrier has an owner again, no lease is
\* touched, a takeover is announced, and a race goes on only if none was selected.
Lost(S, T) ==
    /\ Loose(T, {}) /\ Keeps(S, T) /\ Told(S, T)
    /\ T.lease = S.lease /\ T.attempt = S.attempt /\ T.closed = S.closed
    /\ T.generation >= S.generation
    /\ S.selected = None => T.selected = None

\* The carriers X have lost their places, others have changed them.
LEMMA RolesLeft ==
    ASSUME NEW S, Loose(S, {}), NEW X, NEW T \in Pools,
           T.entry = S.entry, T.lease = S.lease, T.attempt = S.attempt,
           T.replenishment = S.replenishment, T.generation >= S.generation,
           Roles(T) \subseteq Roles(S), Roles(S) \subseteq Roles(T) \cup X,
           T.selected # None => S.selected # None,
           RolesApart(T), Drains(T)
    PROVE  Loose(T, X) /\ Keeps(S, T)
PROOF
  <1>1. S \in Pools
    BY DEF Loose
  <1>2. \A c : Open(T, c) <=> Open(S, c)
    BY DEF Open
  <1>3. \A c : Leased(T, c) <=> Leased(S, c)
    BY DEF Leased
  <1>4. RolesOpen(T)
    BY <1>2 DEF Loose, RolesOpen
  <1>5. OwnedBut(T, X)
    BY <1>2, <1>3 DEF Loose, OwnedBut, Owned
  <1>6. RaceInv(T)
    BY DEF Loose, RaceInv
  <1>7. EntryInv(T)
    <2>1. \A c \in Connections : S.entry[c].generation \in Nat
      BY <1>1 DEF Pools, Entries
    <2>2. S.generation \in Nat /\ T.generation \in Nat /\ S.replenishment.generation \in Nat
      BY <1>1 DEF Pools, Replenishments
    <2> QED BY <2>1, <2>2 DEF Loose, EntryInv
  <1>8. Keeps(S, T)
    BY <1>2 DEF Keeps
  <1> QED BY <1>4, <1>5, <1>6, <1>7, <1>8 DEF Loose

LEMMA KeepsTrans ==
    ASSUME NEW S, NEW T, NEW U, Keeps(S, T), Keeps(T, U), T.lease = S.lease
    PROVE  Keeps(S, U)
PROOF BY DEF Keeps

LEMMA FailOverKeeps ==
    ASSUME NEW S, Loose(S, {}), NEW c, c = S.selected, c # None,
           Ready(S, S.standby, S.entry[c].generation)
    PROVE  Lost(S, FailOver(S, c))
PROOF
  <1> DEFINE up == IF Ready(S, S.secondary, S.entry[c].generation) THEN S.secondary ELSE None
             T == [S EXCEPT !.selected = S.standby, !.standby = up,
                            !.secondary = IF up = None THEN @ ELSE None,
                            !.draining = IF Leased(S, c) THEN c ELSE @]
             U == CloseIfUnowned(T, c)
  <1>1. /\ S \in Pools /\ S.selected \in Slot /\ S.standby \in Slot /\ S.secondary \in Slot
        /\ S.draining \in Slot /\ S.generation \in Nat /\ c \in Slot
    BY DEF Loose, Pools
  <1>2. up \in {S.secondary, None} /\ up \in Slot
    BY <1>1, Slots
  <1>3. S.standby # None /\ Open(S, S.standby) /\ Trusted(S, S.standby)
    BY DEF Ready, Open
  <1> HIDE DEF up
  <1>4. /\ T \in Pools /\ T.selected = S.standby /\ T.standby = up
        /\ T.secondary = (IF up = None THEN S.secondary ELSE None)
        /\ T.draining = (IF Leased(S, c) THEN c ELSE S.draining)
        /\ T.generation = S.generation /\ T.entry = S.entry /\ T.lease = S.lease
        /\ T.attempt = S.attempt /\ T.replenishment = S.replenishment
        /\ T.closed = S.closed /\ T.announced = S.announced /\ T.publishing = S.publishing
    BY <1>1, <1>2, Slots DEF Pools
  <1>5. FailOver(S, c) = Settle(U, {T.selected})
    BY DEF FailOver, up
  <1> HIDE DEF T
  <1>6. Roles(T) = Roles(S) \ {c}
    BY <1>2, <1>3, <1>4 DEF Roles, Loose, RolesApart
  <1>7. RolesApart(T)
    BY <1>2, <1>4 DEF RolesApart, Loose
  <1>8. Drains(T)
    BY <1>4 DEF Drains, Leased, Loose
  <1>9. Loose(T, {c}) /\ Keeps(S, T)
    BY <1>1, <1>4, <1>6, <1>7, <1>8, RolesLeft
  <1>10. /\ Loose(U, {}) /\ Keeps(T, U) /\ SameButEntries(T, U)
         /\ \A d \in Roles(T) : U.entry[d] = T.entry[d] /\ Open(U, d)
    BY <1>1, <1>9, CloseIfUnownedKeeps
  <1> HIDE DEF U
  <1>11. U.selected = S.standby /\ Open(U, U.selected) /\ Trusted(U, U.selected)
    BY <1>3, <1>4, <1>10 DEF SameButEntries, Roles, Trusted
  <1>12. Announced(U) = U.selected
    BY <1>11 DEF Announced
  <1> DEFINE R == Settle(U, {T.selected})
  <1>13. Like(U, R) /\ R.announced = U.selected /\ R.generation = U.generation /\ R.closed = U.closed
    BY <1>10, <1>12, SettleKeeps
  <1> HIDE DEF R
  <1>14. Loose(R, {}) /\ Keeps(U, R)
    BY <1>10, <1>13, LikeKeeps
  <1>15. Keeps(S, R)
    BY <1>4, <1>9, <1>10, <1>14, KeepsTrans DEF SameButEntries
  <1>16. Lost(S, R)
    BY <1>1, <1>4, <1>10, <1>13, <1>14, <1>15 DEF Lost, Told, Current, Like, SameButEntries
  <1> QED BY <1>5, <1>16 DEF R

LEMMA FailStandbyKeeps ==
    ASSUME NEW S, Loose(S, {}), NEW c, c = S.standby, c # None, c # S.selected
    PROVE  Lost(S, FailStandby(S, c))
PROOF
  <1> DEFINE next == IF Ready(S, S.secondary, S.entry[c].generation) THEN S.secondary ELSE None
             T == [S EXCEPT !.standby = next, !.secondary = IF next = None THEN @ ELSE None]
             U == CloseIfUnowned(T, c)
             R == Settle(U, {next})
  <1>1. S \in Pools /\ S.standby \in Slot /\ S.secondary \in Slot /\ S.generation \in Nat /\ c \in Slot
    BY DEF Loose, Pools
  <1>2. next \in {S.secondary, None} /\ next \in Slot
    BY <1>1, Slots
  <1>3. FailStandby(S, c) = R
    BY DEF FailStandby
  <1> HIDE DEF next
  <1>4. /\ T \in Pools /\ T.selected = S.selected /\ T.standby = next
        /\ T.secondary = (IF next = None THEN S.secondary ELSE None)
        /\ T.draining = S.draining
        /\ T.generation = S.generation /\ T.entry = S.entry /\ T.lease = S.lease
        /\ T.attempt = S.attempt /\ T.replenishment = S.replenishment
        /\ T.closed = S.closed /\ T.announced = S.announced /\ T.publishing = S.publishing
    BY <1>1, <1>2, Slots DEF Pools
  <1> HIDE DEF T
  <1>5. Roles(T) = Roles(S) \ {c}
    BY <1>2, <1>4 DEF Roles, Loose, RolesApart
  <1>6. RolesApart(T) /\ Drains(T)
    BY <1>2, <1>4 DEF RolesApart, Drains, Leased, Loose
  <1>7. Loose(T, {c}) /\ Keeps(S, T)
    BY <1>1, <1>4, <1>5, <1>6, RolesLeft
  <1>8. Loose(U, {}) /\ Keeps(T, U) /\ Told(T, U) /\ SameButEntries(T, U)
    BY <1>1, <1>7, CloseIfUnownedKeeps
  <1> HIDE DEF U
  <1>9. Like(U, R) /\ R.generation = U.generation /\ R.closed = U.closed
    BY <1>8, SettleKeeps
  <1> HIDE DEF R
  <1>10. Loose(R, {}) /\ Keeps(U, R) /\ Told(U, R)
    BY <1>8, <1>9, LikeKeeps
  <1>11. Keeps(S, R)
    BY <1>4, <1>7, <1>8, <1>10, KeepsTrans DEF SameButEntries
  <1>12. Lost(S, R)
    <2>1. Told(S, R)
      BY <1>4, <1>8, <1>10, ToldSame, ToldTrans
    <2> QED BY <1>1, <1>4, <1>8, <1>9, <1>10, <1>11, <2>1 DEF Lost, Like, SameButEntries
  <1> QED BY <1>3, <1>12

LEMMA FailSecondaryKeeps ==
    ASSUME NEW S, Loose(S, {}), NEW c, c = S.secondary, c # None, c \notin {S.selected, S.standby}
    PROVE  Lost(S, FailSecondary(S, c))
PROOF
  <1> DEFINE T == [S EXCEPT !.secondary = None]
             U == CloseIfUnowned(T, c)
             R == EnsureReplenishment(U)
  <1>1. S \in Pools /\ c \in Slot /\ S.generation \in Nat
    BY DEF Loose, Pools
  <1>2. FailSecondary(S, c) = R
    BY DEF FailSecondary
  <1>3. /\ T \in Pools /\ T.selected = S.selected /\ T.standby = S.standby /\ T.secondary = None
        /\ T.draining = S.draining
        /\ T.generation = S.generation /\ T.entry = S.entry /\ T.lease = S.lease
        /\ T.attempt = S.attempt /\ T.replenishment = S.replenishment
        /\ T.closed = S.closed /\ T.announced = S.announced /\ T.publishing = S.publishing
    BY <1>1, Slots DEF Pools
  <1> HIDE DEF T
  <1>4. Roles(T) = Roles(S) \ {c}
    BY <1>3 DEF Roles, Loose, RolesApart
  <1>5. RolesApart(T) /\ Drains(T)
    BY <1>3 DEF RolesApart, Drains, Leased, Loose
  <1>6. Loose(T, {c}) /\ Keeps(S, T)
    BY <1>1, <1>3, <1>4, <1>5, RolesLeft
  <1>7. Loose(U, {}) /\ Keeps(T, U) /\ Told(T, U) /\ SameButEntries(T, U)
    BY <1>1, <1>6, CloseIfUnownedKeeps
  <1> HIDE DEF U
  <1>8. Like(U, R) /\ R.closed = U.closed
    BY <1>7, EnsureReplenishmentKeeps DEF EnsureReplenishment, Loose, Pools
  <1> HIDE DEF R
  <1>9. Loose(R, {}) /\ Keeps(U, R) /\ Told(U, R)
    BY <1>7, <1>8, LikeKeeps
  <1>10. Keeps(S, R)
    BY <1>3, <1>6, <1>7, <1>9, KeepsTrans DEF SameButEntries
  <1>11. Lost(S, R)
    <2>1. Told(S, R)
      BY <1>3, <1>7, <1>9, ToldSame, ToldTrans
    <2> QED BY <1>1, <1>3, <1>7, <1>8, <1>9, <1>10, <2>1 DEF Lost, Like, SameButEntries
  <1> QED BY <1>2, <1>11

LEMMA LoseSelectedKeeps ==
    ASSUME NEW S, Loose(S, {}), NEW c, c = S.selected, c # None
    PROVE  Lost(S, LoseSelected(S, c)) /\ LoseSelected(S, c).selected = None
PROOF
  <1> DEFINE X == {c, S.standby, S.secondary}
             dr == IF Leased(S, c) /\ S.draining = None THEN c ELSE S.draining
             T == [S EXCEPT !.selected = None, !.standby = None, !.secondary = None,
                            !.draining = dr, !.generation = S.generation + 1]
             R == CloseUnowned(T, X)
  <1>1. S \in Pools /\ c \in Slot /\ S.draining \in Slot /\ S.generation \in Nat
    BY DEF Loose, Pools
  <1>2. LoseSelected(S, c) = R
    BY <1>1 DEF LoseSelected, Pools
  <1>a. dr \in Slot /\ S.generation + 1 \in Nat /\ (dr # None => Leased(S, dr))
    BY <1>1 DEF Loose, Drains
  <1> HIDE DEF dr
  <1>3. /\ T \in Pools /\ T.selected = None /\ T.standby = None /\ T.secondary = None
        /\ T.draining = dr
        /\ T.generation = S.generation + 1 /\ T.entry = S.entry /\ T.lease = S.lease
        /\ T.attempt = S.attempt /\ T.replenishment = S.replenishment
        /\ T.closed = S.closed /\ T.announced = S.announced /\ T.publishing = S.publishing
    BY <1>1, <1>a, Slots DEF Pools
  <1> HIDE DEF T
  <1>4. Roles(T) = {} /\ Roles(S) \subseteq X
    BY <1>3 DEF Roles
  <1>5. RolesApart(T) /\ Drains(T)
    BY <1>3, <1>a DEF RolesApart, Drains, Leased
  <1> HIDE DEF X
  <1>6. Loose(T, X) /\ Keeps(S, T)
    BY <1>1, <1>3, <1>4, <1>5, RolesLeft
  <1>7. Loose(R, {}) /\ Keeps(T, R) /\ SameButEntries(T, R)
    BY <1>6, CloseUnownedKeeps
  <1> HIDE DEF R
  <1>8. Keeps(S, R)
    BY <1>3, <1>6, <1>7, KeepsTrans
  <1>9. Lost(S, R) /\ R.selected = None
    BY <1>1, <1>3, <1>7, <1>8, ToldNone DEF Lost, SameButEntries
  <1> QED BY <1>2, <1>9

LEMMA FailDrainingKeeps ==
    ASSUME NEW S, Loose(S, {}), NEW c \in Slot, c # None
    PROVE  Lost(S, FailDraining(S, c)) /\ Lost(S, CloseIfUnowned(S, c))
PROOF
  <1> DEFINE T == [S EXCEPT !.draining = None]
             R == CloseIfUnowned(T, c)
             Q == CloseIfUnowned(S, c)
  <1>1. S \in Pools /\ S.generation \in Nat
    BY DEF Loose, Pools
  <1>2. FailDraining(S, c) = R
    BY DEF FailDraining
  <1>3. /\ T \in Pools /\ T.selected = S.selected /\ T.standby = S.standby
        /\ T.secondary = S.secondary /\ T.draining = None
        /\ T.generation = S.generation /\ T.entry = S.entry /\ T.lease = S.lease
        /\ T.attempt = S.attempt /\ T.replenishment = S.replenishment
        /\ T.closed = S.closed /\ T.announced = S.announced /\ T.publishing = S.publishing
    BY <1>1, Slots DEF Pools
  <1> HIDE DEF T
  <1>4. Roles(T) = Roles(S)
    BY <1>3 DEF Roles
  <1>5. RolesApart(T) /\ Drains(T)
    BY <1>3 DEF RolesApart, Drains, Loose
  <1>6. Loose(T, {c}) /\ Keeps(S, T)
    BY <1>1, <1>3, <1>4, <1>5, RolesLeft
  <1>7. Loose(R, {}) /\ Keeps(T, R) /\ Told(T, R) /\ SameButEntries(T, R)
    BY <1>6, CloseIfUnownedKeeps
  <1>8. Loose(S, {c})
    BY DEF Loose, OwnedBut
  <1>9. Loose(Q, {}) /\ Keeps(S, Q) /\ Told(S, Q) /\ SameButEntries(S, Q)
    BY <1>8, CloseIfUnownedKeeps
  <1> HIDE DEF R, Q
  <1>10. Keeps(S, R)
    BY <1>3, <1>6, <1>7, KeepsTrans
  <1>11. Lost(S, R) /\ Lost(S, Q)
    <2>1. Told(S, R)
      BY <1>3, <1>7, ToldSame, ToldTrans
    <2> QED BY <1>1, <1>3, <1>7, <1>9, <1>10, <2>1 DEF Lost, SameButEntries
  <1> QED BY <1>2, <1>11 DEF Q

LEMMA FailHealthKeeps ==
    ASSUME NEW S, Loose(S, {}), NEW c \in Connections
    PROVE  Lost(S, FailHealth(S, c))
PROOF
  <1>1. S \in Pools /\ c \in Slot /\ c # None
    BY Slots DEF Loose
  <1>2. CASE c = S.selected
    <2>1. FailHealth(S, c) = IF Ready(S, S.standby, S.entry[c].generation)
                               THEN FailOver(S, c) ELSE LoseSelected(S, c)
      BY <1>1, <1>2 DEF FailHealth, Roles
    <2> QED BY <1>1, <1>2, <2>1, FailOverKeeps, LoseSelectedKeeps
  <1>3. CASE c # S.selected /\ c = S.standby
    <2>1. FailHealth(S, c) = FailStandby(S, c)
      BY <1>1, <1>3 DEF FailHealth, Roles
    <2> QED BY <1>1, <1>3, <2>1, FailStandbyKeeps
  <1>4. CASE c \notin {S.selected, S.standby} /\ c = S.secondary
    <2>1. FailHealth(S, c) = FailSecondary(S, c)
      BY <1>1, <1>4 DEF FailHealth, Roles
    <2> QED BY <1>1, <1>4, <2>1, FailSecondaryKeeps
  <1>5. CASE c \notin {S.selected, S.standby, S.secondary}
    <2>1. c \notin Roles(S)
      BY <1>5 DEF Roles
    <2>2. FailHealth(S, c) = IF c = S.draining THEN FailDraining(S, c) ELSE CloseIfUnowned(S, c)
      BY <1>5, <2>1 DEF FailHealth
    <2> QED BY <1>1, <2>2, FailDrainingKeeps
  <1> QED BY <1>2, <1>3, <1>4, <1>5

-----------------------------------------------------------------------------
(* The other functions. *)

\* A change of the race, of the generation or of carriers that are not open.
LEMMA RaceKeeps ==
    ASSUME NEW S, Loose(S, {}), NEW T \in Pools,
           T.selected = S.selected, T.standby = S.standby, T.secondary = S.secondary,
           T.draining = S.draining, T.lease = S.lease,
           T.announced = S.announced, T.publishing = S.publishing,
           \A c \in Connections : T.entry[c].state = "open" <=> S.entry[c].state = "open",
           \A c \in Connections :
             S.entry[c].state = "open" /\ T.entry[c].trusted => S.entry[c].trusted,
           RaceInv(T), EntryInv(T)
    PROVE  Loose(T, {}) /\ Keeps(S, T) /\ Told(S, T) /\ (Used(S) => Used(T))
PROOF
  <1>1. S \in Pools
    BY DEF Loose
  <1>2. \A c \in Slot : Open(T, c) <=> Open(S, c)
    BY Slots DEF Open
  <1>3. \A c : Leased(T, c) <=> Leased(S, c)
    BY DEF Leased
  <1>4. Roles(T) = Roles(S) /\ Roles(S) \subseteq Slot
    BY <1>1 DEF Roles, Pools
  <1>5. RolesOpen(T) /\ RolesApart(T)
    BY <1>2, <1>4 DEF Loose, RolesOpen, RolesApart
  <1>6. OwnedBut(T, {})
    BY <1>2, <1>3, <1>4, Slots DEF Loose, OwnedBut, Owned
  <1>7. Drains(T)
    BY <1>3 DEF Loose, Drains
  <1>8. Keeps(S, T)
    BY <1>1, <1>2 DEF Keeps, Pools
  <1>9. Used(S) => Used(T)
    BY DEF Used
  <1>10. Told(S, T)
    <2>1. S.selected # None => S.selected \in Connections /\ Open(S, S.selected)
      BY <1>1, Slots DEF Loose, RolesOpen, Roles, Pools
    <2> QED BY <2>1, ToldSame DEF Open
  <1> QED BY <1>5, <1>6, <1>7, <1>8, <1>9, <1>10 DEF Loose

LEMMA NoAttemptFacts ==
    /\ NoAttempt \in Attempts /\ ~NoAttempt.on /\ NoAttempt.app = None /\ NoAttempt.winner = None
    /\ NoAttempt.running = {}
    /\ \A p \in SUBSET Paths, a \in Apps \cup {None} :
         LET t == [on |-> TRUE, app |-> a, running |-> p, winner |-> None]
         IN t \in Attempts /\ t.on /\ t.app = a /\ t.winner = None
    /\ \A p \in SUBSET Paths :
         LET t == [NoAttempt EXCEPT !.on = TRUE, !.running = p]
         IN t \in Attempts /\ t.on /\ t.app = None /\ t.winner = None
PROOF BY Slots DEF NoAttempt, Attempts

LEMMA StartRecoveryKeeps ==
    ASSUME NEW S, Loose(S, {}), NEW excluded
    PROVE  LET T == StartRecovery(S, excluded)
           IN /\ Loose(T, {}) /\ Keeps(S, T) /\ Told(S, T) /\ T.lease = S.lease
              /\ T.selected = S.selected /\ T.announced = S.announced /\ T.publishing = S.publishing
PROOF
  <1> DEFINE T == StartRecovery(S, excluded)
             t == [NoAttempt EXCEPT !.on = TRUE, !.running = Paths \ {excluded}]
  <1>1. S \in Pools /\ S.generation \in Nat /\ S.generation + 1 \in Nat
    BY DEF Loose, Pools
  <1>2. CASE S.closed \/ S.attempt.on \/ S.selected # None
    <2>1. T = S
      BY <1>2 DEF StartRecovery
    <2>2. Keeps(S, S)
      BY DEF Keeps
    <2>3. Told(S, S)
      BY DEF Told
    <2> QED BY <2>1, <2>2, <2>3
  <1>3. CASE ~(S.closed \/ S.attempt.on \/ S.selected # None)
    <2>1. T = [S EXCEPT !.generation = S.generation + 1, !.attempt = t]
      BY <1>1, <1>3 DEF StartRecovery, Pools
    <2>2. t \in Attempts /\ t.on /\ t.app = None /\ t.winner = None
      <3>1. Paths \ {excluded} \in SUBSET Paths
        OBVIOUS
      <3> QED BY <3>1, NoAttemptFacts
    <2> HIDE DEF T, t
    <2>3. /\ T \in Pools /\ T.selected = S.selected /\ T.standby = S.standby
          /\ T.secondary = S.secondary /\ T.draining = S.draining /\ T.lease = S.lease
          /\ T.entry = S.entry /\ T.attempt = t /\ T.generation = S.generation + 1
          /\ T.replenishment = S.replenishment /\ T.announced = S.announced
          /\ T.publishing = S.publishing
      BY <1>1, <2>1, <2>2 DEF Pools
    <2>4. RaceInv(T)
      BY <1>3, <2>2, <2>3, Slots DEF Loose, RaceInv
    <2>5. EntryInv(T)
      <3>1. \A c \in Connections : S.entry[c].generation \in Nat
        BY <1>1 DEF Pools, Entries
      <3>2. S.replenishment.generation \in Nat
        BY <1>1 DEF Pools, Replenishments
      <3> QED BY <1>1, <2>3, <3>1, <3>2 DEF Loose, EntryInv
    <2> QED BY <2>3, <2>4, <2>5, RaceKeeps DEF T
  <1> QED BY <1>2, <1>3

LEMMA IdleKeeps ==
    ASSUME NEW S, Loose(S, {}), NEW c \in Slot
    PROVE  LET T == Idle(S, c)
           IN /\ Loose(T, {}) /\ Keeps(S, T) /\ Told(S, T) /\ T.lease = S.lease
              /\ T.selected \in {S.selected, None} /\ T.announced = S.announced
              /\ T.publishing = S.publishing
              /\ c = S.selected => Used(T)
PROOF
  <1>1. S \in Pools /\ S.generation \in Nat
    BY DEF Loose, Pools
  <1>2. CASE ~Open(S, c) \/ InUse(S) \/ S.selected # c
    <2>1. Idle(S, c) = S
      BY <1>2 DEF Idle
    <2>2. Keeps(S, S)
      BY DEF Keeps
    <2>4. Told(S, S)
      BY DEF Told
    <2>3. c = S.selected => Used(S)
      <3>1. CASE InUse(S)
        <4>1. PICK a \in Apps : S.lease[a] \in Roles(S) \cup ({S.draining} \ {None})
          BY <3>1 DEF InUse
        <4>2. S.lease[a] # None
          BY <4>1 DEF Roles
        <4> QED BY <4>2 DEF Used
      <3>2. CASE ~Open(S, c)
        BY <3>2 DEF Loose, RolesOpen, Roles, Used
      <3> QED BY <1>2, <3>1, <3>2
    <2> QED BY <2>1, <2>2, <2>3, <2>4
  <1>3. CASE ~(~Open(S, c) \/ InUse(S) \/ S.selected # c)
    <2> DEFINE X == {c, S.standby, S.secondary}
               U == [S EXCEPT !.selected = None, !.standby = None, !.secondary = None]
               T == CloseUnowned(U, X)
    <2>1. Idle(S, c) = T
      BY <1>3 DEF Idle
    <2>2. /\ U \in Pools /\ U.selected = None /\ U.standby = None /\ U.secondary = None
          /\ U.draining = S.draining /\ U.generation = S.generation /\ U.entry = S.entry
          /\ U.lease = S.lease /\ U.attempt = S.attempt /\ U.replenishment = S.replenishment
          /\ U.announced = S.announced /\ U.publishing = S.publishing
      BY <1>1, Slots DEF Pools
    <2> HIDE DEF U
    <2>3. Roles(U) = {} /\ Roles(S) \subseteq X
      BY <1>3, <2>2 DEF Roles
    <2>4. RolesApart(U) /\ Drains(U)
      BY <2>2 DEF Loose, RolesApart, Drains, Leased
    <2> HIDE DEF X
    <2>5. Loose(U, X) /\ Keeps(S, U)
      BY <1>1, <2>2, <2>3, <2>4, RolesLeft
    <2>6. Loose(T, {}) /\ Keeps(U, T) /\ SameButEntries(U, T)
      BY <2>5, CloseUnownedKeeps
    <2> HIDE DEF T
    <2>7. Keeps(S, T)
      BY <2>2, <2>5, <2>6, KeepsTrans
    <2>8. Told(S, T)
      BY <2>2, <2>6, ToldNone DEF SameButEntries
    <2> QED BY <2>1, <2>2, <2>6, <2>7, <2>8 DEF SameButEntries, Used
  <1> QED BY <1>2, <1>3

LEMMA CancelConnectKeeps ==
    ASSUME NEW S, Loose(S, {})
    PROVE  LET T == CancelConnect(S)
           IN /\ Loose(T, {}) /\ Keeps(S, T) /\ Told(S, T) /\ T.lease = S.lease
              /\ T.selected = S.selected /\ T.standby = S.standby /\ T.secondary = S.secondary
              /\ T.draining = S.draining /\ T.announced = S.announced
              /\ T.publishing = S.publishing /\ T.closed = S.closed
              /\ T.generation = S.generation /\ T.attempt = NoAttempt
              /\ \A c \in Slot : Open(T, c) <=> Open(S, c)
PROOF
  <1> DEFINE w == S.attempt.winner
             U == Reject(S, w)
             T == CancelConnect(S)
  <1>1. S \in Pools /\ S.generation \in Nat /\ w \in Slot
    BY DEF Loose, Pools, Attempts
  <1>2. T = [U EXCEPT !.attempt = NoAttempt]
    BY DEF CancelConnect
  <1>3. /\ U \in Pools /\ SameButEntries(S, U)
        /\ \A d \in Connections : U.entry[d] = IF d = w THEN Closed ELSE S.entry[d]
    BY <1>1, RejectFacts
  <1> HIDE DEF T, U
  <1>4. /\ T \in Pools /\ T.selected = U.selected /\ T.standby = U.standby
        /\ T.secondary = U.secondary /\ T.draining = U.draining /\ T.lease = U.lease
        /\ T.entry = U.entry /\ T.attempt = NoAttempt /\ T.generation = U.generation
        /\ T.replenishment = U.replenishment /\ T.announced = U.announced
        /\ T.publishing = U.publishing /\ T.closed = U.closed
    BY <1>2, <1>3, NoAttemptFacts DEF Pools
  <1>5. \A c \in Connections : /\ T.entry[c].state = "open" <=> S.entry[c].state = "open"
                               /\ T.entry[c].state # "offered"
    BY <1>3, <1>4, ClosedEntry DEF Loose, RaceInv
  <1>6. RaceInv(T)
    BY <1>4, <1>5, NoAttemptFacts, Slots DEF RaceInv
  <1>7. EntryInv(T)
    BY <1>1, <1>3, <1>4, ClosedEntry DEF Loose, EntryInv, SameButEntries
  <1>10. \A c \in Connections :
           S.entry[c].state = "open" /\ T.entry[c].trusted => S.entry[c].trusted
    <2>1. Closed.trusted = FALSE
      BY DEF Closed
    <2> QED BY <1>3, <1>4, <2>1
  <1>8. Loose(T, {}) /\ Keeps(S, T) /\ Told(S, T)
    BY <1>3, <1>4, <1>5, <1>6, <1>7, <1>10, RaceKeeps DEF SameButEntries
  <1>9. \A c \in Slot : Open(T, c) <=> Open(S, c)
    BY <1>5, Slots DEF Open
  <1> QED BY <1>3, <1>4, <1>8, <1>9 DEF SameButEntries, T

LEMMA CancelReplenishmentKeeps ==
    ASSUME NEW S, NEW X, Loose(S, X)
    PROVE  /\ Like(S, CancelReplenishment(S))
           /\ CancelReplenishment(S).entry = S.entry
           /\ CancelReplenishment(S).generation = S.generation
PROOF
  <1>1. /\ S \in Pools /\ S.generation \in Nat
        /\ \A c \in Connections :
             /\ S.entry[c].state # "open" => S.entry[c].health = "off"
             /\ S.entry[c].generation <= S.generation
    BY DEF Loose, EntryInv, Pools
  <1>2. NoReplenishment \in Replenishments /\ NoReplenishment.generation = 0
    BY Slots DEF NoReplenishment, Replenishments
  <1> DEFINE T == CancelReplenishment(S)
  <1>3. /\ T \in Pools /\ T.selected = S.selected /\ T.standby = S.standby
        /\ T.secondary = S.secondary /\ T.draining = S.draining /\ T.lease = S.lease
        /\ T.entry = S.entry /\ T.attempt = S.attempt /\ T.generation = S.generation
        /\ T.replenishment = NoReplenishment
        /\ T.announced = S.announced /\ T.publishing = S.publishing
    BY <1>1, <1>2 DEF CancelReplenishment, Pools
  <1> HIDE DEF T
  <1> QED BY <1>1, <1>2, <1>3 DEF Like, T

\* A lease of an open carrier.
LEMMA LeaseKeeps ==
    ASSUME NEW S, Loose(S, {}), NEW a \in Apps, S.lease[a] = None, S.attempt.app # a,
           NEW c \in Connections, Open(S, c)
    PROVE  LET T == Lease(S, a, c)
           IN Loose(T, {}) /\ Keeps(S, T) /\ Used(T) /\ Told(S, T) /\ T.selected = S.selected
PROOF
  <1> DEFINE U == [S EXCEPT !.lease[a] = c]
             T == Lease(S, a, c)
  <1>1. S \in Pools /\ S.generation \in Nat /\ S.lease \in [Apps -> Slot] /\ c \in Slot
    BY Slots DEF Loose, Pools
  <1>2. /\ U \in Pools /\ U.selected = S.selected /\ U.standby = S.standby
        /\ U.secondary = S.secondary /\ U.draining = S.draining
        /\ U.lease = [S.lease EXCEPT ![a] = c]
        /\ U.entry = S.entry /\ U.attempt = S.attempt /\ U.generation = S.generation
        /\ U.replenishment = S.replenishment
        /\ U.announced = S.announced /\ U.publishing = S.publishing
    BY <1>1 DEF Pools
  <1>3. T = IF Leased(S, c) THEN U
            ELSE [U EXCEPT !.entry = Monitored(U, {c, U.standby, U.secondary}),
                           !.replenishment = Replenishment(U)]
    BY DEF Lease
  <1> HIDE DEF U, T
  <1>4. Loose(U, {})
    <2>1. \A d : Open(U, d) <=> Open(S, d)
      BY <1>2 DEF Open
    <2>2. \A d \in Connections : Leased(S, d) => Leased(U, d)
      BY <1>1, <1>2, Slots DEF Leased
    <2>3. Roles(U) = Roles(S)
      BY <1>2 DEF Roles
    <2>4. RolesOpen(U) /\ RolesApart(U) /\ OwnedBut(U, {})
      BY <1>2, <2>1, <2>2, <2>3 DEF Loose, RolesOpen, RolesApart, OwnedBut, Owned
    <2>5. RaceInv(U)
      <3>1. S.attempt.app \in Apps \cup {None}
        BY <1>1 DEF Pools, Attempts
      <3> QED BY <1>1, <1>2, <3>1 DEF Loose, RaceInv
    <2>6. Drains(U)
      BY <1>1, <1>2, <2>2, Slots DEF Loose, Drains, Pools
    <2>7. EntryInv(U)
      BY <1>2 DEF Loose, EntryInv
    <2> QED BY <1>2, <2>4, <2>5, <2>6, <2>7 DEF Loose
  <1>5. Keeps(S, U)
    BY <1>2 DEF Keeps, Open
  <1>6. Used(U)
    BY <1>1, <1>2, Slots DEF Used
  <1>9. Told(S, U)
    BY <1>2, ToldSame
  <1>7. CASE Leased(S, c)
    BY <1>2, <1>3, <1>4, <1>5, <1>6, <1>7, <1>9 DEF T
  <1>8. CASE ~Leased(S, c)
    <2> DEFINE f == Monitored(U, {c, U.standby, U.secondary})
    <2>1. /\ f \in [Connections -> Entries]
          /\ \A d \in Connections :
               /\ f[d].state = U.entry[d].state
               /\ f[d].generation = U.entry[d].generation
               /\ f[d].trusted = U.entry[d].trusted
               /\ U.entry[d].state # "open" => f[d].health = U.entry[d].health
      BY <1>2, MonitoredFacts
    <2>2. /\ U.replenishment.generation <= U.generation
          /\ \A d \in Connections : /\ U.entry[d].generation <= U.generation
                                    /\ U.entry[d].state # "open" => U.entry[d].health = "off"
      BY <1>4 DEF Loose, EntryInv
    <2>3. Replenishment(U) \in Replenishments /\ Replenishment(U).generation <= U.generation
      BY <1>2, <2>2, ReplenishmentType
    <2> HIDE DEF f
    <2>4. /\ T \in Pools /\ T.selected = U.selected /\ T.standby = U.standby
          /\ T.secondary = U.secondary /\ T.draining = U.draining /\ T.lease = U.lease
          /\ T.entry = f /\ T.attempt = U.attempt /\ T.generation = U.generation
          /\ T.replenishment = Replenishment(U)
          /\ T.announced = U.announced /\ T.publishing = U.publishing
      BY <1>2, <1>3, <1>8, <2>1, <2>3 DEF Pools, f
    <2>5. Like(U, T)
      BY <1>1, <1>2, <2>1, <2>2, <2>3, <2>4 DEF Like
    <2>6. Loose(T, {}) /\ Keeps(U, T) /\ Used(T) /\ Told(U, T)
      BY <1>4, <1>6, <2>5, LikeKeeps
    <2>7. Keeps(S, T)
      BY <1>2, <1>5, <2>4, <2>6 DEF Keeps, Open
    <2>8. Told(S, T)
      BY <1>9, <2>6, ToldTrans
    <2> QED BY <1>2, <2>4, <2>6, <2>7, <2>8 DEF T
  <1> QED BY <1>7, <1>8

\* The carrier a path opens is one that is closed and that nobody remembers.
LEMMA FreshFacts ==
    ASSUME NEW S, NEW path, Fresh(S, path) # {}
    PROVE  LET c == Min(Fresh(S, path))
           IN /\ c \in Connections /\ PathOf(c) = path /\ S.entry[c] = Closed
              /\ ~Leased(S, c) /\ c # S.draining
PROOF
  <1> DEFINE F == Fresh(S, path)
  <1>1. F \in SUBSET Nat
    BY PoolAssumption DEF Fresh
  <1>2. \E x \in F : \A y \in F : x <= y
    <2> HIDE DEF F
    <2> QED BY <1>1, LeastNatural DEF F
  <1>3. Min(F) \in F
    <2> HIDE DEF F
    <2> QED BY <1>2 DEF Min
  <1> QED BY <1>3 DEF Fresh

\* Like Opened, without the change of the entry itself.
LEMMA OpenKeeps ==
    ASSUME NEW S, Loose(S, {}), NEW c \in Connections, S.entry[c].state = "closed"
    PROVE  /\ Loose(Opened(S, c), {c}) /\ Keeps(S, Opened(S, c))
           /\ SameButEntries(S, Opened(S, c)) /\ c \notin Roles(S)
           /\ Open(Opened(S, c), c)
PROOF
  <1> DEFINE T == Opened(S, c)
  <1>1. S \in Pools /\ S.generation \in Nat
    BY DEF Loose, Pools
  <1>2. /\ T \in Pools /\ SameButEntries(S, T) /\ T.entry[c].state = "open"
        /\ T.entry[c].generation = S.generation
        /\ \A d \in Connections : d # c => T.entry[d] = S.entry[d]
    BY <1>1, OpenedFacts
  <1> HIDE DEF T
  <1>3. ~Open(S, c) /\ Open(T, c) /\ c \notin Roles(S)
    BY <1>2, Slots DEF Open, Loose, RolesOpen
  <1>4. \A d \in Slot : Open(S, d) => Open(T, d)
    BY <1>2, <1>3, Slots DEF Open
  <1>5. \A d \in Connections : Open(T, d) => Open(S, d) \/ d = c
    BY <1>2, Slots DEF Open
  <1>6. /\ Roles(T) = Roles(S) /\ Roles(S) \subseteq Slot
        /\ \A d : Leased(T, d) <=> Leased(S, d)
    BY <1>1, <1>2 DEF Roles, Leased, SameButEntries, Pools
  <1>7. RolesOpen(T) /\ RolesApart(T)
    BY <1>2, <1>4, <1>6 DEF Loose, RolesOpen, RolesApart, SameButEntries
  <1>8. OwnedBut(T, {c})
    BY <1>5, <1>6 DEF Loose, OwnedBut, Owned
  <1>9. RaceInv(T)
    BY <1>2 DEF Loose, RaceInv, SameButEntries
  <1>10. Drains(T)
    BY <1>2, <1>6 DEF Loose, Drains, SameButEntries
  <1>11. EntryInv(T)
    BY <1>1, <1>2 DEF Loose, EntryInv, SameButEntries
  <1>12. Keeps(S, T)
    BY <1>1, <1>4 DEF Keeps, Pools
  <1> QED BY <1>2, <1>3, <1>7, <1>8, <1>9, <1>10, <1>11, <1>12 DEF Loose, T

\* A carrier gets a free place.
LEMMA PlaceKeeps ==
    ASSUME NEW S, NEW c \in Connections, Loose(S, {c}), Open(S, c), c \notin Roles(S),
           NEW T \in Pools, T.entry = S.entry, T.lease = S.lease, T.attempt = S.attempt,
           T.replenishment = S.replenishment, T.generation = S.generation,
           T.draining = S.draining, T.selected = S.selected,
           \/ S.standby = None /\ T.standby = c /\ T.secondary = S.secondary
           \/ S.secondary = None /\ T.secondary = c /\ T.standby = S.standby
    PROVE  Loose(T, {}) /\ Keeps(S, T)
PROOF
  <1>1. S \in Pools /\ c # None
    BY Slots DEF Loose
  <1>2. \A d : (Open(T, d) <=> Open(S, d)) /\ (Leased(T, d) <=> Leased(S, d))
    BY DEF Open, Leased
  <1>3. Roles(T) = Roles(S) \cup {c}
    BY <1>1 DEF Roles
  <1>4. RolesOpen(T) /\ OwnedBut(T, {})
    BY <1>2, <1>3 DEF Loose, RolesOpen, OwnedBut, Owned
  <1>5. RolesApart(T)
    BY <1>1 DEF Loose, RolesApart, Roles
  <1>6. RaceInv(T) /\ Drains(T) /\ EntryInv(T)
    BY <1>2 DEF Loose, RaceInv, Drains, EntryInv
  <1>7. Keeps(S, T)
    BY <1>2 DEF Keeps
  <1> QED BY <1>4, <1>5, <1>6, <1>7 DEF Loose

LEMMA AdoptStandbyKeeps ==
    ASSUME NEW S, Loose(S, {}), Used(S), NEW c \in Connections,
           S.entry[c].state = "closed", ~Leased(S, c)
    PROVE  LET T == AdoptStandby(S, c)
           IN Loose(T, {}) /\ Used(T) /\ Keeps(S, T) /\ Told(S, T)
PROOF
  <1> DEFINE T == Opened(S, c)
             U == CASE S.standby = None -> [T EXCEPT !.standby = c]
                    [] S.standby # None /\ PathOf(S.standby) = "relay" /\ PathOf(c) = "wss"
                         /\ S.secondary = None -> [T EXCEPT !.secondary = c]
                    [] OTHER -> CloseEntry(T, c)
             R == Settle(U, {U.standby, U.secondary})
  <1>1. S \in Pools /\ c \in Slot
    BY Slots DEF Loose
  <1>2. AdoptStandby(S, c) = R
    BY DEF AdoptStandby
  <1>3. /\ Loose(T, {c}) /\ Keeps(S, T) /\ SameButEntries(S, T)
        /\ c \notin Roles(T) /\ Open(T, c) /\ ~Leased(T, c)
    BY OpenKeeps DEF SameButEntries, Roles, Leased
  <1>4. T \in Pools
    BY <1>3 DEF Loose
  <1>5. \/ S.standby = None /\ U = [T EXCEPT !.standby = c]
        \/ S.secondary = None /\ U = [T EXCEPT !.secondary = c]
        \/ U = CloseEntry(T, c)
    OBVIOUS
  <1>12. Told(S, T)
    <2>1. S.selected # None => S.selected \in Connections /\ S.selected # c
      BY <1>1, <1>3, Slots DEF Pools, Roles, SameButEntries
    <2>2. S.selected # None => T.entry[S.selected] = S.entry[S.selected]
      BY <1>1, <2>1, OpenedFacts
    <2> HIDE DEF T
    <2> QED BY <1>3, <2>2, ToldSame DEF SameButEntries
  <1> HIDE DEF T, U
  <1>6. Loose(U, {}) /\ Keeps(T, U) /\ U.lease = T.lease /\ U.selected = T.selected
        /\ Told(T, U)
    <2>1. CASE S.standby = None /\ U = [T EXCEPT !.standby = c]
      <3>1. /\ U \in Pools /\ U.standby = c /\ U.secondary = T.secondary
            /\ U.entry = T.entry /\ U.lease = T.lease /\ U.attempt = T.attempt
            /\ U.replenishment = T.replenishment /\ U.generation = T.generation
            /\ U.draining = T.draining /\ U.selected = T.selected
            /\ U.announced = T.announced /\ U.publishing = T.publishing
        BY <1>1, <1>4, <2>1 DEF Pools
      <3> QED BY <1>3, <2>1, <3>1, PlaceKeeps, ToldSame DEF SameButEntries
    <2>2. CASE S.secondary = None /\ U = [T EXCEPT !.secondary = c]
      <3>1. /\ U \in Pools /\ U.secondary = c /\ U.standby = T.standby
            /\ U.entry = T.entry /\ U.lease = T.lease /\ U.attempt = T.attempt
            /\ U.replenishment = T.replenishment /\ U.generation = T.generation
            /\ U.draining = T.draining /\ U.selected = T.selected
            /\ U.announced = T.announced /\ U.publishing = T.publishing
        BY <1>1, <1>4, <2>2 DEF Pools
      <3> QED BY <1>3, <2>2, <3>1, PlaceKeeps, ToldSame DEF SameButEntries
    <2>3. CASE U = CloseEntry(T, c)
      <3>1. ~Owned(T, c) /\ c # None
        BY <1>3, Slots DEF Owned
      <3>2. U = CloseIfUnowned(T, c)
        BY <2>3, <3>1 DEF CloseIfUnowned
      <3> QED BY <1>1, <1>3, <3>2, CloseIfUnownedKeeps DEF SameButEntries
    <2> QED BY <1>5, <2>1, <2>2, <2>3
  <1>7. Like(U, R)
    BY <1>6, SettleKeeps
  <1> HIDE DEF R
  <1>8. Loose(R, {}) /\ Keeps(U, R) /\ Told(U, R) /\ R.lease = U.lease /\ R.selected = U.selected
    BY <1>6, <1>7, LikeKeeps DEF Like
  <1>9. R.lease = S.lease /\ R.selected = S.selected
    BY <1>3, <1>6, <1>8 DEF SameButEntries
  <1>10. Keeps(S, R)
    BY <1>3, <1>6, <1>8, KeepsTrans DEF SameButEntries
  <1>11. Used(R)
    BY <1>9 DEF Used
  <1>13. Told(S, R)
    BY <1>6, <1>8, <1>12, ToldTrans
  <1> QED BY <1>2, <1>8, <1>10, <1>11, <1>13

LEMMA PreferWSSKeeps ==
    ASSUME NEW S, Loose(S, {})
    PROVE  LET T == PreferWSS(S)
           IN /\ Loose(T, {}) /\ Keeps(S, T) /\ T.lease = S.lease /\ T.selected = S.selected
              /\ T.attempt = S.attempt /\ Told(S, T)
PROOF
  <1> DEFINE wss(c) == Open(S, c) /\ PathOf(c) = "wss" /\ Trusted(S, c)
  <1>1. CASE wss(S.standby) \/ ~wss(S.secondary)
    <2>1. PreferWSS(S) = S
      BY <1>1 DEF PreferWSS
    <2> QED BY <2>1 DEF Keeps, Told
  <1>2. CASE ~(wss(S.standby) \/ ~wss(S.secondary))
    <2> DEFINE U == [S EXCEPT !.standby = S.secondary, !.secondary = None]
               T == CloseUnowned(U, {S.standby})
    <2>1. PreferWSS(S) = T
      BY <1>2 DEF PreferWSS
    <2>2. /\ S \in Pools /\ S.secondary \in Slot /\ S.secondary # None /\ S.generation \in Nat
      BY <1>2 DEF Loose, Pools, Open
    <2>3. /\ U \in Pools /\ U.selected = S.selected /\ U.standby = S.secondary
          /\ U.secondary = None /\ U.draining = S.draining /\ U.generation = S.generation
          /\ U.entry = S.entry /\ U.lease = S.lease /\ U.attempt = S.attempt
          /\ U.replenishment = S.replenishment
          /\ U.announced = S.announced /\ U.publishing = S.publishing
      BY <2>2, Slots DEF Pools
    <2> HIDE DEF U
    <2>4. Roles(U) \subseteq Roles(S) /\ Roles(S) \subseteq Roles(U) \cup {S.standby}
      BY <2>3 DEF Roles
    <2>5. RolesApart(U) /\ Drains(U)
      BY <2>2, <2>3 DEF Loose, RolesApart, Drains, Leased
    <2>6. Loose(U, {S.standby}) /\ Keeps(S, U)
      BY <2>2, <2>3, <2>4, <2>5, RolesLeft
    <2>7. Loose(T, {}) /\ Keeps(U, T) /\ Told(U, T) /\ SameButEntries(U, T)
      BY <2>6, CloseUnownedKeeps
    <2> HIDE DEF T
    <2>8. Keeps(S, T)
      BY <2>3, <2>6, <2>7, KeepsTrans
    <2>9. Told(S, U)
      BY <2>3, ToldSame
    <2>10. Told(S, T)
      BY <2>7, <2>9, ToldTrans
    <2> QED BY <2>1, <2>3, <2>7, <2>8, <2>10 DEF SameButEntries
  <1> QED BY <1>1, <1>2

\* A carrier takes over from the selected one.
LEMMA PromoteKeeps ==
    ASSUME NEW S, Loose(S, {}), Used(S), S.selected # None,
           NEW c \in Connections, S.entry[c].state = "closed", ~Leased(S, c),
           NEW g \in Nat, g >= S.generation
    PROVE  LET T == Promote(S, c, g)
           IN Loose(T, {}) /\ Used(T) /\ Keeps(S, T) /\ Told(S, T)
PROOF
  <1> DEFINE old == {S.selected, S.standby, S.secondary} \ {None}
             relay == PathOf(S.selected) = "relay"
             rebind(e) == [e EXCEPT !.generation = g, !.health = IF @ = "on" THEN "rebind" ELSE @]
             f == [d \in Connections |-> IF d \in old THEN rebind(S.entry[d]) ELSE S.entry[d]]
             sec == IF relay THEN S.standby ELSE None
             dr == IF Leased(S, S.selected) THEN S.selected ELSE S.draining
             T == [S EXCEPT !.generation = g,
                            !.entry = [d \in Connections |->
                                         IF d \in old THEN rebind(@[d]) ELSE @[d]],
                            !.standby = S.selected,
                            !.secondary = IF relay THEN S.standby ELSE None,
                            !.draining = IF Leased(S, S.selected) THEN S.selected ELSE @,
                            !.selected = c]
             V == Opened(T, c)
             X == {S.standby, S.secondary}
             U == CloseUnowned(V, X)
             W == [U EXCEPT !.publishing = @ \cup {c}]
             R == Watch(W, {c, U.standby, U.secondary})
  <1>1. /\ S \in Pools /\ S.entry \in [Connections -> Entries] /\ S.generation \in Nat
        /\ S.selected \in Slot /\ S.standby \in Slot /\ S.secondary \in Slot /\ S.draining \in Slot
        /\ c \in Slot /\ c # None
    BY Slots DEF Loose, Pools
  <1>2. Promote(S, c, g) = R
    BY DEF Promote
  <1>a. T = [S EXCEPT !.generation = g, !.entry = f, !.standby = S.selected,
                      !.secondary = sec, !.draining = dr, !.selected = c]
    BY <1>1 DEF Pools
  <1>3. /\ f \in [Connections -> Entries]
        /\ \A d \in Connections :
             /\ f[d].state = S.entry[d].state
             /\ f[d].generation \in {g, S.entry[d].generation}
             /\ S.entry[d].state # "open" => f[d].health = "off"
    <2>1. ASSUME NEW e \in Entries
          PROVE  /\ rebind(e) \in Entries /\ rebind(e).state = e.state
                 /\ rebind(e).generation = g
                 /\ e.health = "off" => rebind(e).health = "off"
      BY DEF Entries
    <2>2. \A d \in Connections : S.entry[d].state # "open" => S.entry[d].health = "off"
      BY DEF Loose, EntryInv
    <2> HIDE DEF rebind
    <2> QED BY <1>1, <2>1, <2>2
  <1>4. sec \in {S.standby, None} /\ sec \in Slot /\ dr \in Slot /\ (dr # None => Leased(S, dr))
    BY <1>1, Slots DEF Loose, Drains
  <1> HIDE DEF f, sec, dr, T
  <1>5. /\ T \in Pools /\ T.selected = c /\ T.standby = S.selected /\ T.secondary = sec
        /\ T.draining = dr /\ T.generation = g /\ T.entry = f /\ T.lease = S.lease
        /\ T.attempt = S.attempt /\ T.replenishment = S.replenishment
    BY <1>a, <1>1, <1>3, <1>4 DEF Pools
  <1>6. /\ V \in Pools /\ SameButEntries(T, V) /\ V.entry[c].state = "open" /\ V.entry[c].trusted
        /\ V.entry[c].generation = g
        /\ \A d \in Connections : d # c => V.entry[d] = f[d]
    BY <1>5, OpenedFacts
  <1>7. /\ V.selected = c /\ V.standby = S.selected /\ V.secondary = sec /\ V.draining = dr
        /\ V.generation = g /\ V.lease = S.lease /\ V.attempt = S.attempt
        /\ V.replenishment = S.replenishment
    BY <1>5, <1>6 DEF SameButEntries
  <1> HIDE DEF V
  <1>8. /\ ~Open(S, c) /\ Open(V, c) /\ c \notin Roles(S)
        /\ \A d \in Connections : d # c => (Open(V, d) <=> Open(S, d))
        /\ \A d : Leased(V, d) <=> Leased(S, d)
    BY <1>1, <1>3, <1>6, <1>7 DEF Open, Leased, Loose, RolesOpen
  <1>9. Roles(V) \subseteq Roles(S) \cup {c} /\ Roles(S) \subseteq Roles(V) \cup X
    BY <1>4, <1>7 DEF Roles
  <1>10. RolesOpen(V) /\ OwnedBut(V, X)
    <2>1. Roles(S) \subseteq Connections
      BY <1>1, Slots DEF Roles
    <2>2. c \in Roles(V)
      BY <1>1, <1>7 DEF Roles
    <2> HIDE DEF X
    <2> QED BY <1>8, <1>9, <2>1, <2>2 DEF Loose, RolesOpen, OwnedBut, Owned
  <1>11. RolesApart(V)
    BY <1>1, <1>4, <1>7, <1>8 DEF Loose, RolesApart, Roles
  <1>12. RaceInv(V)
    BY <1>3, <1>6, <1>7 DEF Loose, RaceInv
  <1>13. Drains(V)
    BY <1>4, <1>7, <1>8 DEF Drains
  <1>14. EntryInv(V)
    <2>1. \A d \in Connections : S.entry[d].generation \in Nat /\ S.entry[d].generation <= S.generation
      BY <1>1 DEF Entries, Loose, EntryInv
    <2>2. S.replenishment.generation \in Nat /\ S.replenishment.generation <= S.generation
      BY <1>1 DEF Pools, Replenishments, Loose, EntryInv
    <2> QED BY <1>1, <1>3, <1>6, <1>7, <2>1, <2>2 DEF EntryInv
  <1>15. Loose(V, X)
    BY <1>6, <1>10, <1>11, <1>12, <1>13, <1>14 DEF Loose
  <1>16. Keeps(S, V)
    <2>1. \A a \in Apps : S.lease[a] \in Slot
      BY <1>1 DEF Pools
    <2> QED BY <1>7, <1>8, <2>1, Slots DEF Keeps, Open
  <1>17. /\ Loose(U, {}) /\ Keeps(V, U) /\ SameButEntries(V, U)
         /\ \A d \in Roles(V) : U.entry[d] = V.entry[d] /\ Open(U, d)
    BY <1>15, CloseUnownedKeeps
  <1> HIDE DEF U
  <1>18. U.publishing \in SUBSET Connections /\ U \in Pools
    BY <1>17 DEF Loose, Pools
  <1>19. W = [U EXCEPT !.publishing = U.publishing \cup {c}] /\ U.publishing \cup {c} \in SUBSET Connections
    BY <1>18 DEF Pools
  <1> HIDE DEF W
  <1>20. /\ Loose(W, {}) /\ Keeps(U, W)
         /\ W.lease = U.lease /\ W.selected = U.selected /\ c \in W.publishing
    BY <1>17, <1>19, PublishingKeeps
  <1>21. Like(W, R)
    BY <1>20, WatchKeeps
  <1> HIDE DEF R
  <1>22. Loose(R, {}) /\ Keeps(W, R)
    BY <1>20, <1>21, LikeKeeps
  <1>23. U.lease = S.lease /\ Keeps(S, U)
    BY <1>7, <1>16, <1>17, KeepsTrans DEF SameButEntries
  <1>24. Keeps(S, R)
    BY <1>20, <1>22, <1>23, KeepsTrans
  <1>25. R.lease = S.lease /\ R.selected = c /\ c \in R.publishing
    BY <1>7, <1>17, <1>20, <1>21, <1>23 DEF Like, SameButEntries
  <1>26. Used(R) /\ Told(S, R)
    BY <1>25 DEF Used, Told, Current
  <1> QED BY <1>2, <1>22, <1>24, <1>26

-----------------------------------------------------------------------------
(* The operations. *)

\* What an operation other than FutureDenied, Invalidate and Close leaves.
Sound(S, T) == Loose(T, {}) /\ Used(T) /\ Keeps(S, T) /\ Told(S, T)

LEMMA SetFacts ==
    ASSUME NEW T, Set(T)
    PROVE  pool' = T /\ T.generation <= MaxGeneration
PROOF BY DEF Set, Becomes

LEMMA LeaveFacts ==
    ASSUME NEW T, NEW some, Leave(T, some)
    PROVE  pool' = T /\ T.generation <= MaxGeneration
PROOF BY DEF Leave, Becomes

LEMMA LikeSound ==
    ASSUME NEW S, Loose(S, {}), Used(S), NEW T, Like(S, T)
    PROVE  Sound(S, T) /\ T.lease = S.lease /\ T.selected = S.selected
PROOF BY LikeKeeps DEF Sound, Like

\* One function after another, the first of which leaves the leases and the selected
\* carrier alone.
LEMMA SoundAfter ==
    ASSUME NEW S, NEW T, NEW U, Sound(S, T), T.lease = S.lease, T.selected = S.selected,
           Sound(T, U)
    PROVE  Sound(S, U)
PROOF BY KeepsTrans DEF Sound, Told

LEMMA LostSound ==
    ASSUME NEW S, Used(S), NEW T, Lost(S, T)
    PROVE  Sound(S, T)
PROOF BY DEF Lost, Sound, Used

\* Changes of the fallback's opening, the rest of a race, the trust in a carrier.
LEMMA FutureLike ==
    ASSUME NEW S, Loose(S, {}), NEW f \in Futures
    PROVE  Like(S, [S EXCEPT !.future = f])
PROOF
  <1> DEFINE T == [S EXCEPT !.future = f]
  <1>1. /\ S \in Pools /\ S.generation \in Nat
        /\ S.replenishment.generation <= S.generation
        /\ \A c \in Connections :
             /\ S.entry[c].state # "open" => S.entry[c].health = "off"
             /\ S.entry[c].generation <= S.generation
    BY DEF Loose, EntryInv, Pools
  <1>2. /\ T \in Pools /\ T.selected = S.selected /\ T.standby = S.standby
        /\ T.secondary = S.secondary /\ T.draining = S.draining /\ T.lease = S.lease
        /\ T.entry = S.entry /\ T.attempt = S.attempt /\ T.generation = S.generation
        /\ T.replenishment = S.replenishment
        /\ T.announced = S.announced /\ T.publishing = S.publishing
    BY <1>1 DEF Pools
  <1> HIDE DEF T
  <1>3. Like(S, T)
    BY <1>1, <1>2 DEF Like
  <1> QED BY <1>3 DEF T

LEMMA StopHealthLike ==
    ASSUME NEW S, Loose(S, {}), NEW c \in Slot
    PROVE  Like(S, StopHealth(S, c))
PROOF
  <1> DEFINE T == StopHealth(S, c)
  <1>1. /\ S \in Pools /\ S.generation \in Nat
        /\ S.replenishment.generation <= S.generation
        /\ \A d \in Connections :
             /\ S.entry[d].state # "open" => S.entry[d].health = "off"
             /\ S.entry[d].generation <= S.generation
    BY DEF Loose, EntryInv, Pools
  <1>2. /\ T \in Pools /\ SameButEntries(S, T)
        /\ \A d \in Connections :
             /\ T.entry[d].state = S.entry[d].state
             /\ T.entry[d].generation = S.entry[d].generation
             /\ T.entry[d].trusted = S.entry[d].trusted
             /\ T.entry[d].health \in {"off", S.entry[d].health}
    BY <1>1, StopHealthFacts
  <1> HIDE DEF T
  <1>3. Like(S, T)
    BY <1>1, <1>2 DEF Like, SameButEntries
  <1> QED BY <1>3 DEF T

\* Monitors started in a state with the entries of S but for its monitors.
LEMMA MonitoredLike ==
    ASSUME NEW S, Loose(S, {}), NEW T \in Pools, NEW cs,
           \A d \in Connections :
             /\ T.entry[d].state = S.entry[d].state
             /\ T.entry[d].trusted = S.entry[d].trusted
             /\ T.entry[d].state # "open" => T.entry[d].health = "off"
             /\ T.entry[d].generation <= S.generation
    PROVE  Like(S, [S EXCEPT !.entry = Monitored(T, cs)])
PROOF
  <1> DEFINE m == Monitored(T, cs)
             U == [S EXCEPT !.entry = m]
  <1>1. S \in Pools /\ S.generation \in Nat /\ S.replenishment.generation <= S.generation
    BY DEF Loose, EntryInv, Pools
  <1>2. /\ m \in [Connections -> Entries]
        /\ \A d \in Connections :
             /\ m[d].state = T.entry[d].state
             /\ m[d].generation = T.entry[d].generation
             /\ m[d].trusted = T.entry[d].trusted
             /\ T.entry[d].state # "open" => m[d].health = T.entry[d].health
    BY MonitoredFacts
  <1> HIDE DEF m
  <1>3. U \in Pools /\ SameButEntries(S, U) /\ U.entry = m
    BY <1>1, <1>2, NewEntries
  <1> HIDE DEF U
  <1>4. Like(S, U)
    BY <1>1, <1>2, <1>3 DEF Like, SameButEntries
  <1> QED BY <1>4 DEF U, m

LEMMA AcquireStep ==
    ASSUME PoolInv, NEW a \in Apps, Acquire(a)
    PROVE  Sound(pool, pool')
PROOF
  <1>1. pool' = Lease(pool, a, pool.selected)
    BY SetFacts DEF Acquire
  <1>2. pool.selected \in Connections
    BY Slots DEF Acquire, Open, PoolInv, Loose, Pools
  <1>3. /\ Loose(pool', {}) /\ Keeps(pool, pool') /\ Used(pool')
        /\ Told(pool, pool')
    BY <1>1, <1>2, LeaseKeeps DEF Acquire, PoolInv
  <1> QED BY <1>3 DEF Sound

LEMMA ConnectStep ==
    ASSUME PoolInv, NEW a \in Apps, Connect(a)
    PROVE  Sound(pool, pool')
PROOF
  <1> DEFINE t == [on |-> TRUE, app |-> a, running |-> Paths, winner |-> None]
             g == pool.generation + 1
  <1>1. pool \in Pools /\ pool.generation \in Nat /\ g \in Nat
    BY DEF PoolInv, Loose, Pools
  <1>2. pool' = [pool EXCEPT !.generation = g, !.attempt = t]
    BY <1>1, SetFacts DEF Connect, Pools
  <1>3. t \in Attempts /\ t.on /\ t.app = a /\ t.winner = None
    BY NoAttemptFacts
  <1> HIDE DEF t
  <1>4. /\ pool' \in Pools /\ pool'.selected = pool.selected /\ pool'.standby = pool.standby
        /\ pool'.secondary = pool.secondary /\ pool'.draining = pool.draining
        /\ pool'.lease = pool.lease /\ pool'.entry = pool.entry /\ pool'.attempt = t
        /\ pool'.generation = g /\ pool'.replenishment = pool.replenishment
        /\ pool'.announced = pool.announced /\ pool'.publishing = pool.publishing
    BY <1>1, <1>2, <1>3 DEF Pools
  <1>5. pool.selected = None
    BY DEF Connect, PoolInv, Loose, RolesOpen, Roles
  <1>6. RaceInv(pool')
    BY <1>3, <1>4, <1>5, Slots DEF Connect, PoolInv, Loose, RaceInv
  <1>7. EntryInv(pool')
    <2>1. \A c \in Connections : pool.entry[c].generation \in Nat
      BY <1>1 DEF Pools, Entries
    <2>2. pool.replenishment.generation \in Nat
      BY <1>1 DEF Pools, Replenishments
    <2> QED BY <1>1, <1>4, <2>1, <2>2 DEF PoolInv, Loose, EntryInv
  <1> QED BY <1>4, <1>6, <1>7, RaceKeeps DEF PoolInv, Sound

LEMMA CandidateWinsStep ==
    ASSUME PoolInv, NEW path \in Paths, CandidateWins(path)
    PROVE  Sound(pool, pool')
PROOF
  <1> DEFINE c == Min(Fresh(pool, path))
             e == [Closed EXCEPT !.state = "offered", !.trusted = TRUE]
             f == [pool.entry EXCEPT ![c] = e]
             t == [pool.attempt EXCEPT !.running = @ \ {path}, !.winner = c]
  <1>1. /\ pool \in Pools /\ pool.generation \in Nat /\ pool.attempt \in Attempts
        /\ pool.entry \in [Connections -> Entries]
    BY DEF PoolInv, Loose, Pools
  <1>2. c \in Connections /\ pool.entry[c] = Closed /\ c \in Slot /\ c # None
    BY FreshFacts, Slots DEF CandidateWins
  <1>3. pool' = [pool EXCEPT !.entry[c].state = "offered", !.entry[c].trusted = TRUE,
                             !.attempt.running = @ \ {path}, !.attempt.winner = c]
    BY SetFacts DEF CandidateWins
  <1> HIDE DEF c
  <1>4. /\ e \in Entries /\ e.state = "offered" /\ e.health = "off" /\ e.generation = 0
    BY DEF Closed, Entries
  <1>5. /\ t \in Attempts /\ t.on = pool.attempt.on /\ t.app = pool.attempt.app /\ t.winner = c
    BY <1>1, <1>2 DEF Attempts
  <1>6. pool' = [pool EXCEPT !.entry = f, !.attempt = t]
    BY <1>1, <1>2, <1>3 DEF Pools, Attempts, Closed
  <1>7. f \in [Connections -> Entries] /\ f[c] = e /\ \A d \in Connections : d # c => f[d] = pool.entry[d]
    BY <1>1, <1>2, <1>4
  <1> HIDE DEF e, f, t
  <1>8. /\ pool' \in Pools /\ pool'.selected = pool.selected /\ pool'.standby = pool.standby
        /\ pool'.secondary = pool.secondary /\ pool'.draining = pool.draining
        /\ pool'.lease = pool.lease /\ pool'.entry = f /\ pool'.attempt = t
        /\ pool'.generation = pool.generation /\ pool'.replenishment = pool.replenishment
        /\ pool'.announced = pool.announced /\ pool'.publishing = pool.publishing
    BY <1>1, <1>5, <1>6, <1>7 DEF Pools
  <1>9. RaceInv(pool')
    BY <1>2, <1>4, <1>5, <1>7, <1>8, Slots DEF CandidateWins, PoolInv, Loose, RaceInv
  <1>10. EntryInv(pool')
    BY <1>1, <1>4, <1>7, <1>8 DEF PoolInv, Loose, EntryInv
  <1>11. \A d \in Connections : pool'.entry[d].state = "open" <=> pool.entry[d].state = "open"
    BY <1>2, <1>4, <1>7, <1>8, ClosedEntry
  <1>12. \A d \in Connections :
           pool.entry[d].state = "open" /\ pool'.entry[d].trusted => pool.entry[d].trusted
    BY <1>2, <1>7, <1>8, ClosedEntry
  <1> QED BY <1>8, <1>9, <1>10, <1>11, <1>12, RaceKeeps DEF PoolInv, Sound

\* The race changes and nothing else does.
LEMMA AttemptChanged ==
    ASSUME NEW S, Loose(S, {}), Used(S), NEW t \in Attempts, S.attempt.winner = None,
           t.winner = None,
           \/ t.on = S.attempt.on /\ t.app = S.attempt.app /\ t.running \subseteq S.attempt.running
           \/ t.app = None /\ t.running = {} /\ ~t.on
    PROVE  Sound(S, [S EXCEPT !.attempt = t])
PROOF
  <1> DEFINE T == [S EXCEPT !.attempt = t]
  <1>1. S \in Pools
    BY DEF Loose
  <1>2. /\ T \in Pools /\ T.selected = S.selected /\ T.standby = S.standby
        /\ T.secondary = S.secondary /\ T.draining = S.draining
        /\ T.lease = S.lease /\ T.entry = S.entry /\ T.attempt = t
        /\ T.generation = S.generation /\ T.replenishment = S.replenishment
        /\ T.announced = S.announced /\ T.publishing = S.publishing
    BY <1>1 DEF Pools
  <1> HIDE DEF T
  <1>3. RaceInv(T)
    BY <1>2, Slots DEF Loose, RaceInv
  <1>4. EntryInv(T)
    BY <1>2 DEF Loose, EntryInv
  <1>5. Sound(S, T)
    BY <1>2, <1>3, <1>4, RaceKeeps DEF Sound
  <1> QED BY <1>5 DEF T

LEMMA CandidateFailsStep ==
    ASSUME PoolInv, NEW path \in Paths, CandidateFails(path)
    PROVE  Sound(pool, pool')
PROOF
  <1> DEFINE t == [pool.attempt EXCEPT !.running = @ \ {path}]
  <1>1. pool \in Pools /\ pool.attempt \in Attempts
    BY DEF PoolInv, Loose, Pools
  <1>2. /\ t \in Attempts /\ t.on = pool.attempt.on /\ t.app = pool.attempt.app
        /\ t.winner = pool.attempt.winner /\ t.running \subseteq pool.attempt.running
    BY <1>1 DEF Attempts
  <1>3. pool' = [pool EXCEPT !.attempt = t]
    BY <1>1, SetFacts DEF CandidateFails, Pools
  <1> HIDE DEF t
  <1> QED BY <1>2, <1>3, AttemptChanged DEF PoolInv, CandidateFails

LEMMA AttemptFailedStep ==
    ASSUME PoolInv, AttemptFailed
    PROVE  Sound(pool, pool')
PROOF
  <1>1. pool' = [pool EXCEPT !.attempt = NoAttempt]
    BY SetFacts DEF AttemptFailed
  <1> QED BY <1>1, NoAttemptFacts, AttemptChanged DEF PoolInv, AttemptFailed

\* The winner of a race is selected.
LEMMA SelectKeeps ==
    ASSUME NEW S, Loose(S, {}), S.attempt.winner # None,
           NEW T \in Pools, T.selected = S.attempt.winner, T.standby = S.standby,
           T.secondary = S.secondary, T.draining = S.draining, T.lease = S.lease,
           T.generation = S.generation, T.replenishment = S.replenishment,
           T.attempt = NoAttempt,
           T.entry[S.attempt.winner].state = "open",
           T.entry[S.attempt.winner].generation = S.generation,
           \A d \in Connections : d # S.attempt.winner => T.entry[d] = S.entry[d]
    PROVE  Loose(T, {}) /\ Keeps(S, T)
PROOF
  <1> DEFINE c == S.attempt.winner
  <1>1. S \in Pools /\ S.generation \in Nat /\ c \in Connections
    BY Slots DEF Loose, Pools, Attempts
  <1>2. S.entry[c].state = "offered" /\ S.selected = None
    BY <1>1 DEF Loose, RaceInv
  <1>3. /\ ~Open(S, c) /\ Open(T, c) /\ c \notin Roles(S) /\ c # None
        /\ \A d \in Connections : d # c => (Open(T, d) <=> Open(S, d))
        /\ \A d : Leased(T, d) <=> Leased(S, d)
    BY <1>1, <1>2, Slots DEF Open, Leased, Loose, RolesOpen
  <1>4. Roles(T) = Roles(S) \cup {c} /\ Roles(S) \subseteq Connections
    BY <1>1, <1>2, <1>3, Slots DEF Roles, Pools
  <1>5. RolesOpen(T) /\ OwnedBut(T, {})
    BY <1>3, <1>4 DEF Loose, RolesOpen, OwnedBut, Owned
  <1>6. RolesApart(T)
    BY <1>3 DEF Loose, RolesApart, Roles
  <1>7. RaceInv(T)
    <2>1. \A d \in Connections : T.entry[d].state # "offered"
      BY <1>1 DEF Loose, RaceInv
    <2> QED BY <2>1, NoAttemptFacts, Slots DEF RaceInv
  <1>8. Drains(T)
    BY <1>3 DEF Loose, Drains
  <1>9. EntryInv(T)
    BY <1>1 DEF Loose, EntryInv
  <1>10. Keeps(S, T)
    <2>1. \A a \in Apps : S.lease[a] \in Slot
      BY <1>1 DEF Pools
    <2> QED BY <1>3, <2>1, Slots DEF Keeps, Open
  <1> QED BY <1>5, <1>6, <1>7, <1>8, <1>9, <1>10 DEF Loose

LEMMA AttemptDoneStep ==
    ASSUME PoolInv, AttemptDone
    PROVE  Sound(pool, pool')
PROOF
  <1> DEFINE c == pool.attempt.winner
             a == pool.attempt.app
             trusted == Trusted(pool, c)
             O == Opened(pool, c)
             f == [on |-> TRUE, running |-> pool.attempt.running]
             h == [O.entry EXCEPT ![c].trusted = trusted]
             T == [O EXCEPT !.attempt = NoAttempt, !.selected = c,
                            !.entry[c].trusted = trusted, !.announced = c,
                            !.future = f]
  <1>1. /\ pool \in Pools /\ pool.attempt \in Attempts /\ c \in Connections /\ c \in Slot /\ c # None
        /\ a \in Apps \cup {None} /\ pool.entry[c] \in Entries
    BY Slots DEF AttemptDone, PoolInv, Loose, Pools, Attempts
  <1>2. pool' = IF a # None THEN Lease(T, a, c) ELSE Idle(T, c)
    BY SetFacts DEF AttemptDone
  <1>3. f \in Futures /\ trusted \in BOOLEAN
    BY <1>1 DEF Attempts, Futures, Entries, Trusted
  <1>4. /\ O \in Pools /\ SameButEntries(pool, O) /\ O.entry[c].state = "open"
        /\ O.entry[c].generation = pool.generation
        /\ \A d \in Connections : d # c => O.entry[d] = pool.entry[d]
    BY <1>1, OpenedFacts
  <1>5. O.entry \in [Connections -> Entries]
    BY <1>4 DEF Pools
  <1> HIDE DEF c, f, O, trusted
  <1>6. T = [O EXCEPT !.attempt = NoAttempt, !.selected = c, !.entry = h,
                      !.announced = c, !.future = f]
    BY <1>4 DEF Pools
  <1>7. /\ h \in [Connections -> Entries] /\ h[c].state = O.entry[c].state
        /\ h[c].generation = O.entry[c].generation
        /\ \A d \in Connections : d # c => h[d] = O.entry[d]
    BY <1>1, <1>3, <1>5 DEF Entries
  <1> HIDE DEF h, T
  <1>8. /\ T \in Pools /\ T.selected = c /\ T.standby = O.standby
        /\ T.secondary = O.secondary /\ T.draining = O.draining
        /\ T.lease = O.lease /\ T.entry = h /\ T.attempt = NoAttempt
        /\ T.generation = O.generation /\ T.replenishment = O.replenishment
        /\ T.announced = c
    BY <1>1, <1>3, <1>4, <1>6, <1>7, NoAttemptFacts DEF Pools
  <1>9. /\ T.selected = pool.attempt.winner /\ T.standby = pool.standby
        /\ T.secondary = pool.secondary /\ T.draining = pool.draining
        /\ T.lease = pool.lease /\ T.generation = pool.generation
        /\ T.replenishment = pool.replenishment
        /\ T.entry[pool.attempt.winner].state = "open"
        /\ T.entry[pool.attempt.winner].generation = pool.generation
        /\ \A d \in Connections : d # pool.attempt.winner => T.entry[d] = pool.entry[d]
    BY <1>4, <1>7, <1>8 DEF SameButEntries, c
  <1>10. Loose(T, {}) /\ Keeps(pool, T)
    BY <1>1, <1>8, <1>9, SelectKeeps DEF PoolInv, c
  <1>12. Current(T)
    BY <1>8 DEF Current
  <1>13. CASE a # None
    <2>1. a \in Apps /\ T.lease[a] = None /\ T.attempt.app # a /\ Open(T, c)
      BY <1>1, <1>8, <1>9, <1>13, NoAttemptFacts DEF PoolInv, Loose, RaceInv, Open, c
    <2>2. pool' = Lease(T, a, c)
      BY <1>2, <1>13
    <2>3. Loose(pool', {}) /\ Keeps(T, pool') /\ Used(pool') /\ Told(T, pool')
      BY <1>1, <1>10, <2>1, <2>2, LeaseKeeps
    <2> QED BY <1>9, <1>10, <1>12, <2>3, KeepsTrans DEF Sound, Told
  <1>14. CASE a = None
    <2>1. pool' = Idle(T, c)
      BY <1>2, <1>14
    <2>2. Loose(pool', {}) /\ Keeps(T, pool') /\ Used(pool') /\ Told(T, pool')
      BY <1>1, <1>8, <1>10, <2>1, IdleKeeps
    <2> QED BY <1>9, <1>10, <1>12, <2>2, KeepsTrans DEF Sound, Told
  <1> QED BY <1>13, <1>14

LEMMA PromoteProbeStep ==
    ASSUME PoolInv, NEW path \in Paths, PromoteProbe(path)
    PROVE  Sound(pool, pool')
PROOF
  <1> DEFINE c == Min(Fresh(pool, path))
             g == pool.generation + 1
  <1>1. pool' = Promote(pool, c, g)
    BY SetFacts DEF PromoteProbe
  <1>2. c \in Connections /\ pool.entry[c].state = "closed" /\ ~Leased(pool, c)
    BY FreshFacts, ClosedEntry DEF PromoteProbe
  <1>3. pool.selected # None
    BY DEF PromoteProbe, MayPromote, Open
  <1>4. g \in Nat /\ g >= pool.generation
    BY DEF PoolInv, Loose, Pools
  <1> HIDE DEF c, g
  <1> QED BY <1>1, <1>2, <1>3, <1>4, PromoteKeeps DEF PoolInv, Sound

LEMMA FutureWinsStep ==
    ASSUME PoolInv, NEW path \in Paths, FutureWins(path)
    PROVE  Sound(pool, pool')
PROOF
  <1> DEFINE c == Min(Fresh(pool, path))
             f == [pool.future EXCEPT !.running = @ \ {path}]
             S == [pool EXCEPT !.future.running = @ \ {path}]
             over == PathOf(S.selected)
  <1>1. pool \in Pools /\ pool.future \in Futures
    BY DEF PoolInv, Loose, Pools
  <1>2. c \in Connections /\ pool.entry[c].state = "closed" /\ ~Leased(pool, c)
    BY FreshFacts, ClosedEntry DEF FutureWins
  <1>3. pool' = CASE S.selected # None /\ Better(path, over) ->
                       IF MayPromote(S, path) THEN Promote(S, c, S.generation) ELSE S
                  [] S.selected # None /\ Better(over, path) -> AdoptStandby(S, c)
                  [] OTHER -> S
    BY SetFacts DEF FutureWins
  <1>4. \/ S.selected # None /\ pool' = Promote(S, c, S.generation)
        \/ pool' = AdoptStandby(S, c)
        \/ pool' = S
    <2> HIDE DEF S, c, over
    <2> QED BY <1>3 DEF Better
  <1>5. f \in Futures
    BY <1>1 DEF Futures
  <1>6. S = [pool EXCEPT !.future = f]
    BY <1>1 DEF Pools
  <1>7. S.entry = pool.entry /\ S \in Pools /\ S.generation \in Nat
    BY <1>1, <1>5, <1>6 DEF Pools
  <1> HIDE DEF f, S, c
  <1>8. Like(pool, S)
    BY <1>5, <1>6, FutureLike DEF PoolInv
  <1>9. Sound(pool, S) /\ S.lease = pool.lease /\ S.selected = pool.selected
    BY <1>8, LikeSound DEF PoolInv
  <1>10. S.entry[c].state = "closed" /\ ~Leased(S, c)
    BY <1>2, <1>7, <1>9 DEF Leased
  <1>11. CASE S.selected # None /\ pool' = Promote(S, c, S.generation)
    <2>1. Sound(S, pool')
      BY <1>2, <1>7, <1>9, <1>10, <1>11, PromoteKeeps DEF Sound
    <2> QED BY <1>9, <2>1, SoundAfter
  <1>12. CASE pool' = AdoptStandby(S, c)
    <2>1. Sound(S, pool')
      BY <1>2, <1>9, <1>10, <1>12, AdoptStandbyKeeps DEF Sound
    <2> QED BY <1>9, <2>1, SoundAfter
  <1> QED BY <1>4, <1>9, <1>11, <1>12

LEMMA FutureFailsStep ==
    ASSUME PoolInv, NEW path \in Paths, FutureFails(path)
    PROVE  Sound(pool, pool')
PROOF
  <1> DEFINE f == [pool.future EXCEPT !.running = @ \ {path}]
  <1>1. pool \in Pools /\ pool.future \in Futures
    BY DEF PoolInv, Loose, Pools
  <1>2. f \in Futures
    BY <1>1 DEF Futures
  <1>3. pool' = [pool EXCEPT !.future = f]
    BY <1>1, SetFacts DEF FutureFails, Pools
  <1> HIDE DEF f
  <1> QED BY <1>2, <1>3, FutureLike, LikeSound DEF PoolInv

LEMMA FutureEndStep ==
    ASSUME PoolInv, FutureEnd
    PROVE  Sound(pool, pool')
PROOF
  <1> DEFINE S == [pool EXCEPT !.future = NoFuture]
  <1>1. pool' = EnsureReplenishment(S)
    BY LeaveFacts DEF FutureEnd
  <1>2. NoFuture \in Futures
    BY DEF NoFuture, Futures
  <1>3. Like(pool, S)
    BY <1>2, FutureLike DEF PoolInv
  <1> HIDE DEF S
  <1>4. Sound(pool, S) /\ S.lease = pool.lease /\ S.selected = pool.selected
    BY <1>3, LikeSound DEF PoolInv
  <1>5. Sound(S, pool')
    BY <1>1, <1>4, EnsureReplenishmentKeeps, LikeSound DEF Sound
  <1> QED BY <1>4, <1>5, SoundAfter

LEMMA ReplenishOpenedStep ==
    ASSUME PoolInv, ReplenishOpened
    PROVE  Sound(pool, pool')
PROOF
  <1> DEFINE S == CancelReplenishment(pool)
             c == Min(Fresh(S, "wss"))
  <1>1. pool' = AdoptStandby(S, c) \/ pool' = S
    <2> HIDE DEF S, c
    <2> QED BY SetFacts DEF ReplenishOpened, S, c
  <1>2. Like(pool, S) /\ S.entry = pool.entry
    BY CancelReplenishmentKeeps DEF PoolInv
  <1> HIDE DEF S
  <1>3. Fresh(S, "wss") # {}
    BY <1>2 DEF ReplenishOpened, Fresh, Like, Leased
  <1>4. c \in Connections /\ S.entry[c].state = "closed" /\ ~Leased(S, c)
    BY <1>3, FreshFacts, ClosedEntry
  <1> HIDE DEF c
  <1>5. Sound(pool, S) /\ S.lease = pool.lease /\ S.selected = pool.selected
    BY <1>2, LikeSound DEF PoolInv
  <1>6. CASE pool' = AdoptStandby(S, c)
    <2>1. Sound(S, pool')
      BY <1>4, <1>5, <1>6, AdoptStandbyKeeps DEF Sound
    <2> QED BY <1>5, <2>1, SoundAfter
  <1> QED BY <1>1, <1>5, <1>6

LEMMA ReplenishFailedStep ==
    ASSUME PoolInv, ReplenishFailed
    PROVE  Sound(pool, pool')
PROOF
  <1> DEFINE r == [pool.replenishment EXCEPT !.state = "retry"]
             T == [pool EXCEPT !.replenishment = r]
  <1>1. /\ pool \in Pools /\ pool.replenishment \in Replenishments /\ pool.generation \in Nat
        /\ pool.replenishment.generation <= pool.generation
        /\ \A c \in Connections :
             /\ pool.entry[c].state # "open" => pool.entry[c].health = "off"
             /\ pool.entry[c].generation <= pool.generation
    BY DEF PoolInv, Loose, EntryInv, Pools
  <1>2. pool' = T \/ pool' = CancelReplenishment(pool)
    BY <1>1, SetFacts DEF ReplenishFailed, Pools
  <1>3. CASE pool' = T
    <2>1. r \in Replenishments /\ r.generation = pool.replenishment.generation
      BY <1>1 DEF Replenishments
    <2> HIDE DEF r
    <2>2. /\ T \in Pools /\ T.selected = pool.selected /\ T.standby = pool.standby
          /\ T.secondary = pool.secondary /\ T.draining = pool.draining /\ T.lease = pool.lease
          /\ T.entry = pool.entry /\ T.attempt = pool.attempt /\ T.generation = pool.generation
          /\ T.replenishment = r
          /\ T.announced = pool.announced /\ T.publishing = pool.publishing
      BY <1>1, <2>1 DEF Pools
    <2> HIDE DEF T
    <2>3. Like(pool, T)
      BY <1>1, <2>1, <2>2 DEF Like
    <2> QED BY <1>3, <2>3, LikeSound DEF PoolInv
  <1>4. CASE pool' = CancelReplenishment(pool)
    BY <1>4, CancelReplenishmentKeeps, LikeSound DEF PoolInv
  <1> QED BY <1>2, <1>3, <1>4

LEMMA ReplenishRetryStep ==
    ASSUME PoolInv, ReplenishRetry
    PROVE  Sound(pool, pool')
PROOF
  <1> DEFINE S == CancelReplenishment(pool)
  <1>1. pool' = EnsureReplenishment(S)
    BY SetFacts DEF ReplenishRetry
  <1>2. Like(pool, S)
    BY CancelReplenishmentKeeps DEF PoolInv
  <1> HIDE DEF S
  <1>3. Sound(pool, S) /\ S.lease = pool.lease /\ S.selected = pool.selected
    BY <1>2, LikeSound DEF PoolInv
  <1>4. Sound(S, pool')
    BY <1>1, <1>3, EnsureReplenishmentKeeps, LikeSound DEF Sound
  <1> QED BY <1>3, <1>4, SoundAfter

LEMMA BreakStep ==
    ASSUME PoolInv, NEW c \in Connections, Break(c)
    PROVE  Sound(pool, pool')
PROOF
  <1> DEFINE f == [pool.entry EXCEPT ![c].trusted = FALSE]
  <1>1. /\ pool \in Pools /\ pool.entry \in [Connections -> Entries] /\ pool.generation \in Nat
        /\ pool.replenishment.generation <= pool.generation
        /\ \A d \in Connections :
             /\ pool.entry[d].state # "open" => pool.entry[d].health = "off"
             /\ pool.entry[d].generation <= pool.generation
    BY DEF PoolInv, Loose, EntryInv, Pools
  <1>2. pool' = [pool EXCEPT !.entry = f]
    BY <1>1, SetFacts DEF Break, Pools
  <1>3. /\ f \in [Connections -> Entries]
        /\ \A d \in Connections :
             /\ f[d].state = pool.entry[d].state /\ f[d].health = pool.entry[d].health
             /\ f[d].generation = pool.entry[d].generation
    BY <1>1 DEF Entries
  <1>6. \A d \in Connections : f[d].trusted => pool.entry[d].trusted
    BY <1>1 DEF Entries
  <1> HIDE DEF f
  <1>4. pool' \in Pools /\ SameButEntries(pool, pool') /\ pool'.entry = f
    BY <1>1, <1>2, <1>3, NewEntries
  <1>5. Like(pool, pool')
    BY <1>1, <1>3, <1>4, <1>6 DEF Like, SameButEntries
  <1> QED BY <1>5, LikeSound DEF PoolInv

LEMMA ReboundStep ==
    ASSUME PoolInv, NEW c \in Connections, Rebound(c)
    PROVE  Sound(pool, pool')
PROOF
  <1> DEFINE S == StopHealth(pool, c)
             T == [S EXCEPT !.entry = Monitored(S, {c})]
  <1>1. pool' = T \/ pool' = S
    BY SetFacts DEF Rebound
  <1>2. Like(pool, S)
    BY Slots, StopHealthLike DEF PoolInv
  <1> HIDE DEF S
  <1>3. Sound(pool, S) /\ S.lease = pool.lease /\ S.selected = pool.selected
    BY <1>2, LikeSound DEF PoolInv
  <1>4. Like(S, T)
    <2>1. /\ S \in Pools
          /\ \A d \in Connections :
               /\ S.entry[d].state # "open" => S.entry[d].health = "off"
               /\ S.entry[d].generation <= S.generation
      BY <1>3 DEF Sound, Loose, EntryInv
    <2> QED BY <1>3, <2>1, MonitoredLike DEF Sound
  <1> HIDE DEF T
  <1>5. Sound(S, T)
    BY <1>3, <1>4, LikeSound DEF Sound
  <1> QED BY <1>1, <1>3, <1>5, SoundAfter

LEMMA PublishStep ==
    ASSUME PoolInv, NEW c \in Connections, Publish(c)
    PROVE  Sound(pool, pool')
PROOF
  <1> DEFINE P == pool.publishing \ {c}
             S == [pool EXCEPT !.publishing = P]
             T == IF S.selected = c THEN [S EXCEPT !.announced = Announced(S)] ELSE S
  <1>1. /\ Loose(pool, {}) /\ Used(pool) /\ Current(pool) /\ pool \in Pools
        /\ P \in SUBSET Connections
    BY DEF PoolInv, Loose, Pools
  <1>2. pool' = T
    BY <1>1, SetFacts DEF Publish, Pools
  <1> HIDE DEF P
  <1>3. /\ Loose(S, {}) /\ Keeps(pool, S) /\ Used(S)
        /\ S.selected = pool.selected /\ S.lease = pool.lease /\ S.entry = pool.entry
        /\ S.announced = pool.announced /\ S.publishing = P
    BY <1>1, PublishingKeeps
  <1> HIDE DEF S
  <1>4. CASE S.selected = c
    <2>1. /\ S \in Pools /\ S.replenishment.generation <= S.generation /\ S.generation \in Nat
          /\ \A d \in Connections :
               /\ S.entry[d].state # "open" => S.entry[d].health = "off"
               /\ S.entry[d].generation <= S.generation
      BY <1>3 DEF Loose, EntryInv, Pools
    <2>2. Announced(S) \in Slot /\ Announced(S) \in {S.announced, S.selected}
      BY <2>1, AnnouncedType DEF Announced
    <2>3. T = [S EXCEPT !.announced = Announced(S)]
      BY <1>4
    <2> HIDE DEF T
    <2>4. /\ T \in Pools /\ T.announced = Announced(S) /\ T.entry = S.entry
          /\ T.selected = S.selected /\ T.standby = S.standby /\ T.secondary = S.secondary
          /\ T.draining = S.draining /\ T.attempt = S.attempt /\ T.lease = S.lease
          /\ T.generation = S.generation /\ T.replenishment = S.replenishment
          /\ T.publishing = S.publishing
      BY <2>1, <2>2, <2>3 DEF Pools
    <2>5. Like(S, T)
      BY <2>1, <2>2, <2>4 DEF Like
    <2>6. Loose(T, {}) /\ Used(T) /\ Keeps(S, T)
      BY <1>3, <2>5, LikeKeeps
    <2>7. Keeps(pool, T)
      BY <1>3, <2>6, KeepsTrans
    <2>8. Open(S, S.selected)
      BY <1>3, <1>4, Slots DEF Loose, RolesOpen, Roles
    <2>9. Current(T)
      BY <2>4, <2>8 DEF Current, Announced, Trusted
    <2> QED BY <1>2, <2>6, <2>7, <2>9 DEF Sound, Told
  <1>5. CASE S.selected # c
    <2>1. Current(S)
      BY <1>1, <1>3, <1>5 DEF Current, Trusted, P
    <2> QED BY <1>2, <1>3, <1>5, <2>1 DEF Sound, Told
  <1> QED BY <1>4, <1>5

LEMMA RetireStep ==
    ASSUME PoolInv, NEW c \in Connections, Retire(c)
    PROVE  Sound(pool, pool')
PROOF
  <1>1. pool' = FailHealth(pool, c)
    BY SetFacts DEF Retire
  <1> QED BY <1>1, FailHealthKeeps, LostSound DEF PoolInv

LEMMA StartRecoverySound ==
    ASSUME NEW S, NEW T, Sound(S, T), T.lease = S.lease, NEW excluded
    PROVE  LET U == StartRecovery(T, excluded)
           IN Sound(S, U) /\ U.lease = S.lease /\ U.selected = T.selected
PROOF
  <1> DEFINE U == StartRecovery(T, excluded)
  <1>1. /\ Loose(U, {}) /\ Keeps(T, U) /\ U.lease = T.lease
        /\ U.selected = T.selected /\ Told(T, U)
    BY StartRecoveryKeeps DEF Sound
  <1> HIDE DEF U
  <1>2. Keeps(S, U)
    BY <1>1, KeepsTrans DEF Sound
  <1>3. Sound(S, U) /\ U.lease = S.lease /\ U.selected = T.selected
    BY <1>1, <1>2 DEF Sound, Used, Told
  <1> QED BY <1>3 DEF U

LEMMA HealthFailsStep ==
    ASSUME PoolInv, NEW c \in Connections, NEW suspect \in BOOLEAN, HealthFails(c, suspect)
    PROVE  Sound(pool, pool')
PROOF
  <1> DEFINE S == StopHealth(pool, c)
             T == FailHealth(S, c)
             U == StartRecovery(T, PathOf(c))
  <1>1. pool' = CASE pool.closed -> S
                  [] ~pool.closed /\ suspect /\ pool.selected = c -> U
                  [] OTHER -> T
    BY SetFacts DEF HealthFails
  <1>2. pool' \in {S, T, U}
    <2> HIDE DEF S, T, U
    <2> QED BY <1>1
  <1>3. Like(pool, S)
    BY Slots, StopHealthLike DEF PoolInv
  <1> HIDE DEF S
  <1>4. Sound(pool, S) /\ S.lease = pool.lease /\ S.selected = pool.selected
    BY <1>3, LikeSound DEF PoolInv
  <1>5. Lost(S, T)
    BY <1>4, FailHealthKeeps DEF Sound
  <1> HIDE DEF T
  <1>6. Sound(S, T) /\ T.lease = S.lease
    BY <1>4, <1>5, LostSound DEF Sound, Lost
  <1>7. Sound(S, U)
    BY <1>6, StartRecoverySound
  <1> HIDE DEF U
  <1> QED BY <1>2, <1>4, <1>6, <1>7, SoundAfter

\* A lease ends that was not the last of its carrier.
LEMMA ReleaseShared ==
    ASSUME NEW S, Loose(S, {}), Used(S), NEW a \in Apps, S.lease[a] # None,
           NEW T \in Pools, T.lease = [S.lease EXCEPT ![a] = None],
           T.entry = S.entry, T.attempt = S.attempt, T.replenishment = S.replenishment,
           T.generation = S.generation, T.draining = S.draining, T.selected = S.selected,
           T.standby = S.standby, T.secondary = S.secondary,
           T.announced = S.announced, T.publishing = S.publishing, Leased(T, S.lease[a])
    PROVE  Sound(S, T)
PROOF
  <1>1. S \in Pools /\ S.lease \in [Apps -> Slot]
    BY DEF Loose, Pools
  <1>2. \A d : Open(T, d) <=> Open(S, d)
    BY DEF Open
  <1>3. \A d \in Connections : Leased(S, d) => Leased(T, d)
    BY <1>1 DEF Leased
  <1>4. Roles(T) = Roles(S)
    BY DEF Roles
  <1>5. RolesOpen(T) /\ RolesApart(T) /\ OwnedBut(T, {})
    BY <1>2, <1>3, <1>4 DEF Loose, RolesOpen, RolesApart, OwnedBut, Owned
  <1>6. RaceInv(T)
    <2>1. S.attempt.app \in Apps \cup {None}
      BY <1>1 DEF Pools, Attempts
    <2> QED BY <1>1, <2>1 DEF Loose, RaceInv
  <1>7. Drains(T)
    BY <1>1, <1>3, Slots DEF Loose, Drains, Pools
  <1>8. EntryInv(T)
    BY DEF Loose, EntryInv
  <1>9. Used(T)
    BY DEF Used, Leased
  <1>10. Keeps(S, T) /\ Told(S, T)
    BY <1>2, ToldSame DEF Keeps
  <1> QED BY <1>5, <1>6, <1>7, <1>8, <1>9, <1>10 DEF Loose, Sound

\* The last lease of a carrier ends: only that carrier may have lost its owner.
LEMMA ReleaseLast ==
    ASSUME NEW S, Loose(S, {}), NEW a \in Apps, NEW c, c = S.lease[a], c # None,
           NEW T \in Pools, T.lease = [S.lease EXCEPT ![a] = None],
           T.attempt = S.attempt, T.generation = S.generation, T.selected = S.selected,
           T.standby = S.standby, T.secondary = S.secondary,
           T.draining = (IF S.draining = c THEN None ELSE S.draining),
           T.replenishment.generation <= T.generation,
           T.announced = S.announced, T.publishing = S.publishing,
           \A d \in Connections :
             /\ T.entry[d].state = S.entry[d].state
             /\ T.entry[d].generation = S.entry[d].generation
             /\ T.entry[d].trusted = S.entry[d].trusted
             /\ T.entry[d].health \in {"off", S.entry[d].health}
    PROVE  Loose(T, {c}) /\ Keeps(S, T) /\ Told(S, T)
PROOF
  <1>1. S \in Pools /\ S.lease \in [Apps -> Slot] /\ c \in Slot /\ S.draining \in Slot
    BY DEF Loose, Pools
  <1>2. \A d \in Slot : Open(T, d) <=> Open(S, d)
    BY Slots DEF Open
  <1>3. \A d \in Connections : Leased(S, d) /\ d # c => Leased(T, d)
    BY <1>1 DEF Leased
  <1>4. Roles(T) = Roles(S) /\ Roles(S) \subseteq Slot
    BY <1>1 DEF Roles, Pools
  <1>5. RolesOpen(T) /\ RolesApart(T) /\ OwnedBut(T, {c})
    BY <1>2, <1>3, <1>4, Slots DEF Loose, RolesOpen, RolesApart, OwnedBut, Owned
  <1>6. RaceInv(T)
    <2>1. S.attempt.app \in Apps \cup {None}
      BY <1>1 DEF Pools, Attempts
    <2> QED BY <1>1, <2>1 DEF Loose, RaceInv
  <1>7. Drains(T)
    BY <1>1, <1>3, Slots DEF Loose, Drains
  <1>8. EntryInv(T)
    BY DEF Loose, EntryInv
  <1>9. Keeps(S, T)
    BY <1>1, <1>2 DEF Keeps
  <1>10. Told(S, T)
    <2>1. S.selected # None => S.selected \in Connections
      BY <1>1, Slots DEF Pools
    <2> QED BY <2>1, ToldSame
  <1> QED BY <1>5, <1>6, <1>7, <1>8, <1>9, <1>10 DEF Loose

LEMMA ReleaseStep ==
    ASSUME PoolInv, NEW a \in Apps, Release(a)
    PROVE  Sound(pool, pool')
PROOF
  <1> DEFINE c == pool.lease[a]
             l == [pool.lease EXCEPT ![a] = None]
             S == [pool EXCEPT !.lease[a] = None]
             T == IF InUse(S) THEN S ELSE CancelReplenishment(S)
             U == IF T.selected = c THEN StopHealth(T, c) ELSE T
             W == [U EXCEPT !.draining = IF @ = c THEN None ELSE @]
             V == CloseIfUnowned(W, c)
             R == Idle(V, V.selected)
  <1>1. /\ pool \in Pools /\ pool.generation \in Nat /\ pool.lease \in [Apps -> Slot]
        /\ c \in Slot /\ c # None /\ pool.draining \in Slot
    BY DEF PoolInv, Loose, Pools, Release
  <1>2. pool' = IF Leased(S, c) THEN S ELSE R
    BY SetFacts DEF Release
  <1>3. S = [pool EXCEPT !.lease = l] /\ l \in [Apps -> Slot]
    BY <1>1, Slots DEF Pools
  <1> HIDE DEF c, l, S
  <1>4. /\ S \in Pools /\ S.selected = pool.selected /\ S.standby = pool.standby
        /\ S.secondary = pool.secondary /\ S.draining = pool.draining /\ S.lease = l
        /\ S.entry = pool.entry /\ S.attempt = pool.attempt
        /\ S.generation = pool.generation /\ S.replenishment = pool.replenishment
        /\ S.announced = pool.announced /\ S.publishing = pool.publishing
    BY <1>1, <1>3 DEF Pools
  <1>5. CASE Leased(S, c)
    <2>1. Sound(pool, S)
      BY <1>1, <1>4, <1>5, ReleaseShared DEF PoolInv, c, l
    <2> QED BY <1>2, <1>5, <2>1
  <1>6. CASE ~Leased(S, c)
    <2>1. NoReplenishment \in Replenishments /\ NoReplenishment.generation = 0
      BY Slots DEF NoReplenishment, Replenishments
    <2>2. pool.replenishment.generation <= pool.generation
      BY DEF PoolInv, Loose, EntryInv
    <2>3. T = S \/ T = [S EXCEPT !.replenishment = NoReplenishment]
      BY DEF CancelReplenishment
    <2> HIDE DEF T
    <2>4. /\ T \in Pools /\ T.selected = S.selected /\ T.standby = S.standby
          /\ T.secondary = S.secondary /\ T.draining = S.draining /\ T.lease = S.lease
          /\ T.entry = S.entry /\ T.attempt = S.attempt /\ T.generation = S.generation
          /\ T.replenishment \in {S.replenishment, NoReplenishment}
          /\ T.announced = S.announced /\ T.publishing = S.publishing
      BY <1>4, <2>1, <2>3 DEF Pools
    <2>5. T.replenishment.generation <= T.generation
      BY <1>1, <1>4, <2>1, <2>2, <2>4
    <2>6. /\ U \in Pools /\ SameButEntries(T, U)
          /\ \A d \in Connections :
               /\ U.entry[d].state = T.entry[d].state
               /\ U.entry[d].generation = T.entry[d].generation
               /\ U.entry[d].trusted = T.entry[d].trusted
               /\ U.entry[d].health \in {"off", T.entry[d].health}
      <3>1. CASE T.selected = c
        <4>1. U = StopHealth(T, c)
          BY <3>1
        <4> QED BY <1>1, <2>4, <4>1, StopHealthFacts
      <3>2. CASE T.selected # c
        <4>1. U = T
          BY <3>2
        <4> QED BY <2>4, <4>1 DEF SameButEntries
      <3> QED BY <3>1, <3>2
    <2> HIDE DEF U
    <2>7. /\ W \in Pools /\ W.selected = U.selected /\ W.standby = U.standby
          /\ W.secondary = U.secondary /\ W.lease = U.lease
          /\ W.draining = (IF U.draining = c THEN None ELSE U.draining)
          /\ W.entry = U.entry /\ W.attempt = U.attempt /\ W.generation = U.generation
          /\ W.replenishment = U.replenishment
          /\ W.announced = U.announced /\ W.publishing = U.publishing
      BY <2>6, Slots DEF Pools
    <2> HIDE DEF W
    <2>8. /\ W.selected = pool.selected /\ W.standby = pool.standby
          /\ W.secondary = pool.secondary /\ W.lease = l
          /\ W.draining = (IF pool.draining = c THEN None ELSE pool.draining)
          /\ W.attempt = pool.attempt /\ W.generation = pool.generation
          /\ W.replenishment.generation <= W.generation
          /\ W.announced = pool.announced /\ W.publishing = pool.publishing
          /\ \A d \in Connections :
               /\ W.entry[d].state = pool.entry[d].state
               /\ W.entry[d].generation = pool.entry[d].generation
               /\ W.entry[d].trusted = pool.entry[d].trusted
               /\ W.entry[d].health \in {"off", pool.entry[d].health}
      BY <1>4, <2>4, <2>5, <2>6, <2>7 DEF SameButEntries
    <2>9. Loose(W, {c}) /\ Keeps(pool, W) /\ Told(pool, W)
      BY <1>1, <2>7, <2>8, ReleaseLast DEF PoolInv, c, l
    <2>10. Loose(V, {}) /\ Keeps(W, V) /\ Told(W, V) /\ SameButEntries(W, V)
      BY <1>1, <2>9, CloseIfUnownedKeeps
    <2>11. V.selected \in Slot
      BY <2>10 DEF Loose, Pools
    <2> HIDE DEF V
    <2>12. /\ Loose(R, {}) /\ Keeps(V, R) /\ R.lease = V.lease
           /\ Told(V, R) /\ Used(R)
      BY <2>10, <2>11, IdleKeeps
    <2> HIDE DEF R
    <2>13. V.lease = W.lease /\ V.selected = pool.selected
      BY <2>8, <2>10 DEF SameButEntries
    <2>14. Keeps(W, R)
      BY <2>10, <2>12, <2>13, KeepsTrans
    <2>15. Keeps(pool, R)
      BY <2>9, <2>12, <2>13, <2>14 DEF Keeps
    <2>16. Sound(pool, R)
      BY <2>9, <2>10, <2>12, <2>15 DEF Sound, Told
    <2> QED BY <1>2, <1>6, <2>16
  <1> QED BY <1>5, <1>6

LEMMA FutureDeniedStep ==
    ASSUME PoolInv, NEW path \in Paths, FutureDenied(path)
    PROVE  Loose(pool', {}) /\ Used(pool') /\ Told(pool, pool')
PROOF
  <1> DEFINE C == CloseEntry(pool, pool.selected)
             f == [C.future EXCEPT !.running = {}]
  <1>1. pool \in Pools /\ pool.selected \in Slot /\ pool.generation \in Nat
    BY DEF PoolInv, Loose, Pools
  <1>2. pool' = [C EXCEPT !.selected = None, !.future.running = {}]
    BY LeaveFacts DEF FutureDenied
  <1>3. /\ C \in Pools /\ SameButEntries(pool, C)
        /\ \A d \in Connections :
             C.entry[d] = IF d = pool.selected /\ Open(pool, d) THEN Closed ELSE pool.entry[d]
    BY <1>1, CloseEntryFacts
  <1> HIDE DEF C
  <1>4. C.future \in Futures
    BY <1>3 DEF Pools
  <1>5. f \in Futures /\ pool' = [C EXCEPT !.selected = None, !.future = f]
    BY <1>2, <1>3, <1>4 DEF Pools, Futures
  <1> HIDE DEF f
  <1>6. /\ pool' \in Pools /\ pool'.selected = None /\ pool'.standby = C.standby
        /\ pool'.secondary = C.secondary /\ pool'.draining = C.draining /\ pool'.lease = C.lease
        /\ pool'.entry = C.entry /\ pool'.attempt = C.attempt
        /\ pool'.generation = C.generation /\ pool'.replenishment = C.replenishment
    BY <1>3, <1>5, Slots DEF Pools
  <1>7. /\ pool'.standby = pool.standby /\ pool'.secondary = pool.secondary
        /\ pool'.draining = pool.draining /\ pool'.lease = pool.lease
        /\ pool'.attempt = pool.attempt /\ pool'.generation = pool.generation
        /\ pool'.replenishment = pool.replenishment
        /\ \A d \in Connections :
             pool'.entry[d] = IF d = pool.selected /\ Open(pool, d) THEN Closed ELSE pool.entry[d]
    BY <1>3, <1>6 DEF SameButEntries
  <1>8. /\ \A d \in Connections : Open(pool', d) <=> Open(pool, d) /\ d # pool.selected
        /\ \A d : Leased(pool', d) <=> Leased(pool, d)
    BY <1>7, ClosedEntry, Slots DEF Open, Leased
  <1>9. Roles(pool') = Roles(pool) \ {pool.selected} /\ Roles(pool) \subseteq Connections
    BY <1>1, <1>6, <1>7, Slots DEF Roles, Pools, PoolInv, Loose, RolesApart
  <1>10. RolesOpen(pool') /\ OwnedBut(pool', {})
    BY <1>8, <1>9 DEF PoolInv, Loose, RolesOpen, OwnedBut, Owned
  <1>11. RolesApart(pool')
    BY <1>6, <1>7 DEF PoolInv, Loose, RolesApart
  <1>12. RaceInv(pool')
    <2>1. \A d \in Connections : pool'.entry[d].state = "offered" <=> pool.entry[d].state = "offered"
      BY <1>7, ClosedEntry DEF Open
    <2> QED BY <1>6, <1>7, <2>1 DEF PoolInv, Loose, RaceInv
  <1>13. Drains(pool')
    BY <1>7, <1>8 DEF PoolInv, Loose, Drains
  <1>14. EntryInv(pool')
    BY <1>1, <1>7, ClosedEntry DEF PoolInv, Loose, EntryInv
  <1>15. Used(pool') /\ Told(pool, pool')
    BY <1>6, ToldNone DEF Used
  <1> QED BY <1>6, <1>10, <1>11, <1>12, <1>13, <1>14, <1>15 DEF Loose

LEMMA CancelWarmFacts ==
    ASSUME NEW S, Loose(S, {})
    PROVE  LET T == CancelWarm(S)
           IN /\ Loose(T, {}) /\ T.entry = S.entry /\ T.lease = S.lease
              /\ T.generation = S.generation /\ T.attempt = S.attempt
PROOF
  <1> DEFINE U == CancelReplenishment(S)
             T == CancelWarm(S)
  <1>1. Like(S, U) /\ U.entry = S.entry /\ U.generation = S.generation
    BY CancelReplenishmentKeeps
  <1>2. T = [U EXCEPT !.future = NoFuture]
    BY DEF CancelWarm
  <1> HIDE DEF U, T
  <1>3. Loose(U, {})
    BY <1>1, LikeKeeps
  <1>4. NoFuture \in Futures
    BY DEF NoFuture, Futures
  <1>5. Like(U, T)
    BY <1>2, <1>3, <1>4, FutureLike
  <1>6. Loose(T, {})
    BY <1>3, <1>5, LikeKeeps
  <1>7. T.entry = U.entry /\ T.generation = U.generation
    BY <1>2, <1>3 DEF Loose, Pools
  <1> QED BY <1>1, <1>5, <1>6, <1>7 DEF Like, T

LEMMA DropKeeps ==
    ASSUME NEW S, Loose(S, {})
    PROVE  Loose(Drop(S), {}) /\ Drop(S).selected = None
PROOF
  <1> DEFINE C == CancelConnect(S)
             T == CancelWarm(C)
             gone == {S.selected, S.standby, S.secondary, S.draining}
             f == [c \in Connections |-> IF c \in gone /\ Open(S, c) THEN Closed ELSE T.entry[c]]
             g == T.generation + 1
             D == Drop(S)
  <1>1. /\ Loose(C, {}) /\ C.lease = S.lease /\ C.attempt = NoAttempt
        /\ \A c \in Slot : Open(C, c) <=> Open(S, c)
    BY CancelConnectKeeps
  <1> HIDE DEF C
  <1>2. /\ Loose(T, {}) /\ T.entry = C.entry /\ T.lease = C.lease
        /\ T.generation = C.generation /\ T.attempt = C.attempt
    BY <1>1, CancelWarmFacts
  <1>3. /\ T \in Pools /\ T.entry \in [Connections -> Entries] /\ T.generation \in Nat /\ g \in Nat
    BY <1>2 DEF Loose, Pools
  <1>4. D = [T EXCEPT !.generation = g, !.entry = f, !.selected = None, !.standby = None,
                      !.secondary = None, !.draining = None]
    BY <1>3 DEF Drop, Pools, C
  <1> HIDE DEF T, D
  <1>5. /\ f \in [Connections -> Entries]
        /\ \A c \in Connections :
             f[c] = IF c \in gone /\ Open(S, c) THEN Closed ELSE T.entry[c]
    BY <1>3, ClosedEntry
  <1> HIDE DEF f
  <1>6. /\ D \in Pools /\ D.selected = None /\ D.standby = None /\ D.secondary = None
        /\ D.draining = None /\ D.generation = g /\ D.entry = f /\ D.lease = T.lease
        /\ D.attempt = T.attempt /\ D.replenishment = T.replenishment
    BY <1>3, <1>4, <1>5, Slots DEF Pools
  <1>7. Roles(D) = {}
    BY <1>6 DEF Roles
  <1>8. OwnedBut(D, {})
    <2>1. ASSUME NEW c \in Connections, Open(D, c)
          PROVE  Leased(D, c)
      <3>1. ~(c \in gone /\ Open(S, c)) /\ Open(T, c)
        BY <1>5, <1>6, <2>1, ClosedEntry DEF Open
      <3>2. Open(S, c)
        BY <1>1, <1>2, <3>1, Slots DEF Open
      <3>3. Owned(S, c) /\ c \notin Roles(S)
        BY <3>1, <3>2 DEF Loose, OwnedBut, Roles
      <3> QED BY <1>1, <1>2, <1>6, <3>3 DEF Owned, Leased
    <2> QED BY <2>1 DEF OwnedBut, Owned
  <1>9. RolesOpen(D) /\ RolesApart(D) /\ Drains(D)
    BY <1>6, <1>7 DEF RolesOpen, RolesApart, Drains
  <1>10. RaceInv(D)
    <2>1. \A c \in Connections : T.entry[c].state # "offered"
      BY <1>1, <1>2, NoAttemptFacts, Slots DEF Loose, RaceInv
    <2>2. \A c \in Connections : D.entry[c].state # "offered"
      BY <1>5, <1>6, <2>1, ClosedEntry
    <2>3. D.attempt = NoAttempt
      BY <1>1, <1>2, <1>6
    <2> QED BY <2>2, <2>3, NoAttemptFacts, Slots DEF RaceInv
  <1>11. EntryInv(D)
    <2>1. \A c \in Connections : T.entry[c].generation \in Nat /\ T.entry[c].generation <= g
      BY <1>2, <1>3 DEF Loose, EntryInv, Entries
    <2>2. T.replenishment.generation <= g
      <3>1. T.replenishment.generation \in Nat
        BY <1>3 DEF Pools, Replenishments
      <3> QED BY <1>2, <1>3, <3>1 DEF Loose, EntryInv
    <2>3. \A c \in Connections : T.entry[c].state # "open" => T.entry[c].health = "off"
      BY <1>2 DEF Loose, EntryInv
    <2> HIDE DEF g
    <2> QED BY <1>3, <1>5, <1>6, <2>1, <2>2, <2>3, ClosedEntry DEF EntryInv
  <1>12. Loose(D, {}) /\ D.selected = None
    BY <1>6, <1>8, <1>9, <1>10, <1>11 DEF Loose
  <1> QED BY <1>12 DEF D

LEMMA DropSteps ==
    ASSUME PoolInv, Invalidate \/ Close
    PROVE  Loose(pool', {}) /\ Used(pool') /\ Told(pool, pool')
PROOF
  <1> DEFINE D == Drop(pool)
  <1>1. Loose(D, {}) /\ D.selected = None
    BY DropKeeps DEF PoolInv
  <1>2. pool' = D \/ pool' = [D EXCEPT !.closed = TRUE]
    BY LeaveFacts DEF Invalidate, Close
  <1> HIDE DEF D
  <1>3. /\ pool' \in Pools /\ pool'.selected = D.selected /\ pool'.standby = D.standby
        /\ pool'.secondary = D.secondary /\ pool'.draining = D.draining /\ pool'.lease = D.lease
        /\ pool'.entry = D.entry /\ pool'.attempt = D.attempt
        /\ pool'.generation = D.generation /\ pool'.replenishment = D.replenishment
        /\ pool'.announced = D.announced /\ pool'.publishing = D.publishing
    BY <1>1, <1>2 DEF Loose, Pools
  <1>4. RaceInv(pool') /\ EntryInv(pool')
    BY <1>1, <1>3 DEF Loose, RaceInv, EntryInv
  <1>5. Loose(pool', {})
    BY <1>1, <1>3, <1>4, RaceKeeps
  <1> QED BY <1>1, <1>3, <1>5, ToldNone DEF Used

\* The generation ends.
LEMMA GenerationLike ==
    ASSUME NEW S, Loose(S, {})
    PROVE  Like(S, [S EXCEPT !.generation = @ + 1])
PROOF
  <1> DEFINE g == S.generation + 1
             T == [S EXCEPT !.generation = g]
  <1>1. S \in Pools /\ S.generation \in Nat /\ g \in Nat /\ g >= S.generation
    BY DEF Loose, Pools
  <1>2. [S EXCEPT !.generation = @ + 1] = T
    BY <1>1 DEF Pools
  <1>3. /\ S.replenishment.generation <= g
        /\ \A c \in Connections :
             /\ S.entry[c].state # "open" => S.entry[c].health = "off"
             /\ S.entry[c].generation <= g
    <2>1. \A c \in Connections : S.entry[c].generation \in Nat
      BY <1>1 DEF Pools, Entries
    <2>2. S.replenishment.generation \in Nat
      BY <1>1 DEF Pools, Replenishments
    <2> QED BY <1>1, <2>1, <2>2 DEF Loose, EntryInv
  <1> HIDE DEF g
  <1>4. /\ T \in Pools /\ T.selected = S.selected /\ T.standby = S.standby
        /\ T.secondary = S.secondary /\ T.draining = S.draining /\ T.lease = S.lease
        /\ T.entry = S.entry /\ T.attempt = S.attempt /\ T.generation = g
        /\ T.replenishment = S.replenishment
        /\ T.announced = S.announced /\ T.publishing = S.publishing
    BY <1>1 DEF Pools
  <1> HIDE DEF T
  <1>5. Like(S, T)
    BY <1>1, <1>3, <1>4 DEF Like
  <1> QED BY <1>2, <1>5

LEMMA GiveUpSound ==
    ASSUME NEW S, Loose(S, {}), Used(S), S.selected # None
    PROVE  Sound(S, GiveUp(S)) /\ GiveUp(S).lease = S.lease
PROOF
  <1> DEFINE T == FailHealth(S, S.selected)
             U == StartRecovery(T, PathOf(S.selected))
  <1>1. S.selected \in Connections
    BY Slots DEF Loose, Pools
  <1>2. GiveUp(S) \in {T, U}
    BY DEF GiveUp
  <1>3. Lost(S, T)
    BY <1>1, FailHealthKeeps
  <1> HIDE DEF T
  <1>4. Sound(S, T) /\ T.lease = S.lease
    BY <1>3, LostSound DEF Lost
  <1>5. Sound(S, U) /\ U.lease = S.lease
    BY <1>4, StartRecoverySound
  <1> HIDE DEF U
  <1> QED BY <1>2, <1>4, <1>5

\* A state that is like T after T.
LEMMA SoundLike ==
    ASSUME NEW S, NEW T, Sound(S, T), T.lease = S.lease, NEW U, Like(T, U)
    PROVE  Sound(S, U) /\ U.lease = S.lease /\ U.selected = T.selected
PROOF
  <1>1. Sound(T, U) /\ U.lease = T.lease /\ U.selected = T.selected
    BY LikeSound DEF Sound
  <1>2. Keeps(S, U)
    BY <1>1, KeepsTrans DEF Sound
  <1> QED BY <1>1, <1>2 DEF Sound, Told

LEMMA NetworkChangedStep ==
    ASSUME PoolInv, NetworkChanged
    PROVE  Sound(pool, pool')
PROOF
  <1> DEFINE S == CancelConnect(pool)
             on == IF S.selected = None THEN "none" ELSE PathOf(S.selected)
             G == GiveUp(S)
             N == [S EXCEPT !.generation = @ + 1]
             H == [G EXCEPT !.generation = @ + 1]
             P == PreferWSS(S)
             F == FailHealth(P, S.selected)
             T == CASE on = "direct" ->
                         LET U == GiveUp(S)
                         IN IF U.generation = S.generation THEN [U EXCEPT !.generation = @ + 1] ELSE U
                    [] on = "relay" /\ HasWSSFallback(S) -> FailHealth(PreferWSS(S), S.selected)
                    [] on = "relay" /\ ~HasWSSFallback(S) /\ InUse(S) -> GiveUp(S)
                    [] OTHER -> [S EXCEPT !.generation = @ + 1]
             restart == /\ T.selected # None /\ PathOf(T.selected) # "direct"
                        /\ InUse(T) /\ Leased(T, T.selected)
             M == [T EXCEPT !.entry = Monitored(StopHealth(T, T.selected), {T.selected})]
             V == IF restart THEN M ELSE T
             R == Idle(V, V.selected)
             changed == on = "direct" \/ (on = "relay" /\ (HasWSSFallback(S) \/ InUse(S)))
  <1>a. Leave(IF changed THEN R ELSE V, Strays(pool))
    BY Zenon DEF NetworkChanged
  <1>1. pool' \in {R, V}
    <2> HIDE DEF S, on, T, V, R, changed
    <2> QED BY <1>a, LeaveFacts
  <1>2. /\ Loose(S, {}) /\ Keeps(pool, S) /\ S.lease = pool.lease
        /\ S.selected = pool.selected /\ Told(pool, S)
    BY CancelConnectKeeps DEF PoolInv
  <1>3. Sound(pool, S)
    BY <1>2 DEF Sound, PoolInv, Used
  <1>4. \/ S.selected # None /\ T \in {G, H}
        \/ S.selected # None /\ T = F
        \/ T = N
    <2> DEFINE has == HasWSSFallback(S)
               used == InUse(S)
    <2>1. T = CASE on = "direct" -> (IF G.generation = S.generation THEN H ELSE G)
                [] on = "relay" /\ has -> F
                [] on = "relay" /\ ~has /\ used -> G
                [] OTHER -> N
      OBVIOUS
    <2>2. on \in {"direct", "relay"} => S.selected # None
      OBVIOUS
    <2> HIDE DEF S, on, G, H, F, N, T, P, has, used
    <2> QED BY <2>1, <2>2
  <1> HIDE DEF S, T
  <1>5. Sound(S, T) /\ T.lease = S.lease
    <2>1. CASE S.selected # None /\ T \in {G, H}
      <3>1. Sound(S, G) /\ G.lease = S.lease
        BY <1>3, <2>1, GiveUpSound DEF Sound
      <3> HIDE DEF G
      <3>2. Like(G, H)
        BY <3>1, GenerationLike DEF Sound
      <3> HIDE DEF H
      <3>4. Sound(S, H) /\ H.lease = S.lease
        BY <3>1, <3>2, SoundLike
      <3> QED BY <2>1, <3>1, <3>4
    <2>2. CASE S.selected # None /\ T = F
      <3>1. /\ Loose(P, {}) /\ Keeps(S, P) /\ P.lease = S.lease /\ P.selected = S.selected
            /\ Told(S, P)
        BY <1>2, PreferWSSKeeps
      <3> HIDE DEF P
      <3>2. Sound(S, P) /\ Used(P)
        BY <1>3, <3>1 DEF Sound, Used
      <3>3. S.selected \in Connections
        BY <1>2, <2>2, Slots DEF Loose, Pools
      <3>4. Lost(P, F)
        BY <3>1, <3>3, FailHealthKeeps
      <3> HIDE DEF F
      <3>5. Sound(P, F) /\ F.lease = P.lease
        BY <3>2, <3>4, LostSound DEF Lost
      <3> QED BY <2>2, <3>1, <3>2, <3>5, SoundAfter
    <2>3. CASE T = N
      <3>1. Like(S, N)
        BY <1>2, GenerationLike
      <3> HIDE DEF N
      <3> QED BY <1>3, <2>3, <3>1, LikeSound DEF Sound
    <2> QED BY <1>4, <2>1, <2>2, <2>3
  <1>6. Sound(S, V) /\ V.lease = S.lease
    <2> DEFINE Q == StopHealth(T, T.selected)
    <2>1. Loose(T, {}) /\ T \in Pools /\ T.selected \in Slot
      BY <1>5 DEF Sound, Loose, Pools
    <2>2. /\ Q \in Pools
          /\ \A d \in Connections :
               /\ Q.entry[d].state = T.entry[d].state
               /\ Q.entry[d].generation = T.entry[d].generation
               /\ Q.entry[d].trusted = T.entry[d].trusted
               /\ Q.entry[d].health \in {"off", T.entry[d].health}
      BY <2>1, StopHealthFacts
    <2> HIDE DEF Q
    <2>3. \A d \in Connections :
            /\ Q.entry[d].state = T.entry[d].state
            /\ Q.entry[d].trusted = T.entry[d].trusted
            /\ Q.entry[d].state # "open" => Q.entry[d].health = "off"
            /\ Q.entry[d].generation <= T.generation
      BY <2>1, <2>2 DEF Loose, EntryInv
    <2>4. M = [T EXCEPT !.entry = Monitored(Q, {T.selected})]
      BY DEF Q
    <2>5. Like(T, M)
      BY <2>1, <2>2, <2>3, <2>4, MonitoredLike
    <2> HIDE DEF M
    <2>7. Sound(S, M) /\ M.lease = S.lease
      BY <1>5, <2>5, SoundLike
    <2> QED BY <1>5, <2>7
  <1> HIDE DEF V
  <1>7. Sound(S, R)
    <2>1. Loose(V, {}) /\ V.selected \in Slot
      BY <1>6 DEF Sound, Loose, Pools
    <2>2. /\ Loose(R, {}) /\ Keeps(V, R) /\ R.lease = V.lease
          /\ Told(V, R) /\ Used(R)
      BY <2>1, IdleKeeps
    <2> HIDE DEF R
    <2>3. Keeps(S, R)
      BY <1>6, <2>2, KeepsTrans DEF Sound
    <2> QED BY <1>6, <2>2, <2>3 DEF Sound, Told
  <1> HIDE DEF R
  <1>8. Sound(S, pool')
    BY <1>1, <1>6, <1>7
  <1> QED BY <1>2, <1>3, <1>8, SoundAfter

-----------------------------------------------------------------------------

LEMMA PoolInvInit ==
    Init => PoolInv
PROOF
  <1> SUFFICES ASSUME Init PROVE PoolInv
    OBVIOUS
  <1> DEFINE l == [a \in Apps |-> None]
             f == [c \in Connections |-> Closed]
  <1>1. /\ pool.selected = None /\ pool.standby = None /\ pool.secondary = None
        /\ pool.draining = None /\ pool.generation = 0 /\ pool.attempt = NoAttempt
        /\ pool.replenishment = NoReplenishment /\ pool.lease = l /\ pool.entry = f
    BY DEF Init
  <1>2. NoFuture \in Futures /\ NoReplenishment \in Replenishments /\ NoReplenishment.generation = 0
    BY Slots DEF NoFuture, Futures, NoReplenishment, Replenishments
  <1>3. /\ l \in [Apps -> Slot] /\ f \in [Connections -> Entries]
        /\ \A c \in Connections : f[c] = Closed
    BY Slots, ClosedEntry
  <1>4. pool \in Pools
    <2> HIDE DEF l, f
    <2>1. pool = [selected |-> None, standby |-> None, secondary |-> None, draining |-> None,
                  generation |-> 0, attempt |-> NoAttempt, future |-> NoFuture,
                  replenishment |-> NoReplenishment, lease |-> l, entry |-> f,
                  announced |-> None, publishing |-> {}, closed |-> FALSE]
      BY DEF Init, l, f
    <2> QED BY <1>2, <1>3, <2>1, NoAttemptFacts, Slots DEF Pools
  <1> HIDE DEF l, f
  <1>5. Roles(pool) = {} /\ \A c \in Connections : ~Open(pool, c)
    BY <1>1, <1>3, ClosedEntry DEF Roles, Open
  <1>6. RolesOpen(pool) /\ RolesApart(pool) /\ OwnedBut(pool, {}) /\ Drains(pool)
    BY <1>1, <1>5 DEF RolesOpen, RolesApart, OwnedBut, Drains
  <1>7. RaceInv(pool)
    BY <1>1, <1>3, ClosedEntry, NoAttemptFacts, Slots DEF RaceInv
  <1>8. EntryInv(pool)
    BY <1>1, <1>2, <1>3, ClosedEntry DEF EntryInv
  <1>9. Used(pool) /\ Current(pool) /\ pool.generation <= MaxGeneration /\ left \in BOOLEAN
    <2>1. left \in BOOLEAN
      BY DEF Init
    <2>2. Used(pool) /\ Current(pool)
      BY <1>1 DEF Used, Current
    <2> QED BY <1>1, <2>1, <2>2, PoolAssumption
  <1> QED BY <1>4, <1>6, <1>7, <1>8, <1>9 DEF PoolInv, Loose

\* Every operation but three leaves the leased carriers open.
LEMMA OperationSound ==
    ASSUME PoolInv, Next
    PROVE  \/ Sound(pool, pool')
           \/ /\ Invalidate \/ Close \/ \E path \in Paths : FutureDenied(path)
              /\ Loose(pool', {}) /\ Used(pool') /\ Told(pool, pool')
PROOF
  <1>1. CASE \E a \in Apps : Acquire(a) \/ Connect(a) \/ Release(a)
    BY <1>1, AcquireStep, ConnectStep, ReleaseStep
  <1>2. CASE \E path \in Paths : FutureDenied(path)
    BY <1>2, FutureDeniedStep
  <1>3. CASE \E path \in Paths :
               \/ CandidateWins(path) \/ CandidateFails(path) \/ PromoteProbe(path)
               \/ FutureWins(path) \/ FutureFails(path)
    BY <1>3, CandidateWinsStep, CandidateFailsStep, PromoteProbeStep, FutureWinsStep,
       FutureFailsStep
  <1>4. CASE AttemptDone \/ AttemptFailed \/ FutureEnd
    BY <1>4, AttemptDoneStep, AttemptFailedStep, FutureEndStep
  <1>5. CASE ReplenishOpened \/ ReplenishFailed \/ ReplenishRetry
    BY <1>5, ReplenishOpenedStep, ReplenishFailedStep, ReplenishRetryStep
  <1>6. CASE \E c \in Connections :
               \/ Break(c) \/ Rebound(c) \/ Retire(c) \/ Publish(c)
               \/ \E suspect \in BOOLEAN : HealthFails(c, suspect)
    BY <1>6, BreakStep, ReboundStep, RetireStep, PublishStep, HealthFailsStep
  <1>7. CASE NetworkChanged
    BY <1>7, NetworkChangedStep
  <1>8. CASE Invalidate \/ Close
    BY <1>8, DropSteps
  <1> QED BY <1>1, <1>2, <1>3, <1>4, <1>5, <1>6, <1>7, <1>8 DEF Next

\* Every operation ends with Set or Leave.
LEMMA GenerationBounded ==
    ASSUME Next, left \in BOOLEAN
    PROVE  pool'.generation <= MaxGeneration /\ left' \in BOOLEAN
PROOF
  <1>1. ASSUME NEW T, Set(T) PROVE pool'.generation <= MaxGeneration /\ left' \in BOOLEAN
    <2>1. UNCHANGED left
      BY <1>1 DEF Set
    <2> QED BY <1>1, <2>1, SetFacts
  <1>2. ASSUME NEW T, NEW some, Leave(T, some)
        PROVE  pool'.generation <= MaxGeneration /\ left' \in BOOLEAN
    <2>1. left' = left \/ left' = (left \/ some)
      BY <1>2 DEF Leave
    <2>2. left' \in BOOLEAN
      BY <2>1
    <2> QED BY <1>2, <2>2, LeaveFacts
  <1>3. \A a \in Apps : Acquire(a) \/ Connect(a) \/ Release(a) => \E T : Set(T)
    BY DEF Acquire, Connect, Release
  <1>4. \A path \in Paths : CandidateWins(path) \/ CandidateFails(path) \/ PromoteProbe(path)
                            => \E T : Set(T)
    BY DEF CandidateWins, CandidateFails, PromoteProbe
  <1>5. \A path \in Paths : FutureWins(path) \/ FutureFails(path) => \E T : Set(T)
    BY DEF FutureWins, FutureFails
  <1>6. AttemptDone \/ AttemptFailed => \E T : Set(T)
    BY DEF AttemptDone, AttemptFailed
  <1>7. ReplenishOpened \/ ReplenishFailed \/ ReplenishRetry => \E T : Set(T)
    BY DEF ReplenishOpened, ReplenishFailed, ReplenishRetry
  <1>8. \A c \in Connections : Break(c) \/ Rebound(c) \/ Retire(c) \/ Publish(c) => \E T : Set(T)
    BY DEF Break, Rebound, Retire, Publish
  <1>9. \A c \in Connections, suspect \in BOOLEAN : HealthFails(c, suspect) => \E T : Set(T)
    BY DEF HealthFails
  <1>10. \A path \in Paths : FutureDenied(path) => \E T, some : Leave(T, some)
    BY DEF FutureDenied
  <1>11. NetworkChanged \/ Invalidate \/ Close \/ FutureEnd => \E T, some : Leave(T, some)
    BY DEF NetworkChanged, Invalidate, Close, FutureEnd
  <1>12. (\E T : Set(T)) \/ (\E T, some : Leave(T, some))
    BY <1>3, <1>4, <1>5, <1>6, <1>7, <1>8, <1>9, <1>10, <1>11 DEF Next
  <1> QED BY <1>1, <1>2, <1>12

LEMMA PoolInvStep ==
    PoolInv /\ [Next]_vars => PoolInv'
PROOF
  <1> SUFFICES ASSUME PoolInv, [Next]_vars PROVE PoolInv'
    OBVIOUS
  <1>1. CASE Next
    <2>1. Loose(pool', {}) /\ Used(pool') /\ Current(pool')
      BY <1>1, OperationSound DEF Sound, Told, PoolInv
    <2>2. pool'.generation <= MaxGeneration /\ left' \in BOOLEAN
      BY <1>1, GenerationBounded DEF PoolInv
    <2> QED BY <2>1, <2>2 DEF PoolInv, Loose, Used, Current, RolesOpen, RolesApart, OwnedBut,
                              RaceInv, Drains, EntryInv, Roles, Open, Owned, Leased, Trusted
  <1>2. CASE UNCHANGED vars
    BY <1>2 DEF PoolInv, vars
  <1> QED BY <1>1, <1>2

\* The inductive invariant of the pool: places, leases, race and entries agree.
THEOREM PoolInvariance ==
    Spec => []PoolInv
PROOF BY PoolInvInit, PoolInvStep, PTL DEF Spec

\* The pool's state is well formed: TypeOK of every carrier, lease and race.
THEOREM PoolTypeCorrect ==
    Spec => []TypeOK
PROOF
  <1>1. PoolInv => TypeOK
    <2> SUFFICES ASSUME PoolInv PROVE TypeOK
      OBVIOUS
    <2>1. /\ pool \in Pools /\ EntryInv(pool) /\ pool.generation \in Nat
          /\ pool.generation <= MaxGeneration /\ MaxGeneration \in Nat
      BY PoolAssumption DEF PoolInv, Loose, Pools
    <2>2. /\ {pool.selected, pool.standby, pool.secondary, pool.draining, pool.announced}
                 \subseteq Slot
          /\ pool.attempt \in Attempts /\ pool.future \in Futures
          /\ pool.lease \in [Apps -> Slot] /\ pool.closed \in BOOLEAN
          /\ pool.publishing \subseteq Connections
          /\ pool.replenishment \in Replenishments /\ pool.entry \in [Connections -> Entries]
      BY <2>1 DEF Pools
    <2>3. \A n \in Nat : n <= pool.generation => n \in 0..MaxGeneration
      BY <2>1
    <2>4. pool.generation \in 0..MaxGeneration
      BY <2>1
    <2>5. pool.replenishment \in [state : {"none", "opening", "retry"},
                                  generation : 0..MaxGeneration, behind : Slot]
      BY <2>1, <2>2, <2>3 DEF Replenishments, EntryInv
    <2>6. pool.entry \in [Connections ->
            [state : {"closed", "offered", "open"}, generation : 0..MaxGeneration,
             health : {"off", "on", "rebind"}, trusted : BOOLEAN]]
      <3>1. \A c \in Connections : pool.entry[c].generation \in 0..MaxGeneration
        BY <2>1, <2>2, <2>3 DEF EntryInv, Entries
      <3>2. \A c \in Connections : pool.entry[c] \in
              [state : {"closed", "offered", "open"}, generation : 0..MaxGeneration,
               health : {"off", "on", "rebind"}, trusted : BOOLEAN]
        BY <2>2, <3>1 DEF Entries
      <3> QED BY <2>2, <3>2
    <2>7. \A c \in Connections : pool.entry[c].state # "open" => pool.entry[c].health = "off"
      BY <2>1 DEF EntryInv
    <2>8. left \in BOOLEAN
      BY DEF PoolInv
    <2> QED BY <2>2, <2>4, <2>5, <2>6, <2>7, <2>8 DEF TypeOK, Attempts, Futures
  <1> QED BY <1>1, PoolInvariance, PTL

\* No carrier that the pool was handed is forgotten by any sequence of races,
\* promotions, failures, network changes and releases (Pool.closeIfUnownedLocked and
\* its callers): OpenIsOwned.  What a race opens after its results are no longer
\* read is not handed to the pool.
THEOREM CarriersOwned ==
    Spec => []OpenIsOwned
PROOF
  <1>1. PoolInv => OpenIsOwned
    BY DEF PoolInv, Loose, OwnedBut, RaceInv, Drains, Used, OpenIsOwned
  <1> QED BY <1>1, PoolInvariance, PTL

\* A carrier with leases is closed only by FutureDenied, Invalidate and Close:
\* LeaseKeepsCarrier.
THEOREM LeasesKept ==
    Spec => LeaseKeepsCarrier
PROOF
  <1>1. PoolInv /\ [Next]_vars =>
          [(\E a \in Apps : /\ Open(pool, pool.lease[a]) /\ pool'.lease[a] = pool.lease[a]
                            /\ ~Open(pool', pool.lease[a]))
            => Invalidate \/ Close \/ \E path \in Paths : FutureDenied(path)]_vars
    <2>1. CASE PoolInv /\ Next
      BY <2>1, OperationSound DEF Sound, Keeps
    <2> QED BY <2>1
  <1> QED BY <1>1, PoolInvariance, PTL DEF Spec, LeaseKeepsCarrier

\* The last thing the streams were told, or are about to be told by a promotion that
\* has released the lock, is which carrier is selected (publishAvailabilityLocked and
\* the second critical section of promotePathOwned): TakeoverIsAnnounced.
THEOREM TakeoversAnnounced ==
    Spec => []TakeoverIsAnnounced
PROOF
  <1>1. PoolInv => TakeoverIsAnnounced
    BY DEF PoolInv, Current, TakeoverIsAnnounced, Open
  <1> QED BY <1>1, PoolInvariance, PTL
=============================================================================
