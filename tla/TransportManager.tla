-------------------------- MODULE TransportManager --------------------------
(***************************************************************************)
(* transportmanager.Manager: the table of peer transports shared by the    *)
(* consumers of a daemon.  An entry is created for a key by the first      *)
(* consumer, which runs the factory outside the lock while the others wait *)
(* on `ready'; consumers hold references; the last one, an invalidation,   *)
(* a retirement or the end of the manager closes the entry's pool, outside *)
(* the lock too.  Every step below is one critical section of Manager.mu,  *)
(* or one call made without it.                                            *)
(*                                                                         *)
(* A key stands for itself and for the prefixes it has: a scope is the set *)
(* of keys that a prefix selects.  An entry owns at most one pool and its  *)
(* cleanup, so a pool is named by its entry.                               *)
(***************************************************************************)
EXTENDS Integers, FiniteSets

CONSTANTS
    Consumers,   \* goroutines that acquire and release leases
    Keys,        \* transport keys
    Scopes,      \* the sets of keys that invalidations and retirements name
    MaxEntries   \* bound: entries ever created

ASSUME ManagerAssumption ==
    /\ IsFiniteSet(Consumers)
    /\ Keys # {}
    /\ Scopes \subseteq SUBSET Keys
    /\ MaxEntries \in Nat

VARIABLES
    closed,    \* Manager.closed
    entries,   \* Manager.entries: the entry of each key, 0 for none
    created,   \* entries created so far: they are numbered 1..created
    ready,     \* entry.ready is closed
    err,       \* entry.err is set
    pool,      \* entry.pool is set
    refs,      \* entry.refs
    retired,   \* entry.retired
    revoked,   \* history: the entry was invalidated, or taken by Close
    built,     \* history: the factory made a pool for the entry
    closing,   \* calls of closeOwned under way for the entry's pool
    closes,    \* calls of closeOwned that returned
    panicked,  \* ready was closed twice
    consumer   \* where each consumer is, and the key and entry it has in hand

entryVars == <<created, ready, err, pool, refs, retired, revoked, built, closing, closes, panicked>>
vars == <<closed, entries, entryVars, consumer>>

Entries == 1..MaxEntries

\* A consumer outside the manager has no key or entry in hand.
Idle == [pc |-> "idle", key |-> CHOOSE k \in Keys : TRUE, entry |-> 0]

Pcs == {"idle", "factory", "wait", "published", "reserved", "leased"}

TypeOK ==
    /\ closed \in BOOLEAN
    /\ entries \in [Keys -> Entries \cup {0}]
    /\ created \in 0..MaxEntries
    /\ ready \in [Entries -> BOOLEAN]
    /\ err \in [Entries -> BOOLEAN]
    /\ pool \in [Entries -> BOOLEAN]
    /\ refs \in [Entries -> 0..Cardinality(Consumers)]
    /\ retired \in [Entries -> BOOLEAN]
    /\ revoked \in [Entries -> BOOLEAN]
    /\ built \in [Entries -> BOOLEAN]
    /\ closing \in [Entries -> Nat]
    /\ closes \in [Entries -> Nat]
    /\ panicked \in BOOLEAN
    /\ consumer \in [Consumers -> [pc : Pcs, key : Keys, entry : Entries \cup {0}]]

Init ==
    /\ closed = FALSE
    /\ entries = [k \in Keys |-> 0]
    /\ created = 0
    /\ ready = [e \in Entries |-> FALSE]
    /\ err = [e \in Entries |-> FALSE]
    /\ pool = [e \in Entries |-> FALSE]
    /\ refs = [e \in Entries |-> 0]
    /\ retired = [e \in Entries |-> FALSE]
    /\ revoked = [e \in Entries |-> FALSE]
    /\ built = [e \in Entries |-> FALSE]
    /\ closing = [e \in Entries |-> 0]
    /\ closes = [e \in Entries |-> 0]
    /\ panicked = FALSE
    /\ consumer = [c \in Consumers |-> Idle]

-----------------------------------------------------------------------------
(* Consumers. *)

At(c, pc) == consumer[c].pc = pc
Goto(c, pc) == consumer' = [consumer EXCEPT ![c].pc = pc]
Return(c) == consumer' = [consumer EXCEPT ![c] = Idle]

\* The entry in hand is still the one of its key.
Current(c) == entries[consumer[c].key] = consumer[c].entry

\* closeEntry, called after the lock is released; without a pool it does nothing.
StartClose(es) == closing' = [e \in Entries |-> IF e \in es THEN closing[e] + 1 ELSE closing[e]]

\* Acquire and AcquireCached find an entry.
Join(c, k) ==
    /\ At(c, "idle")
    /\ ~closed
    /\ entries[k] # 0
    /\ consumer' = [consumer EXCEPT ![c] = [pc |-> "wait", key |-> k, entry |-> entries[k]]]
    /\ UNCHANGED <<closed, entries, entryVars>>

\* Acquire finds none and makes the consumer the creator.
Create(c, k) ==
    /\ At(c, "idle")
    /\ ~closed
    /\ entries[k] = 0
    /\ created < MaxEntries
    /\ created' = created + 1
    /\ entries' = [entries EXCEPT ![k] = created + 1]
    /\ consumer' = [consumer EXCEPT ![c] = [pc |-> "factory", key |-> k, entry |-> created + 1]]
    /\ UNCHANGED <<closed, ready, err, pool, refs, retired, revoked, built, closing, closes, panicked>>

\* close(e.ready) panics when it is closed already.
CloseReady(es) ==
    /\ ready' = [e \in Entries |-> ready[e] \/ e \in es]
    /\ panicked' = (panicked \/ \E e \in es : ready[e])

\* Mutant: the pool that came too late is dropped.
FactoryLate_Dropped(c, made) ==
    /\ At(c, "factory")
    /\ closed \/ ~Current(c)
    /\ built' = [built EXCEPT ![consumer[c].entry] = made]
    /\ Return(c)
    /\ UNCHANGED <<closed, entries, created, ready, err, pool, refs, retired, revoked, closing, closes, panicked>>

\* The factory returned after the entry had been taken out of the table: the
\* creator closes what it built.
FactoryLate(c, made) ==
    /\ At(c, "factory")
    /\ closed \/ ~Current(c)
    /\ LET e == consumer[c].entry IN
         /\ built' = [built EXCEPT ![e] = made]
         /\ StartClose(IF made THEN {e} ELSE {})
    /\ Return(c)
    /\ UNCHANGED <<closed, entries, created, ready, err, pool, refs, retired, revoked, closes, panicked>>

\* Mutant: the creator publishes without looking whether the entry is still its own.
FactoryDone_Unchecked(c) ==
    /\ At(c, "factory")
    /\ LET e == consumer[c].entry IN
         /\ built' = [built EXCEPT ![e] = TRUE]
         /\ pool' = [pool EXCEPT ![e] = TRUE]
         /\ CloseReady({e})
    /\ Goto(c, "published")
    /\ UNCHANGED <<closed, entries, created, err, refs, retired, revoked, closing, closes>>

FactoryDone(c) ==
    /\ At(c, "factory")
    /\ ~closed
    /\ Current(c)
    /\ LET e == consumer[c].entry IN
         /\ built' = [built EXCEPT ![e] = TRUE]
         /\ pool' = [pool EXCEPT ![e] = TRUE]
         /\ CloseReady({e})
    /\ Goto(c, "published")
    /\ UNCHANGED <<closed, entries, created, err, refs, retired, revoked, closing, closes>>

\* A failed factory may still have returned a pool or a cleanup.
FactoryFailed(c, made) ==
    /\ At(c, "factory")
    /\ ~closed
    /\ Current(c)
    /\ LET e == consumer[c].entry IN
         /\ built' = [built EXCEPT ![e] = made]
         /\ pool' = [pool EXCEPT ![e] = made]
         /\ err' = [err EXCEPT ![e] = TRUE]
         /\ CloseReady({e})
         /\ StartClose(IF made THEN {e} ELSE {})
    /\ entries' = [entries EXCEPT ![consumer[c].key] = 0]
    /\ Goto(c, "published")
    /\ UNCHANGED <<closed, created, refs, retired, revoked, closes>>

\* A waiter's context ends first.
Cancel(c) ==
    /\ At(c, "wait")
    /\ Return(c)
    /\ UNCHANGED <<closed, entries, entryVars>>

\* The entry can be used by a consumer that was woken: nothing happened to it
\* between the end of the wait and the lock.
Usable(c) ==
    LET e == consumer[c].entry IN ~closed /\ Current(c) /\ ~err[e] /\ pool[e]

Woken(c) == At(c, "published") \/ (At(c, "wait") /\ ready[consumer[c].entry])

Reserve(c) ==
    /\ Woken(c)
    /\ IF Usable(c)
         THEN Goto(c, "reserved") /\ refs' = [refs EXCEPT ![consumer[c].entry] = @ + 1]
         ELSE Return(c) /\ UNCHANGED refs
    /\ UNCHANGED <<closed, entries, created, ready, err, pool, retired, revoked, built, closing, closes, panicked>>

\* The last reference takes the entry out of the table and closes it, and so it
\* does for a retired one; an entry that was invalidated has been closed.
LastReference(c) ==
    LET e == consumer[c].entry IN refs[e] = 1 /\ ~closed /\ (Current(c) \/ retired[e])

ReleaseReservation(c) ==
    LET e == consumer[c].entry IN
    /\ refs' = [refs EXCEPT ![e] = @ - 1]
    /\ StartClose(IF LastReference(c) THEN {e} ELSE {})
    /\ entries' = IF LastReference(c) /\ Current(c)
                    THEN [entries EXCEPT ![consumer[c].key] = 0]
                    ELSE entries
    /\ Return(c)
    /\ UNCHANGED <<closed, created, ready, err, pool, retired, revoked, built, closes, panicked>>

\* pool.Acquire, without the lock: a closed pool refuses.
PoolAcquired(c) ==
    /\ At(c, "reserved")
    /\ closes[consumer[c].entry] = 0
    /\ Goto(c, "leased")
    /\ UNCHANGED <<closed, entries, entryVars>>

\* Mutant: a refused consumer keeps its reservation.
PoolRefused_Kept(c) ==
    /\ At(c, "reserved")
    /\ Return(c)
    /\ UNCHANGED <<closed, entries, entryVars>>

PoolRefused(c) == At(c, "reserved") /\ ReleaseReservation(c)

\* Lease.Release, once per lease.
Release(c) == At(c, "leased") /\ ReleaseReservation(c)

-----------------------------------------------------------------------------
(* The owner of the manager. *)

\* The entries of the keys leave the table, and those that are still being
\* created fail their waiters.
Evicted(keys) == {e \in Entries : \E k \in keys : entries[k] = e}

\* Mutant: the waiters of an entry under construction are not told.
Evict_Silent(keys) ==
    /\ entries' = [k \in Keys |-> IF k \in keys THEN 0 ELSE entries[k]]
    /\ err' = [e \in Entries |-> err[e] \/ (e \in Evicted(keys) /\ ~pool[e])]
    /\ UNCHANGED <<ready, panicked>>

Evict(keys) ==
    LET unready == {e \in Evicted(keys) : ~pool[e]} IN
    /\ entries' = [k \in Keys |-> IF k \in keys THEN 0 ELSE entries[k]]
    /\ err' = [e \in Entries |-> err[e] \/ e \in unready]
    /\ CloseReady(unready)

\* RetirePrefix closes the idle pools and leaves the others to their leases.
Retire(keys) ==
    /\ Evict(keys)
    /\ retired' = [e \in Entries |-> retired[e] \/ e \in Evicted(keys)]
    /\ StartClose({e \in Evicted(keys) : pool[e] /\ refs[e] = 0})
    /\ UNCHANGED <<closed, created, pool, refs, revoked, built, closes, consumer>>

\* Invalidate, InvalidatePrefix and InvalidateAll close them under their leases.
Revoke(keys) ==
    /\ Evict(keys)
    /\ revoked' = [e \in Entries |-> revoked[e] \/ e \in Evicted(keys)]
    /\ StartClose({e \in Evicted(keys) : pool[e]})
    /\ UNCHANGED <<created, pool, refs, retired, built, closes, consumer>>

Invalidate(keys) == Revoke(keys) /\ UNCHANGED closed

Close ==
    /\ ~closed
    /\ closed' = TRUE
    /\ Revoke(Keys)

\* closeOwned returns.
CloseOwned(e) ==
    /\ closing[e] > 0
    /\ closing' = [closing EXCEPT ![e] = @ - 1]
    /\ closes' = [closes EXCEPT ![e] = @ + 1]
    /\ UNCHANGED <<closed, entries, created, ready, err, pool, refs, retired, revoked, built, panicked, consumer>>

-----------------------------------------------------------------------------
Factory(c) ==
    \/ FactoryDone(c)
    \/ \E made \in BOOLEAN : FactoryLate(c, made) \/ FactoryFailed(c, made)

Next ==
    \/ \E c \in Consumers :
         \/ \E k \in Keys : Join(c, k) \/ Create(c, k)
         \/ Factory(c) \/ Cancel(c) \/ Reserve(c)
         \/ PoolAcquired(c) \/ PoolRefused(c) \/ Release(c)
    \/ \E keys \in Scopes : Retire(keys) \/ Invalidate(keys)
    \/ Close
    \/ \E e \in Entries : CloseOwned(e)

Spec == Init /\ [][Next]_vars

\* A factory returns (its context is bounded), a woken consumer and a call of
\* closeOwned run on.  Nobody has to release a lease.
Fairness ==
    /\ \A c \in Consumers : WF_vars(Factory(c)) /\ WF_vars(Reserve(c))
    /\ \A c \in Consumers : WF_vars(PoolAcquired(c) \/ PoolRefused(c))
    /\ \A e \in Entries : WF_vars(CloseOwned(e))

LiveSpec == Spec /\ Fairness

-----------------------------------------------------------------------------
(* Properties. *)

Using(e) == {c \in Consumers : consumer[c].entry = e /\ consumer[c].pc \in {"reserved", "leased"}}

\* The reference count is exact: every consumer between Reserve and its release
\* is counted once, whatever took the entry out of the table meanwhile.
RefsExact == \A e \in Entries : refs[e] = Cardinality(Using(e))

\* A pool and its cleanup are closed at most once, although the last release, a
\* retirement, an invalidation, Close and a late factory all may close it
\* (TestManagerOwnedCleanupRunsOnceAfterPoolClose); and close(e.ready) is never
\* called twice: the creator and an eviction never both think the entry is theirs
\* to publish.  Under a lease only an invalidation or Close closes the pool: never
\* the release of another lease, and never a retirement.
ClosedOnce ==
    /\ \A e \in Entries :
         /\ closing[e] + closes[e] <= 1
         /\ Using(e) # {} /\ closing[e] + closes[e] > 0 => revoked[e]
    /\ ~panicked

\* Nobody waits for ever on an entry: the creator, or whoever takes the entry
\* away from it, wakes the waiters.
WaitersReturn == \A c \in Consumers : consumer[c].pc = "wait" ~> consumer[c].pc # "wait"

\* Unless it is used (again), a pool that was made is eventually closed.  A pool
\* that was retired under a lease before Close is the exception the code makes:
\* releaseReservation closes nothing once the manager is closed.
PoolsReclaimed ==
    \A e \in Entries :
        built[e] ~> closes[e] > 0 \/ Using(e) # {} \/ (closed /\ retired[e])
=============================================================================
