-------------------------- MODULE OperationJournal --------------------------
(***************************************************************************)
(* operation.Journal over the durable store: requests that carry an        *)
(* operation id are executed once and replayed afterwards, across          *)
(* concurrent duplicates, evictions from the bounded table, failures to    *)
(* persist, crashes and the expiry of rows.  Execute holds Journal.mu from *)
(* the lookup to the reservation, so that is one step; the run, the        *)
(* completion of the row and the publication are one step each, and the    *)
(* process may stop between any two.                                       *)
(***************************************************************************)
EXTENDS OperationStore, Sequences, FiniteSets

CONSTANTS
    Callers,    \* goroutines that call Execute
    Operations, \* operation ids
    Hashes,     \* hashes of the canonical requests, positive numbers
    MaxTable,   \* Journal.max
    MaxCrashes, \* bound: restarts of the process
    MaxFaults,  \* bound: reservations and completions that fail
    MaxExpiries \* bound: rows that expire

ASSUME JournalAssumption ==
    /\ IsFiniteSet(Operations) /\ Operations # {}
    /\ Hashes \subseteq Nat \ {0}
    /\ MaxTable \in Nat \ {0}
    /\ MaxCrashes \in Nat
    /\ MaxFaults \in Nat
    /\ MaxExpiries \in Nat

VARIABLES
    rows,     \* the durable row of each operation
    log,      \* operations with a completed row, by completed_at
    entries,  \* Journal.entries
    order,    \* Journal.order: what may be evicted, oldest first
    caller,   \* where each caller of Execute is
    runs,     \* history: how often the operation ran
    purges,   \* history: how often its row was deleted
    told,     \* history: the runs whose outcome was returned without an error
    crashes, faults, expiries

vars == <<rows, log, entries, order, caller, runs, purges, told, crashes, faults, expiries>>

Runs == 1..(1 + MaxExpiries)

NoEntry == [state |-> "none", hash |-> 0, run |-> 0]
Entry(state, hash, run) == [state |-> state, hash |-> hash, run |-> run]

Away == [pc |-> "away", op |-> CHOOSE o \in Operations : TRUE, hash |-> 0, run |-> 0, saved |-> FALSE]

TypeOK ==
    /\ rows \in [Operations -> Rows(Hashes, Runs)]
    /\ log \in Seq(Operations)
    /\ entries \in [Operations ->
                      [state : {"none", "running", "done", "uncertain"}, hash : Hashes \cup {0},
                       run : Runs \cup {0}]]
    /\ order \in Seq(Operations)
    /\ caller \in [Callers -> [pc : {"away", "wait", "run", "complete", "publish"},
                               op : Operations, hash : Hashes \cup {0}, run : Runs \cup {0},
                               saved : BOOLEAN]]
    /\ runs \in [Operations -> Runs \cup {0}]
    /\ purges \in [Operations -> 0..MaxExpiries]
    /\ told \in [Operations -> SUBSET Runs]
    /\ crashes \in 0..MaxCrashes
    /\ faults \in 0..MaxFaults
    /\ expiries \in 0..MaxExpiries

Init ==
    /\ rows = [o \in Operations |-> NoRow]
    /\ log = <<>>
    /\ entries = [o \in Operations |-> NoEntry]
    /\ order = <<>>
    /\ caller = [c \in Callers |-> Away]
    /\ runs = [o \in Operations |-> 0]
    /\ purges = [o \in Operations |-> 0]
    /\ told = [o \in Operations |-> {}]
    /\ crashes = 0
    /\ faults = 0
    /\ expiries = 0

-----------------------------------------------------------------------------
InTable(es) == {o \in Operations : es[o].state # "none"}

\* Execute makes room by evicting completed operations, oldest first.
Evictions ==
    LET excess == Cardinality(InTable(entries)) - MaxTable + 1 IN
    IF excess <= 0 THEN 0 ELSE IF excess < Len(order) THEN excess ELSE Len(order)

Evict ==
    LET victims == {order[i] : i \in 1..Evictions} IN
    [o \in Operations |-> IF o \in victims THEN NoEntry ELSE entries[o]]

Kept == SubSeq(order, Evictions + 1, Len(order))
Full == Cardinality(InTable(Evict)) >= MaxTable

\* The elements of a sequence that are in a set, in their order.
Survivors(s, keep) ==
    LET F[i \in 0..Len(s)] ==
          IF i = 0 THEN <<>> ELSE IF s[i] \in keep THEN Append(F[i - 1], s[i]) ELSE F[i - 1]
    IN  F[Len(s)]

\* Deleting the expired rows.
PurgeAll ==
    /\ purges' = [o \in Operations |-> IF rows[o].expired THEN purges[o] + 1 ELSE purges[o]]
    /\ log' = Survivors(log, {o \in Operations : ~rows[o].expired})

\* An answer without an error.
Tell(o, run) == told' = [told EXCEPT ![o] = @ \cup {run}]

-----------------------------------------------------------------------------
(* Execute. *)

\* The operation is in the table: another request under its id conflicts, a
\* finished one is replayed, a running one is waited for.
Lookup(c, o, h) ==
    /\ caller[c].pc = "away"
    /\ entries[o].state # "none"
    /\ entries[o].hash = h
    /\ \/ /\ entries[o].state = "running"
          /\ caller' = [caller EXCEPT ![c] = [Away EXCEPT !.pc = "wait", !.op = o, !.hash = h]]
          /\ UNCHANGED told
       \/ /\ entries[o].state = "done"
          /\ Tell(o, entries[o].run)
          /\ UNCHANGED caller
    /\ UNCHANGED <<rows, log, entries, order, runs, purges, crashes, faults, expiries>>

\* The context of a waiting caller ends.
Cancel(c) ==
    /\ caller[c].pc = "wait"
    /\ caller' = [caller EXCEPT ![c] = Away]
    /\ UNCHANGED <<rows, log, entries, order, runs, purges, told, crashes, faults, expiries>>

\* The operation is not in the table.  The expired rows are deleted when the
\* last cleanup is a minute ago (`due'); the row then decides: there is none and
\* the caller runs the operation, or it is replayed, uncertain or in conflict.
Reserve(c, o, h, due) ==
    /\ caller[c].pc = "away"
    /\ entries[o].state = "none"
    /\ ~Full
    /\ order' = Kept
    /\ IF due THEN PurgeAll ELSE UNCHANGED <<purges, log>>
    /\ LET table == [x \in Operations |-> IF due THEN Purged(rows[x]) ELSE rows[x]] IN
         \/ /\ Reservable(table[o])
            /\ rows' = [table EXCEPT ![o] = Reserved(h)]
            /\ entries' = [Evict EXCEPT ![o] = Entry("running", h, 0)]
            /\ caller' = [caller EXCEPT ![c] = [Away EXCEPT !.pc = "run", !.op = o, !.hash = h]]
            /\ told' = [told EXCEPT ![o] = {}]
         \/ /\ ~Reservable(table[o])
            /\ rows' = table
            /\ entries' = Evict
            /\ IF ~Conflict(table[o], h) /\ table[o].state = "completed"
                 THEN Tell(o, table[o].run)
                 ELSE UNCHANGED told
            /\ UNCHANGED caller
    /\ UNCHANGED <<runs, crashes, faults, expiries>>

\* The statement that reserves the row fails, before or after it took effect.
ReserveFailed(c, o, h) ==
    /\ caller[c].pc = "away"
    /\ entries[o].state = "none"
    /\ ~Full
    /\ faults < MaxFaults
    /\ faults' = faults + 1
    /\ Reservable(rows[o])
    /\ rows' \in {rows, [rows EXCEPT ![o] = Reserved(h)]}
    /\ told' = IF rows' = rows THEN told ELSE [told EXCEPT ![o] = {}]
    /\ entries' = Evict
    /\ order' = Kept
    /\ UNCHANGED <<log, caller, runs, purges, crashes, expiries>>

\* Even a refused call has evicted what it could.
Refuse(c, o) ==
    /\ caller[c].pc = "away"
    /\ entries[o].state = "none"
    /\ Full
    /\ entries' = Evict
    /\ order' = Kept
    /\ UNCHANGED <<rows, log, caller, runs, purges, told, crashes, faults, expiries>>

Run(c) ==
    /\ caller[c].pc = "run"
    /\ LET o == caller[c].op IN
         /\ runs[o] + 1 \in Runs
         /\ runs' = [runs EXCEPT ![o] = @ + 1]
         /\ caller' = [caller EXCEPT ![c].pc = "complete", ![c].run = runs[o] + 1]
    /\ UNCHANGED <<rows, log, entries, order, purges, told, crashes, faults, expiries>>

\* Mutant: the outcome is published whether or not it could be persisted.
Complete_Hopeful(c) ==
    /\ caller[c].pc = "complete"
    /\ LET o   == caller[c].op
           row == Completed(rows[o], caller[c].hash, caller[c].run)
           Save(new) ==
             /\ rows' = [rows EXCEPT ![o] = new]
             /\ log' = IF new # rows[o] THEN Append(log, o) ELSE log
             /\ caller' = [caller EXCEPT ![c].pc = "publish", ![c].saved = TRUE]
       IN \/ Save(row) /\ UNCHANGED faults
          \/ faults < MaxFaults /\ faults' = faults + 1 /\ Save(rows[o])
    /\ UNCHANGED <<entries, order, runs, purges, told, crashes, expiries>>

\* CompleteOperation: the row may be gone, and the statement may fail before or
\* after it took effect; an oversized outcome is not written at all.
Complete(c) ==
    /\ caller[c].pc = "complete"
    /\ LET o   == caller[c].op
           ok  == CompleteOK(rows[o], caller[c].hash, caller[c].run)
           row == Completed(rows[o], caller[c].hash, caller[c].run)
           Save(new, saved) ==
             /\ rows' = [rows EXCEPT ![o] = new]
             /\ log' = IF new # rows[o] THEN Append(log, o) ELSE log
             /\ caller' = [caller EXCEPT ![c].pc = "publish", ![c].saved = saved]
       IN \/ Save(row, ok) /\ UNCHANGED faults
          \/ /\ faults < MaxFaults
             /\ faults' = faults + 1
             /\ Save(rows[o], FALSE) \/ Save(row, FALSE)
    /\ UNCHANGED <<entries, order, runs, purges, told, crashes, expiries>>

\* The second critical section: the waiters of this entry return with its
\* outcome and its error.
Waiting(o) == {c \in Callers : caller[c].pc = "wait" /\ caller[c].op = o}

\* Mutant: an uncertain operation leaves the table and its waiters are not woken.
Publish_Forgets(c) ==
    /\ caller[c].pc = "publish"
    /\ LET o == caller[c].op IN
         /\ entries' = [entries EXCEPT ![o] = IF caller[c].saved
                                               THEN Entry("done", caller[c].hash, caller[c].run)
                                               ELSE NoEntry]
         /\ order' = IF caller[c].saved THEN Append(order, o) ELSE order
         /\ caller' = [x \in Callers |-> IF x = c \/ (caller[c].saved /\ x \in Waiting(o))
                                          THEN Away ELSE caller[x]]
         /\ IF caller[c].saved THEN Tell(o, caller[c].run) ELSE UNCHANGED told
    /\ UNCHANGED <<rows, log, runs, purges, crashes, faults, expiries>>

Publish(c) ==
    /\ caller[c].pc = "publish"
    /\ LET o == caller[c].op IN
         /\ entries' = [entries EXCEPT ![o] = Entry(IF caller[c].saved THEN "done" ELSE "uncertain",
                                                    caller[c].hash, caller[c].run)]
         /\ order' = IF caller[c].saved THEN Append(order, o) ELSE order
         /\ caller' = [x \in Callers |-> IF x \in {c} \cup Waiting(o) THEN Away ELSE caller[x]]
         /\ IF caller[c].saved THEN Tell(o, caller[c].run) ELSE UNCHANGED told
    /\ UNCHANGED <<rows, log, runs, purges, crashes, faults, expiries>>

-----------------------------------------------------------------------------
\* Time passes the expiry of a row.
Expire(o) ==
    /\ expiries < MaxExpiries
    /\ rows[o].state # "none"
    /\ ~rows[o].expired
    /\ expiries' = expiries + 1
    /\ rows' = [rows EXCEPT ![o].expired = TRUE]
    /\ UNCHANGED <<log, entries, order, caller, runs, purges, told, crashes, faults>>

\* A pending row is an operation that may or may not have run.
Load(row) == Entry(IF row.state = "pending" THEN "uncertain" ELSE "done", row.hash, row.run)

\* The process stops and NewPersistentJournal loads the rows that are left, the
\* pending ones first, then the completed ones by age, up to the table's size.
Restart ==
    /\ crashes < MaxCrashes
    /\ crashes' = crashes + 1
    /\ PurgeAll
    /\ rows' = [o \in Operations |-> Purged(rows[o])]
    /\ LET left    == {o \in Operations : rows'[o].state = "pending"}
           room(p) == MaxTable - Cardinality(p)
       IN \E p \in SUBSET left :
            /\ Cardinality(p) = MaxTable \/ (p = left /\ Cardinality(p) < MaxTable)
            /\ order' = SubSeq(log', 1, IF Len(log') < room(p) THEN Len(log') ELSE room(p))
            /\ entries' = [o \in Operations |->
                             IF o \in p \cup {order'[i] : i \in DOMAIN order'}
                               THEN Load(rows'[o]) ELSE NoEntry]
    /\ caller' = [c \in Callers |-> Away]
    /\ UNCHANGED <<runs, told, faults, expiries>>

-----------------------------------------------------------------------------
Step(c) == Run(c) \/ Complete(c) \/ Publish(c)

Next ==
    \/ \E c \in Callers :
         \/ \E o \in Operations, h \in Hashes :
              ReserveFailed(c, o, h) \/ Lookup(c, o, h) \/ \E due \in BOOLEAN : Reserve(c, o, h, due)
         \/ \E o \in Operations : Refuse(c, o)
         \/ Cancel(c) \/ Step(c)
    \/ \E o \in Operations : Expire(o)
    \/ Restart

Spec == Init /\ [][Next]_vars

\* The goroutine that runs an operation goes on until it has published.
LiveSpec == Spec /\ \A c \in Callers : WF_vars(Step(c))

-----------------------------------------------------------------------------
(* Properties. *)

Running(o) == {c \in Callers : caller[c].op = o /\ caller[c].pc \in {"run", "complete", "publish"}}

\* Duplicates, evictions, lost completions and restarts never run an operation
\* again: a second run needs the expiry of the row of the first, and even then
\* two runs of an operation never overlap.
AtMostOnce ==
    \A o \in Operations :
        /\ runs[o] + Cardinality({c \in Running(o) : caller[c].pc = "run"}) <= 1 + purges[o]
        /\ Cardinality(Running(o)) <= 1

\* An outcome that was returned without an error is in the store, so a restart
\* replays the same one: nobody is told "done" and later "uncertain", and no two
\* callers are told different outcomes.
AnswersAreDurable ==
    \A o \in Operations : told[o] # {} =>
        \/ rows[o].state = "none"
        \/ rows[o].state = "completed" /\ told[o] = {rows[o].run}

\* A caller that waits for a duplicate to finish returns, however the run ends.
WaitersReturn == \A c \in Callers : caller[c].pc = "wait" ~> caller[c].pc # "wait"
=============================================================================
