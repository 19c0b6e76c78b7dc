-------------------------- MODULE TerminalSession --------------------------
(***************************************************************************)
(* One terminal session of session.Manager: its lifecycle, its PTY         *)
(* processes and the goroutine that captures each of them, the goroutine   *)
(* that persists the output, the journal of inputs, and the durable row    *)
(* and decisions from which the next process recovers.  Every operation    *)
(* holds managedSession.opMu from its first to its last step (`op'); the   *)
(* capture of a process takes it only for the steps that say so, the       *)
(* persistence goroutine never does, and the process may crash between any *)
(* two steps.                                                              *)
(***************************************************************************)
EXTENDS Naturals, FiniteSets, Sequences

CONSTANTS
    MaxLaunches,  \* bound: PTY processes started
    MaxInputs,    \* bound: input sequence numbers of one generation
    MaxDecisions, \* InputJournal.max
    MaxOutput,    \* bound: chunks of output
    MaxCrashes,   \* bound: crashes of the host runtime
    MaxFaults     \* bound: statements of the store that fail

ASSUME SessionAssumption ==
    /\ MaxLaunches \in Nat \ {0}
    /\ MaxInputs \in Nat
    /\ MaxDecisions \in Nat \ {0}
    /\ MaxOutput \in Nat
    /\ MaxCrashes \in Nat
    /\ MaxFaults \in Nat

VARIABLES
    state, gen, \* Lifecycle; state is "none" when the manager has no session
    proc,       \* managedSession.process, 0 for nil
    live,       \* managedSession.liveProcess: process and generation
    inputs,     \* InputJournal.decisions
    left,       \* the last attempt to close the session ended with an error
    op,         \* the operation that holds opMu: what it does next
    finishers,  \* processes whose finishClosing goroutine waits for opMu
    capture,    \* where the capture goroutine of each process is
    writer,     \* the current persistence goroutine, 0 when persistStop is nil
    dirty,      \* persistence goroutines with output to flush
    broken,     \* persistence goroutines that ended with an error
    latest,     \* output in the history, in chunks
    row,        \* the durable row: state and generation
    stored,     \* the durable input decisions
    durable,    \* output in the store
    alive,      \* PTY processes that run
    open,       \* terminals that some process still has open
    immune,     \* processes that became another user's and cannot be signalled
    launches,
    reached,    \* history: what of each input reached which process
    crashes, faults

rowVars  == <<row, stored, durable>>
ioVars   == <<capture, writer, dirty, broken, latest>>
lifeVars == <<state, gen, proc, live, inputs, left>>
ptyVars  == <<alive, open, immune>>
osVars   == <<ptyVars, launches, reached>>
vars     == <<state, gen, proc, live, inputs, left, op, finishers, capture, writer, dirty, broken,
              latest, row, stored, durable, alive, open, immune, launches, reached, crashes, faults>>

\* "refused" is a session that the manager could not recover.
States == {"none", "creating", "running", "exited", "restarting", "closing", "closed", "deleted",
           "refused"}
Processes == 1..MaxLaunches
Generations == 0..MaxLaunches

\* An input of the live protocol: its generation and its sequence number.
Keys == [gen : Generations \ {0}, seq : 1..MaxInputs]
Statuses == {"accepted", "rejected", "uncertain"}

NoLive == [proc |-> 0, gen |-> 0]
NoRow == [state |-> "none", gen |-> 0]
Idle == [pc |-> "idle", key |-> [gen |-> 0, seq |-> 0]]
At(pc) == [Idle EXCEPT !.pc = pc]

TypeOK ==
    /\ state \in States
    /\ gen \in Generations
    /\ proc \in Processes \cup {0}
    /\ live \in [proc : Processes \cup {0}, gen : Generations]
    /\ DOMAIN inputs \subseteq Keys /\ \A k \in DOMAIN inputs : inputs[k] \in Statuses
    /\ Cardinality(DOMAIN inputs) <= MaxDecisions
    /\ op.pc \in {"idle", "createLaunch", "ptyWrite", "settleInput", "closePersist", "terminate",
                  "restartLaunch", "restartPersist"}
    /\ finishers \subseteq Processes
    /\ capture \in [Processes -> {"none", "reading", "waiting", "done"}]
    /\ writer \in Processes \cup {0}
    /\ dirty \subseteq Processes /\ broken \subseteq Processes
    /\ latest \in 0..MaxOutput
    /\ row \in [state : States \ {"deleted", "refused"}, gen : Generations]
    /\ DOMAIN stored \subseteq Keys /\ \A k \in DOMAIN stored : stored[k] \in Statuses
    /\ durable \in 0..MaxOutput
    /\ left \in BOOLEAN
    /\ alive \subseteq Processes /\ open \subseteq Processes /\ immune \subseteq alive
    /\ launches \in 0..MaxLaunches
    /\ DOMAIN reached \subseteq Keys
    /\ crashes \in 0..MaxCrashes /\ faults \in 0..MaxFaults

Empty == [k \in {} |-> "uncertain"]

Init ==
    /\ state = "none" /\ gen = 0 /\ proc = 0 /\ live = NoLive /\ inputs = Empty /\ left = FALSE
    /\ op = Idle /\ finishers = {}
    /\ capture = [p \in Processes |-> "none"]
    /\ writer = 0 /\ dirty = {} /\ broken = {} /\ latest = 0
    /\ row = NoRow /\ stored = Empty /\ durable = 0
    /\ alive = {} /\ open = {} /\ immune = {} /\ launches = 0 /\ reached = [k \in {} |-> {}]
    /\ crashes = 0 /\ faults = 0

-----------------------------------------------------------------------------
(* The store. *)

\* UPDATE sessions ... WHERE id=? AND state=expected, with the lifecycle s, g.
\* A statement that fails changes nothing.
Persist(expected, s, g, ok) ==
    IF ok
      THEN /\ row.state = expected
           /\ row' = [state |-> s, gen |-> g]
           /\ UNCHANGED faults
      ELSE /\ UNCHANGED row
           /\ \/ row.state # expected /\ UNCHANGED faults
              \/ row.state = expected /\ faults < MaxFaults /\ faults' = faults + 1

\* A statement of its own that does not look at the row's state.
Statement(ok) ==
    IF ok THEN UNCHANGED faults ELSE faults < MaxFaults /\ faults' = faults + 1

-----------------------------------------------------------------------------
(* Processes and their output. *)

Launch ==
    /\ launches < MaxLaunches
    /\ launches' = launches + 1
    /\ alive' = alive \cup {launches + 1} /\ open' = open \cup {launches + 1}
    /\ UNCHANGED <<immune, reached>>

\* Terminate signals the process, waits for it and closes the terminal; it cannot
\* signal one of another user.
Kill(p) ==
    /\ p \notin immune
    /\ alive' = alive \ {p} /\ open' = open \ {p}
    /\ UNCHANGED immune

\* Terminate returned without the error of a context: the process is gone, or the
\* signal was refused (EPERM), or found no process group any more (ESRCH).
Terminate(p) ==
    \/ Kill(p)
    \/ (p \in immune \/ p \notin alive) /\ UNCHANGED ptyVars

\* A process ends by itself; one it has left behind may keep the terminal open.
Exit(p) ==
    /\ p \in alive
    /\ alive' = alive \ {p} /\ immune' = immune \ {p}
    /\ open' \in {open, open \ {p}}
    /\ UNCHANGED <<lifeVars, op, finishers, ioVars, rowVars, launches, reached, crashes, faults>>

\* The last process that has the terminal open closes it.
HangUp(p) ==
    /\ p \in open
    /\ open' = open \ {p}
    /\ UNCHANGED <<lifeVars, op, finishers, ioVars, rowVars, alive, immune, launches, reached,
                   crashes, faults>>

\* The process executes a program that runs as another user.
Elevate(p) ==
    /\ p \in alive \ immune
    /\ immune' = immune \cup {p}
    /\ UNCHANGED <<lifeVars, op, finishers, ioVars, rowVars, alive, open, launches, reached,
                   crashes, faults>>

\* startOutputPersistence replaces the channels whatever they were.
StartWriter(p) == writer' = p

\* capture appends what it reads and wakes the persistence goroutine there is.
Output(p) ==
    /\ capture[p] = "reading" /\ p \in open
    /\ op = Idle
    /\ latest < MaxOutput
    /\ latest' = latest + 1
    /\ dirty' = IF writer = 0 \/ writer \in broken THEN dirty ELSE dirty \cup {writer}
    /\ UNCHANGED <<lifeVars, op, finishers, capture, writer, broken, rowVars, osVars, crashes, faults>>

\* The debounce timer of a persistence goroutine: it flushes, or ends.
Flush(w, ok) ==
    /\ w \in dirty
    /\ Statement(ok)
    /\ dirty' = dirty \ {w}
    /\ IF ok THEN durable' = latest /\ UNCHANGED broken
             ELSE broken' = broken \cup {w} /\ UNCHANGED durable
    /\ UNCHANGED <<lifeVars, op, finishers, capture, writer, latest, row, stored, osVars, crashes>>

\* stopOutputPersistence: the current goroutine flushes a last time and ends;
\* one that has ended hands over the error it ended with.
StopWriter(ok) ==
    IF writer = 0
      THEN ok /\ UNCHANGED <<writer, dirty, durable, faults>>
      ELSE /\ writer' = 0
           /\ dirty' = dirty \ {writer}
           /\ IF writer \in broken
                THEN ~ok /\ UNCHANGED <<durable, faults>>
                ELSE /\ Statement(ok)
                     /\ durable' = IF ok THEN latest ELSE durable

\* The end of the output, which need not be the end of the process: the goroutine
\* stops the session's persistence, which need not be the one that was started
\* with its own process.
CaptureStop(p, ok) ==
    /\ capture[p] = "reading" /\ p \notin open
    /\ StopWriter(ok)
    /\ capture' = [capture EXCEPT ![p] = "waiting"]
    /\ UNCHANGED <<lifeVars, op, finishers, broken, latest, row, stored, osVars, crashes>>

\* Mutant: the process is not compared.
CaptureSettle_Any(p, ok) ==
    /\ capture[p] = "waiting" /\ p \notin alive
    /\ op = Idle
    /\ capture' = [capture EXCEPT ![p] = "done"]
    /\ IF state = "running"
         THEN /\ state' = "exited" /\ proc' = 0 /\ live' = NoLive
              /\ Persist("running", "exited", gen, ok)
         ELSE ok /\ UNCHANGED <<state, proc, live, row, faults>>
    /\ UNCHANGED <<gen, inputs, left, op, finishers, writer, dirty, broken, latest, stored, durable,
                   osVars, crashes>>

\* The goroutine then waits for the process.  One that ended by itself ends its
\* session, unless an operation has taken the process away or is closing it.
CaptureSettle(p, ok) ==
    /\ capture[p] = "waiting" /\ p \notin alive
    /\ op = Idle
    /\ capture' = [capture EXCEPT ![p] = "done"]
    /\ IF proc = p /\ state = "running"
         THEN /\ state' = "exited" /\ proc' = 0 /\ live' = NoLive
              /\ Persist("running", "exited", gen, ok)
         ELSE ok /\ UNCHANGED <<state, proc, live, row, faults>>
    /\ UNCHANGED <<gen, inputs, left, op, finishers, writer, dirty, broken, latest, stored, durable,
                   osVars, crashes>>

-----------------------------------------------------------------------------
(* Create.  The session is not visible before its last step. *)

CreateRow ==
    /\ op = Idle
    /\ state = "none" /\ row = NoRow
    /\ launches < MaxLaunches
    /\ row' = [state |-> "creating", gen |-> 0]
    /\ op' = At("createLaunch")
    /\ UNCHANGED <<lifeVars, finishers, ioVars, stored, durable, osVars, crashes, faults>>

\* A launch that fails removes the row: it is closed first, then deleted, and
\* either statement may fail.  When the row of a launched process cannot be
\* updated the process is killed and discardFailedCreate tries again with the
\* state the session has by then, "running": what it writes, or the row that
\* could not be written this time either, cannot be deleted.
CreateLaunch ==
    /\ op.pc = "createLaunch"
    /\ op' = Idle
    /\ \/ /\ Launch
          /\ row' = [state |-> "running", gen |-> 1]
          /\ state' = "running" /\ gen' = 1 /\ proc' = launches + 1
          /\ live' = [proc |-> launches + 1, gen |-> 1] /\ inputs' = Empty
          /\ UNCHANGED left
          /\ StartWriter(launches + 1)
          /\ capture' = [capture EXCEPT ![launches + 1] = "reading"]
          /\ UNCHANGED faults
       \/ /\ \/ row' = NoRow /\ UNCHANGED faults
             \/ /\ faults < MaxFaults /\ faults' = faults + 1
                /\ \E s \in {"creating", "closed"} : row' = [state |-> s, gen |-> 0]
          /\ UNCHANGED <<lifeVars, writer, capture, osVars>>
       \/ /\ faults < MaxFaults /\ faults' = faults + 1
          /\ row' \in {row, [state |-> "running", gen |-> 1]}
          /\ launches' = launches + 1
          /\ UNCHANGED <<lifeVars, writer, capture, ptyVars, reached>>
    /\ UNCHANGED <<finishers, dirty, broken, latest, stored, durable, crashes>>

-----------------------------------------------------------------------------
(* Close and finishClosing. *)

CloseExited(ok) ==
    /\ op = Idle
    /\ state = "exited"
    /\ state' = "closed"
    /\ Persist("exited", "closed", gen, ok)
    /\ UNCHANGED <<gen, proc, live, inputs, left, op, finishers, ioVars, stored, durable, osVars,
                   crashes>>

\* Close of a running session takes the process away from stream input and drains
\* the persistence goroutine.  An error of that goroutine ends the call: the
\* session is closing and its process runs, until somebody calls Close again.
CloseBegin(ok) ==
    /\ op = Idle
    /\ proc # 0
    /\ \/ /\ state = "running"
          /\ state' = "closing" /\ live' = NoLive
          /\ StopWriter(ok)
          /\ op' = IF ok THEN At("closePersist") ELSE Idle
       \/ /\ state = "closing" /\ ok
          /\ op' = At("terminate")
          /\ UNCHANGED <<state, live, writer, dirty, durable, faults>>
    /\ left' = ~ok
    /\ UNCHANGED <<gen, proc, inputs, finishers, capture, broken, latest, row, stored, osVars, crashes>>

ClosePersist(ok) ==
    /\ op.pc = "closePersist"
    /\ Persist("running", "closing", gen, ok)
    /\ IF ok THEN op' = At("terminate") /\ UNCHANGED <<state, proc, ptyVars>>
             ELSE /\ op' = Idle
                  /\ state' = "closed" /\ proc' = 0 /\ Terminate(proc)
    /\ UNCHANGED <<gen, live, inputs, left, finishers, ioVars, stored, durable, launches, reached,
                   crashes>>

\* Mutant: nobody goes on when the context of the call ends.
CloseTerminate_Forgotten(ok) ==
    /\ op.pc = "terminate"
    /\ op' = Idle
    /\ \/ /\ Terminate(proc)
          /\ state' = "closed" /\ proc' = 0
          /\ Persist("closing", "closed", gen, ok)
       \/ ok /\ UNCHANGED <<state, proc, ptyVars, row, faults>>
    /\ UNCHANGED <<gen, live, inputs, left, finishers, ioVars, stored, durable, launches, reached,
                   crashes>>

\* An error of Terminate closes the session all the same, unless it is the error
\* of a context: the context of the call or the timeout ended first, and the rest
\* is left to finishClosing.
CloseTerminate(ok) ==
    /\ op.pc = "terminate"
    /\ op' = Idle
    /\ \/ /\ Terminate(proc)
          /\ state' = "closed" /\ proc' = 0
          /\ Persist("closing", "closed", gen, ok)
          /\ UNCHANGED finishers
       \/ /\ ok
          /\ finishers' = finishers \cup {proc}
          /\ UNCHANGED <<state, proc, ptyVars, row, faults>>
    /\ UNCHANGED <<gen, live, inputs, left, ioVars, stored, durable, launches, reached, crashes>>

\* finishClosing tries once more, with a context of its own.  Any error of
\* Terminate, its timeout too, ends the goroutine: the session is left closing.
FinishClosing(p, ok) ==
    /\ p \in finishers
    /\ op = Idle
    /\ finishers' = finishers \ {p}
    /\ IF state = "closing" /\ proc = p
         THEN \/ /\ Kill(p)
                 /\ state' = "closed" /\ proc' = 0 /\ left' = FALSE
                 /\ Persist("closing", "closed", gen, ok)
              \/ /\ ok
                 /\ left' = TRUE
                 /\ UNCHANGED <<state, proc, ptyVars, row, faults>>
         ELSE ok /\ UNCHANGED <<state, proc, left, ptyVars, row, faults>>
    /\ UNCHANGED <<gen, live, inputs, op, ioVars, stored, durable, launches, reached, crashes>>

-----------------------------------------------------------------------------
(* Restart and Delete. *)

RestartBegin(ok) ==
    /\ op = Idle
    /\ state \in {"exited", "closed"}
    /\ launches < MaxLaunches
    /\ Persist(state, "restarting", gen, ok)
    /\ IF ok THEN state' = "restarting" /\ op' = At("restartLaunch")
             ELSE state' = "closed" /\ UNCHANGED op
    /\ UNCHANGED <<gen, proc, live, inputs, left, finishers, ioVars, stored, durable, osVars,
                   crashes>>

RestartLaunch(ok) ==
    /\ op.pc = "restartLaunch"
    /\ \/ /\ ok
          /\ Launch
          /\ state' = "running" /\ gen' = gen + 1 /\ proc' = launches + 1
          /\ live' = [proc |-> launches + 1, gen |-> gen + 1]
          /\ StartWriter(launches + 1)
          /\ op' = At("restartPersist")
          /\ UNCHANGED <<row, faults>>
       \/ /\ state' = "closed"
          /\ Persist("restarting", "closed", gen, ok)
          /\ op' = Idle
          /\ UNCHANGED <<gen, proc, live, writer, osVars>>
    /\ UNCHANGED <<inputs, left, finishers, capture, dirty, broken, latest, stored, durable, crashes>>

\* Mutant: a restart whose row could not be updated goes on.
RestartPersist_Ignored(ok) ==
    /\ op.pc = "restartPersist"
    /\ Persist("restarting", "running", gen, ok)
    /\ op' = Idle
    /\ capture' = [capture EXCEPT ![proc] = "reading"]
    /\ UNCHANGED <<lifeVars, finishers, writer, dirty, broken, latest, stored, durable, osVars,
                   crashes>>

\* When the row cannot be updated nobody captures the process and nobody stops
\* its persistence goroutine.
RestartPersist(ok) ==
    /\ op.pc = "restartPersist"
    /\ Persist("restarting", "running", gen, ok)
    /\ op' = Idle
    /\ IF ok THEN /\ capture' = [capture EXCEPT ![proc] = "reading"]
                  /\ UNCHANGED <<state, proc, live, ptyVars>>
             ELSE /\ Terminate(proc)
                  /\ state' = "exited" /\ proc' = 0 /\ live' = NoLive
                  /\ UNCHANGED capture
    /\ UNCHANGED <<gen, inputs, left, finishers, writer, dirty, broken, latest, stored, durable,
                   launches, reached, crashes>>

\* DELETE FROM sessions ... state IN ('exited','closed'), the decisions and the
\* output with it.
Delete(ok) ==
    /\ op = Idle
    /\ state \in {"exited", "closed"}
    /\ IF ok THEN /\ row.state \in {"exited", "closed"}
                  /\ row' = NoRow /\ stored' = Empty /\ durable' = 0
                  /\ state' = "deleted"
                  /\ UNCHANGED faults
             ELSE /\ faults < MaxFaults /\ faults' = faults + 1
                  /\ UNCHANGED <<row, stored, durable, state>>
    /\ UNCHANGED <<gen, proc, live, inputs, left, op, finishers, ioVars, osVars, crashes>>

-----------------------------------------------------------------------------
(* Write: input under an identity that is never delivered twice. *)

Sequences(g) == {k.seq : k \in {x \in DOMAIN inputs : x.gen = g}}
Last(g) == CHOOSE n \in Sequences(g) : \A other \in Sequences(g) : other <= n

\* Admit: room in the journal, the input before it is not uncertain, and it is
\* the next one.
Admitted(k) ==
    /\ k \notin DOMAIN inputs
    /\ Cardinality(DOMAIN inputs) < MaxDecisions
    /\ Sequences(k.gen) # {} =>
         /\ inputs[[k EXCEPT !.seq = Last(k.gen)]] # "uncertain"
         /\ k.seq = Last(k.gen) + 1

\* Mutant: the decision is recorded as it is expected to end.
WriteBegin_Hopeful(k, ok) ==
    /\ op = Idle
    /\ state = "running" /\ proc # 0 /\ k.gen = gen
    /\ Admitted(k)
    /\ ok
    /\ UNCHANGED faults
    /\ stored' = [x \in DOMAIN stored \cup {k} |-> IF x = k THEN "accepted" ELSE stored[x]]
    /\ op' = [pc |-> "ptyWrite", key |-> k]
    /\ UNCHANGED <<lifeVars, finishers, ioVars, row, durable, osVars, crashes>>

\* The decision is durable as "uncertain" before the terminal is touched.
WriteBegin(k, ok) ==
    /\ op = Idle
    /\ state = "running" /\ proc # 0 /\ k.gen = gen
    /\ Admitted(k)
    /\ Statement(ok)
    /\ IF ok /\ k \notin DOMAIN stored
         THEN /\ stored' = [x \in DOMAIN stored \cup {k} |-> IF x = k THEN "uncertain" ELSE stored[x]]
              /\ op' = [pc |-> "ptyWrite", key |-> k]
         ELSE UNCHANGED <<stored, op>>
    /\ UNCHANGED <<lifeVars, finishers, ioVars, row, durable, osVars, crashes>>

Verdict(amount) == CASE amount = "all" -> "accepted" [] amount = "none" -> "rejected" [] OTHER -> "uncertain"

PtyWrite(amount) ==
    /\ op.pc = "ptyWrite"
    /\ inputs' = [x \in DOMAIN inputs \cup {op.key} |-> IF x = op.key THEN Verdict(amount) ELSE inputs[x]]
    /\ reached' = [x \in DOMAIN reached \cup {op.key} |->
                     IF x # op.key THEN reached[x]
                     ELSE [proc |-> proc, amount |-> amount,
                           times |-> 1 + IF x \in DOMAIN reached THEN reached[x].times ELSE 0]]
    /\ op' = [op EXCEPT !.pc = "settleInput"]
    /\ UNCHANGED <<state, gen, proc, live, left, finishers, ioVars, rowVars, ptyVars, launches,
                   crashes, faults>>

SettleInput(ok) ==
    /\ op.pc = "settleInput"
    /\ Statement(ok)
    /\ stored' = IF ok THEN [stored EXCEPT ![op.key] = inputs[op.key]] ELSE stored
    /\ op' = Idle
    /\ UNCHANGED <<lifeVars, finishers, ioVars, row, durable, osVars, crashes>>

-----------------------------------------------------------------------------
(* Crash and recovery. *)

Recovered(s) ==
    CASE s \in {"creating", "closing"} -> "closed"
      [] s \in {"running", "restarting"} -> "exited"
      [] OTHER -> s

\* The host runtime stops, its terminals with it, and recover builds the session
\* from its row, its decisions and its output.  RecoverLifecycle refuses an exited
\* session that never had a process, after the row was updated: the manager does
\* not start any more.
Crash ==
    /\ crashes < MaxCrashes
    /\ crashes' = crashes + 1
    /\ row' = [row EXCEPT !.state = Recovered(@)]
    /\ state' = IF state = "deleted" THEN state
                ELSE IF row' = [state |-> "exited", gen |-> 0] THEN "refused"
                ELSE row'.state
    /\ gen' = row.gen /\ proc' = 0 /\ live' = NoLive /\ inputs' = stored /\ left' = FALSE
    /\ op' = Idle /\ finishers' = {}
    /\ capture' = [p \in Processes |-> IF capture[p] = "none" THEN "none" ELSE "done"]
    /\ writer' = 0 /\ dirty' = {} /\ broken' = {} /\ latest' = durable
    /\ alive' = {} /\ open' = {} /\ immune' = {}
    /\ UNCHANGED <<stored, durable, launches, reached, faults>>

-----------------------------------------------------------------------------
\* What the operation that holds opMu does next.
Continue ==
    \/ CreateLaunch
    \/ \E amount \in {"all", "some", "none"} : PtyWrite(amount)
    \/ \E ok \in BOOLEAN : ClosePersist(ok) \/ CloseTerminate(ok) \/ RestartLaunch(ok)
                           \/ RestartPersist(ok) \/ SettleInput(ok)

Capture(p) == \E ok \in BOOLEAN : CaptureStop(p, ok) \/ CaptureSettle(p, ok)

Finish(p) == \E ok \in BOOLEAN : FinishClosing(p, ok)

Next ==
    \/ CreateRow \/ Continue \/ Crash
    \/ \E ok \in BOOLEAN : CloseExited(ok) \/ CloseBegin(ok) \/ RestartBegin(ok) \/ Delete(ok)
    \/ \E k \in Keys, ok \in BOOLEAN : WriteBegin(k, ok)
    \/ \E p \in Processes : Exit(p) \/ HangUp(p) \/ Elevate(p) \/ Output(p) \/ Capture(p) \/ Finish(p)
                            \/ \E ok \in BOOLEAN : Flush(p, ok)

Spec == Init /\ [][Next]_vars

\* An operation goes on until it releases the lock.  The goroutines go on too, and
\* a sync.Mutex is not withheld for ever from one that waits for it, however often
\* others take it: strong fairness.  Nothing obliges anyone to call an operation, a
\* process to end or to print.
LiveSpec ==
    /\ Spec
    /\ WF_vars(Continue)
    /\ \A p \in Processes : SF_vars(Capture(p)) /\ SF_vars(Finish(p))

-----------------------------------------------------------------------------
(* Properties. *)

\* Whatever statement fails and however Close, Restart, a late capture and a late
\* finishClosing interleave, a process that runs is the one the session holds, so
\* some operation can still end it, and there is never a second one; a session that
\* was left closing holds its process, so that Close can be called again.  (Only a
\* process that became another user's can be given up running: Close does not look
\* at the error of a refused signal.)  Stream input, which is written to liveProcess
\* without the lock, goes to this process, under its generation, and not while it is
\* being closed.
NoOrphan ==
    /\ alive \ immune \subseteq {proc}
    /\ state = "closing" => proc # 0
    /\ live # NoLive => /\ live = [proc |-> proc, gen |-> gen]
                        /\ state = "running"

\* A session that is reported running is durably running in that generation, so
\* that a crash cannot bring it back as closed or in an older generation; while no
\* statement fails the row says what the session says; and a deleted session has
\* no row from which a restart would bring it back, whatever persists late.  When
\* the first process ended by itself the session is reported exited only once all
\* its output is stored, the chunks of the last debounce interval too.  (A restart
\* can break this: the late capture of the old process stops the persistence
\* goroutine of the new one.)
RowFollows ==
    /\ (op = Idle /\ state \notin {"none", "deleted", "refused"}) =>
        /\ state = "running" => row = [state |-> "running", gen |-> gen]
        /\ faults = 0 => row = [state |-> state, gen |-> gen]
    /\ state = "deleted" => row = NoRow /\ alive \subseteq immune
    /\ (op = Idle /\ faults = 0 /\ state = "exited" /\ launches = 1) => durable = latest

\* No input reaches a terminal twice, before its decision is durable, or behind one
\* of which only a part was written; a durable decision says what happened, across
\* crashes and failed updates; and it never answers for another process, since a
\* restart does not reuse a generation, not even after a crash in the middle of one.
InputsAreTruthful ==
    \A k \in DOMAIN reached :
        /\ reached[k].times = 1
        /\ state # "deleted" =>
             /\ k \in DOMAIN stored
             /\ stored[k] \in {"uncertain", Verdict(reached[k].amount)}
        /\ \A x \in DOMAIN reached :
             (x.gen = k.gen /\ x.seq < k.seq) => reached[x].amount # "some"
        /\ (proc # 0 /\ k.gen = gen) => reached[k].proc = proc

\* The end of a process is noticed once nobody has its terminal open any more: its
\* session does not stay running.  And a session that is being closed is closed in
\* the end, also when the context of the call ends first, unless the last attempt
\* ended with an error: of the persistence goroutine in Close, or of Terminate in
\* finishClosing, which nobody repeats.
EndsAreSettled ==
    /\ []<>(state = "running" => proc \in alive \cup open)
    /\ []<>(state = "closing" => left)
=============================================================================
