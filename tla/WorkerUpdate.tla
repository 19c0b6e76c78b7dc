---------------------------- MODULE WorkerUpdate ----------------------------
(***************************************************************************)
(* An ordinary runtime update: workerupdate.Manager inside paperboat-      *)
(* updated, the journal and the three binary slots it keeps on disk, the   *)
(* candidate worker it starts, hostd's fence (HostdFence) and hostd's gate *)
(* (UpdateGate).  The updater takes one step per effect on the disk, on    *)
(* hostd or on a worker, and may stop between any two of them; what it has *)
(* in memory is then lost.  The platform is a Unix other than macOS.       *)
(***************************************************************************)
EXTENDS UpdateJournal, HostdFence, UpdateGate

CONSTANTS
    MaxCrashes, \* bound: crashes of the updater
    MaxFaults   \* bound: writes, renames, downloads, starts and probes that fail

ASSUME UpdateAssumption == MaxCrashes \in Nat /\ MaxFaults \in Nat

VARIABLES
    index,   \* the version of the signed release index
    offered, \* its rollout is active and this machine eligible
    disk,    \* the update journal
    slots,   \* Binary, BinaryRollback and BinaryStaged: version of the bytes, 0 none
    told,    \* leases of the workers that were sent "activate"
    up,      \* the updater process
    crashes, \* crashes so far
    faults   \* failures so far

vars == <<index, offered, disk, slots, told, up, crashes, faults, fenceVars, gateVars>>

(***************************************************************************)
(* The updater's memory.  `goal' is the release Activate was called with,  *)
(* 0 for the recovery of a starting service; `j' the journal in hand;      *)
(* `policy' whether the release in hand came from the signed index and so  *)
(* carries its activation policy; `lease' and `reply' the worker in hand   *)
(* and its answer; `jerr' restoreAfterDrain's journalErr; `cause' why it   *)
(* was called; `done' how the call returns after the idle journal is       *)
(* written; `ret' where the storage helpers return to; `restart' that a    *)
(* re-execution of the updater is scheduled.                               *)
(***************************************************************************)
Process(pc, version) ==
    [pc |-> pc, goal |-> 0, active |-> version, j |-> NoJournal, policy |-> FALSE,
     lease |-> 0, reply |-> "none", jerr |-> FALSE, cause |-> "failed", done |-> "failed",
     ret |-> "none", restart |-> FALSE]

Pcs == {"down", "idle", "recover", "supersede", "begin", "checking", "stage", "staged",
        "started", "launch", "hello", "validating", "canary", "ready", "draining", "drain",
        "cutover", "promote1", "promote2", "promote3", "promoted", "activate", "activating",
        "monitoring", "monitor", "monitored", "committed", "commit", "storage1", "storage2",
        "restore", "restoregate", "rollback", "relaunch", "rehello", "reactivate",
        "reactivating", "regate", "block", "discard", "idlewrite"}

TypeOK ==
    /\ FenceTypeOK
    /\ GateTypeOK
    /\ index \in Versions
    /\ offered \in BOOLEAN
    /\ disk \in Journals(Versions, 0..MaxLeases)
    /\ slots \in [{"current", "rollback", "staged"} -> Versions \cup {0}]
    /\ told \subseteq 1..MaxLeases
    /\ up \in [pc : Pcs, goal : Versions \cup {0}, active : Versions \cup {0},
               j : Journals(Versions, 0..MaxLeases), policy : BOOLEAN,
               lease : 0..MaxLeases, reply : {"none", "active", "dead"}, jerr : BOOLEAN,
               cause : {"failed", "interrupted", "storage"},
               done : {"failed", "abandoned", "recovered", "updated"},
               ret : {"none", "idlewrite", "supersede", "promoted", "monitoring", "restore",
                      "regate"},
               restart : BOOLEAN]
    /\ crashes \in 0..MaxCrashes
    /\ faults \in 0..MaxFaults

\* A machine whose runtime was just installed.
Init ==
    /\ FenceInit
    /\ GateInit
    /\ index = HostdVersion
    /\ offered = TRUE
    /\ disk = NoJournal
    /\ slots = [current |-> HostdVersion, rollback |-> 0, staged |-> 0]
    /\ told = {}
    /\ up = Process("down", 0)
    /\ crashes = 0
    /\ faults = 0

-----------------------------------------------------------------------------
Fault == faults < MaxFaults /\ faults' = faults + 1
TwoFaults == faults + 1 < MaxFaults /\ faults' = faults + 2

Goto(pc) == [up EXCEPT !.pc = pc]

\* An error returns to the scheduler, or ends a service that is starting.
Failed == [Process(IF up.goal = 0 THEN "down" ELSE "idle", up.active)
             EXCEPT !.restart = up.restart]

\* recoverLocked returned nil.
Recovered == IF up.goal = 0 THEN [Failed EXCEPT !.pc = "idle"]
                            ELSE [Failed EXCEPT !.pc = "begin", !.goal = up.goal]

\* atomicfile.Write: the directory is synced after the rename, so a write that
\* failed may have left either file.
Write(j, written, failed) ==
    \/ disk' = j /\ up' = written /\ UNCHANGED faults
    \/ Fault /\ disk' \in {disk, j} /\ up' = failed

\* Writing a new transaction, which has no entry in hostd's ledger; the gate is
\* not called, and keeps what it holds of the one before.
Open(written) ==
    /\ Write(NewJournal(up.active), written, Failed)
    /\ IF disk' = NewJournal(up.active) THEN Forget(disk.active) ELSE UNCHANGED gateVars
    /\ UNCHANGED <<index, offered, slots, told, crashes, fenceVars>>

\* Steps that leave everything but the disk, or everything but hostd's gate,
\* alone.
OnDisk == UNCHANGED <<index, offered, told, crashes, fenceVars, gateVars>>
OnJournal == OnDisk /\ UNCHANGED slots
InMemory == OnJournal /\ UNCHANGED <<disk, faults>>

-----------------------------------------------------------------------------
(* The service. *)

\* runUpdated: the executable is the file in the current slot.  Its release is
\* the one of the signed index, or else the active release of the journal; New
\* requires the bytes in the current slot to be that release.
Start ==
    /\ up.pc = "down"
    /\ LET executable == slots.current IN
         /\ executable # 0
         /\ index = executable \/ RecoveryRelease(disk, executable) = executable
         /\ up' = Process("recover", executable)
    /\ InMemory

\* Manager.Check with the release of the signed index.  When the resolver finds
\* none the call returns, and nothing is recovered either.
Check ==
    /\ up.pc = "idle"
    /\ up' = IF offered THEN [up EXCEPT !.pc = "recover", !.goal = index] ELSE up
    /\ InMemory

\* scheduleUpdaterRestart re-executes the process a moment after an update, in
\* whatever it is doing by then.
Reexec ==
    /\ up.restart
    /\ up' = IF slots.current # 0 THEN Process("down", 0) ELSE [up EXCEPT !.restart = FALSE]
    /\ InMemory

Crash ==
    /\ up.pc # "down"
    /\ crashes < MaxCrashes
    /\ crashes' = crashes + 1
    /\ up' = Process("down", 0)
    /\ UNCHANGED <<index, offered, disk, slots, told, faults, fenceVars, gateVars>>

\* The rollout is paused, deferred or promoted again.
Rollout ==
    /\ offered' = ~offered
    /\ UNCHANGED <<index, disk, slots, told, up, crashes, faults, fenceVars, gateVars>>

Publish ==
    /\ index + 1 \in Versions
    /\ index' = index + 1
    /\ UNCHANGED offered
    /\ UNCHANGED <<disk, slots, told, up, crashes, faults, fenceVars, gateVars>>

-----------------------------------------------------------------------------
(* Storage.  Each rename is a step: the process may stop between two.  A   *)
(* fault is an error of a step, before or after its effect.                *)

\* The idle journal that closes the transaction is written once the staged
\* file is gone.
Discard(failure, quarantine, done) ==
    [up EXCEPT !.pc = "discard", !.ret = "idlewrite", !.done = done,
               !.j = IdleJournal(up.active, failure, quarantine)]

\* removeStaged.  Only an attempt abandoned before the drain goes on when the
\* file cannot be removed.
RemoveStaged ==
    /\ up.pc = "discard"
    /\ \/ /\ slots' = [slots EXCEPT !.staged = 0]
          /\ up' = Goto(up.ret)
          /\ UNCHANGED faults
       \/ /\ Fault
          /\ up' = IF up.done = "abandoned" THEN Goto(up.ret) ELSE Failed
          /\ UNCHANGED slots
    /\ UNCHANGED disk
    /\ OnDisk

\* How the call returns once the idle journal is on disk.
Returned == CASE up.done \in {"failed", "abandoned"} -> Failed
              [] up.done = "recovered" -> Recovered
              [] up.done = "updated"   -> [Failed EXCEPT !.restart = TRUE]

WriteIdle ==
    /\ up.pc = "idlewrite"
    /\ Write(up.j, Returned, Failed)
    /\ OnJournal

\* An error of promoteStorage: Activate undoes what was done, recovery returns.
PromoteFailed ==
    IF up.ret = "monitoring" THEN Failed
                             ELSE [up EXCEPT !.pc = "storage1", !.ret = "restore"]

PromoteRemove ==
    /\ up.pc = "promote1"
    /\ IF slots.current = 0 \/ slots.staged = 0
         THEN up' = PromoteFailed /\ UNCHANGED <<slots, faults>>
         ELSE \/ /\ slots' = [slots EXCEPT !.rollback = 0]
                 /\ up' = Goto("promote2")
                 /\ UNCHANGED faults
              \/ Fault /\ up' = PromoteFailed /\ UNCHANGED slots
    /\ UNCHANGED disk
    /\ OnDisk

\* Mutant: the old binary is removed instead of kept for the rollback.
PromoteRetire_Removed ==
    /\ up.pc = "promote2"
    /\ \/ /\ slots' = [slots EXCEPT !.current = 0]
          /\ up' = Goto("promote3")
          /\ UNCHANGED faults
       \/ Fault /\ up' = PromoteFailed /\ UNCHANGED slots
    /\ UNCHANGED disk
    /\ OnDisk

PromoteRetire ==
    /\ up.pc = "promote2"
    /\ \/ /\ slots' = [slots EXCEPT !.rollback = slots.current, !.current = 0]
          /\ up' = Goto("promote3")
          /\ UNCHANGED faults
       \/ Fault /\ up' = PromoteFailed /\ UNCHANGED slots
    /\ UNCHANGED disk
    /\ OnDisk

Installed == [slots EXCEPT !.current = slots.staged, !.staged = 0]
Reverted == [slots EXCEPT !.current = slots.rollback, !.rollback = 0]

\* The second rename; a failure puts the old file back, if that succeeds, and a
\* failure to sync leaves the new one.
PromoteInstall ==
    /\ up.pc = "promote3"
    /\ \/ slots' = Installed /\ up' = Goto(up.ret) /\ UNCHANGED faults
       \/ Fault /\ slots' \in {Installed, Reverted} /\ up' = PromoteFailed
       \/ TwoFaults /\ UNCHANGED slots /\ up' = PromoteFailed
    /\ UNCHANGED disk
    /\ OnDisk

\* restoreStorage's callers: restoreAfterDrain, which is told of an error, and
\* rollbackActive, which returns it.
RestoreFailed ==
    IF up.ret = "regate" THEN Failed ELSE [up EXCEPT !.pc = up.ret, !.cause = "storage"]

RestoreQuarantine ==
    /\ up.pc = "storage1"
    /\ CASE slots.staged # 0 -> up' = Goto(up.ret) /\ UNCHANGED <<slots, faults>>
         [] slots.staged = 0 /\ (slots.current = 0 \/ slots.rollback = 0) ->
              up' = RestoreFailed /\ UNCHANGED <<slots, faults>>
         [] slots.staged = 0 /\ slots.current # 0 /\ slots.rollback # 0 ->
              \/ /\ slots' = [slots EXCEPT !.staged = slots.current, !.current = 0]
                 /\ up' = Goto("storage2")
                 /\ UNCHANGED faults
              \/ Fault /\ up' = RestoreFailed /\ UNCHANGED slots
    /\ UNCHANGED disk
    /\ OnDisk

RestoreCurrent ==
    /\ up.pc = "storage2"
    /\ \/ slots' = Reverted /\ up' = Goto(up.ret) /\ UNCHANGED faults
       \/ Fault /\ slots' \in {Installed, Reverted} /\ up' = RestoreFailed
       \/ TwoFaults /\ UNCHANGED slots /\ up' = RestoreFailed
    /\ UNCHANGED disk
    /\ OnDisk

-----------------------------------------------------------------------------
(* recoverLocked. *)

\* The release in hand is rebuilt from the journal, without its policy.
FromJournal(pc) == [up EXCEPT !.pc = pc, !.j = disk, !.policy = FALSE]

RecoverAbsent ==
    /\ up.pc = "recover"
    /\ disk.stage = "absent"
    /\ Open(Recovered)

\* A newer executable retires a transaction that is not at or past the cutover,
\* and one that was there and is being rolled back.
RecoverSuperseded ==
    /\ up.pc = "recover"
    /\ disk.stage # "absent"
    /\ up.active > disk.active
    /\ ~CandidateMayBeActive(disk.stage)
    /\ up' = [up EXCEPT !.pc = "discard", !.ret = "supersede", !.done = "recovered"]
    /\ InMemory

Supersede == up.pc = "supersede" /\ Open(Recovered)

RecoverMismatch ==
    /\ up.pc = "recover"
    /\ disk.stage # "absent"
    /\ disk.active # up.active
    /\ up.active < disk.active \/ CandidateMayBeActive(disk.stage)
    /\ up' = Failed
    /\ InMemory

Recovering(action) ==
    /\ up.pc = "recover"
    /\ disk.stage # "absent"
    /\ disk.active = up.active
    /\ Recovery(disk.stage) = action

RecoverKeepActive == Recovering("keep_active") /\ up' = Recovered /\ InMemory

RecoverDiscard ==
    /\ Recovering("discard_candidate")
    /\ up' = Discard(TRUE, 0, "recovered")
    /\ InMemory

RecoverDrain ==
    /\ Recovering("restore_drained_active")
    /\ up' = [FromJournal("restore") EXCEPT !.cause = "interrupted"]
    /\ InMemory

\* Mutant: recovery waits for a candidate that may never cut over.
RecoverCutover_Waits ==
    /\ Recovering("query_hostd_epoch")
    /\ up' = IF ActiveMatches(disk.candidate, disk.epoch) THEN FromJournal("monitoring")
                                                         ELSE Failed
    /\ InMemory

\* Only hostd knows whether the candidate cut over.
RecoverCutover ==
    /\ Recovering("query_hostd_epoch")
    /\ up' = IF ~Serving THEN Failed
             ELSE IF ~ActiveMatches(disk.candidate, disk.epoch)
               THEN [FromJournal("storage1") EXCEPT !.ret = "restore", !.cause = "interrupted"]
             ELSE IF slots.current = disk.candidate THEN FromJournal("monitoring")
               ELSE [FromJournal("promote1") EXCEPT !.ret = "monitoring"]
    /\ InMemory

RecoverMonitor == Recovering("continue_monitoring") /\ up' = FromJournal("monitor") /\ InMemory

RecoverCommitted == Recovering("finalize_cleanup") /\ up' = FromJournal("commit") /\ InMemory

\* restoreBlockedTransaction: the rollback stage is written again, which the
\* transition table allows from "blocked"; restoreAfterDrain is then called
\* with a journal that says "draining".
RecoverRollback ==
    /\ Recovering("perform_rollback")
    /\ IF Allowed(disk.stage, "rollback")
         THEN Write([disk EXCEPT !.stage = "rollback"],
                    [FromJournal("restore") EXCEPT !.cause = "interrupted",
                                                   !.j.stage = "draining"],
                    Failed)
         ELSE up' = Failed /\ UNCHANGED <<disk, faults>>
    /\ OnJournal

-----------------------------------------------------------------------------
(* Activate, after recovery. *)

\* The installed release, an older one and the quarantined one end the call.
Refuse ==
    /\ up.pc = "begin"
    /\ up.goal <= up.active \/ up.goal = Quarantined(disk)
    /\ up' = Failed
    /\ InMemory

Begin ==
    /\ up.pc = "begin"
    /\ up.goal > up.active
    /\ up.goal # Quarantined(disk)
    /\ Open([up EXCEPT !.pc = "checking", !.j = NewJournal(up.active), !.policy = TRUE])

\* Mutant: the drain is asked for before it is journaled.
AfterWrite_DrainFirst ==
    [checking |-> "stage", staged |-> "started", started |-> "launch",
     validating |-> "canary", ready |-> "drain", draining |-> "drain",
     monitoring |-> "monitor", committed |-> "commit"]

\* The transitions that are written before the next step and end the call when
\* they cannot be written: the stage is named by the program counter.
AfterWrite ==
    [checking |-> "stage", staged |-> "started", started |-> "launch",
     validating |-> "canary", ready |-> "draining", draining |-> "drain",
     monitoring |-> "monitor", committed |-> "commit"]

Transition(stage) ==
    [up.j EXCEPT !.stage = stage,
                 !.candidate = IF stage = "staged" THEN up.goal ELSE up.j.candidate]

WriteStage ==
    /\ up.pc \in DOMAIN AfterWrite
    /\ Allowed(up.j.stage, up.pc)
    /\ LET j == Transition(up.pc) IN
         Write(j, [up EXCEPT !.pc = AfterWrite[up.pc], !.j = j], Failed)
    /\ OnJournal

\* stage: download, verify and rename into the staged slot.
Stage ==
    /\ up.pc = "stage"
    /\ \/ slots' = [slots EXCEPT !.staged = up.goal] /\ up' = Goto("staged") /\ UNCHANGED faults
       \/ /\ Fault
          /\ slots' \in {slots, [slots EXCEPT !.staged = up.goal]}
          /\ up' = Discard(TRUE, 0, "abandoned")
    /\ UNCHANGED disk
    /\ OnDisk

-----------------------------------------------------------------------------
(* Workers.  A worker in hand is known by its lease. *)

\* failBeforeCutover for a candidate, the error path of rollbackActive for a
\* rollback worker.
WorkerFailed == IF up.pc \in {"launch", "hello"} THEN Discard(TRUE, 0, "abandoned")
                                                 ELSE Goto("block")

\* Starter.Start: the candidate is the staged file under the candidate's
\* version, the rollback worker the rollback file under the active version.
Launch ==
    /\ \/ up.pc = "launch"
       \/ up.pc = "relaunch"
    /\ LET old == up.pc = "relaunch"
           file == IF old THEN slots.rollback ELSE slots.staged
           id   == IF old THEN up.active ELSE up.j.candidate
       IN \/ /\ Serving
             /\ file # 0
             /\ Negotiate(id, file)
             /\ up' = [up EXCEPT !.pc = IF old THEN "rehello" ELSE "hello",
                                 !.lease = leases + 1, !.reply = "none"]
             /\ UNCHANGED <<hostd, own, faults>>
          \/ /\ Fault
             /\ up' = WorkerFailed
             /\ UNCHANGED fenceVars
          \/ /\ ~Serving \/ file = 0 \/ leases = MaxLeases
             /\ up' = WorkerFailed
             /\ UNCHANGED <<faults, fenceVars>>
    /\ UNCHANGED <<index, offered, disk, slots, told, crashes, gateVars>>

\* Worker.Ready.  The journal records the candidate's epoch.
Hello ==
    /\ up.pc \in {"hello", "rehello"}
    /\ \/ /\ Serving
          /\ MarkReady(up.lease)
          /\ up' = IF up.pc = "hello"
                     THEN [up EXCEPT !.pc = "validating", !.j.epoch = candidate.epoch]
                     ELSE Goto("reactivate")
          /\ UNCHANGED <<hostd, own, faults>>
       \/ /\ ~Serving \/ ~IsCandidate(up.lease)
          /\ up' = WorkerFailed
          /\ UNCHANGED <<faults, fenceVars>>
       \/ /\ Fault
          /\ up' = WorkerFailed
          /\ UNCHANGED fenceVars
    /\ UNCHANGED <<index, offered, disk, slots, told, crashes, gateVars>>

\* Worker.Activate writes the activation word and waits.
Tell ==
    /\ up.pc \in {"activate", "reactivate"}
    /\ told' = told \cup {up.lease}
    /\ up' = Goto(IF up.pc = "activate" THEN "activating" ELSE "reactivating")
    /\ UNCHANGED <<index, offered, disk, slots, crashes, faults, fenceVars, gateVars>>

Replied(lease, reply) ==
    IF up.pc \in {"activating", "reactivating"} /\ up.lease = lease
      THEN [up EXCEPT !.reply = reply]
      ELSE up

\* The worker process reads the word, even when the updater is gone by then.
WorkerActivates(lease) ==
    /\ lease \in told
    /\ told' = told \ {lease}
    /\ Serving
    /\ Promote(lease)
    /\ up' = Replied(lease, "active")
    /\ UNCHANGED <<index, offered, disk, slots, crashes, faults, hostd, own, gateVars>>

\* hostd is down, fences the worker or cannot persist: the worker exits.
WorkerExits(lease) ==
    /\ lease \in told
    /\ told' = told \ {lease}
    /\ \/ (~Serving \/ ~IsCandidate(lease)) /\ UNCHANGED faults
       \/ Fault
    /\ up' = Replied(lease, "dead")
    /\ UNCHANGED <<index, offered, disk, slots, crashes, fenceVars, gateVars>>

\* An error leaves the candidate's journal at "cutover"; the rollback worker's
\* blocks the transaction.
Activated ==
    /\ up.pc \in {"activating", "reactivating"}
    /\ up.reply # "none"
    /\ LET error == IF up.pc = "activating" THEN Failed ELSE Goto("block") IN
         \/ /\ up' = IF up.reply = "dead" THEN error
                     ELSE IF up.pc = "activating" THEN Goto("monitoring")
                     ELSE [up EXCEPT !.pc = "storage1", !.ret = "regate"]
            /\ UNCHANGED faults
         \/ Fault /\ up' = error
    /\ OnJournal
    /\ UNCHANGED disk

-----------------------------------------------------------------------------
(* Gate calls. *)

Call(op, passed, refused) ==
    /\ \E outcome \in Outcomes(op, up.policy) :
         /\ outcome.fault => faults < MaxFaults
         /\ faults' = IF outcome.fault THEN faults + 1 ELSE faults
         /\ up' = IF outcome.ok /\ Serving THEN passed ELSE refused
         /\ IF Serving THEN Answer(op, outcome) ELSE UNCHANGED gateVars
    /\ UNCHANGED <<index, offered, slots, disk, told, crashes, fenceVars>>

Canary ==
    /\ up.pc = "canary"
    /\ Call("candidate", Goto("ready"), Discard(TRUE, up.j.candidate, "abandoned"))

Drain ==
    /\ up.pc = "drain"
    /\ Call("drain", Goto("cutover"), Goto("restore"))

\* The intent to cut over is on disk before a file moves.
WriteCutover ==
    /\ up.pc = "cutover"
    /\ LET j == Transition("cutover") IN
         Write(j, [up EXCEPT !.pc = "promote1", !.ret = "promoted", !.j = j],
                  [up EXCEPT !.pc = "restore", !.j = j])
    /\ OnJournal

\* The journal is written again with the new path of the candidate.
WritePromoted ==
    /\ up.pc = "promoted"
    /\ Write(up.j, Goto("activate"), [up EXCEPT !.pc = "storage1", !.ret = "restore"])
    /\ OnJournal

\* monitor: the candidate must be hostd's active worker, healthy, and stable.
\* The second alternative is a candidate that is not active; one whose first
\* heartbeat, which comes some seconds after its activation, has not arrived, so
\* that the health check refuses it; and a stability window that hostd observes
\* beyond the deadline of the call, which was set when the window was.
Monitor ==
    /\ up.pc = "monitor"
    /\ \/ /\ ActiveMatches(up.j.candidate, up.j.epoch)
          /\ Call("stability", Goto("monitored"), Goto("rollback"))
       \/ up' = Goto("rollback") /\ InMemory

\* The second look at the candidate: no longer active, or no heartbeat for
\* fifteen seconds, is a rollback.
Monitored ==
    /\ up.pc = "monitored"
    /\ \/ /\ Serving
          /\ ActiveMatches(up.j.candidate, up.j.epoch)
          /\ up' = Goto("committed")
       \/ up' = Goto("rollback")
    /\ InMemory

\* commitGate, setActive and the start of finishCommitted.
Commit ==
    /\ up.pc = "commit"
    /\ Call("commit",
            [up EXCEPT !.pc = "discard", !.ret = "idlewrite", !.active = up.j.candidate,
                       !.done = IF up.policy THEN "updated" ELSE "recovered",
                       !.j = IdleJournal(up.j.candidate, FALSE, 0)],
            Failed)

-----------------------------------------------------------------------------
(* Rollbacks. *)

\* restoreAfterDrain goes on when the rollback stage cannot be written.
RestoreBegin ==
    /\ up.pc = "restore"
    /\ LET j == [Transition("rollback") EXCEPT !.failed = TRUE] IN
         Write(j, [up EXCEPT !.pc = "restoregate", !.j = j],
                  [up EXCEPT !.pc = "restoregate", !.j = j, !.jerr = TRUE])
    /\ OnJournal

RestoreGate ==
    /\ up.pc = "restoregate"
    /\ IF HasActive
         THEN Call("rollback",
                   IF up.jerr \/ up.cause = "storage" THEN Goto("block")
                     ELSE Discard(TRUE, up.j.candidate,
                                  IF up.cause = "interrupted" THEN "recovered" ELSE "failed"),
                   Goto("block"))
         ELSE up' = Goto("block") /\ InMemory

\* The error is returned whether or not the blocked stage could be written.
Block ==
    /\ up.pc = "block"
    /\ Write([up.j EXCEPT !.stage = "blocked"], Failed, Failed)
    /\ OnJournal

\* Mutant: the files are restored and the old worker is not started.
RollbackBegin_FilesOnly ==
    /\ up.pc = "rollback"
    /\ LET j == [Transition("rollback") EXCEPT !.failed = TRUE] IN
         Write(j, [up EXCEPT !.pc = "storage1", !.ret = "regate", !.j = j], Failed)
    /\ OnJournal

\* rollbackActive.
RollbackBegin ==
    /\ up.pc = "rollback"
    /\ LET j == [Transition("rollback") EXCEPT !.failed = TRUE] IN
         Write(j, [up EXCEPT !.pc = "relaunch", !.j = j], Failed)
    /\ OnJournal

RollbackGate ==
    /\ up.pc = "regate"
    /\ IF ~Serving THEN up' = Failed /\ InMemory
       ELSE IF ~HasActive THEN up' = Goto("block") /\ InMemory
       ELSE Call("rollback",
                 [up EXCEPT !.pc = "idlewrite", !.done = "failed",
                            !.j = IdleJournal(up.active, TRUE, up.j.candidate)],
                 Goto("block"))

-----------------------------------------------------------------------------
Updater ==
    \/ Start \/ RemoveStaged \/ WriteIdle
    \/ PromoteRemove \/ PromoteRetire \/ PromoteInstall
    \/ RestoreQuarantine \/ RestoreCurrent
    \/ RecoverAbsent \/ RecoverSuperseded \/ Supersede \/ RecoverMismatch
    \/ RecoverKeepActive \/ RecoverDiscard \/ RecoverDrain \/ RecoverCutover
    \/ RecoverMonitor \/ RecoverCommitted \/ RecoverRollback
    \/ Refuse \/ Begin \/ WriteStage \/ Stage \/ Launch \/ Hello \/ Tell \/ Activated
    \/ Canary \/ Drain \/ WriteCutover \/ WritePromoted \/ Monitor \/ Monitored \/ Commit
    \/ RestoreBegin \/ RestoreGate \/ Block \/ RollbackBegin \/ RollbackGate

WorkerStep == \E lease \in 1..MaxLeases : WorkerActivates(lease) \/ WorkerExits(lease)

\* A step of hostd leaves the updater and the disk alone.
HostdStep == HostdBoot(slots.current) \/ HostdReady \/ HostdOwn \/ HostdFenced

Hostd ==
    /\ HostdStep \/ HostdCrash
    /\ UNCHANGED <<index, offered, disk, slots, told, up, crashes, faults, gateVars>>

Gate ==
    /\ WorkloadsChange \/ Purge
    /\ UNCHANGED <<index, offered, disk, slots, told, up, crashes, faults, fenceVars>>

Next == Updater \/ Check \/ Reexec \/ Crash \/ Rollout \/ Publish \/ WorkerStep \/ Hostd \/ Gate

Spec == Init /\ [][Next]_vars

\* The updater, the workers and a starting hostd run on; the scheduler checks
\* again and again; the scheduled re-execution happens.
Fairness ==
    /\ WF_vars(Updater)
    /\ WF_vars(Check)
    /\ WF_vars(Reexec)
    /\ WF_vars(WorkerStep)
    /\ WF_vars(HostdStep /\ UNCHANGED <<index, offered, disk, slots, told, up, crashes, faults, gateVars>>)

LiveSpec == Spec /\ Fairness

-----------------------------------------------------------------------------
(* Properties. *)

\* The stages before the cutover.
BeforeCutover == {"idle", "checking", "staged", "started", "validating", "ready", "draining"}

\* Whatever fails and wherever the updater or hostd stops, the bytes of the
\* release the journal calls active are in the current or the rollback slot:
\* promoteStorage, restoreStorage and removeStaged never lose the last copy
\* (manager.go, "rollback is old").
ActiveReleaseKept ==
    disk.stage # "absent" => disk.active \in {slots.current, slots.rollback}

\* "Persist cutover intent before filesystem rotation or hostd activation": as
\* long as the journal is before the cutover, and again once it is idle, the
\* current slot holds the release the journal calls active (or nothing, when a
\* rename failed and its undo failed too), and no worker the updater started is
\* in charge with the candidate's bytes, nor with a quarantined release's bytes
\* after the rollback: the files, the fence and the journal agree on who may run,
\* even when a worker is activated after its updater crashed.
CutoverIsJournaled ==
    disk.stage \in BeforeCutover =>
        /\ slots.current \in {disk.active, 0}
        /\ disk.candidate # 0 /\ active.lease # own => active.runs # disk.candidate

\* The entry of the journal's own transaction: drained only while the journal
\* remembers the drain, committed only when the journal is.
LedgerFollows ==
    /\ ledger = "drained" => disk.stage \in {"draining"} \cup (Stages \ BeforeCutover)
    /\ ledger = "committed" => disk.stage \in {"committed", "idle"}

\* The journal and hostd's ledger agree across crashes of either process.  A
\* transaction hostd holds drained is the journal's own and past its drain there,
\* since every way back to the idle stage has first closed it at the gate; the one
\* exception are the transactions that recoverLocked retired without a gate call
\* for a newer executable, whose entries hostd keeps.  A transaction that hostd has
\* committed is never rolled back by the updater.
LedgerAgrees ==
    /\ LedgerFollows
    /\ \A release \in stranded : release < disk.active

\* The updater is down and the executable it would be started from is not the
\* release the journal calls active, or is missing.
Estranged == up.pc = "down" /\ slots.current # disk.active

\* A transaction does not stay between the drain and the commit, wherever the
\* updater or hostd stops and whatever fails: the next start or check resumes it,
\* until it is committed, closed, or turned back (where `RollbackIsRetried' is
\* about what becomes of it).  Two things keep it: the index offers nothing any
\* more, so that no check recovers; and a crash past the renames, after which the
\* updater is started from other bytes than the journal's active release.
CutoverIsResolved ==
    [](leases < MaxLeases) =>
        (disk.stage \in {"draining", "cutover", "monitoring"}
            ~> \/ disk.stage \in {"idle", "committed", "rollback", "blocked"}
               \/ ~offered
               \/ Estranged)

\* "Startup must retry that same durable rollback instead of permanently
\* preventing the updater control service from coming online": a rollback that
\* was interrupted or blocked is eventually completed, with a release on offer.
RollbackIsRetried ==
    []offered =>
        (disk.stage \in {"rollback", "blocked"} /\ ledger = "drained" ~> disk.stage = "idle")
=============================================================================
