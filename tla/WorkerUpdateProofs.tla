------------------------ MODULE WorkerUpdateProofs ------------------------
(***************************************************************************)
(* The safety properties of an update for every set of versions and every  *)
(* number of leases, crashes and faults: the active release is never lost  *)
(* (ActiveReleaseKept), files, fence and journal agree until the cutover   *)
(* is journaled (CutoverIsJournaled), and the journal agrees with hostd's  *)
(* ledger (LedgerAgrees).  None of them is inductive; UpdateInv adds what  *)
(* each step of the updater knows about the journal, the slots, the gate   *)
(* and the workers.                                                        *)
(***************************************************************************)
EXTENDS WorkerUpdate, TLAPS

\* The slots hold a release: it is the current one, or it was moved aside and
\* nothing was put in its place.
Home(v) == slots.current = v \/ (slots.current = 0 /\ slots.rollback = v)

\* The candidate is installed and the active release kept for the rollback.
Swapped ==
    /\ slots.current = disk.candidate /\ slots.rollback = disk.active
    /\ slots.staged = 0

\* Nothing is installed: the active release was moved aside, the candidate is
\* still staged.
Aside == slots.current = 0 /\ slots.rollback = disk.active /\ slots.staged = disk.candidate

\* What the journal on disk says about itself and about the slots.
DiskInv ==
    /\ disk.stage = "absent" => disk = NoJournal /\ slots.current # 0
    /\ disk.stage # "absent" => disk.active # 0
    /\ disk.candidate # 0 => disk.candidate > disk.active
    /\ disk.stage \notin {"absent", "idle", "checking"} => disk.candidate # 0
    /\ disk.stage \in BeforeCutover => Home(disk.active)
    /\ disk.stage = "cutover" => ((Home(disk.active) /\ slots.staged = disk.candidate) \/ Swapped)
    /\ disk.stage \in {"monitoring", "committed"} => Swapped
    /\ disk.stage \in {"rollback", "blocked"} => (Home(disk.active) \/ Swapped)

\* Where the storage helpers return to.
ReturnInv ==
    /\ up.pc \in {"promote1", "promote2", "promote3"} => up.ret \in {"promoted", "monitoring"}
    /\ up.pc \in {"storage1", "storage2"} => up.ret \in {"restore", "regate"}
    /\ up.pc = "discard" => up.ret \in {"idlewrite", "supersede"}

\* A step outside a transaction: of the service, of recovery, or of the idle
\* journal that closes a transaction.
Outside == {"idle", "recover", "discard", "supersede", "idlewrite"}

\* The release an updater takes for the active one: the journal's, or after the
\* cutover the candidate that is installed.
ActiveInv ==
    /\ up.pc # "down" => up.active # 0
    /\ (up.pc # "down" /\ disk.stage = "absent") =>
         up.pc \in {"idle", "recover"} /\ up.active = slots.current
    /\ (up.pc \in Outside /\ disk.stage # "absent") =>
         \/ up.active = disk.active
         \/ Swapped /\ up.active = disk.candidate /\ disk.stage \notin BeforeCutover
    /\ (up.pc = "supersede" \/ (up.pc = "discard" /\ up.ret = "supersede")) =>
         Swapped /\ up.active = disk.candidate /\ disk.stage \in {"rollback", "blocked"}

\* The stage on disk at each step of a transaction.
StageInv ==
    /\ up.pc = "begin" => disk.stage \in {"idle", "checking"}
    /\ up.pc = "checking" => disk.stage = "idle"
    /\ up.pc \in {"stage", "staged"} => disk.stage = "checking"
    /\ up.pc = "started" => disk.stage = "staged"
    /\ up.pc \in {"launch", "hello", "validating"} => disk.stage = "started"
    /\ up.pc \in {"canary", "ready"} => disk.stage = "validating"
    /\ up.pc = "draining" => disk.stage = "ready"
    /\ up.pc \in {"drain", "cutover"} => disk.stage = "draining"
    /\ up.pc \in {"promote1", "promote2", "promote3", "promoted", "activate", "activating",
                  "monitoring"} => disk.stage = "cutover"
    /\ up.pc \in {"monitor", "monitored", "committed", "rollback"} => disk.stage = "monitoring"
    /\ up.pc = "commit" => disk.stage = "committed"
    /\ up.pc \in {"storage1", "storage2"} =>
         disk.stage = IF up.ret = "restore" THEN "cutover" ELSE "rollback"
    /\ up.pc \in {"restore", "restoregate", "block"} =>
         disk.stage \in {"draining", "cutover", "rollback"}
    /\ (up.pc = "restoregate" /\ ~up.jerr) => disk.stage = "rollback"
    /\ up.pc \in {"relaunch", "rehello", "reactivate", "reactivating", "regate"} =>
         disk.stage = "rollback"
    /\ up.pc = "discard" => disk.stage \notin {"absent", "cutover"}

\* The journal in hand and the journal on disk.
HandInv ==
    /\ up.pc \notin {"down"} \cup Outside => disk.active = up.active
    /\ up.pc \notin {"down", "begin"} \cup Outside => up.j.active = disk.active
    /\ up.pc \in {"checking", "stage", "staged"} => up.j.candidate = 0 /\ up.goal > up.active
    /\ up.pc \notin {"down", "begin", "checking", "stage", "staged"} \cup Outside =>
         up.j.candidate = disk.candidate
    /\ (up.pc \in {"promote1", "promote2", "promote3"} /\ up.ret = "promoted") =>
         up.j.stage = "cutover"
    /\ up.pc = "promoted" => up.j.stage = "cutover"

\* The journal is about to become idle.
Closing == up.pc = "idlewrite" \/ (up.pc = "discard" /\ up.ret = "idlewrite")

\* The idle journal in hand names an installed release.
ClosingInv ==
    Closing =>
        /\ disk.stage # "absent"
        /\ up.j.stage = "idle" /\ up.j.active = up.active /\ Home(up.active)
        /\ up.j.candidate # 0 => up.j.candidate > up.j.active

\* The slots at each step.
SlotInv ==
    /\ up.pc = "staged" => slots.staged = up.goal
    /\ up.pc \in {"started", "launch", "hello", "validating", "canary", "ready", "draining",
                  "drain", "cutover", "promote1", "promote2"} => slots.staged = disk.candidate
    /\ up.pc = "promote1" => Home(disk.active)
    /\ up.pc = "promote2" => slots.current = disk.active /\ slots.rollback = 0
    /\ up.pc \in {"promote3", "storage2"} => Aside
    /\ up.pc \in {"promoted", "activate", "activating", "monitoring", "relaunch", "rehello",
                  "reactivate", "reactivating"} => Swapped
    /\ (up.pc = "storage1" /\ up.ret = "regate") => Swapped
    /\ (up.pc \in {"restore", "restoregate"} /\ up.policy /\ up.cause # "storage") =>
         Home(disk.active)
    /\ up.pc = "regate" => Home(disk.active)

\* The ledger agrees with the journal on disk and with the one about to replace it.
GateInv ==
    /\ LedgerFollows
    /\ Closing => ledger # "drained"
    /\ up.pc = "checking" => ledger = "none"

\* The steps with a worker in hand that was not activated yet.
Handling ==
    \/ up.pc \in {"hello", "validating", "canary", "ready", "draining", "drain", "cutover",
                  "promoted", "activate"}
    \/ up.pc \in {"promote1", "promote2", "promote3"} /\ up.ret = "promoted"

\* Leases and epochs are drawn in order; hostd's own worker is never one that
\* the updater started.
LeaseInv ==
    /\ told \subseteq 1..leases /\ own <= leases /\ own \notin told
    /\ candidate.lease <= leases
    /\ lastEpoch <= leases /\ persisted <= leases /\ candidate.epoch <= leases
    /\ hostd = "starting" => active = NoWorker /\ own = 0
    /\ up.lease # 0 => up.lease <= leases /\ up.lease # own
    /\ Handling => up.lease # 0
    /\ up.pc \in {"activating", "rehello", "reactivate", "reactivating"} => up.lease # 0
    /\ up.pc \in {"rehello", "reactivate"} => up.reply = "none"

\* No worker of the updater that is active, or may become active whenever it
\* reads the word it was sent, runs a release after v.
Tame(v) ==
    /\ active.lease # own => active.runs <= v
    /\ candidate.lease \in told => candidate.runs <= v

\* The newest release such a worker may run.
Limit == IF disk.stage \in BeforeCutover \cup {"absent"} THEN disk.active ELSE disk.candidate

\* Which releases the workers run.
WorkerInv ==
    /\ Tame(Limit)
    /\ (Handling /\ candidate.lease = up.lease) => candidate.runs <= disk.candidate
    /\ (up.pc \in {"rehello", "reactivate", "reactivating"}
           /\ candidate.lease \in told \cup {up.lease}) => candidate.runs <= disk.active
    /\ (up.policy /\ up.pc \in {"promote1", "promote2", "promote3", "promoted", "activate",
                                "storage1", "storage2", "restore", "restoregate"}) =>
         Tame(disk.active)
    /\ (up.pc = "reactivating" /\ up.reply = "active") => Tame(disk.active)
    /\ (up.pc = "regate" \/ (up.pc \in {"storage1", "storage2"} /\ up.ret = "regate")) =>
         Tame(disk.active)
    /\ Closing => Tame(up.j.active)

UpdateInv ==
    /\ DiskInv /\ ReturnInv /\ ActiveInv /\ StageInv /\ HandInv /\ ClosingInv /\ SlotInv
    /\ GateInv /\ LeaseInv /\ WorkerInv

\* The updater's memory, as TypeOK types it.
Updaters ==
    [pc : Pcs, goal : Versions \cup {0}, active : Versions \cup {0},
     j : Journals(Versions, 0..MaxLeases), policy : BOOLEAN,
     lease : 0..MaxLeases, reply : {"none", "active", "dead"}, jerr : BOOLEAN,
     cause : {"failed", "interrupted", "storage"},
     done : {"failed", "abandoned", "recovered", "updated"},
     ret : {"none", "idlewrite", "supersede", "promoted", "monitoring", "restore", "regate"},
     restart : BOOLEAN]

\* The other parts of TypeOK.
FileTypes ==
    /\ index \in Versions /\ offered \in BOOLEAN /\ disk \in Journals(Versions, 0..MaxLeases)
    /\ slots \in [{"current", "rollback", "staged"} -> Versions \cup {0}]
CountTypes == told \subseteq 1..MaxLeases /\ crashes \in 0..MaxCrashes /\ faults \in 0..MaxFaults

-----------------------------------------------------------------------------
(* The updater's memory. *)

LEMMA TypeParts ==
    ASSUME TypeOK
    PROVE  FenceTypeOK /\ GateTypeOK /\ FileTypes /\ CountTypes /\ up \in Updaters
PROOF BY DEF TypeOK, FileTypes, CountTypes, Updaters

LEMMA TypedAgain ==
    ASSUME FenceTypeOK', GateTypeOK', FileTypes', CountTypes', up' \in Updaters
    PROVE  TypeOK'
PROOF BY DEF TypeOK, FileTypes, CountTypes, Updaters

\* Releases are natural numbers, so they are ordered.
LEMMA Numbers ==
    /\ \A v \in Versions \cup {0} : v \in Nat
    /\ 0 \notin Versions /\ MaxLeases \in Nat /\ MaxLeases # 0 /\ MaxFaults \in Nat
    /\ MaxCrashes \in Nat /\ MaxHostdCrashes \in Nat /\ HostdVersion \in Versions
PROOF BY FenceAssumption, UpdateAssumption

\* The steps of the updater.
LEMMA PcNames ==
    /\ "down" \in Pcs /\ "idle" \in Pcs /\ "recover" \in Pcs /\ "supersede" \in Pcs
    /\ "begin" \in Pcs /\ "checking" \in Pcs /\ "stage" \in Pcs /\ "staged" \in Pcs
    /\ "started" \in Pcs /\ "launch" \in Pcs /\ "hello" \in Pcs /\ "validating" \in Pcs
    /\ "canary" \in Pcs /\ "ready" \in Pcs /\ "draining" \in Pcs /\ "drain" \in Pcs
    /\ "cutover" \in Pcs /\ "promote1" \in Pcs /\ "promote2" \in Pcs /\ "promote3" \in Pcs
    /\ "promoted" \in Pcs /\ "activate" \in Pcs /\ "activating" \in Pcs
    /\ "monitoring" \in Pcs /\ "monitor" \in Pcs /\ "monitored" \in Pcs
    /\ "committed" \in Pcs /\ "commit" \in Pcs /\ "storage1" \in Pcs /\ "storage2" \in Pcs
    /\ "restore" \in Pcs /\ "restoregate" \in Pcs /\ "rollback" \in Pcs /\ "relaunch" \in Pcs
    /\ "rehello" \in Pcs /\ "reactivate" \in Pcs /\ "reactivating" \in Pcs
    /\ "regate" \in Pcs /\ "block" \in Pcs /\ "discard" \in Pcs /\ "idlewrite" \in Pcs
PROOF BY DEF Pcs

LEMMA GotoFields ==
    ASSUME up \in Updaters, NEW c \in Pcs
    PROVE  /\ Goto(c) \in Updaters
           /\ Goto(c).pc = c
           /\ Goto(c).goal = up.goal
           /\ Goto(c).active = up.active
           /\ Goto(c).j = up.j
           /\ Goto(c).policy = up.policy
           /\ Goto(c).lease = up.lease
           /\ Goto(c).reply = up.reply
           /\ Goto(c).jerr = up.jerr
           /\ Goto(c).cause = up.cause
           /\ Goto(c).ret = up.ret
PROOF BY DEF Goto, Updaters

LEMMA ProcessFields ==
    ASSUME NEW c \in Pcs, NEW v \in Versions \cup {0}
    PROVE  /\ Process(c, v) \in Updaters
           /\ Process(c, v).pc = c /\ Process(c, v).active = v /\ Process(c, v).lease = 0
           /\ Process(c, v).goal = 0
PROOF
  <1>1. NoJournal \in Journals(Versions, 0..MaxLeases)
    BY Numbers DEF NoJournal, Journals
  <1> QED BY <1>1, Numbers DEF Process, Updaters

LEMMA FailedFields ==
    ASSUME up \in Updaters
    PROVE  /\ Failed \in Updaters
           /\ Failed.pc \in {"down", "idle"} /\ (up.goal # 0 => Failed.pc = "idle")
           /\ Failed.goal = 0 /\ Failed.active = up.active /\ Failed.lease = 0
PROOF
  <1> DEFINE c == IF up.goal = 0 THEN "down" ELSE "idle"
  <1>1. up.restart \in BOOLEAN /\ up.active \in Versions \cup {0} /\ c \in Pcs
    BY DEF Updaters, Pcs
  <1>2. /\ Process(c, up.active) \in Updaters
        /\ Process(c, up.active).pc = c /\ Process(c, up.active).active = up.active
        /\ Process(c, up.active).goal = 0 /\ Process(c, up.active).lease = 0
    BY <1>1, ProcessFields
  <1>3. Failed = [Process(c, up.active) EXCEPT !.restart = up.restart]
    BY DEF Failed
  <1> HIDE DEF c
  <1>4. /\ Failed \in Updaters /\ Failed.pc = c /\ Failed.active = up.active
        /\ Failed.goal = 0 /\ Failed.lease = 0
    BY <1>1, <1>2, <1>3 DEF Updaters
  <1> QED BY <1>4 DEF c

LEMMA RecoveredFields ==
    ASSUME up \in Updaters
    PROVE  /\ Recovered \in Updaters
           /\ Recovered.pc = (IF up.goal = 0 THEN "idle" ELSE "begin")
           /\ Recovered.active = up.active /\ Recovered.lease = 0
PROOF
  <1>1. "idle" \in Pcs /\ "begin" \in Pcs /\ up.goal \in Versions \cup {0}
    BY PcNames DEF Updaters
  <1>2. Failed \in Updaters /\ Failed.active = up.active /\ Failed.lease = 0
    BY FailedFields
  <1>3. CASE up.goal = 0
    <2>1. Recovered = [Failed EXCEPT !.pc = "idle"]
      BY <1>3 DEF Recovered
    <2> QED BY <1>1, <1>2, <1>3, <2>1 DEF Updaters
  <1>4. CASE up.goal # 0
    <2>1. Recovered = [Failed EXCEPT !.pc = "begin", !.goal = up.goal]
      BY <1>4 DEF Recovered
    <2> QED BY <1>1, <1>2, <1>4, <2>1 DEF Updaters
  <1> QED BY <1>3, <1>4

LEMMA ReturnedFields ==
    ASSUME up \in Updaters
    PROVE  /\ Returned \in Updaters
           /\ Returned.pc \in {"down", "idle", "begin"}
           /\ Returned.active = up.active /\ Returned.lease = 0
PROOF
  <1>1. CASE up.done \in {"failed", "abandoned"}
    BY <1>1, FailedFields DEF Returned
  <1>2. CASE up.done = "recovered"
    BY <1>2, RecoveredFields DEF Returned
  <1>3. CASE up.done = "updated"
    <2>1. Returned = [Failed EXCEPT !.restart = TRUE]
      BY <1>3 DEF Returned
    <2> QED BY <2>1, FailedFields DEF Updaters
  <1> QED BY <1>1, <1>2, <1>3 DEF Updaters

LEMMA JournalFields ==
    ASSUME NEW v \in Versions \cup {0}
    PROVE  /\ NewJournal(v) \in Journals(Versions, 0..MaxLeases)
           /\ NewJournal(v).stage = "idle" /\ NewJournal(v).active = v
           /\ NewJournal(v).candidate = 0
PROOF
  <1>1. NoJournal \in Journals(Versions, 0..MaxLeases) /\ NoJournal.candidate = 0
    BY Numbers DEF NoJournal, Journals
  <1> QED BY <1>1 DEF NewJournal, Journals, Stages

\* The journal of a failed transaction, and the step to it.
Retired(v, q) == IdleJournal(v, TRUE, q)
Abandon(q, d) == Discard(TRUE, q, d)

LEMMA RetiredFields ==
    ASSUME NEW v \in Versions \cup {0}, NEW q \in Versions \cup {0}
    PROVE  /\ Retired(v, q) \in Journals(Versions, 0..MaxLeases)
           /\ Retired(v, q).stage = "idle" /\ Retired(v, q).active = v
           /\ Retired(v, q).candidate = q
PROOF
  <1>1. /\ NewJournal(v) \in Journals(Versions, 0..MaxLeases)
        /\ NewJournal(v).stage = "idle" /\ NewJournal(v).active = v
    BY JournalFields
  <1> QED BY <1>1 DEF Retired, IdleJournal, Journals

LEMMA AbandonFields ==
    ASSUME up \in Updaters, NEW q \in Versions \cup {0},
           NEW d \in {"failed", "abandoned", "recovered", "updated"}
    PROVE  /\ Abandon(q, d) \in Updaters
           /\ Abandon(q, d).pc = "discard" /\ Abandon(q, d).ret = "idlewrite"
           /\ Abandon(q, d).active = up.active /\ Abandon(q, d).lease = up.lease
           /\ Abandon(q, d).j.stage = "idle" /\ Abandon(q, d).j.active = up.active
           /\ Abandon(q, d).j.candidate = q
PROOF
  <1> DEFINE j == Retired(up.active, q)
  <1>1. /\ j \in Journals(Versions, 0..MaxLeases)
        /\ j.stage = "idle" /\ j.active = up.active /\ j.candidate = q
    BY RetiredFields DEF Updaters
  <1>2. Abandon(q, d) = [up EXCEPT !.pc = "discard", !.ret = "idlewrite", !.done = d, !.j = j]
    BY DEF Abandon, Discard, Retired
  <1> HIDE DEF j
  <1>3. /\ Abandon(q, d) \in Updaters /\ Abandon(q, d).j = j
        /\ Abandon(q, d).pc = "discard" /\ Abandon(q, d).ret = "idlewrite"
        /\ Abandon(q, d).active = up.active /\ Abandon(q, d).lease = up.lease
    BY <1>1, <1>2, PcNames DEF Updaters
  <1> QED BY <1>1, <1>3

LEMMA FromJournalFields ==
    ASSUME up \in Updaters, disk \in Journals(Versions, 0..MaxLeases), NEW c \in Pcs
    PROVE  /\ FromJournal(c) \in Updaters
           /\ FromJournal(c).pc = c /\ FromJournal(c).j = disk /\ ~FromJournal(c).policy
           /\ FromJournal(c).goal = up.goal
           /\ FromJournal(c).active = up.active /\ FromJournal(c).lease = up.lease
           /\ FromJournal(c).reply = up.reply /\ FromJournal(c).ret = up.ret
PROOF BY DEF FromJournal, Updaters

LEMMA TransitionFields ==
    ASSUME up \in Updaters, NEW s \in Stages
    PROVE  /\ Transition(s) \in Journals(Versions, 0..MaxLeases)
           /\ Transition(s).stage = s /\ Transition(s).active = up.j.active
           /\ Transition(s).candidate = IF s = "staged" THEN up.goal ELSE up.j.candidate
PROOF
  <1>1. up.j \in Journals(Versions, 0..MaxLeases) /\ up.goal \in Versions \cup {0}
    BY DEF Updaters
  <1> QED BY <1>1 DEF Transition, Journals

\* The journal of a rollback.
RolledBack == [Transition("rollback") EXCEPT !.failed = TRUE]

LEMMA RolledBackFields ==
    ASSUME up \in Updaters
    PROVE  /\ RolledBack \in Journals(Versions, 0..MaxLeases)
           /\ RolledBack.stage = "rollback" /\ RolledBack.active = up.j.active
           /\ RolledBack.candidate = up.j.candidate
PROOF
  <1>1. "rollback" \in Stages
    BY DEF Stages
  <1>2. /\ Transition("rollback") \in Journals(Versions, 0..MaxLeases)
        /\ Transition("rollback").stage = "rollback"
        /\ Transition("rollback").active = up.j.active
        /\ Transition("rollback").candidate = up.j.candidate
    BY <1>1, TransitionFields
  <1> QED BY <1>2 DEF RolledBack, Journals

LEMMA StageNames ==
    /\ "idle" \in Stages /\ "checking" \in Stages /\ "staged" \in Stages /\ "started" \in Stages
    /\ "validating" \in Stages /\ "ready" \in Stages /\ "draining" \in Stages
    /\ "cutover" \in Stages /\ "monitoring" \in Stages /\ "committed" \in Stages
    /\ "rollback" \in Stages /\ "blocked" \in Stages
PROOF BY DEF Stages

\* Journal.Recovery, read backwards.
LEMMA RecoveryStages ==
    ASSUME NEW s \in Stages
    PROVE  /\ Recovery(s) = "keep_active" => s \in {"idle", "checking"}
           /\ Recovery(s) = "discard_candidate"
               => s \in {"staged", "started", "validating", "ready"}
           /\ Recovery(s) = "restore_drained_active" => s = "draining"
           /\ Recovery(s) = "query_hostd_epoch" => s = "cutover"
           /\ Recovery(s) = "continue_monitoring" => s = "monitoring"
           /\ Recovery(s) = "finalize_cleanup" => s = "committed"
           /\ Recovery(s) = "perform_rollback" => s \in {"rollback", "blocked"}
PROOF BY DEF Recovery, Stages

\* The guard of the actions of recovery.
LEMMA RecoveringStage ==
    ASSUME TypeOK, NEW a, Recovering(a)
    PROVE  /\ up.pc = "recover" /\ disk.stage \in Stages /\ disk.active = up.active
           /\ Recovery(disk.stage) = a
PROOF
  <1>1. FileTypes
    BY TypeParts
  <1> QED BY <1>1 DEF Recovering, FileTypes, Journals

LEMMA AbsentJournal ==
    ASSUME DiskInv, disk.stage = "absent"
    PROVE  disk.active = 0
PROOF BY DEF DiskInv, NoJournal

LEMMA FenceLeases ==
    ASSUME FenceTypeOK'
    PROVE  leases' \in 0..MaxLeases
PROOF BY DEF FenceTypeOK

LEMMA FaultCounted ==
    ASSUME faults \in 0..MaxFaults, Fault \/ TwoFaults \/ faults' = faults
    PROVE  faults' \in 0..MaxFaults
PROOF BY Numbers DEF Fault, TwoFaults

\* The journal of a committed transaction.
Finished(v) == IdleJournal(v, FALSE, 0)

LEMMA FinishedFields ==
    ASSUME NEW v \in Versions \cup {0}
    PROVE  /\ Finished(v) \in Journals(Versions, 0..MaxLeases)
           /\ Finished(v).stage = "idle" /\ Finished(v).active = v /\ Finished(v).candidate = 0
PROOF
  <1>1. /\ NewJournal(v) \in Journals(Versions, 0..MaxLeases)
        /\ NewJournal(v).stage = "idle" /\ NewJournal(v).active = v
    BY JournalFields
  <1> QED BY <1>1 DEF Finished, IdleJournal, Journals

\* A new transaction has no entry in the ledger; what the gate held drained of the
\* one before stays behind.
LEMMA OpenEffect ==
    ASSUME TypeOK, NEW written, Open(written)
    PROVE  /\ GateTypeOK'
           /\ UNCHANGED <<slots, told, fenceVars>>
           /\ \/ disk' = disk /\ up' = Failed /\ ledger' \in {ledger, "none"}
              \/ disk' = NewJournal(up.active) /\ up' \in {written, Failed} /\ ledger' = "none"
           /\ \/ disk' = disk /\ stranded' = stranded
              \/ /\ disk' = NewJournal(up.active)
                 /\ stranded' = IF ledger = "drained" THEN stranded \cup {disk.active}
                                                      ELSE stranded
PROOF
  <1>1. GateTypeOK /\ disk.active \in Nat
    <2>1. GateTypeOK /\ FileTypes
      BY TypeParts
    <2> QED BY <2>1, Numbers DEF FileTypes, Journals
  <1>2. CASE disk' = NewJournal(up.active)
    <2>1. Forget(disk.active)
      BY <1>2 DEF Open
    <2>2. GateTypeOK'
      BY <1>1, <2>1 DEF Forget, GateTypeOK
    <2> QED BY <1>2, <2>1, <2>2 DEF Open, Write, Forget
  <1>3. CASE disk' # NewJournal(up.active)
    <2>1. UNCHANGED <<ledger, stranded, moved>>
      BY <1>3 DEF Open, gateVars
    <2>2. GateTypeOK'
      BY <1>1, <2>1 DEF GateTypeOK
    <2> QED BY <1>3, <2>1, <2>2 DEF Open, Write
  <1> QED BY <1>2, <1>3

\* A gate call passes only with hostd's consent, and leaves in the ledger what
\* was there, the target, or what the operation records.
LEMMA CallEffect ==
    ASSUME NEW op, NEW passed, NEW refused, Call(op, passed, refused),
           faults \in 0..MaxFaults, moved \in BOOLEAN
    PROVE  /\ UNCHANGED <<index, offered, slots, disk, told, crashes, fenceVars>>
           /\ faults' \in 0..MaxFaults /\ moved' \in BOOLEAN /\ stranded' = stranded
           /\ \/ /\ up' = passed /\ up.policy /\ Admits(op) /\ ledger' = Recorded(op)
              \/ /\ up' = refused
                 /\ \/ ledger' \in {ledger, Targeted}
                    \/ Admits(op) /\ ledger' = Recorded(op)
PROOF
  <1>1. PICK outcome \in Outcomes(op, up.policy) :
            /\ outcome.fault => faults < MaxFaults
            /\ faults' = IF outcome.fault THEN faults + 1 ELSE faults
            /\ up' = IF outcome.ok /\ Serving THEN passed ELSE refused
            /\ IF Serving THEN Answer(op, outcome) ELSE UNCHANGED gateVars
    BY DEF Call
  <1>2. UNCHANGED <<index, offered, slots, disk, told, crashes, fenceVars>>
    BY DEF Call
  <1>3. faults' \in 0..MaxFaults
    BY <1>1, Numbers
  <1>4. moved' \in BOOLEAN /\ stranded' = stranded
    BY <1>1 DEF Answer, gateVars
  <1>5. CASE up.policy /\ Admits(op)
    <2>1. \/ outcome = [ok |-> TRUE, ledger |-> Recorded(op), fault |-> FALSE]
          \/ \E l \in {ledger, Targeted, Recorded(op)} :
                outcome = [ok |-> FALSE, ledger |-> l, fault |-> TRUE]
      BY <1>1, <1>5 DEF Outcomes
    <2> QED BY <1>1, <1>2, <1>3, <1>4, <1>5, <2>1 DEF Answer, gateVars
  <1>6. CASE ~(up.policy /\ Admits(op))
    <2>1. outcome = [ok |-> FALSE, ledger |-> Refused(op, up.policy), fault |-> FALSE]
      BY <1>1, <1>6 DEF Outcomes
    <2>2. outcome.ledger \in {ledger, Targeted} /\ ~outcome.ok
      BY <2>1 DEF Refused
    <2> QED BY <1>1, <1>2, <1>3, <1>4, <2>2 DEF Answer, gateVars
  <1> QED BY <1>5, <1>6

\* What the operations leave in the ledger.
LEMMA LedgerValues ==
    ASSUME ledger \in {"none", "target", "bound", "drained", "committed"}
    PROVE  /\ Targeted \in {"target", ledger}
           /\ Recorded("candidate") \in {"bound", "drained"}
           /\ (Recorded("candidate") = "drained" => ledger = "drained")
           /\ Recorded("drain") = "drained" /\ Recorded("stability") = "drained"
           /\ Recorded("rollback") = "none" /\ Recorded("commit") = "committed"
PROOF BY DEF Targeted, Recorded

-----------------------------------------------------------------------------
(* The call returns, or the process stops. *)

\* Outside a transaction only the journal, the ledger and the workers matter.
LEMMA StopKeeps ==
    ASSUME TypeOK, UpdateInv, up' \in Updaters, up'.pc \in {"down", "idle", "recover"},
           up'.lease \in {0, up.lease}, DiskInv', ActiveInv', LedgerFollows', (Tame(Limit))',
           UNCHANGED <<told, fenceVars>>
    PROVE  UpdateInv'
PROOF
  <1>1. ReturnInv' /\ StageInv' /\ HandInv' /\ ClosingInv' /\ SlotInv'
    BY DEF ReturnInv, StageInv, HandInv, ClosingInv, SlotInv, Closing, Outside
  <1>2. GateInv'
    BY DEF GateInv, Closing
  <1>3. LeaseInv'
    BY DEF UpdateInv, LeaseInv, Handling, fenceVars
  <1>4. WorkerInv'
    BY DEF WorkerInv, Handling, Closing
  <1> QED BY <1>1, <1>2, <1>3, <1>4 DEF UpdateInv

LEMMA QuietStop ==
    ASSUME TypeOK, UpdateInv, up' \in Updaters, up'.pc \in {"down", "idle", "recover"},
           up'.lease \in {0, up.lease}, ActiveInv',
           UNCHANGED <<disk, slots, told, ledger, fenceVars>>
    PROVE  UpdateInv'
PROOF
  <1>1. DiskInv'
    BY DEF UpdateInv, DiskInv, Home, Swapped
  <1>2. LedgerFollows'
    BY DEF UpdateInv, GateInv, LedgerFollows
  <1>3. (Tame(Limit))'
    BY DEF UpdateInv, WorkerInv, Tame, Limit, fenceVars
  <1> QED BY <1>1, <1>2, <1>3, StopKeeps

\* An error that leaves the disk and hostd as they are.
LEMMA FailKeeps ==
    ASSUME TypeOK, UpdateInv, up.pc # "down", up' = Failed,
           UNCHANGED <<disk, slots, told, ledger, fenceVars>>
    PROVE  up' \in Updaters /\ UpdateInv'
PROOF
  <1>1. up \in Updaters
    BY TypeParts
  <1>2. /\ up' \in Updaters /\ up'.pc \in {"down", "idle"} /\ up'.active = up.active
        /\ up'.lease = 0
    BY <1>1, FailedFields
  <1>3. ActiveInv'
    BY <1>2 DEF UpdateInv, ActiveInv, HandInv, StageInv, Outside, Swapped
  <1> QED BY <1>2, <1>3, QuietStop

\* A step of hostd or of its workers says nothing about the files.
LEMMA FilesKeep ==
    ASSUME UpdateInv, UNCHANGED <<disk, slots, up, ledger>>
    PROVE  /\ DiskInv' /\ ReturnInv' /\ ActiveInv' /\ StageInv'
           /\ HandInv' /\ ClosingInv' /\ SlotInv'
           /\ GateInv'
PROOF
  <1>1. DiskInv' /\ ReturnInv' /\ ActiveInv' /\ StageInv' /\ HandInv' /\ ClosingInv' /\ SlotInv'
    BY DEF UpdateInv, DiskInv, ReturnInv, ActiveInv, StageInv, HandInv, ClosingInv, SlotInv,
           Home, Swapped, Aside, Closing
  <1>2. GateInv'
    BY DEF UpdateInv, GateInv, LedgerFollows, Closing
  <1> QED BY <1>1, <1>2

\* A step of the signed index or of hostd's workloads.
LEMMA FrameKeeps ==
    ASSUME UpdateInv, UNCHANGED <<disk, slots, told, up, ledger, fenceVars>>
    PROVE  UpdateInv'
PROOF
  <1>1. LeaseInv' /\ WorkerInv'
    BY DEF UpdateInv, LeaseInv, WorkerInv, Closing, Handling, Tame, Limit, fenceVars
  <1> QED BY <1>1, FilesKeep DEF UpdateInv

-----------------------------------------------------------------------------
(* One lemma per action. *)

LEMMA StartKeeps ==
    ASSUME TypeOK, UpdateInv, Start
    PROVE  TypeOK' /\ UpdateInv'
PROOF
  <1> USE Numbers
      DEF UpdateInv, Aside, BeforeCutover, Closing, Handling, Home, Limit, Outside, Swapped, Tame
  <1>0. FenceTypeOK /\ GateTypeOK /\ FileTypes /\ CountTypes /\ up \in Updaters
    BY TypeParts
  <1>1. FenceTypeOK' /\ GateTypeOK' /\ FileTypes' /\ CountTypes'
    BY <1>0
       DEF FenceTypeOK, GateTypeOK, FileTypes, CountTypes, Start, InMemory, OnJournal, OnDisk,
           fenceVars, gateVars
  <1>2. TypeOK' /\ UpdateInv'
    <2>1. /\ up.pc = "down" /\ slots.current # 0 /\ slots.current \in Versions /\ disk' = disk
          /\ slots' = slots /\ told' = told /\ ledger' = ledger /\ UNCHANGED fenceVars
      BY <1>0 DEF Start, InMemory, OnJournal, OnDisk, gateVars, FileTypes
    <2>2. "recover" \in Pcs
      BY PcNames
    <2>3. /\ Process("recover", slots.current) \in Updaters
          /\ Process("recover", slots.current).pc = "recover"
          /\ Process("recover", slots.current).active = slots.current
          /\ Process("recover", slots.current).lease = 0
      BY <1>0, <2>1, <2>2, ProcessFields
    <2>4. /\ up' \in Updaters /\ up'.pc = "recover" /\ up'.lease \in {0, up.lease}
          /\ up'.active = slots.current
      BY <1>0, <2>1, <2>2, <2>3 DEF Start
    <2>5. ActiveInv'
      BY <1>0, <1>1, <2>1, <2>4
         DEF ActiveInv, DiskInv, StageInv, HandInv, ClosingInv, FileTypes, Journals, Stages
    <2> QED
      BY <1>1, <2>1, <2>4, <2>5, QuietStop, TypedAgain
  <1> QED
    BY <1>0, <1>1, <1>2, TypedAgain DEF Start

LEMMA CheckKeeps ==
    ASSUME TypeOK, UpdateInv, Check
    PROVE  TypeOK' /\ UpdateInv'
PROOF
  <1> USE Numbers
      DEF UpdateInv, Aside, BeforeCutover, Closing, Handling, Home, Limit, Outside, Swapped, Tame
  <1>0. FenceTypeOK /\ GateTypeOK /\ FileTypes /\ CountTypes /\ up \in Updaters
    BY TypeParts
  <1>1. FenceTypeOK' /\ GateTypeOK' /\ FileTypes' /\ CountTypes'
    BY <1>0
       DEF FenceTypeOK, GateTypeOK, FileTypes, CountTypes, Check, InMemory, OnJournal, OnDisk,
           fenceVars, gateVars
  <1>2. TypeOK' /\ UpdateInv'
    <2>1. /\ up.pc = "idle" /\ disk' = disk /\ slots' = slots /\ told' = told
          /\ ledger' = ledger /\ UNCHANGED fenceVars
      BY <1>0 DEF Check, InMemory, OnJournal, OnDisk, gateVars, Updaters, FileTypes
    <2>2. "recover" \in Pcs
      BY PcNames
    <2>3. /\ up' \in Updaters /\ up'.pc \in {"idle", "recover"} /\ up'.lease \in {0, up.lease}
          /\ up'.active = up.active
      <3>1. CASE offered
        <4>1. up' = [up EXCEPT !.pc = "recover", !.goal = index]
          BY <3>1 DEF Check
        <4> QED BY <1>0, <2>2, <4>1 DEF Updaters, FileTypes
      <3>2. CASE ~offered
        BY <1>0, <2>1, <3>2 DEF Check
      <3> QED BY <3>1, <3>2
    <2>4. ActiveInv'
      BY <1>0, <1>1, <2>1, <2>3
         DEF ActiveInv, DiskInv, StageInv, HandInv, ClosingInv, FileTypes, Journals, Stages
    <2> QED
      BY <1>1, <2>1, <2>3, <2>4, QuietStop, TypedAgain
  <1> QED
    BY <1>0, <1>1, <1>2, TypedAgain DEF Check

LEMMA ReexecKeeps ==
    ASSUME TypeOK, UpdateInv, Reexec
    PROVE  TypeOK' /\ UpdateInv'
PROOF
  <1> USE Numbers
      DEF UpdateInv, Aside, BeforeCutover, Closing, Handling, Home, Limit, Outside, Swapped, Tame
  <1>0. FenceTypeOK /\ GateTypeOK /\ FileTypes /\ CountTypes /\ up \in Updaters
    BY TypeParts
  <1>1. FenceTypeOK' /\ GateTypeOK' /\ FileTypes' /\ CountTypes'
    BY <1>0
       DEF FenceTypeOK, GateTypeOK, FileTypes, CountTypes, Reexec, InMemory, OnJournal, OnDisk,
           fenceVars, gateVars
  <1>2. CASE up' = Process("down", 0)
    <2>1. /\ disk' = disk /\ slots' = slots /\ told' = told /\ ledger' = ledger
          /\ UNCHANGED fenceVars
      BY <1>0, <1>2 DEF Reexec, InMemory, OnJournal, OnDisk, gateVars
    <2>2. 0 \in Versions \cup {0} /\ "down" \in Pcs
      BY PcNames
    <2>3. /\ Process("down", 0) \in Updaters /\ Process("down", 0).pc = "down"
          /\ Process("down", 0).active = 0 /\ Process("down", 0).lease = 0
      BY <1>0, <2>1, <2>2, ProcessFields
    <2>4. up' \in Updaters /\ up'.pc = "down" /\ up'.lease \in {0, up.lease}
      BY <1>0, <1>2, <2>1, <2>2, <2>3 DEF Reexec
    <2>5. ActiveInv'
      BY <1>0, <1>1, <2>1, <2>4
         DEF ActiveInv, DiskInv, StageInv, HandInv, ClosingInv, FileTypes, Journals, Stages
    <2> QED
      BY <1>1, <2>1, <2>4, <2>5, QuietStop, TypedAgain
  <1>3. CASE up' = [up EXCEPT !.restart = FALSE]
    <2>1. /\ disk' = disk /\ slots' = slots /\ told' = told /\ ledger' = ledger
          /\ UNCHANGED fenceVars
      BY <1>0, <1>3 DEF Reexec, InMemory, OnJournal, OnDisk, gateVars, Updaters
    <2>2. /\ up' \in Updaters /\ up'.pc = up.pc /\ up'.goal = up.goal /\ up'.active = up.active
          /\ up'.j = up.j /\ up'.policy = up.policy /\ up'.lease = up.lease
          /\ up'.reply = up.reply /\ up'.jerr = up.jerr /\ up'.cause = up.cause
          /\ up'.ret = up.ret
      BY <1>0, <1>3, <2>1 DEF Reexec, Updaters
    <2>3. ReturnInv' /\ ActiveInv' /\ StageInv' /\ HandInv' /\ ClosingInv'
      BY <1>0, <1>1, <2>1, <2>2
         DEF ReturnInv, ActiveInv, DiskInv, StageInv, HandInv, ClosingInv, FileTypes, Journals,
             Stages, Updaters, SlotInv
    <2>4. SlotInv'
      BY <1>0, <1>1, <2>1, <2>2
         DEF DiskInv, ReturnInv, ActiveInv, StageInv, HandInv, ClosingInv, SlotInv
    <2>5. DiskInv'
      BY <2>1 DEF DiskInv
    <2>6. GateInv'
      BY <1>0, <1>1, <2>1, <2>2 DEF GateInv, StageInv, ClosingInv, HandInv, LedgerFollows, Stages
    <2>7. LeaseInv'
      BY <1>0, <1>1, <2>1, <2>2
         DEF FileTypes, Updaters, Journals, FenceTypeOK, Workers, LeaseInv, ReturnInv, fenceVars
    <2>8. WorkerInv'
      BY <1>0, <1>1, <2>1, <2>2
         DEF FileTypes, Updaters, Journals, FenceTypeOK, Workers, WorkerInv, LeaseInv, DiskInv,
             StageInv, HandInv, ClosingInv, ReturnInv, fenceVars
    <2> QED
      BY <1>1, <2>1, <2>2, <2>3, <2>4, <2>5, <2>6, <2>7, <2>8, TypedAgain
  <1> QED
    BY <1>0, <1>1, <1>2, <1>3, TypedAgain DEF Reexec

LEMMA CrashKeeps ==
    ASSUME TypeOK, UpdateInv, Crash
    PROVE  TypeOK' /\ UpdateInv'
PROOF
  <1> USE Numbers
      DEF UpdateInv, Aside, BeforeCutover, Closing, Handling, Home, Limit, Outside, Swapped, Tame
  <1>0. FenceTypeOK /\ GateTypeOK /\ FileTypes /\ CountTypes /\ up \in Updaters
    BY TypeParts
  <1>1. FenceTypeOK' /\ GateTypeOK' /\ FileTypes' /\ CountTypes'
    BY <1>0
       DEF FenceTypeOK, GateTypeOK, FileTypes, CountTypes, Crash, InMemory, OnJournal, OnDisk,
           fenceVars, gateVars
  <1>2. CASE up' = Process("down", 0)
    <2>1. /\ disk' = disk /\ slots' = slots /\ told' = told /\ ledger' = ledger
          /\ UNCHANGED fenceVars
      BY <1>0, <1>2 DEF Crash, InMemory, OnJournal, OnDisk, gateVars
    <2>2. 0 \in Versions \cup {0} /\ "down" \in Pcs
      BY PcNames
    <2>3. /\ Process("down", 0) \in Updaters /\ Process("down", 0).pc = "down"
          /\ Process("down", 0).active = 0 /\ Process("down", 0).lease = 0
      BY <1>0, <2>1, <2>2, ProcessFields
    <2>4. up' \in Updaters /\ up'.pc = "down" /\ up'.lease \in {0, up.lease}
      BY <1>0, <1>2, <2>1, <2>2, <2>3 DEF Crash
    <2>5. ActiveInv'
      BY <1>0, <1>1, <2>1, <2>4
         DEF ActiveInv, DiskInv, StageInv, HandInv, ClosingInv, FileTypes, Journals, Stages
    <2> QED
      BY <1>1, <2>1, <2>4, <2>5, QuietStop, TypedAgain
  <1> QED
    BY <1>0, <1>1, <1>2, TypedAgain DEF Crash

LEMMA RecoverMismatchKeeps ==
    ASSUME TypeOK, UpdateInv, RecoverMismatch
    PROVE  TypeOK' /\ UpdateInv'
PROOF
  <1> USE Numbers
      DEF UpdateInv, Aside, BeforeCutover, Closing, Handling, Home, Limit, Outside, Swapped, Tame
  <1>0. FenceTypeOK /\ GateTypeOK /\ FileTypes /\ CountTypes /\ up \in Updaters
    BY TypeParts
  <1>1. FenceTypeOK' /\ GateTypeOK' /\ FileTypes' /\ CountTypes'
    BY <1>0
       DEF FenceTypeOK, GateTypeOK, FileTypes, CountTypes, RecoverMismatch, InMemory, OnJournal,
           OnDisk, fenceVars, gateVars
  <1>2. CASE up' = Failed
    BY <1>0, <1>1, <1>2, FailKeeps, TypedAgain
       DEF RecoverMismatch, InMemory, OnJournal, OnDisk, gateVars
  <1> QED
    BY <1>0, <1>1, <1>2, TypedAgain DEF RecoverMismatch

LEMMA RefuseKeeps ==
    ASSUME TypeOK, UpdateInv, Refuse
    PROVE  TypeOK' /\ UpdateInv'
PROOF
  <1> USE Numbers
      DEF UpdateInv, Aside, BeforeCutover, Closing, Handling, Home, Limit, Outside, Swapped, Tame
  <1>0. FenceTypeOK /\ GateTypeOK /\ FileTypes /\ CountTypes /\ up \in Updaters
    BY TypeParts
  <1>1. FenceTypeOK' /\ GateTypeOK' /\ FileTypes' /\ CountTypes'
    BY <1>0
       DEF FenceTypeOK, GateTypeOK, FileTypes, CountTypes, Refuse, InMemory, OnJournal, OnDisk,
           fenceVars, gateVars
  <1>2. CASE up' = Failed
    BY <1>0, <1>1, <1>2, FailKeeps, TypedAgain DEF Refuse, InMemory, OnJournal, OnDisk, gateVars
  <1> QED
    BY <1>0, <1>1, <1>2, TypedAgain DEF Refuse

LEMMA RecoverDrainKeeps ==
    ASSUME TypeOK, UpdateInv, RecoverDrain
    PROVE  TypeOK' /\ UpdateInv'
PROOF
  <1> USE Numbers
      DEF UpdateInv, Aside, BeforeCutover, Closing, Handling, Home, Limit, Outside, Swapped, Tame
  <1>0. FenceTypeOK /\ GateTypeOK /\ FileTypes /\ CountTypes /\ up \in Updaters
    BY TypeParts
  <1>1. FenceTypeOK' /\ GateTypeOK' /\ FileTypes' /\ CountTypes'
    BY <1>0
       DEF FenceTypeOK, GateTypeOK, FileTypes, CountTypes, RecoverDrain, InMemory, OnJournal,
           OnDisk, fenceVars, gateVars
  <1>2. TypeOK' /\ UpdateInv'
    <2>1. /\ up.pc = "recover" /\ disk.stage = "draining" /\ disk.active = up.active
          /\ disk' = disk /\ slots' = slots /\ told' = told /\ ledger' = ledger
          /\ UNCHANGED fenceVars
      BY <1>0, RecoveringStage, RecoveryStages
         DEF RecoverDrain, InMemory, OnJournal, OnDisk, gateVars, Updaters, FileTypes
    <2>2. "restore" \in Pcs
      BY PcNames
    <2>3. /\ FromJournal("restore") \in Updaters /\ FromJournal("restore").pc = "restore"
          /\ FromJournal("restore").j = disk /\ ~FromJournal("restore").policy
          /\ FromJournal("restore").active = up.active
          /\ FromJournal("restore").lease = up.lease /\ FromJournal("restore").reply = up.reply
          /\ FromJournal("restore").ret = up.ret /\ FromJournal("restore").goal = up.goal
      BY <1>0, <2>1, <2>2, FromJournalFields DEF FileTypes
    <2>4. /\ up' \in Updaters /\ up'.pc = "restore" /\ up'.active = up.active /\ up'.j = disk
          /\ ~up'.policy /\ up'.lease = up.lease /\ up'.reply = up.reply
      BY <1>0, <2>1, <2>2, <2>3 DEF RecoverDrain, Updaters, FileTypes
    <2>5. ReturnInv' /\ ActiveInv' /\ StageInv' /\ HandInv' /\ ClosingInv'
      BY <1>0, <1>1, <2>1, <2>4
         DEF ReturnInv, ActiveInv, DiskInv, StageInv, HandInv, ClosingInv, FileTypes, Journals,
             Stages, Updaters, SlotInv
    <2>6. SlotInv'
      BY <1>0, <1>1, <2>1, <2>4
         DEF DiskInv, ReturnInv, ActiveInv, StageInv, HandInv, ClosingInv, SlotInv
    <2>7. DiskInv'
      BY <2>1 DEF DiskInv
    <2>8. GateInv'
      BY <1>0, <1>1, <2>1, <2>4 DEF GateInv, StageInv, ClosingInv, HandInv, LedgerFollows, Stages
    <2>9. LeaseInv'
      BY <1>0, <1>1, <2>1, <2>4
         DEF FileTypes, Updaters, Journals, FenceTypeOK, Workers, LeaseInv, ReturnInv, fenceVars
    <2>10. WorkerInv'
      BY <1>0, <1>1, <2>1, <2>4
         DEF FileTypes, Updaters, Journals, FenceTypeOK, Workers, WorkerInv, LeaseInv, DiskInv,
             StageInv, HandInv, ClosingInv, ReturnInv, fenceVars
    <2> QED
      BY <1>1, <2>1, <2>4, <2>5, <2>6, <2>7, <2>8, <2>9, <2>10, TypedAgain
  <1> QED
    BY <1>0, <1>1, <1>2, TypedAgain DEF RecoverDrain

LEMMA RecoverMonitorKeeps ==
    ASSUME TypeOK, UpdateInv, RecoverMonitor
    PROVE  TypeOK' /\ UpdateInv'
PROOF
  <1> USE Numbers
      DEF UpdateInv, Aside, BeforeCutover, Closing, Handling, Home, Limit, Outside, Swapped, Tame
  <1>0. FenceTypeOK /\ GateTypeOK /\ FileTypes /\ CountTypes /\ up \in Updaters
    BY TypeParts
  <1>1. FenceTypeOK' /\ GateTypeOK' /\ FileTypes' /\ CountTypes'
    BY <1>0
       DEF FenceTypeOK, GateTypeOK, FileTypes, CountTypes, RecoverMonitor, InMemory, OnJournal,
           OnDisk, fenceVars, gateVars
  <1>2. TypeOK' /\ UpdateInv'
    <2>1. /\ up.pc = "recover" /\ disk.stage = "monitoring" /\ disk.active = up.active
          /\ disk' = disk /\ slots' = slots /\ told' = told /\ ledger' = ledger
          /\ UNCHANGED fenceVars
      BY <1>0, RecoveringStage, RecoveryStages
         DEF RecoverMonitor, InMemory, OnJournal, OnDisk, gateVars, Updaters, FileTypes
    <2>2. "monitor" \in Pcs
      BY PcNames
    <2>3. /\ up' \in Updaters /\ up'.pc = "monitor" /\ up'.active = up.active /\ up'.j = disk
          /\ ~up'.policy /\ up'.lease = up.lease /\ up'.reply = up.reply
      BY <1>0, <2>1, <2>2, FromJournalFields DEF RecoverMonitor, Updaters, FileTypes
    <2>4. ReturnInv' /\ ActiveInv' /\ StageInv' /\ HandInv' /\ ClosingInv'
      BY <1>0, <1>1, <2>1, <2>3
         DEF ReturnInv, ActiveInv, DiskInv, StageInv, HandInv, ClosingInv, FileTypes, Journals,
             Stages, Updaters, SlotInv
    <2>5. SlotInv'
      BY <1>0, <1>1, <2>1, <2>3
         DEF DiskInv, ReturnInv, ActiveInv, StageInv, HandInv, ClosingInv, SlotInv
    <2>6. DiskInv'
      BY <2>1 DEF DiskInv
    <2>7. GateInv'
      BY <1>0, <1>1, <2>1, <2>3 DEF GateInv, StageInv, ClosingInv, HandInv, LedgerFollows, Stages
    <2>8. LeaseInv'
      BY <1>0, <1>1, <2>1, <2>3
         DEF FileTypes, Updaters, Journals, FenceTypeOK, Workers, LeaseInv, ReturnInv, fenceVars
    <2>9. WorkerInv'
      BY <1>0, <1>1, <2>1, <2>3
         DEF FileTypes, Updaters, Journals, FenceTypeOK, Workers, WorkerInv, LeaseInv, DiskInv,
             StageInv, HandInv, ClosingInv, ReturnInv, fenceVars
    <2> QED
      BY <1>1, <2>1, <2>3, <2>4, <2>5, <2>6, <2>7, <2>8, <2>9, TypedAgain
  <1> QED
    BY <1>0, <1>1, <1>2, TypedAgain DEF RecoverMonitor

LEMMA RecoverCommittedKeeps ==
    ASSUME TypeOK, UpdateInv, RecoverCommitted
    PROVE  TypeOK' /\ UpdateInv'
PROOF
  <1> USE Numbers
      DEF UpdateInv, Aside, BeforeCutover, Closing, Handling, Home, Limit, Outside, Swapped, Tame
  <1>0. FenceTypeOK /\ GateTypeOK /\ FileTypes /\ CountTypes /\ up \in Updaters
    BY TypeParts
  <1>1. FenceTypeOK' /\ GateTypeOK' /\ FileTypes' /\ CountTypes'
    BY <1>0
       DEF FenceTypeOK, GateTypeOK, FileTypes, CountTypes, RecoverCommitted, InMemory, OnJournal,
           OnDisk, fenceVars, gateVars
  <1>2. TypeOK' /\ UpdateInv'
    <2>1. /\ up.pc = "recover" /\ disk.stage = "committed" /\ disk.active = up.active
          /\ disk' = disk /\ slots' = slots /\ told' = told /\ ledger' = ledger
          /\ UNCHANGED fenceVars
      BY <1>0, RecoveringStage, RecoveryStages
         DEF RecoverCommitted, InMemory, OnJournal, OnDisk, gateVars, Updaters, FileTypes
    <2>2. "commit" \in Pcs
      BY PcNames
    <2>3. /\ up' \in Updaters /\ up'.pc = "commit" /\ up'.active = up.active /\ up'.j = disk
          /\ ~up'.policy /\ up'.lease = up.lease /\ up'.reply = up.reply
      BY <1>0, <2>1, <2>2, FromJournalFields DEF RecoverCommitted, Updaters, FileTypes
    <2>4. ReturnInv' /\ ActiveInv' /\ StageInv' /\ HandInv' /\ ClosingInv'
      BY <1>0, <1>1, <2>1, <2>3
         DEF ReturnInv, ActiveInv, DiskInv, StageInv, HandInv, ClosingInv, FileTypes, Journals,
             Stages, Updaters, SlotInv
    <2>5. SlotInv'
      BY <1>0, <1>1, <2>1, <2>3
         DEF DiskInv, ReturnInv, ActiveInv, StageInv, HandInv, ClosingInv, SlotInv
    <2>6. DiskInv'
      BY <2>1 DEF DiskInv
    <2>7. GateInv'
      BY <1>0, <1>1, <2>1, <2>3 DEF GateInv, StageInv, ClosingInv, HandInv, LedgerFollows, Stages
    <2>8. LeaseInv'
      BY <1>0, <1>1, <2>1, <2>3
         DEF FileTypes, Updaters, Journals, FenceTypeOK, Workers, LeaseInv, ReturnInv, fenceVars
    <2>9. WorkerInv'
      BY <1>0, <1>1, <2>1, <2>3
         DEF FileTypes, Updaters, Journals, FenceTypeOK, Workers, WorkerInv, LeaseInv, DiskInv,
             StageInv, HandInv, ClosingInv, ReturnInv, fenceVars
    <2> QED
      BY <1>1, <2>1, <2>3, <2>4, <2>5, <2>6, <2>7, <2>8, <2>9, TypedAgain
  <1> QED
    BY <1>0, <1>1, <1>2, TypedAgain DEF RecoverCommitted

LEMMA RecoverDiscardKeeps ==
    ASSUME TypeOK, UpdateInv, RecoverDiscard
    PROVE  TypeOK' /\ UpdateInv'
PROOF
  <1> USE Numbers
      DEF UpdateInv, Aside, BeforeCutover, Closing, Handling, Home, Limit, Outside, Swapped, Tame
  <1>0. FenceTypeOK /\ GateTypeOK /\ FileTypes /\ CountTypes /\ up \in Updaters
    BY TypeParts
  <1>1. FenceTypeOK' /\ GateTypeOK' /\ FileTypes' /\ CountTypes'
    BY <1>0
       DEF FenceTypeOK, GateTypeOK, FileTypes, CountTypes, RecoverDiscard, InMemory, OnJournal,
           OnDisk, fenceVars, gateVars
  <1>2. TypeOK' /\ UpdateInv'
    <2>1. /\ up.pc = "recover" /\ disk.stage \in {"staged", "started", "validating", "ready"}
          /\ disk.active = up.active /\ disk' = disk /\ slots' = slots /\ told' = told
          /\ ledger' = ledger /\ UNCHANGED fenceVars
      BY <1>0, RecoveringStage, RecoveryStages
         DEF RecoverDiscard, InMemory, OnJournal, OnDisk, gateVars
    <2>2. /\ 0 \in Versions \cup {0}
          /\ "recovered" \in {"failed", "abandoned", "recovered", "updated"}
          /\ "discard" \in Pcs
      BY PcNames
    <2>3. /\ Abandon(0, "recovered") \in Updaters /\ Abandon(0, "recovered").pc = "discard"
          /\ Abandon(0, "recovered").ret = "idlewrite"
          /\ Abandon(0, "recovered").active = up.active
          /\ Abandon(0, "recovered").lease = up.lease
          /\ Abandon(0, "recovered").j.stage = "idle"
          /\ Abandon(0, "recovered").j.active = up.active
          /\ Abandon(0, "recovered").j.candidate = 0
      BY <1>0, <2>1, <2>2, AbandonFields
    <2>4. /\ up' \in Updaters /\ up'.pc = "discard" /\ up'.active = up.active
          /\ up'.lease = up.lease /\ up'.ret = "idlewrite" /\ up'.j.stage = "idle"
          /\ up'.j.active = up.active /\ up'.j.candidate = 0
      BY <1>0, <2>1, <2>2, <2>3 DEF RecoverDiscard, Abandon
    <2>5. ReturnInv' /\ ActiveInv' /\ StageInv' /\ HandInv' /\ ClosingInv'
      BY <1>0, <1>1, <2>1, <2>4
         DEF ReturnInv, ActiveInv, DiskInv, StageInv, HandInv, ClosingInv, FileTypes, Journals,
             Stages, Updaters, SlotInv
    <2>6. SlotInv'
      BY <1>0, <1>1, <2>1, <2>4
         DEF DiskInv, ReturnInv, ActiveInv, StageInv, HandInv, ClosingInv, SlotInv
    <2>7. DiskInv'
      BY <2>1 DEF DiskInv
    <2>8. GateInv'
      BY <1>0, <1>1, <2>1, <2>4 DEF GateInv, StageInv, ClosingInv, HandInv, LedgerFollows, Stages
    <2>9. LeaseInv'
      BY <1>0, <1>1, <2>1, <2>4
         DEF FileTypes, Updaters, Journals, FenceTypeOK, Workers, LeaseInv, ReturnInv, fenceVars
    <2>10. WorkerInv'
      BY <1>0, <1>1, <2>1, <2>4
         DEF FileTypes, Updaters, Journals, FenceTypeOK, Workers, WorkerInv, LeaseInv, DiskInv,
             StageInv, HandInv, ClosingInv, ReturnInv, fenceVars
    <2> QED
      BY <1>1, <2>1, <2>4, <2>5, <2>6, <2>7, <2>8, <2>9, <2>10, TypedAgain
  <1> QED
    BY <1>0, <1>1, <1>2, TypedAgain DEF RecoverDiscard

LEMMA RecoverKeepActiveKeeps ==
    ASSUME TypeOK, UpdateInv, RecoverKeepActive
    PROVE  TypeOK' /\ UpdateInv'
PROOF
  <1> USE Numbers
      DEF UpdateInv, Aside, BeforeCutover, Closing, Handling, Home, Limit, Outside, Swapped, Tame
  <1>0. FenceTypeOK /\ GateTypeOK /\ FileTypes /\ CountTypes /\ up \in Updaters
    BY TypeParts
  <1>1. FenceTypeOK' /\ GateTypeOK' /\ FileTypes' /\ CountTypes'
    BY <1>0
       DEF FenceTypeOK, GateTypeOK, FileTypes, CountTypes, RecoverKeepActive, InMemory,
           OnJournal, OnDisk, fenceVars, gateVars
  <1>2. CASE up.goal = 0
    <2>1. /\ up.pc = "recover" /\ disk.stage \in {"idle", "checking"}
          /\ disk.active = up.active /\ disk' = disk /\ slots' = slots /\ told' = told
          /\ ledger' = ledger /\ UNCHANGED fenceVars
      BY <1>0, <1>2, RecoveringStage, RecoveryStages
         DEF RecoverKeepActive, InMemory, OnJournal, OnDisk, gateVars
    <2>2. /\ up' \in Updaters /\ up'.pc \in {"down", "idle", "recover"}
          /\ up'.lease \in {0, up.lease} /\ up'.active = up.active
      BY <1>0, <1>2, <2>1, RecoveredFields DEF RecoverKeepActive
    <2>3. ActiveInv'
      BY <1>0, <1>1, <2>1, <2>2
         DEF ActiveInv, DiskInv, StageInv, HandInv, ClosingInv, FileTypes, Journals, Stages
    <2> QED
      BY <1>1, <2>1, <2>2, <2>3, QuietStop, TypedAgain
  <1>3. CASE up.goal # 0
    <2>1. /\ up.pc = "recover" /\ disk.stage \in {"idle", "checking"}
          /\ disk.active = up.active /\ disk' = disk /\ slots' = slots /\ told' = told
          /\ ledger' = ledger /\ UNCHANGED fenceVars
      BY <1>0, <1>3, RecoveringStage, RecoveryStages
         DEF RecoverKeepActive, InMemory, OnJournal, OnDisk, gateVars
    <2>2. "begin" \in Pcs
      BY PcNames
    <2>3. up' \in Updaters /\ up'.pc = "begin" /\ up'.active = up.active /\ up'.lease = 0
      BY <1>0, <1>3, <2>1, <2>2, RecoveredFields DEF RecoverKeepActive
    <2>4. ReturnInv' /\ ActiveInv' /\ StageInv' /\ HandInv' /\ ClosingInv'
      BY <1>0, <1>1, <2>1, <2>3
         DEF ReturnInv, ActiveInv, DiskInv, StageInv, HandInv, ClosingInv, FileTypes, Journals,
             Stages, Updaters, SlotInv
    <2>5. SlotInv'
      BY <1>0, <1>1, <2>1, <2>3
         DEF DiskInv, ReturnInv, ActiveInv, StageInv, HandInv, ClosingInv, SlotInv
    <2>6. DiskInv'
      BY <2>1 DEF DiskInv
    <2>7. GateInv'
      BY <1>0, <1>1, <2>1, <2>3 DEF GateInv, StageInv, ClosingInv, HandInv, LedgerFollows, Stages
    <2>8. LeaseInv'
      BY <1>0, <1>1, <2>1, <2>3
         DEF FileTypes, Updaters, Journals, FenceTypeOK, Workers, LeaseInv, ReturnInv, fenceVars
    <2>9. WorkerInv'
      BY <1>0, <1>1, <2>1, <2>3
         DEF FileTypes, Updaters, Journals, FenceTypeOK, Workers, WorkerInv, LeaseInv, DiskInv,
             StageInv, HandInv, ClosingInv, ReturnInv, fenceVars
    <2> QED
      BY <1>1, <2>1, <2>3, <2>4, <2>5, <2>6, <2>7, <2>8, <2>9, TypedAgain
  <1> QED
    BY <1>0, <1>1, <1>2, <1>3, TypedAgain DEF RecoverKeepActive

LEMMA RecoverSupersededKeeps ==
    ASSUME TypeOK, UpdateInv, RecoverSuperseded
    PROVE  TypeOK' /\ UpdateInv'
PROOF
  <1> USE Numbers
      DEF UpdateInv, Aside, BeforeCutover, Closing, Handling, Home, Limit, Outside, Swapped, Tame
  <1>0. FenceTypeOK /\ GateTypeOK /\ FileTypes /\ CountTypes /\ up \in Updaters
    BY TypeParts
  <1>1. FenceTypeOK' /\ GateTypeOK' /\ FileTypes' /\ CountTypes'
    BY <1>0
       DEF FenceTypeOK, GateTypeOK, FileTypes, CountTypes, RecoverSuperseded, InMemory,
           OnJournal, OnDisk, fenceVars, gateVars
  <1>2. TypeOK' /\ UpdateInv'
    <2>1. /\ up.pc = "recover"
          /\ disk.stage \notin {"absent", "cutover", "monitoring", "committed"}
          /\ up.active > disk.active /\ up.active # disk.active /\ disk' = disk
          /\ slots' = slots /\ told' = told /\ ledger' = ledger /\ UNCHANGED fenceVars
      BY <1>0
         DEF RecoverSuperseded, InMemory, OnJournal, OnDisk, gateVars, CandidateMayBeActive,
             FileTypes, Journals, Updaters
    <2>2. "discard" \in Pcs
      BY PcNames
    <2>3. /\ up' \in Updaters /\ up'.pc = "discard" /\ up'.goal = up.goal
          /\ up'.active = up.active /\ up'.j = up.j /\ up'.policy = up.policy
          /\ up'.lease = up.lease /\ up'.reply = up.reply /\ up'.jerr = up.jerr
          /\ up'.cause = up.cause /\ up'.ret = "supersede"
      BY <1>0, <2>1, <2>2 DEF RecoverSuperseded, Updaters
    <2>4. ReturnInv' /\ ActiveInv' /\ StageInv' /\ HandInv' /\ ClosingInv'
      BY <1>0, <1>1, <2>1, <2>3
         DEF ReturnInv, ActiveInv, DiskInv, StageInv, HandInv, ClosingInv, FileTypes, Journals,
             Stages, Updaters, SlotInv
    <2>5. SlotInv'
      BY <1>0, <1>1, <2>1, <2>3
         DEF DiskInv, ReturnInv, ActiveInv, StageInv, HandInv, ClosingInv, SlotInv
    <2>6. DiskInv'
      BY <2>1 DEF DiskInv
    <2>7. GateInv'
      BY <1>0, <1>1, <2>1, <2>3 DEF GateInv, StageInv, ClosingInv, HandInv, LedgerFollows, Stages
    <2>8. LeaseInv'
      BY <1>0, <1>1, <2>1, <2>3
         DEF FileTypes, Updaters, Journals, FenceTypeOK, Workers, LeaseInv, ReturnInv, fenceVars
    <2>9. WorkerInv'
      BY <1>0, <1>1, <2>1, <2>3
         DEF FileTypes, Updaters, Journals, FenceTypeOK, Workers, WorkerInv, LeaseInv, DiskInv,
             StageInv, HandInv, ClosingInv, ReturnInv, fenceVars
    <2> QED
      BY <1>1, <2>1, <2>3, <2>4, <2>5, <2>6, <2>7, <2>8, <2>9, TypedAgain
  <1> QED
    BY <1>0, <1>1, <1>2, TypedAgain DEF RecoverSuperseded

LEMMA RecoverCutoverKeeps ==
    ASSUME TypeOK, UpdateInv, RecoverCutover
    PROVE  TypeOK' /\ UpdateInv'
PROOF
  <1> USE Numbers
      DEF UpdateInv, Aside, BeforeCutover, Closing, Handling, Home, Limit, Outside, Swapped, Tame
  <1>0. FenceTypeOK /\ GateTypeOK /\ FileTypes /\ CountTypes /\ up \in Updaters
    BY TypeParts
  <1>1. FenceTypeOK' /\ GateTypeOK' /\ FileTypes' /\ CountTypes'
    BY <1>0
       DEF FenceTypeOK, GateTypeOK, FileTypes, CountTypes, RecoverCutover, InMemory, OnJournal,
           OnDisk, fenceVars, gateVars
  <1>2. CASE up' = Failed
    BY <1>0, <1>1, <1>2, FailKeeps, TypedAgain, RecoveringStage
       DEF RecoverCutover, InMemory, OnJournal, OnDisk, gateVars
  <1>3. CASE up' = [FromJournal("storage1") EXCEPT !.ret = "restore", !.cause = "interrupted"]
    <2>1. /\ up.pc = "recover" /\ disk.stage = "cutover" /\ disk.active = up.active
          /\ disk' = disk /\ slots' = slots /\ told' = told /\ ledger' = ledger
          /\ UNCHANGED fenceVars
      BY <1>0, <1>3, RecoveringStage, RecoveryStages
         DEF RecoverCutover, InMemory, OnJournal, OnDisk, gateVars
    <2>2. "storage1" \in Pcs
      BY PcNames
    <2>3. /\ FromJournal("storage1") \in Updaters /\ FromJournal("storage1").pc = "storage1"
          /\ FromJournal("storage1").j = disk /\ ~FromJournal("storage1").policy
          /\ FromJournal("storage1").active = up.active
          /\ FromJournal("storage1").lease = up.lease
          /\ FromJournal("storage1").reply = up.reply /\ FromJournal("storage1").ret = up.ret
          /\ FromJournal("storage1").goal = up.goal
      BY <1>0, <2>1, <2>2, FromJournalFields DEF FileTypes
    <2>4. /\ up' \in Updaters /\ up'.pc = "storage1" /\ up'.active = up.active /\ up'.j = disk
          /\ ~up'.policy /\ up'.lease = up.lease /\ up'.reply = up.reply /\ up'.ret = "restore"
      BY <1>0, <1>3, <2>1, <2>2, <2>3 DEF Updaters
    <2>5. ReturnInv' /\ ActiveInv' /\ StageInv' /\ HandInv' /\ ClosingInv'
      BY <1>0, <1>1, <2>1, <2>4
         DEF ReturnInv, ActiveInv, DiskInv, StageInv, HandInv, ClosingInv, FileTypes, Journals,
             Stages, Updaters, SlotInv
    <2>6. SlotInv'
      BY <1>0, <1>1, <2>1, <2>4
         DEF DiskInv, ReturnInv, ActiveInv, StageInv, HandInv, ClosingInv, SlotInv
    <2>7. DiskInv'
      BY <2>1 DEF DiskInv
    <2>8. GateInv'
      BY <1>0, <1>1, <2>1, <2>4 DEF GateInv, StageInv, ClosingInv, HandInv, LedgerFollows, Stages
    <2>9. LeaseInv'
      BY <1>0, <1>1, <2>1, <2>4
         DEF FileTypes, Updaters, Journals, FenceTypeOK, Workers, LeaseInv, ReturnInv, fenceVars
    <2>10. WorkerInv'
      BY <1>0, <1>1, <2>1, <2>4
         DEF FileTypes, Updaters, Journals, FenceTypeOK, Workers, WorkerInv, LeaseInv, DiskInv,
             StageInv, HandInv, ClosingInv, ReturnInv, fenceVars
    <2> QED
      BY <1>1, <2>1, <2>4, <2>5, <2>6, <2>7, <2>8, <2>9, <2>10, TypedAgain
  <1>4. CASE up' = FromJournal("monitoring") /\ slots.current = disk.candidate
    <2>1. /\ up.pc = "recover" /\ slots.current = disk.candidate
          /\ disk.candidate # disk.active /\ disk.candidate # 0 /\ disk.stage = "cutover"
          /\ disk.active = up.active /\ disk' = disk /\ slots' = slots /\ told' = told
          /\ ledger' = ledger /\ UNCHANGED fenceVars
      BY <1>0, <1>4, RecoveringStage, RecoveryStages
         DEF RecoverCutover, InMemory, OnJournal, OnDisk, gateVars, DiskInv, FileTypes, Journals
    <2>2. "monitoring" \in Pcs
      BY PcNames
    <2>3. /\ up' \in Updaters /\ up'.pc = "monitoring" /\ up'.active = up.active
          /\ up'.j = disk /\ ~up'.policy /\ up'.lease = up.lease /\ up'.reply = up.reply
      BY <1>0, <1>4, <2>1, <2>2, FromJournalFields DEF Updaters, FileTypes
    <2>4. ReturnInv' /\ ActiveInv' /\ StageInv' /\ HandInv' /\ ClosingInv'
      BY <1>0, <1>1, <2>1, <2>3
         DEF ReturnInv, ActiveInv, DiskInv, StageInv, HandInv, ClosingInv, FileTypes, Journals,
             Stages, Updaters, SlotInv
    <2>5. SlotInv'
      BY <1>0, <1>1, <2>1, <2>3
         DEF DiskInv, ReturnInv, ActiveInv, StageInv, HandInv, ClosingInv, SlotInv
    <2>6. DiskInv'
      BY <2>1 DEF DiskInv
    <2>7. GateInv'
      BY <1>0, <1>1, <2>1, <2>3 DEF GateInv, StageInv, ClosingInv, HandInv, LedgerFollows, Stages
    <2>8. LeaseInv'
      BY <1>0, <1>1, <2>1, <2>3
         DEF FileTypes, Updaters, Journals, FenceTypeOK, Workers, LeaseInv, ReturnInv, fenceVars
    <2>9. WorkerInv'
      BY <1>0, <1>1, <2>1, <2>3
         DEF FileTypes, Updaters, Journals, FenceTypeOK, Workers, WorkerInv, LeaseInv, DiskInv,
             StageInv, HandInv, ClosingInv, ReturnInv, fenceVars
    <2> QED
      BY <1>1, <2>1, <2>3, <2>4, <2>5, <2>6, <2>7, <2>8, <2>9, TypedAgain
  <1>5. CASE /\ up' = [FromJournal("promote1") EXCEPT !.ret = "monitoring"]
             /\ slots.current # disk.candidate
    <2>1. /\ up.pc = "recover" /\ slots.current # disk.candidate /\ disk.stage = "cutover"
          /\ disk.active = up.active /\ disk' = disk /\ slots' = slots /\ told' = told
          /\ ledger' = ledger /\ UNCHANGED fenceVars
      BY <1>0, <1>5, RecoveringStage, RecoveryStages
         DEF RecoverCutover, InMemory, OnJournal, OnDisk, gateVars
    <2>2. "promote1" \in Pcs
      BY PcNames
    <2>3. /\ FromJournal("promote1") \in Updaters /\ FromJournal("promote1").pc = "promote1"
          /\ FromJournal("promote1").j = disk /\ ~FromJournal("promote1").policy
          /\ FromJournal("promote1").active = up.active
          /\ FromJournal("promote1").lease = up.lease
          /\ FromJournal("promote1").reply = up.reply /\ FromJournal("promote1").ret = up.ret
          /\ FromJournal("promote1").goal = up.goal
      BY <1>0, <2>1, <2>2, FromJournalFields DEF FileTypes
    <2>4. /\ up' \in Updaters /\ up'.pc = "promote1" /\ up'.active = up.active /\ up'.j = disk
          /\ ~up'.policy /\ up'.lease = up.lease /\ up'.reply = up.reply
          /\ up'.ret = "monitoring"
      BY <1>0, <1>5, <2>1, <2>2, <2>3 DEF Updaters
    <2>5. ReturnInv' /\ ActiveInv' /\ StageInv' /\ HandInv' /\ ClosingInv'
      BY <1>0, <1>1, <2>1, <2>4
         DEF ReturnInv, ActiveInv, DiskInv, StageInv, HandInv, ClosingInv, FileTypes, Journals,
             Stages, Updaters, SlotInv
    <2>6. SlotInv'
      BY <1>0, <1>1, <2>1, <2>4
         DEF DiskInv, ReturnInv, ActiveInv, StageInv, HandInv, ClosingInv, SlotInv
    <2>7. DiskInv'
      BY <2>1 DEF DiskInv
    <2>8. GateInv'
      BY <1>0, <1>1, <2>1, <2>4 DEF GateInv, StageInv, ClosingInv, HandInv, LedgerFollows, Stages
    <2>9. LeaseInv'
      BY <1>0, <1>1, <2>1, <2>4
         DEF FileTypes, Updaters, Journals, FenceTypeOK, Workers, LeaseInv, ReturnInv, fenceVars
    <2>10. WorkerInv'
      BY <1>0, <1>1, <2>1, <2>4
         DEF FileTypes, Updaters, Journals, FenceTypeOK, Workers, WorkerInv, LeaseInv, DiskInv,
             StageInv, HandInv, ClosingInv, ReturnInv, fenceVars
    <2> QED
      BY <1>1, <2>1, <2>4, <2>5, <2>6, <2>7, <2>8, <2>9, <2>10, TypedAgain
  <1> QED
    BY <1>0, <1>1, <1>2, <1>3, <1>4, <1>5, TypedAgain DEF RecoverCutover

LEMMA RemoveStagedKeeps ==
    ASSUME TypeOK, UpdateInv, RemoveStaged
    PROVE  TypeOK' /\ UpdateInv'
PROOF
  <1> USE Numbers
      DEF UpdateInv, Aside, BeforeCutover, Closing, Handling, Home, Limit, Outside, Swapped, Tame
  <1>0. FenceTypeOK /\ GateTypeOK /\ FileTypes /\ CountTypes /\ up \in Updaters
    BY TypeParts
  <1>1. FenceTypeOK' /\ GateTypeOK' /\ FileTypes' /\ CountTypes'
    BY <1>0, FaultCounted
       DEF FenceTypeOK, GateTypeOK, FileTypes, CountTypes, RemoveStaged, InMemory, OnJournal,
           OnDisk, fenceVars, gateVars
  <1>2. CASE slots' = [slots EXCEPT !.staged = 0] /\ up' = Goto(up.ret)
    <2>1. /\ up.pc = "discard" /\ up.ret \in {"idlewrite", "supersede"} /\ disk' = disk
          /\ told' = told /\ ledger' = ledger /\ UNCHANGED fenceVars
          /\ slots'.current = slots.current /\ slots'.rollback = slots.rollback
          /\ slots'.staged = 0
      BY <1>0, <1>2 DEF RemoveStaged, InMemory, OnJournal, OnDisk, gateVars, FileTypes, ReturnInv
    <2>2. "idlewrite" \in Pcs /\ "supersede" \in Pcs
      BY PcNames
    <2>3. /\ up' \in Updaters /\ up'.pc = up.ret /\ up'.goal = up.goal
          /\ up'.active = up.active /\ up'.j = up.j /\ up'.policy = up.policy
          /\ up'.lease = up.lease /\ up'.reply = up.reply /\ up'.jerr = up.jerr
          /\ up'.cause = up.cause /\ up'.ret = up.ret
      BY <1>0, <1>2, <2>1, <2>2, GotoFields
    <2>4. ReturnInv' /\ ActiveInv' /\ StageInv' /\ HandInv' /\ ClosingInv'
      BY <1>0, <1>1, <2>1, <2>3
         DEF ReturnInv, ActiveInv, DiskInv, StageInv, HandInv, ClosingInv, FileTypes, Journals,
             Stages, Updaters, SlotInv
    <2>5. DiskInv'
      BY <1>0, <1>1, <2>1, <2>3
         DEF FileTypes, Updaters, Journals, DiskInv, ReturnInv, ActiveInv, StageInv, HandInv,
             ClosingInv, SlotInv, NoJournal
    <2>6. SlotInv'
      BY <1>0, <1>1, <2>1, <2>3
         DEF DiskInv, ReturnInv, ActiveInv, StageInv, HandInv, ClosingInv, SlotInv
    <2>7. GateInv'
      BY <1>0, <1>1, <2>1, <2>3 DEF GateInv, StageInv, ClosingInv, HandInv, LedgerFollows, Stages
    <2>8. LeaseInv'
      BY <1>0, <1>1, <2>1, <2>3
         DEF FileTypes, Updaters, Journals, FenceTypeOK, Workers, LeaseInv, ReturnInv, fenceVars
    <2>9. WorkerInv'
      BY <1>0, <1>1, <2>1, <2>3
         DEF FileTypes, Updaters, Journals, FenceTypeOK, Workers, WorkerInv, LeaseInv, DiskInv,
             StageInv, HandInv, ClosingInv, ReturnInv, fenceVars
    <2> QED
      BY <1>1, <2>1, <2>3, <2>4, <2>5, <2>6, <2>7, <2>8, <2>9, TypedAgain
  <1>3. CASE slots' = slots /\ up' = Goto(up.ret)
    <2>1. /\ up.pc = "discard" /\ up.ret \in {"idlewrite", "supersede"} /\ disk' = disk
          /\ slots' = slots /\ told' = told /\ ledger' = ledger /\ UNCHANGED fenceVars
      BY <1>0, <1>3 DEF RemoveStaged, InMemory, OnJournal, OnDisk, gateVars, ReturnInv
    <2>2. "idlewrite" \in Pcs /\ "supersede" \in Pcs
      BY PcNames
    <2>3. /\ up' \in Updaters /\ up'.pc = up.ret /\ up'.goal = up.goal
          /\ up'.active = up.active /\ up'.j = up.j /\ up'.policy = up.policy
          /\ up'.lease = up.lease /\ up'.reply = up.reply /\ up'.jerr = up.jerr
          /\ up'.cause = up.cause /\ up'.ret = up.ret
      BY <1>0, <1>3, <2>1, <2>2, GotoFields
    <2>4. ReturnInv' /\ ActiveInv' /\ StageInv' /\ HandInv' /\ ClosingInv'
      BY <1>0, <1>1, <2>1, <2>3
         DEF ReturnInv, ActiveInv, DiskInv, StageInv, HandInv, ClosingInv, FileTypes, Journals,
             Stages, Updaters, SlotInv
    <2>5. SlotInv'
      BY <1>0, <1>1, <2>1, <2>3
         DEF DiskInv, ReturnInv, ActiveInv, StageInv, HandInv, ClosingInv, SlotInv
    <2>6. DiskInv'
      BY <2>1 DEF DiskInv
    <2>7. GateInv'
      BY <1>0, <1>1, <2>1, <2>3 DEF GateInv, StageInv, ClosingInv, HandInv, LedgerFollows, Stages
    <2>8. LeaseInv'
      BY <1>0, <1>1, <2>1, <2>3
         DEF FileTypes, Updaters, Journals, FenceTypeOK, Workers, LeaseInv, ReturnInv, fenceVars
    <2>9. WorkerInv'
      BY <1>0, <1>1, <2>1, <2>3
         DEF FileTypes, Updaters, Journals, FenceTypeOK, Workers, WorkerInv, LeaseInv, DiskInv,
             StageInv, HandInv, ClosingInv, ReturnInv, fenceVars
    <2> QED
      BY <1>1, <2>1, <2>3, <2>4, <2>5, <2>6, <2>7, <2>8, <2>9, TypedAgain
  <1>4. CASE slots' = slots /\ up' = Failed
    BY <1>0, <1>1, <1>4, FailKeeps, TypedAgain
       DEF RemoveStaged, InMemory, OnJournal, OnDisk, gateVars
  <1> QED
    BY <1>0, <1>1, <1>2, <1>3, <1>4, TypedAgain DEF RemoveStaged

LEMMA WriteIdleKeeps ==
    ASSUME TypeOK, UpdateInv, WriteIdle
    PROVE  TypeOK' /\ UpdateInv'
PROOF
  <1> USE Numbers
      DEF UpdateInv, Aside, BeforeCutover, Closing, Handling, Home, Limit, Outside, Swapped, Tame
  <1>0. FenceTypeOK /\ GateTypeOK /\ FileTypes /\ CountTypes /\ up \in Updaters
    BY TypeParts
  <1>1. FenceTypeOK' /\ GateTypeOK' /\ FileTypes' /\ CountTypes'
    BY <1>0, FaultCounted
       DEF FenceTypeOK, GateTypeOK, FileTypes, CountTypes, WriteIdle, Write, Updaters, InMemory,
           OnJournal, OnDisk, fenceVars, gateVars
  <1>2. CASE disk' = disk /\ up' = Failed
    BY <1>0, <1>1, <1>2, FailKeeps, TypedAgain
       DEF WriteIdle, InMemory, OnJournal, OnDisk, gateVars
  <1>3. CASE disk' = up.j /\ up' \in {Failed, Returned} /\ up'.pc # "begin"
    <2>1. /\ up.pc = "idlewrite" /\ disk'.stage = "idle" /\ disk'.active = up.active
          /\ disk'.candidate = up.j.candidate /\ slots' = slots /\ told' = told
          /\ ledger' = ledger /\ UNCHANGED fenceVars
      BY <1>0, <1>3 DEF WriteIdle, InMemory, OnJournal, OnDisk, gateVars, ClosingInv, Closing
    <2>2. /\ up' \in Updaters /\ up'.pc \in {"down", "idle", "recover"}
          /\ up'.lease \in {0, up.lease} /\ up'.active = up.active
      BY <1>0, <1>3, <2>1, FailedFields, ReturnedFields
    <2>3. DiskInv'
      BY <1>0, <1>1, <2>1, <2>2
         DEF FileTypes, Updaters, Journals, DiskInv, ReturnInv, ActiveInv, StageInv, HandInv,
             ClosingInv, SlotInv, NoJournal
    <2>4. ActiveInv'
      BY <1>0, <1>1, <2>1, <2>2
         DEF ActiveInv, DiskInv, StageInv, HandInv, ClosingInv, FileTypes, Journals, Stages
    <2>5. LedgerFollows'
      BY <1>0, <1>1, <2>1, <2>2 DEF GateInv, StageInv, ClosingInv, HandInv, LedgerFollows, Stages
    <2>6. (Tame(Limit))'
      BY <1>0, <1>1, <2>1, <2>2
         DEF FileTypes, Updaters, Journals, FenceTypeOK, Workers, WorkerInv, LeaseInv, DiskInv,
             StageInv, HandInv, ClosingInv, ReturnInv, fenceVars
    <2> QED
      BY <1>1, <2>1, <2>2, <2>3, <2>4, <2>5, <2>6, StopKeeps, TypedAgain
  <1>4. CASE disk' = up.j /\ up' = Returned /\ up'.pc = "begin"
    <2>1. /\ up.pc = "idlewrite" /\ disk'.stage = "idle" /\ disk'.active = up.active
          /\ disk'.candidate = up.j.candidate /\ slots' = slots /\ told' = told
          /\ ledger' = ledger /\ UNCHANGED fenceVars
      BY <1>0, <1>4 DEF WriteIdle, InMemory, OnJournal, OnDisk, gateVars, ClosingInv, Closing
    <2>2. "begin" \in Pcs
      BY PcNames
    <2>3. up' \in Updaters /\ up'.pc = "begin" /\ up'.active = up.active /\ up'.lease = 0
      BY <1>0, <1>4, <2>1, <2>2, ReturnedFields
    <2>4. ReturnInv' /\ ActiveInv' /\ StageInv' /\ HandInv' /\ ClosingInv'
      BY <1>0, <1>1, <2>1, <2>3
         DEF ReturnInv, ActiveInv, DiskInv, StageInv, HandInv, ClosingInv, FileTypes, Journals,
             Stages, Updaters, SlotInv
    <2>5. DiskInv'
      BY <1>0, <1>1, <2>1, <2>3
         DEF FileTypes, Updaters, Journals, DiskInv, ReturnInv, ActiveInv, StageInv, HandInv,
             ClosingInv, SlotInv, NoJournal
    <2>6. SlotInv'
      BY <1>0, <1>1, <2>1, <2>3
         DEF DiskInv, ReturnInv, ActiveInv, StageInv, HandInv, ClosingInv, SlotInv
    <2>7. GateInv'
      BY <1>0, <1>1, <2>1, <2>3 DEF GateInv, StageInv, ClosingInv, HandInv, LedgerFollows, Stages
    <2>8. LeaseInv'
      BY <1>0, <1>1, <2>1, <2>3
         DEF FileTypes, Updaters, Journals, FenceTypeOK, Workers, LeaseInv, ReturnInv, fenceVars
    <2>9. WorkerInv'
      BY <1>0, <1>1, <2>1, <2>3
         DEF FileTypes, Updaters, Journals, FenceTypeOK, Workers, WorkerInv, LeaseInv, DiskInv,
             StageInv, HandInv, ClosingInv, ReturnInv, fenceVars
    <2> QED
      BY <1>1, <2>1, <2>3, <2>4, <2>5, <2>6, <2>7, <2>8, <2>9, TypedAgain
  <1> QED
    BY <1>0, <1>1, <1>2, <1>3, <1>4, FailedFields, TypedAgain DEF WriteIdle, Write, Updaters

LEMMA PromoteRemoveKeeps ==
    ASSUME TypeOK, UpdateInv, PromoteRemove
    PROVE  TypeOK' /\ UpdateInv'
PROOF
  <1> USE Numbers
      DEF UpdateInv, Aside, BeforeCutover, Closing, Handling, Home, Limit, Outside, Swapped, Tame
  <1>0. FenceTypeOK /\ GateTypeOK /\ FileTypes /\ CountTypes /\ up \in Updaters
    BY TypeParts
  <1>1. FenceTypeOK' /\ GateTypeOK' /\ FileTypes' /\ CountTypes'
    BY <1>0, FaultCounted
       DEF FenceTypeOK, GateTypeOK, FileTypes, CountTypes, PromoteRemove, PromoteFailed,
           ReturnInv, InMemory, OnJournal, OnDisk, fenceVars, gateVars
  <1>2. CASE up.ret = "monitoring" /\ slots' = slots /\ up' = Failed
    BY <1>0, <1>1, <1>2, FailKeeps, TypedAgain
       DEF PromoteRemove, InMemory, OnJournal, OnDisk, gateVars
  <1>3. CASE /\ up.ret = "promoted" /\ slots' = slots
             /\ up' = [up EXCEPT !.pc = "storage1", !.ret = "restore"]
    <2>1. /\ up.pc = "promote1" /\ up.ret = "promoted" /\ disk' = disk /\ slots' = slots
          /\ told' = told /\ ledger' = ledger /\ UNCHANGED fenceVars
      BY <1>0, <1>3 DEF PromoteRemove, InMemory, OnJournal, OnDisk, gateVars
    <2>2. "storage1" \in Pcs
      BY PcNames
    <2>3. /\ up' \in Updaters /\ up'.pc = "storage1" /\ up'.goal = up.goal
          /\ up'.active = up.active /\ up'.j = up.j /\ up'.policy = up.policy
          /\ up'.lease = up.lease /\ up'.reply = up.reply /\ up'.jerr = up.jerr
          /\ up'.cause = up.cause /\ up'.ret = "restore"
      BY <1>0, <1>3, <2>1, <2>2 DEF Updaters
    <2>4. ReturnInv' /\ ActiveInv' /\ StageInv' /\ HandInv' /\ ClosingInv'
      BY <1>0, <1>1, <2>1, <2>3
         DEF ReturnInv, ActiveInv, DiskInv, StageInv, HandInv, ClosingInv, FileTypes, Journals,
             Stages, Updaters, SlotInv
    <2>5. SlotInv'
      BY <1>0, <1>1, <2>1, <2>3
         DEF DiskInv, ReturnInv, ActiveInv, StageInv, HandInv, ClosingInv, SlotInv
    <2>6. DiskInv'
      BY <2>1 DEF DiskInv
    <2>7. GateInv'
      BY <1>0, <1>1, <2>1, <2>3 DEF GateInv, StageInv, ClosingInv, HandInv, LedgerFollows, Stages
    <2>8. LeaseInv'
      BY <1>0, <1>1, <2>1, <2>3
         DEF FileTypes, Updaters, Journals, FenceTypeOK, Workers, LeaseInv, ReturnInv, fenceVars
    <2>9. WorkerInv'
      BY <1>0, <1>1, <2>1, <2>3
         DEF FileTypes, Updaters, Journals, FenceTypeOK, Workers, WorkerInv, LeaseInv, DiskInv,
             StageInv, HandInv, ClosingInv, ReturnInv, fenceVars
    <2> QED
      BY <1>1, <2>1, <2>3, <2>4, <2>5, <2>6, <2>7, <2>8, <2>9, TypedAgain
  <1>4. CASE slots.current # 0 /\ slots' = [slots EXCEPT !.rollback = 0] /\ up' = Goto("promote2")
    <2>1. /\ up.pc = "promote1" /\ slots.current # 0 /\ slots.current = disk.active
          /\ disk' = disk /\ told' = told /\ ledger' = ledger /\ UNCHANGED fenceVars
          /\ slots'.current = slots.current /\ slots'.rollback = 0
          /\ slots'.staged = slots.staged
      BY <1>0, <1>4
         DEF PromoteRemove, InMemory, OnJournal, OnDisk, gateVars, FileTypes, SlotInv, Home
    <2>2. "promote2" \in Pcs
      BY PcNames
    <2>3. /\ up' \in Updaters /\ up'.pc = "promote2" /\ up'.goal = up.goal
          /\ up'.active = up.active /\ up'.j = up.j /\ up'.policy = up.policy
          /\ up'.lease = up.lease /\ up'.reply = up.reply /\ up'.jerr = up.jerr
          /\ up'.cause = up.cause /\ up'.ret = up.ret
      BY <1>0, <1>4, <2>1, <2>2, GotoFields
    <2>4. ReturnInv' /\ ActiveInv' /\ StageInv' /\ HandInv' /\ ClosingInv'
      BY <1>0, <1>1, <2>1, <2>3
         DEF ReturnInv, ActiveInv, DiskInv, StageInv, HandInv, ClosingInv, FileTypes, Journals,
             Stages, Updaters, SlotInv
    <2>5. DiskInv'
      BY <1>0, <1>1, <2>1, <2>3
         DEF FileTypes, Updaters, Journals, DiskInv, ReturnInv, ActiveInv, StageInv, HandInv,
             ClosingInv, SlotInv, NoJournal
    <2>6. SlotInv'
      BY <1>0, <1>1, <2>1, <2>3
         DEF DiskInv, ReturnInv, ActiveInv, StageInv, HandInv, ClosingInv, SlotInv
    <2>7. GateInv'
      BY <1>0, <1>1, <2>1, <2>3 DEF GateInv, StageInv, ClosingInv, HandInv, LedgerFollows, Stages
    <2>8. LeaseInv'
      BY <1>0, <1>1, <2>1, <2>3
         DEF FileTypes, Updaters, Journals, FenceTypeOK, Workers, LeaseInv, ReturnInv, fenceVars
    <2>9. WorkerInv'
      BY <1>0, <1>1, <2>1, <2>3
         DEF FileTypes, Updaters, Journals, FenceTypeOK, Workers, WorkerInv, LeaseInv, DiskInv,
             StageInv, HandInv, ClosingInv, ReturnInv, fenceVars
    <2> QED
      BY <1>1, <2>1, <2>3, <2>4, <2>5, <2>6, <2>7, <2>8, <2>9, TypedAgain
  <1> QED
    BY <1>0, <1>1, <1>2, <1>3, <1>4, TypedAgain DEF PromoteRemove, PromoteFailed, ReturnInv

LEMMA PromoteRetireKeeps ==
    ASSUME TypeOK, UpdateInv, PromoteRetire
    PROVE  TypeOK' /\ UpdateInv'
PROOF
  <1> USE Numbers
      DEF UpdateInv, Aside, BeforeCutover, Closing, Handling, Home, Limit, Outside, Swapped, Tame
  <1>0. FenceTypeOK /\ GateTypeOK /\ FileTypes /\ CountTypes /\ up \in Updaters
    BY TypeParts
  <1>1. FenceTypeOK' /\ GateTypeOK' /\ FileTypes' /\ CountTypes'
    BY <1>0, FaultCounted
       DEF FenceTypeOK, GateTypeOK, FileTypes, CountTypes, PromoteRetire, PromoteFailed,
           ReturnInv, InMemory, OnJournal, OnDisk, fenceVars, gateVars
  <1>2. CASE up.ret = "monitoring" /\ slots' = slots /\ up' = Failed
    BY <1>0, <1>1, <1>2, FailKeeps, TypedAgain
       DEF PromoteRetire, InMemory, OnJournal, OnDisk, gateVars
  <1>3. CASE /\ up.ret = "promoted" /\ slots' = slots
             /\ up' = [up EXCEPT !.pc = "storage1", !.ret = "restore"]
    <2>1. /\ up.pc = "promote2" /\ up.ret = "promoted" /\ disk' = disk /\ slots' = slots
          /\ told' = told /\ ledger' = ledger /\ UNCHANGED fenceVars
      BY <1>0, <1>3 DEF PromoteRetire, InMemory, OnJournal, OnDisk, gateVars
    <2>2. "storage1" \in Pcs
      BY PcNames
    <2>3. /\ up' \in Updaters /\ up'.pc = "storage1" /\ up'.goal = up.goal
          /\ up'.active = up.active /\ up'.j = up.j /\ up'.policy = up.policy
          /\ up'.lease = up.lease /\ up'.reply = up.reply /\ up'.jerr = up.jerr
          /\ up'.cause = up.cause /\ up'.ret = "restore"
      BY <1>0, <1>3, <2>1, <2>2 DEF Updaters
    <2>4. ReturnInv' /\ ActiveInv' /\ StageInv' /\ HandInv' /\ ClosingInv'
      BY <1>0, <1>1, <2>1, <2>3
         DEF ReturnInv, ActiveInv, DiskInv, StageInv, HandInv, ClosingInv, FileTypes, Journals,
             Stages, Updaters, SlotInv
    <2>5. SlotInv'
      BY <1>0, <1>1, <2>1, <2>3
         DEF DiskInv, ReturnInv, ActiveInv, StageInv, HandInv, ClosingInv, SlotInv
    <2>6. DiskInv'
      BY <2>1 DEF DiskInv
    <2>7. GateInv'
      BY <1>0, <1>1, <2>1, <2>3 DEF GateInv, StageInv, ClosingInv, HandInv, LedgerFollows, Stages
    <2>8. LeaseInv'
      BY <1>0, <1>1, <2>1, <2>3
         DEF FileTypes, Updaters, Journals, FenceTypeOK, Workers, LeaseInv, ReturnInv, fenceVars
    <2>9. WorkerInv'
      BY <1>0, <1>1, <2>1, <2>3
         DEF FileTypes, Updaters, Journals, FenceTypeOK, Workers, WorkerInv, LeaseInv, DiskInv,
             StageInv, HandInv, ClosingInv, ReturnInv, fenceVars
    <2> QED
      BY <1>1, <2>1, <2>3, <2>4, <2>5, <2>6, <2>7, <2>8, <2>9, TypedAgain
  <1>4. CASE /\ slots' = [slots EXCEPT !.rollback = slots.current, !.current = 0]
             /\ up' = Goto("promote3")
    <2>1. /\ up.pc = "promote2" /\ disk' = disk /\ told' = told /\ ledger' = ledger
          /\ UNCHANGED fenceVars /\ slots'.current = 0 /\ slots'.rollback = slots.current
          /\ slots'.staged = slots.staged
      BY <1>0, <1>4 DEF PromoteRetire, InMemory, OnJournal, OnDisk, gateVars, FileTypes
    <2>2. "promote3" \in Pcs
      BY PcNames
    <2>3. /\ up' \in Updaters /\ up'.pc = "promote3" /\ up'.goal = up.goal
          /\ up'.active = up.active /\ up'.j = up.j /\ up'.policy = up.policy
          /\ up'.lease = up.lease /\ up'.reply = up.reply /\ up'.jerr = up.jerr
          /\ up'.cause = up.cause /\ up'.ret = up.ret
      BY <1>0, <1>4, <2>1, <2>2, GotoFields
    <2>4. ReturnInv' /\ ActiveInv' /\ StageInv' /\ HandInv' /\ ClosingInv'
      BY <1>0, <1>1, <2>1, <2>3
         DEF ReturnInv, ActiveInv, DiskInv, StageInv, HandInv, ClosingInv, FileTypes, Journals,
             Stages, Updaters, SlotInv
    <2>5. DiskInv'
      BY <1>0, <1>1, <2>1, <2>3
         DEF FileTypes, Updaters, Journals, DiskInv, ReturnInv, ActiveInv, StageInv, HandInv,
             ClosingInv, SlotInv, NoJournal
    <2>6. SlotInv'
      BY <1>0, <1>1, <2>1, <2>3
         DEF DiskInv, ReturnInv, ActiveInv, StageInv, HandInv, ClosingInv, SlotInv
    <2>7. GateInv'
      BY <1>0, <1>1, <2>1, <2>3 DEF GateInv, StageInv, ClosingInv, HandInv, LedgerFollows, Stages
    <2>8. LeaseInv'
      BY <1>0, <1>1, <2>1, <2>3
         DEF FileTypes, Updaters, Journals, FenceTypeOK, Workers, LeaseInv, ReturnInv, fenceVars
    <2>9. WorkerInv'
      BY <1>0, <1>1, <2>1, <2>3
         DEF FileTypes, Updaters, Journals, FenceTypeOK, Workers, WorkerInv, LeaseInv, DiskInv,
             StageInv, HandInv, ClosingInv, ReturnInv, fenceVars
    <2> QED
      BY <1>1, <2>1, <2>3, <2>4, <2>5, <2>6, <2>7, <2>8, <2>9, TypedAgain
  <1> QED
    BY <1>0, <1>1, <1>2, <1>3, <1>4, TypedAgain DEF PromoteRetire, PromoteFailed, ReturnInv

LEMMA PromoteInstallKeeps ==
    ASSUME TypeOK, UpdateInv, PromoteInstall
    PROVE  TypeOK' /\ UpdateInv'
PROOF
  <1> USE Numbers
      DEF UpdateInv, Aside, BeforeCutover, Closing, Handling, Home, Limit, Outside, Swapped, Tame
  <1>0. FenceTypeOK /\ GateTypeOK /\ FileTypes /\ CountTypes /\ up \in Updaters
    BY TypeParts
  <1>1. FenceTypeOK' /\ GateTypeOK' /\ FileTypes' /\ CountTypes'
    BY <1>0, FaultCounted
       DEF FenceTypeOK, GateTypeOK, FileTypes, CountTypes, PromoteInstall, Installed, Reverted,
           PromoteFailed, ReturnInv, InMemory, OnJournal, OnDisk, fenceVars, gateVars
  <1>2. CASE slots' = Installed /\ up' = Goto(up.ret)
    <2>1. /\ up.pc = "promote3" /\ up.ret \in {"promoted", "monitoring"} /\ disk' = disk
          /\ told' = told /\ ledger' = ledger /\ UNCHANGED fenceVars
          /\ slots'.current = slots.staged /\ slots'.rollback = slots.rollback
          /\ slots'.staged = 0
      BY <1>0, <1>2
         DEF PromoteInstall, InMemory, OnJournal, OnDisk, gateVars, Installed, FileTypes,
             ReturnInv
    <2>2. "promoted" \in Pcs /\ "monitoring" \in Pcs
      BY PcNames
    <2>3. /\ up' \in Updaters /\ up'.pc = up.ret /\ up'.goal = up.goal
          /\ up'.active = up.active /\ up'.j = up.j /\ up'.policy = up.policy
          /\ up'.lease = up.lease /\ up'.reply = up.reply /\ up'.jerr = up.jerr
          /\ up'.cause = up.cause /\ up'.ret = up.ret
      BY <1>0, <1>2, <2>1, <2>2, GotoFields
    <2>4. ReturnInv' /\ ActiveInv' /\ StageInv' /\ HandInv' /\ ClosingInv'
      BY <1>0, <1>1, <2>1, <2>3
         DEF ReturnInv, ActiveInv, DiskInv, StageInv, HandInv, ClosingInv, FileTypes, Journals,
             Stages, Updaters, SlotInv
    <2>5. DiskInv'
      BY <1>0, <1>1, <2>1, <2>3
         DEF FileTypes, Updaters, Journals, DiskInv, ReturnInv, ActiveInv, StageInv, HandInv,
             ClosingInv, SlotInv, NoJournal
    <2>6. SlotInv'
      BY <1>0, <1>1, <2>1, <2>3
         DEF DiskInv, ReturnInv, ActiveInv, StageInv, HandInv, ClosingInv, SlotInv
    <2>7. GateInv'
      BY <1>0, <1>1, <2>1, <2>3 DEF GateInv, StageInv, ClosingInv, HandInv, LedgerFollows, Stages
    <2>8. LeaseInv'
      BY <1>0, <1>1, <2>1, <2>3
         DEF FileTypes, Updaters, Journals, FenceTypeOK, Workers, LeaseInv, ReturnInv, fenceVars
    <2>9. WorkerInv'
      BY <1>0, <1>1, <2>1, <2>3
         DEF FileTypes, Updaters, Journals, FenceTypeOK, Workers, WorkerInv, LeaseInv, DiskInv,
             StageInv, HandInv, ClosingInv, ReturnInv, fenceVars
    <2> QED
      BY <1>1, <2>1, <2>3, <2>4, <2>5, <2>6, <2>7, <2>8, <2>9, TypedAgain
  <1>3. CASE up.ret = "monitoring" /\ slots' \in {slots, Installed, Reverted} /\ up' = Failed
    <2>1. /\ up.pc = "promote3" /\ disk' = disk /\ told' = told /\ ledger' = ledger
          /\ UNCHANGED fenceVars
      BY <1>0, <1>3 DEF PromoteInstall, InMemory, OnJournal, OnDisk, gateVars
    <2>2. /\ up' \in Updaters /\ up'.pc \in {"down", "idle", "recover"}
          /\ up'.lease \in {0, up.lease} /\ up'.active = up.active
      BY <1>0, <1>3, <2>1, FailedFields
    <2>3. DiskInv'
        <3>1. CASE slots' = slots
          BY <3>1, <1>0, <2>1 DEF DiskInv, SlotInv, StageInv, ReturnInv, FileTypes
        <3>2. CASE slots' = Installed
          BY <3>2, <1>0, <2>1 DEF DiskInv, SlotInv, StageInv, ReturnInv, FileTypes, Installed
        <3>3. CASE slots' = Reverted
          BY <3>3, <1>0, <2>1 DEF DiskInv, SlotInv, StageInv, ReturnInv, FileTypes, Reverted
        <3> QED BY <1>3, <3>1, <3>2, <3>3
    <2>4. ActiveInv'
      BY <1>0, <1>1, <2>1, <2>2
         DEF ActiveInv, DiskInv, StageInv, HandInv, ClosingInv, FileTypes, Journals, Stages
    <2>5. LedgerFollows'
      BY <1>0, <1>1, <2>1, <2>2 DEF GateInv, StageInv, ClosingInv, HandInv, LedgerFollows, Stages
    <2>6. (Tame(Limit))'
      BY <1>0, <1>1, <2>1, <2>2
         DEF FileTypes, Updaters, Journals, FenceTypeOK, Workers, WorkerInv, LeaseInv, DiskInv,
             StageInv, HandInv, ClosingInv, ReturnInv, fenceVars
    <2> QED
      BY <1>1, <2>1, <2>2, <2>3, <2>4, <2>5, <2>6, StopKeeps, TypedAgain
  <1>4. CASE /\ up.ret = "promoted" /\ slots' \in {slots, Installed, Reverted}
             /\ up' = [up EXCEPT !.pc = "storage1", !.ret = "restore"]
    <2>1. /\ up.pc = "promote3" /\ up.ret = "promoted" /\ disk' = disk /\ told' = told
          /\ ledger' = ledger /\ UNCHANGED fenceVars
      BY <1>0, <1>4 DEF PromoteInstall, InMemory, OnJournal, OnDisk, gateVars, Updaters
    <2>2. "storage1" \in Pcs
      BY PcNames
    <2>3. /\ up' \in Updaters /\ up'.pc = "storage1" /\ up'.goal = up.goal
          /\ up'.active = up.active /\ up'.j = up.j /\ up'.policy = up.policy
          /\ up'.lease = up.lease /\ up'.reply = up.reply /\ up'.jerr = up.jerr
          /\ up'.cause = up.cause /\ up'.ret = "restore"
      BY <1>0, <1>4, <2>1, <2>2 DEF PromoteInstall, Updaters
    <2>4. ReturnInv' /\ ActiveInv' /\ StageInv' /\ HandInv' /\ ClosingInv'
      BY <1>0, <1>1, <2>1, <2>3
         DEF ReturnInv, ActiveInv, DiskInv, StageInv, HandInv, ClosingInv, FileTypes, Journals,
             Stages, Updaters, SlotInv
    <2>5. DiskInv'
        <3>1. CASE slots' = slots
          BY <3>1, <1>0, <2>1 DEF DiskInv, SlotInv, StageInv, ReturnInv, FileTypes
        <3>2. CASE slots' = Installed
          BY <3>2, <1>0, <2>1 DEF DiskInv, SlotInv, StageInv, ReturnInv, FileTypes, Installed
        <3>3. CASE slots' = Reverted
          BY <3>3, <1>0, <2>1 DEF DiskInv, SlotInv, StageInv, ReturnInv, FileTypes, Reverted
        <3> QED BY <1>4, <3>1, <3>2, <3>3
    <2>6. SlotInv'
      BY <1>0, <1>1, <2>1, <2>3
         DEF DiskInv, ReturnInv, ActiveInv, StageInv, HandInv, ClosingInv, SlotInv
    <2>7. GateInv'
      BY <1>0, <1>1, <2>1, <2>3 DEF GateInv, StageInv, ClosingInv, HandInv, LedgerFollows, Stages
    <2>8. LeaseInv'
      BY <1>0, <1>1, <2>1, <2>3
         DEF FileTypes, Updaters, Journals, FenceTypeOK, Workers, LeaseInv, ReturnInv, fenceVars
    <2>9. WorkerInv'
      BY <1>0, <1>1, <2>1, <2>3
         DEF FileTypes, Updaters, Journals, FenceTypeOK, Workers, WorkerInv, LeaseInv, DiskInv,
             StageInv, HandInv, ClosingInv, ReturnInv, fenceVars
    <2> QED
      BY <1>1, <2>1, <2>3, <2>4, <2>5, <2>6, <2>7, <2>8, <2>9, TypedAgain
  <1> QED
    BY <1>0, <1>1, <1>2, <1>3, <1>4, TypedAgain
       DEF PromoteInstall, Installed, Reverted, PromoteFailed, ReturnInv

LEMMA RestoreQuarantineKeeps ==
    ASSUME TypeOK, UpdateInv, RestoreQuarantine
    PROVE  TypeOK' /\ UpdateInv'
PROOF
  <1> USE Numbers
      DEF UpdateInv, Aside, BeforeCutover, Closing, Handling, Home, Limit, Outside, Swapped, Tame
  <1>0. FenceTypeOK /\ GateTypeOK /\ FileTypes /\ CountTypes /\ up \in Updaters
    BY TypeParts
  <1>1. FenceTypeOK' /\ GateTypeOK' /\ FileTypes' /\ CountTypes'
    BY <1>0, FaultCounted
       DEF FenceTypeOK, GateTypeOK, FileTypes, CountTypes, RestoreQuarantine, RestoreFailed,
           ReturnInv, InMemory, OnJournal, OnDisk, fenceVars, gateVars
  <1>2. CASE slots.staged # 0 /\ slots' = slots /\ up' = Goto(up.ret)
    <2>1. /\ up.pc = "storage1" /\ slots.staged # 0 /\ up.ret \in {"restore", "regate"}
          /\ disk' = disk /\ slots' = slots /\ told' = told /\ ledger' = ledger
          /\ UNCHANGED fenceVars
      BY <1>0, <1>2 DEF RestoreQuarantine, InMemory, OnJournal, OnDisk, gateVars, ReturnInv
    <2>2. "restore" \in Pcs /\ "regate" \in Pcs
      BY PcNames
    <2>3. /\ up' \in Updaters /\ up'.pc = up.ret /\ up'.goal = up.goal
          /\ up'.active = up.active /\ up'.j = up.j /\ up'.policy = up.policy
          /\ up'.lease = up.lease /\ up'.reply = up.reply /\ up'.jerr = up.jerr
          /\ up'.cause = up.cause /\ up'.ret = up.ret
      BY <1>0, <1>2, <2>1, <2>2, GotoFields
    <2>4. ReturnInv' /\ ActiveInv' /\ StageInv' /\ HandInv' /\ ClosingInv'
      BY <1>0, <1>1, <2>1, <2>3
         DEF ReturnInv, ActiveInv, DiskInv, StageInv, HandInv, ClosingInv, FileTypes, Journals,
             Stages, Updaters, SlotInv
    <2>5. SlotInv'
      BY <1>0, <1>1, <2>1, <2>3
         DEF DiskInv, ReturnInv, ActiveInv, StageInv, HandInv, ClosingInv, SlotInv
    <2>6. DiskInv'
      BY <2>1 DEF DiskInv
    <2>7. GateInv'
      BY <1>0, <1>1, <2>1, <2>3 DEF GateInv, StageInv, ClosingInv, HandInv, LedgerFollows, Stages
    <2>8. LeaseInv'
      BY <1>0, <1>1, <2>1, <2>3
         DEF FileTypes, Updaters, Journals, FenceTypeOK, Workers, LeaseInv, ReturnInv, fenceVars
    <2>9. WorkerInv'
      BY <1>0, <1>1, <2>1, <2>3
         DEF FileTypes, Updaters, Journals, FenceTypeOK, Workers, WorkerInv, LeaseInv, DiskInv,
             StageInv, HandInv, ClosingInv, ReturnInv, fenceVars
    <2> QED
      BY <1>1, <2>1, <2>3, <2>4, <2>5, <2>6, <2>7, <2>8, <2>9, TypedAgain
  <1>3. CASE up.ret = "regate" /\ slots' = slots /\ up' = Failed
    BY <1>0, <1>1, <1>3, FailKeeps, TypedAgain
       DEF RestoreQuarantine, InMemory, OnJournal, OnDisk, gateVars
  <1>4. CASE /\ up.ret = "restore" /\ slots' = slots
             /\ up' = [up EXCEPT !.pc = up.ret, !.cause = "storage"]
    <2>1. /\ up.pc = "storage1" /\ up.ret = "restore" /\ disk' = disk /\ slots' = slots
          /\ told' = told /\ ledger' = ledger /\ UNCHANGED fenceVars
      BY <1>0, <1>4 DEF RestoreQuarantine, InMemory, OnJournal, OnDisk, gateVars
    <2>2. "restore" \in Pcs
      BY PcNames
    <2>3. /\ up' \in Updaters /\ up'.pc = "restore" /\ up'.goal = up.goal
          /\ up'.active = up.active /\ up'.j = up.j /\ up'.policy = up.policy
          /\ up'.lease = up.lease /\ up'.reply = up.reply /\ up'.jerr = up.jerr
          /\ up'.cause = "storage" /\ up'.ret = up.ret
      BY <1>0, <1>4, <2>1, <2>2 DEF Updaters
    <2>4. ReturnInv' /\ ActiveInv' /\ StageInv' /\ HandInv' /\ ClosingInv'
      BY <1>0, <1>1, <2>1, <2>3
         DEF ReturnInv, ActiveInv, DiskInv, StageInv, HandInv, ClosingInv, FileTypes, Journals,
             Stages, Updaters, SlotInv
    <2>5. SlotInv'
      BY <1>0, <1>1, <2>1, <2>3
         DEF DiskInv, ReturnInv, ActiveInv, StageInv, HandInv, ClosingInv, SlotInv
    <2>6. DiskInv'
      BY <2>1 DEF DiskInv
    <2>7. GateInv'
      BY <1>0, <1>1, <2>1, <2>3 DEF GateInv, StageInv, ClosingInv, HandInv, LedgerFollows, Stages
    <2>8. LeaseInv'
      BY <1>0, <1>1, <2>1, <2>3
         DEF FileTypes, Updaters, Journals, FenceTypeOK, Workers, LeaseInv, ReturnInv, fenceVars
    <2>9. WorkerInv'
      BY <1>0, <1>1, <2>1, <2>3
         DEF FileTypes, Updaters, Journals, FenceTypeOK, Workers, WorkerInv, LeaseInv, DiskInv,
             StageInv, HandInv, ClosingInv, ReturnInv, fenceVars
    <2> QED
      BY <1>1, <2>1, <2>3, <2>4, <2>5, <2>6, <2>7, <2>8, <2>9, TypedAgain
  <1>5. CASE /\ slots.staged = 0 /\ slots.current # 0
             /\ slots' = [slots EXCEPT !.staged = slots.current, !.current = 0]
             /\ up' = Goto("storage2")
    <2>1. /\ up.pc = "storage1" /\ slots.staged = 0 /\ slots.current # 0 /\ disk' = disk
          /\ told' = told /\ ledger' = ledger /\ UNCHANGED fenceVars /\ slots'.current = 0
          /\ slots'.rollback = slots.rollback /\ slots'.staged = slots.current
      BY <1>0, <1>5 DEF RestoreQuarantine, InMemory, OnJournal, OnDisk, gateVars, FileTypes
    <2>2. "storage2" \in Pcs
      BY PcNames
    <2>3. /\ up' \in Updaters /\ up'.pc = "storage2" /\ up'.goal = up.goal
          /\ up'.active = up.active /\ up'.j = up.j /\ up'.policy = up.policy
          /\ up'.lease = up.lease /\ up'.reply = up.reply /\ up'.jerr = up.jerr
          /\ up'.cause = up.cause /\ up'.ret = up.ret
      BY <1>0, <1>5, <2>1, <2>2, GotoFields
    <2>4. ReturnInv' /\ ActiveInv' /\ StageInv' /\ HandInv' /\ ClosingInv'
      BY <1>0, <1>1, <2>1, <2>3
         DEF ReturnInv, ActiveInv, DiskInv, StageInv, HandInv, ClosingInv, FileTypes, Journals,
             Stages, Updaters, SlotInv
    <2>5. DiskInv'
      BY <1>0, <1>1, <2>1, <2>3
         DEF FileTypes, Updaters, Journals, DiskInv, ReturnInv, ActiveInv, StageInv, HandInv,
             ClosingInv, SlotInv, NoJournal
    <2>6. SlotInv'
      BY <1>0, <1>1, <2>1, <2>3
         DEF DiskInv, ReturnInv, ActiveInv, StageInv, HandInv, ClosingInv, SlotInv
    <2>7. GateInv'
      BY <1>0, <1>1, <2>1, <2>3 DEF GateInv, StageInv, ClosingInv, HandInv, LedgerFollows, Stages
    <2>8. LeaseInv'
      BY <1>0, <1>1, <2>1, <2>3
         DEF FileTypes, Updaters, Journals, FenceTypeOK, Workers, LeaseInv, ReturnInv, fenceVars
    <2>9. WorkerInv'
      BY <1>0, <1>1, <2>1, <2>3
         DEF FileTypes, Updaters, Journals, FenceTypeOK, Workers, WorkerInv, LeaseInv, DiskInv,
             StageInv, HandInv, ClosingInv, ReturnInv, fenceVars
    <2> QED
      BY <1>1, <2>1, <2>3, <2>4, <2>5, <2>6, <2>7, <2>8, <2>9, TypedAgain
  <1> QED
    BY <1>0, <1>1, <1>2, <1>3, <1>4, <1>5, TypedAgain
       DEF RestoreQuarantine, RestoreFailed, ReturnInv

LEMMA RestoreCurrentKeeps ==
    ASSUME TypeOK, UpdateInv, RestoreCurrent
    PROVE  TypeOK' /\ UpdateInv'
PROOF
  <1> USE Numbers
      DEF UpdateInv, Aside, BeforeCutover, Closing, Handling, Home, Limit, Outside, Swapped, Tame
  <1>0. FenceTypeOK /\ GateTypeOK /\ FileTypes /\ CountTypes /\ up \in Updaters
    BY TypeParts
  <1>1. FenceTypeOK' /\ GateTypeOK' /\ FileTypes' /\ CountTypes'
    BY <1>0, FaultCounted
       DEF FenceTypeOK, GateTypeOK, FileTypes, CountTypes, RestoreCurrent, Installed, Reverted,
           RestoreFailed, ReturnInv, InMemory, OnJournal, OnDisk, fenceVars, gateVars
  <1>2. CASE slots' = Reverted /\ up' = Goto(up.ret)
    <2>1. /\ up.pc = "storage2" /\ up.ret \in {"restore", "regate"} /\ disk' = disk
          /\ told' = told /\ ledger' = ledger /\ UNCHANGED fenceVars
          /\ slots'.current = slots.rollback /\ slots'.rollback = 0
          /\ slots'.staged = slots.staged
      BY <1>0, <1>2
         DEF RestoreCurrent, InMemory, OnJournal, OnDisk, gateVars, Reverted, FileTypes,
             ReturnInv
    <2>2. "restore" \in Pcs /\ "regate" \in Pcs
      BY PcNames
    <2>3. /\ up' \in Updaters /\ up'.pc = up.ret /\ up'.goal = up.goal
          /\ up'.active = up.active /\ up'.j = up.j /\ up'.policy = up.policy
          /\ up'.lease = up.lease /\ up'.reply = up.reply /\ up'.jerr = up.jerr
          /\ up'.cause = up.cause /\ up'.ret = up.ret
      BY <1>0, <1>2, <2>1, <2>2, GotoFields
    <2>4. ReturnInv' /\ ActiveInv' /\ StageInv' /\ HandInv' /\ ClosingInv'
      BY <1>0, <1>1, <2>1, <2>3
         DEF ReturnInv, ActiveInv, DiskInv, StageInv, HandInv, ClosingInv, FileTypes, Journals,
             Stages, Updaters, SlotInv
    <2>5. DiskInv'
      BY <1>0, <1>1, <2>1, <2>3
         DEF FileTypes, Updaters, Journals, DiskInv, ReturnInv, ActiveInv, StageInv, HandInv,
             ClosingInv, SlotInv, NoJournal
    <2>6. SlotInv'
      BY <1>0, <1>1, <2>1, <2>3
         DEF DiskInv, ReturnInv, ActiveInv, StageInv, HandInv, ClosingInv, SlotInv
    <2>7. GateInv'
      BY <1>0, <1>1, <2>1, <2>3 DEF GateInv, StageInv, ClosingInv, HandInv, LedgerFollows, Stages
    <2>8. LeaseInv'
      BY <1>0, <1>1, <2>1, <2>3
         DEF FileTypes, Updaters, Journals, FenceTypeOK, Workers, LeaseInv, ReturnInv, fenceVars
    <2>9. WorkerInv'
      BY <1>0, <1>1, <2>1, <2>3
         DEF FileTypes, Updaters, Journals, FenceTypeOK, Workers, WorkerInv, LeaseInv, DiskInv,
             StageInv, HandInv, ClosingInv, ReturnInv, fenceVars
    <2> QED
      BY <1>1, <2>1, <2>3, <2>4, <2>5, <2>6, <2>7, <2>8, <2>9, TypedAgain
  <1>3. CASE up.ret = "regate" /\ slots' \in {slots, Installed, Reverted} /\ up' = Failed
    <2>1. /\ up.pc = "storage2" /\ disk' = disk /\ told' = told /\ ledger' = ledger
          /\ UNCHANGED fenceVars
      BY <1>0, <1>3 DEF RestoreCurrent, InMemory, OnJournal, OnDisk, gateVars
    <2>2. /\ up' \in Updaters /\ up'.pc \in {"down", "idle", "recover"}
          /\ up'.lease \in {0, up.lease} /\ up'.active = up.active
      BY <1>0, <1>3, <2>1, FailedFields
    <2>3. DiskInv'
        <3>1. CASE slots' = slots
          BY <3>1, <1>0, <2>1 DEF DiskInv, SlotInv, StageInv, ReturnInv, FileTypes
        <3>2. CASE slots' = Installed
          BY <3>2, <1>0, <2>1 DEF DiskInv, SlotInv, StageInv, ReturnInv, FileTypes, Installed
        <3>3. CASE slots' = Reverted
          BY <3>3, <1>0, <2>1 DEF DiskInv, SlotInv, StageInv, ReturnInv, FileTypes, Reverted
        <3> QED BY <1>3, <3>1, <3>2, <3>3
    <2>4. ActiveInv'
      BY <1>0, <1>1, <2>1, <2>2
         DEF ActiveInv, DiskInv, StageInv, HandInv, ClosingInv, FileTypes, Journals, Stages
    <2>5. LedgerFollows'
      BY <1>0, <1>1, <2>1, <2>2 DEF GateInv, StageInv, ClosingInv, HandInv, LedgerFollows, Stages
    <2>6. (Tame(Limit))'
      BY <1>0, <1>1, <2>1, <2>2
         DEF FileTypes, Updaters, Journals, FenceTypeOK, Workers, WorkerInv, LeaseInv, DiskInv,
             StageInv, HandInv, ClosingInv, ReturnInv, fenceVars
    <2> QED
      BY <1>1, <2>1, <2>2, <2>3, <2>4, <2>5, <2>6, StopKeeps, TypedAgain
  <1>4. CASE /\ up.ret = "restore" /\ slots' \in {slots, Installed, Reverted}
             /\ up' = [up EXCEPT !.pc = up.ret, !.cause = "storage"]
    <2>1. /\ up.pc = "storage2" /\ up.ret = "restore" /\ disk' = disk /\ told' = told
          /\ ledger' = ledger /\ UNCHANGED fenceVars
      BY <1>0, <1>4 DEF RestoreCurrent, InMemory, OnJournal, OnDisk, gateVars
    <2>2. "restore" \in Pcs
      BY PcNames
    <2>3. /\ up' \in Updaters /\ up'.pc = "restore" /\ up'.goal = up.goal
          /\ up'.active = up.active /\ up'.j = up.j /\ up'.policy = up.policy
          /\ up'.lease = up.lease /\ up'.reply = up.reply /\ up'.jerr = up.jerr
          /\ up'.cause = "storage" /\ up'.ret = up.ret
      BY <1>0, <1>4, <2>1, <2>2 DEF Updaters
    <2>4. ReturnInv' /\ ActiveInv' /\ StageInv' /\ HandInv' /\ ClosingInv'
      BY <1>0, <1>1, <2>1, <2>3
         DEF ReturnInv, ActiveInv, DiskInv, StageInv, HandInv, ClosingInv, FileTypes, Journals,
             Stages, Updaters, SlotInv
    <2>5. DiskInv'
        <3>1. CASE slots' = slots
          BY <3>1, <1>0, <2>1 DEF DiskInv, SlotInv, StageInv, ReturnInv, FileTypes
        <3>2. CASE slots' = Installed
          BY <3>2, <1>0, <2>1 DEF DiskInv, SlotInv, StageInv, ReturnInv, FileTypes, Installed
        <3>3. CASE slots' = Reverted
          BY <3>3, <1>0, <2>1 DEF DiskInv, SlotInv, StageInv, ReturnInv, FileTypes, Reverted
        <3> QED BY <1>4, <3>1, <3>2, <3>3
    <2>6. SlotInv'
      BY <1>0, <1>1, <2>1, <2>3
         DEF DiskInv, ReturnInv, ActiveInv, StageInv, HandInv, ClosingInv, SlotInv
    <2>7. GateInv'
      BY <1>0, <1>1, <2>1, <2>3 DEF GateInv, StageInv, ClosingInv, HandInv, LedgerFollows, Stages
    <2>8. LeaseInv'
      BY <1>0, <1>1, <2>1, <2>3
         DEF FileTypes, Updaters, Journals, FenceTypeOK, Workers, LeaseInv, ReturnInv, fenceVars
    <2>9. WorkerInv'
      BY <1>0, <1>1, <2>1, <2>3
         DEF FileTypes, Updaters, Journals, FenceTypeOK, Workers, WorkerInv, LeaseInv, DiskInv,
             StageInv, HandInv, ClosingInv, ReturnInv, fenceVars
    <2> QED
      BY <1>1, <2>1, <2>3, <2>4, <2>5, <2>6, <2>7, <2>8, <2>9, TypedAgain
  <1> QED
    BY <1>0, <1>1, <1>2, <1>3, <1>4, TypedAgain
       DEF RestoreCurrent, Installed, Reverted, RestoreFailed, ReturnInv

LEMMA StageKeeps ==
    ASSUME TypeOK, UpdateInv, Stage
    PROVE  TypeOK' /\ UpdateInv'
PROOF
  <1> USE Numbers
      DEF UpdateInv, Aside, BeforeCutover, Closing, Handling, Home, Limit, Outside, Swapped, Tame
  <1>0. FenceTypeOK /\ GateTypeOK /\ FileTypes /\ CountTypes /\ up \in Updaters
    BY TypeParts
  <1>1. FenceTypeOK' /\ GateTypeOK' /\ FileTypes' /\ CountTypes'
    <2>1. FenceTypeOK'
      BY <1>0
         DEF FenceTypeOK, Workers, Stage, Updaters, InMemory, OnJournal, OnDisk, fenceVars,
             gateVars
    <2>2. GateTypeOK'
      BY <1>0 DEF GateTypeOK, Stage, Updaters, InMemory, OnJournal, OnDisk, fenceVars, gateVars
    <2>3. FileTypes'
      <3>1. up.goal \in Versions \cup {0}
        BY <1>0 DEF Updaters
      <3>2. slots' \in {slots, [slots EXCEPT !.staged = up.goal]}
        BY DEF Stage
      <3> QED BY <1>0, <3>1, <3>2 DEF FileTypes, Stage, OnDisk
    <2>4. CountTypes'
      BY <1>0, FaultCounted
         DEF CountTypes, Stage, Updaters, InMemory, OnJournal, OnDisk, fenceVars, gateVars
    <2> QED BY <2>1, <2>2, <2>3, <2>4
  <1>2. CASE slots' = [slots EXCEPT !.staged = up.goal] /\ up' = Goto("staged")
    <2>1. /\ up.pc = "stage" /\ disk' = disk /\ told' = told /\ ledger' = ledger
          /\ UNCHANGED fenceVars /\ slots'.current = slots.current
          /\ slots'.rollback = slots.rollback /\ slots'.staged = up.goal
      BY <1>0, <1>2 DEF Stage, InMemory, OnJournal, OnDisk, gateVars, FileTypes, Updaters
    <2>2. "staged" \in Pcs
      BY PcNames
    <2>3. /\ up' \in Updaters /\ up'.pc = "staged" /\ up'.goal = up.goal
          /\ up'.active = up.active /\ up'.j = up.j /\ up'.policy = up.policy
          /\ up'.lease = up.lease /\ up'.reply = up.reply /\ up'.jerr = up.jerr
          /\ up'.cause = up.cause /\ up'.ret = up.ret
      BY <1>0, <1>2, <2>1, <2>2, GotoFields
    <2>4. ReturnInv' /\ ActiveInv' /\ StageInv' /\ HandInv' /\ ClosingInv'
      BY <1>0, <1>1, <2>1, <2>3
         DEF ReturnInv, ActiveInv, DiskInv, StageInv, HandInv, ClosingInv, FileTypes, Journals,
             Stages, Updaters, SlotInv
    <2>5. DiskInv'
      BY <1>0, <1>1, <2>1, <2>3
         DEF FileTypes, Updaters, Journals, DiskInv, ReturnInv, ActiveInv, StageInv, HandInv,
             ClosingInv, SlotInv, NoJournal
    <2>6. SlotInv'
      BY <1>0, <1>1, <2>1, <2>3
         DEF DiskInv, ReturnInv, ActiveInv, StageInv, HandInv, ClosingInv, SlotInv
    <2>7. GateInv'
      BY <1>0, <1>1, <2>1, <2>3 DEF GateInv, StageInv, ClosingInv, HandInv, LedgerFollows, Stages
    <2>8. LeaseInv'
      BY <1>0, <1>1, <2>1, <2>3
         DEF FileTypes, Updaters, Journals, FenceTypeOK, Workers, LeaseInv, ReturnInv, fenceVars
    <2>9. WorkerInv'
      BY <1>0, <1>1, <2>1, <2>3
         DEF FileTypes, Updaters, Journals, FenceTypeOK, Workers, WorkerInv, LeaseInv, DiskInv,
             StageInv, HandInv, ClosingInv, ReturnInv, fenceVars
    <2> QED
      BY <1>1, <2>1, <2>3, <2>4, <2>5, <2>6, <2>7, <2>8, <2>9, TypedAgain
  <1>3. CASE /\ slots' \in {slots, [slots EXCEPT !.staged = up.goal]}
             /\ up' = Discard(TRUE, 0, "abandoned")
    <2>1. /\ up.pc = "stage" /\ disk' = disk /\ told' = told /\ ledger' = ledger
          /\ UNCHANGED fenceVars /\ slots'.current = slots.current
          /\ slots'.rollback = slots.rollback
      BY <1>0, <1>3 DEF Stage, InMemory, OnJournal, OnDisk, gateVars, FileTypes, Updaters
    <2>2. /\ 0 \in Versions \cup {0}
          /\ "abandoned" \in {"failed", "abandoned", "recovered", "updated"}
          /\ "discard" \in Pcs
      BY PcNames
    <2>3. /\ Abandon(0, "abandoned") \in Updaters /\ Abandon(0, "abandoned").pc = "discard"
          /\ Abandon(0, "abandoned").ret = "idlewrite"
          /\ Abandon(0, "abandoned").active = up.active
          /\ Abandon(0, "abandoned").lease = up.lease
          /\ Abandon(0, "abandoned").j.stage = "idle"
          /\ Abandon(0, "abandoned").j.active = up.active
          /\ Abandon(0, "abandoned").j.candidate = 0
      BY <1>0, <2>1, <2>2, AbandonFields
    <2>4. /\ up' \in Updaters /\ up'.pc = "discard" /\ up'.active = up.active
          /\ up'.lease = up.lease /\ up'.ret = "idlewrite" /\ up'.j.stage = "idle"
          /\ up'.j.active = up.active /\ up'.j.candidate = 0
      BY <1>0, <1>3, <2>1, <2>2, <2>3 DEF Abandon
    <2>5. ReturnInv' /\ ActiveInv' /\ StageInv' /\ HandInv' /\ ClosingInv'
      BY <1>0, <1>1, <2>1, <2>4
         DEF ReturnInv, ActiveInv, DiskInv, StageInv, HandInv, ClosingInv, FileTypes, Journals,
             Stages, Updaters, SlotInv
    <2>6. DiskInv'
      BY <1>0, <1>1, <2>1, <2>4
         DEF FileTypes, Updaters, Journals, DiskInv, ReturnInv, ActiveInv, StageInv, HandInv,
             ClosingInv, SlotInv, NoJournal
    <2>7. SlotInv'
      BY <1>0, <1>1, <2>1, <2>4
         DEF DiskInv, ReturnInv, ActiveInv, StageInv, HandInv, ClosingInv, SlotInv
    <2>8. GateInv'
      BY <1>0, <1>1, <2>1, <2>4 DEF GateInv, StageInv, ClosingInv, HandInv, LedgerFollows, Stages
    <2>9. LeaseInv'
      BY <1>0, <1>1, <2>1, <2>4
         DEF FileTypes, Updaters, Journals, FenceTypeOK, Workers, LeaseInv, ReturnInv, fenceVars
    <2>10. WorkerInv'
      BY <1>0, <1>1, <2>1, <2>4
         DEF FileTypes, Updaters, Journals, FenceTypeOK, Workers, WorkerInv, LeaseInv, DiskInv,
             StageInv, HandInv, ClosingInv, ReturnInv, fenceVars
    <2> QED
      BY <1>1, <2>1, <2>4, <2>5, <2>6, <2>7, <2>8, <2>9, <2>10, TypedAgain
  <1> QED
    BY <1>0, <1>1, <1>2, <1>3, TypedAgain DEF Stage

LEMMA RecoverAbsentKeeps ==
    ASSUME TypeOK, UpdateInv, RecoverAbsent
    PROVE  TypeOK' /\ UpdateInv'
PROOF
  <1> USE Numbers
      DEF UpdateInv, Aside, BeforeCutover, Closing, Handling, Home, Limit, Outside, Swapped, Tame
  <1>0. FenceTypeOK /\ GateTypeOK /\ FileTypes /\ CountTypes /\ up \in Updaters
    BY TypeParts
  <1>1. FenceTypeOK' /\ GateTypeOK' /\ FileTypes' /\ CountTypes'
    <2>1. FenceTypeOK'
      BY <1>0
         DEF FenceTypeOK, Workers, RecoverAbsent, Open, Write, Updaters, InMemory, OnJournal,
             OnDisk, fenceVars, gateVars
    <2>2. GateTypeOK'
      BY OpenEffect DEF RecoverAbsent
    <2>3. FileTypes'
      <3>1. NewJournal(up.active) \in Journals(Versions, 0..MaxLeases)
        BY <1>0, JournalFields DEF Updaters
      <3>2. disk' \in {disk, NewJournal(up.active)}
        BY DEF RecoverAbsent, Open, Write
      <3> QED BY <1>0, <3>1, <3>2 DEF FileTypes, RecoverAbsent, Open
    <2>4. CountTypes'
      BY <1>0, FaultCounted, JournalFields
         DEF CountTypes, RecoverAbsent, Open, Write, Updaters, InMemory, OnJournal, OnDisk,
             fenceVars, gateVars
    <2> QED BY <2>1, <2>2, <2>3, <2>4
  <1>2. CASE disk' = disk /\ ledger' \in {ledger, "none"} /\ up' = Failed
    <2>1. /\ up.pc = "recover" /\ disk.stage = "absent" /\ disk.active = 0 /\ up.active \in Nat
          /\ disk' = disk /\ slots' = slots /\ told' = told /\ UNCHANGED fenceVars
          /\ ledger' \in {ledger, "none"}
      BY <1>0, <1>2, AbsentJournal
         DEF RecoverAbsent, InMemory, OnJournal, OnDisk, gateVars, Open, ActiveInv, Updaters
    <2>2. /\ up' \in Updaters /\ up'.pc \in {"down", "idle", "recover"}
          /\ up'.lease \in {0, up.lease} /\ up'.active = up.active
      BY <1>0, <1>2, <2>1, FailedFields
    <2>3. DiskInv'
      BY <2>1 DEF DiskInv
    <2>4. ActiveInv'
      BY <1>0, <1>1, <2>1, <2>2
         DEF ActiveInv, DiskInv, StageInv, HandInv, ClosingInv, FileTypes, Journals, Stages
    <2>5. LedgerFollows'
      BY <1>0, <1>1, <2>1, <2>2 DEF GateInv, StageInv, ClosingInv, HandInv, LedgerFollows, Stages
    <2>6. (Tame(Limit))'
      BY <1>0, <1>1, <2>1, <2>2
         DEF FileTypes, Updaters, Journals, FenceTypeOK, Workers, WorkerInv, LeaseInv, DiskInv,
             StageInv, HandInv, ClosingInv, ReturnInv, fenceVars
    <2> QED
      BY <1>1, <2>1, <2>2, <2>3, <2>4, <2>5, <2>6, StopKeeps, TypedAgain
  <1>3. CASE disk' = NewJournal(up.active) /\ ledger' = "none" /\ up' = Failed
    <2>1. /\ up.pc = "recover" /\ disk.stage = "absent" /\ disk.active = 0 /\ up.active \in Nat
          /\ slots' = slots /\ told' = told /\ UNCHANGED fenceVars /\ disk'.stage = "idle"
          /\ disk'.active = up.active /\ disk'.candidate = 0 /\ ledger' = "none"
      BY <1>0, <1>3, JournalFields, AbsentJournal
         DEF RecoverAbsent, InMemory, OnJournal, OnDisk, gateVars, Open, Updaters, ActiveInv
    <2>2. /\ up' \in Updaters /\ up'.pc \in {"down", "idle", "recover"}
          /\ up'.lease \in {0, up.lease} /\ up'.active = up.active
      BY <1>0, <1>3, <2>1, FailedFields
    <2>3. DiskInv'
      BY <1>0, <1>1, <2>1, <2>2
         DEF FileTypes, Updaters, Journals, DiskInv, ReturnInv, ActiveInv, StageInv, HandInv,
             ClosingInv, SlotInv, NoJournal
    <2>4. ActiveInv'
      BY <1>0, <1>1, <2>1, <2>2
         DEF ActiveInv, DiskInv, StageInv, HandInv, ClosingInv, FileTypes, Journals, Stages
    <2>5. LedgerFollows'
      BY <1>0, <1>1, <2>1, <2>2 DEF GateInv, StageInv, ClosingInv, HandInv, LedgerFollows, Stages
    <2>6. (Tame(Limit))'
      BY <1>0, <1>1, <2>1, <2>2
         DEF FileTypes, Updaters, Journals, FenceTypeOK, Workers, WorkerInv, LeaseInv, DiskInv,
             StageInv, HandInv, ClosingInv, ReturnInv, fenceVars
    <2> QED
      BY <1>1, <2>1, <2>2, <2>3, <2>4, <2>5, <2>6, StopKeeps, TypedAgain
  <1>4. CASE disk' = NewJournal(up.active) /\ ledger' = "none" /\ up' = Recovered
              /\ up.goal = 0
    <2>1. /\ up.pc = "recover" /\ disk.stage = "absent" /\ disk.active = 0 /\ up.active \in Nat
          /\ slots' = slots /\ told' = told /\ UNCHANGED fenceVars /\ disk'.stage = "idle"
          /\ disk'.active = up.active /\ disk'.candidate = 0 /\ ledger' = "none"
      BY <1>0, <1>4, JournalFields, AbsentJournal
         DEF RecoverAbsent, InMemory, OnJournal, OnDisk, gateVars, Open, Updaters, ActiveInv
    <2>2. /\ up' \in Updaters /\ up'.pc \in {"down", "idle", "recover"}
          /\ up'.lease \in {0, up.lease} /\ up'.active = up.active
      BY <1>0, <1>4, <2>1, RecoveredFields
    <2>3. DiskInv'
      BY <1>0, <1>1, <2>1, <2>2
         DEF FileTypes, Updaters, Journals, DiskInv, ReturnInv, ActiveInv, StageInv, HandInv,
             ClosingInv, SlotInv, NoJournal
    <2>4. ActiveInv'
      BY <1>0, <1>1, <2>1, <2>2
         DEF ActiveInv, DiskInv, StageInv, HandInv, ClosingInv, FileTypes, Journals, Stages
    <2>5. LedgerFollows'
      BY <1>0, <1>1, <2>1, <2>2 DEF GateInv, StageInv, ClosingInv, HandInv, LedgerFollows, Stages
    <2>6. (Tame(Limit))'
      BY <1>0, <1>1, <2>1, <2>2
         DEF FileTypes, Updaters, Journals, FenceTypeOK, Workers, WorkerInv, LeaseInv, DiskInv,
             StageInv, HandInv, ClosingInv, ReturnInv, fenceVars
    <2> QED
      BY <1>1, <2>1, <2>2, <2>3, <2>4, <2>5, <2>6, StopKeeps, TypedAgain
  <1>5. CASE disk' = NewJournal(up.active) /\ ledger' = "none" /\ up' = Recovered
              /\ up.goal # 0
    <2>1. /\ up.pc = "recover" /\ disk.stage = "absent" /\ disk.active = 0 /\ up.active \in Nat
          /\ slots' = slots /\ told' = told /\ UNCHANGED fenceVars /\ disk'.stage = "idle"
          /\ disk'.active = up.active /\ disk'.candidate = 0 /\ ledger' = "none"
      BY <1>0, <1>5, JournalFields, AbsentJournal
         DEF RecoverAbsent, InMemory, OnJournal, OnDisk, gateVars, Open, Updaters, ActiveInv
    <2>2. "begin" \in Pcs
      BY PcNames
    <2>3. up' \in Updaters /\ up'.pc = "begin" /\ up'.active = up.active /\ up'.lease = 0
      BY <1>0, <1>5, <2>1, <2>2, RecoveredFields
    <2>4. ReturnInv' /\ ActiveInv' /\ StageInv' /\ HandInv' /\ ClosingInv'
      BY <1>0, <1>1, <2>1, <2>3
         DEF ReturnInv, ActiveInv, DiskInv, StageInv, HandInv, ClosingInv, FileTypes, Journals,
             Stages, Updaters, SlotInv
    <2>5. DiskInv'
      BY <1>0, <1>1, <2>1, <2>3
         DEF FileTypes, Updaters, Journals, DiskInv, ReturnInv, ActiveInv, StageInv, HandInv,
             ClosingInv, SlotInv, NoJournal
    <2>6. SlotInv'
      BY <1>0, <1>1, <2>1, <2>3
         DEF DiskInv, ReturnInv, ActiveInv, StageInv, HandInv, ClosingInv, SlotInv
    <2>7. GateInv'
      BY <1>0, <1>1, <2>1, <2>3 DEF GateInv, StageInv, ClosingInv, HandInv, LedgerFollows, Stages
    <2>8. LeaseInv'
      BY <1>0, <1>1, <2>1, <2>3
         DEF FileTypes, Updaters, Journals, FenceTypeOK, Workers, LeaseInv, ReturnInv, fenceVars
    <2>9. WorkerInv'
      BY <1>0, <1>1, <2>1, <2>3
         DEF FileTypes, Updaters, Journals, FenceTypeOK, Workers, WorkerInv, LeaseInv, DiskInv,
             StageInv, HandInv, ClosingInv, ReturnInv, fenceVars
    <2> QED
      BY <1>1, <2>1, <2>3, <2>4, <2>5, <2>6, <2>7, <2>8, <2>9, TypedAgain
  <1> QED
    BY <1>0, <1>1, <1>2, <1>3, <1>4, <1>5, OpenEffect DEF RecoverAbsent

LEMMA SupersedeKeeps ==
    ASSUME TypeOK, UpdateInv, Supersede
    PROVE  TypeOK' /\ UpdateInv'
PROOF
  <1> USE Numbers
      DEF UpdateInv, Aside, BeforeCutover, Closing, Handling, Home, Limit, Outside, Swapped, Tame
  <1>0. FenceTypeOK /\ GateTypeOK /\ FileTypes /\ CountTypes /\ up \in Updaters
    BY TypeParts
  <1>1. FenceTypeOK' /\ GateTypeOK' /\ FileTypes' /\ CountTypes'
    <2>1. FenceTypeOK'
      BY <1>0
         DEF FenceTypeOK, Workers, Supersede, Open, Write, Updaters, InMemory, OnJournal, OnDisk,
             fenceVars, gateVars
    <2>2. GateTypeOK'
      BY OpenEffect DEF Supersede
    <2>3. FileTypes'
      <3>1. NewJournal(up.active) \in Journals(Versions, 0..MaxLeases)
        BY <1>0, JournalFields DEF Updaters
      <3>2. disk' \in {disk, NewJournal(up.active)}
        BY DEF Supersede, Open, Write
      <3> QED BY <1>0, <3>1, <3>2 DEF FileTypes, Supersede, Open
    <2>4. CountTypes'
      BY <1>0, FaultCounted, JournalFields
         DEF CountTypes, Supersede, Open, Write, Updaters, InMemory, OnJournal, OnDisk,
             fenceVars, gateVars
    <2> QED BY <2>1, <2>2, <2>3, <2>4
  <1>2. CASE disk' = disk /\ ledger' \in {ledger, "none"} /\ up' = Failed
    <2>1. /\ up.pc = "supersede" /\ up.active = disk.candidate
          /\ disk.stage \in {"rollback", "blocked"} /\ disk' = disk /\ slots' = slots
          /\ told' = told /\ UNCHANGED fenceVars /\ ledger' \in {ledger, "none"}
      BY <1>0, <1>2, AbsentJournal
         DEF Supersede, InMemory, OnJournal, OnDisk, gateVars, Open, ActiveInv, Updaters
    <2>2. /\ up' \in Updaters /\ up'.pc \in {"down", "idle", "recover"}
          /\ up'.lease \in {0, up.lease} /\ up'.active = up.active
      BY <1>0, <1>2, <2>1, FailedFields
    <2>3. DiskInv'
      BY <2>1 DEF DiskInv
    <2>4. ActiveInv'
      BY <1>0, <1>1, <2>1, <2>2
         DEF ActiveInv, DiskInv, StageInv, HandInv, ClosingInv, FileTypes, Journals, Stages
    <2>5. LedgerFollows'
      BY <1>0, <1>1, <2>1, <2>2 DEF GateInv, StageInv, ClosingInv, HandInv, LedgerFollows, Stages
    <2>6. (Tame(Limit))'
      BY <1>0, <1>1, <2>1, <2>2
         DEF FileTypes, Updaters, Journals, FenceTypeOK, Workers, WorkerInv, LeaseInv, DiskInv,
             StageInv, HandInv, ClosingInv, ReturnInv, fenceVars
    <2> QED
      BY <1>1, <2>1, <2>2, <2>3, <2>4, <2>5, <2>6, StopKeeps, TypedAgain
  <1>3. CASE disk' = NewJournal(up.active) /\ ledger' = "none" /\ up' = Failed
    <2>1. /\ up.pc = "supersede" /\ up.active = disk.candidate
          /\ disk.stage \in {"rollback", "blocked"} /\ slots' = slots /\ told' = told
          /\ UNCHANGED fenceVars /\ disk'.stage = "idle" /\ disk'.active = up.active
          /\ disk'.candidate = 0 /\ ledger' = "none"
      BY <1>0, <1>3, JournalFields, AbsentJournal
         DEF Supersede, InMemory, OnJournal, OnDisk, gateVars, Open, Updaters, ActiveInv
    <2>2. /\ up' \in Updaters /\ up'.pc \in {"down", "idle", "recover"}
          /\ up'.lease \in {0, up.lease} /\ up'.active = up.active
      BY <1>0, <1>3, <2>1, FailedFields
    <2>3. DiskInv'
      BY <1>0, <1>1, <2>1, <2>2
         DEF FileTypes, Updaters, Journals, DiskInv, ReturnInv, ActiveInv, StageInv, HandInv,
             ClosingInv, SlotInv, NoJournal
    <2>4. ActiveInv'
      BY <1>0, <1>1, <2>1, <2>2
         DEF ActiveInv, DiskInv, StageInv, HandInv, ClosingInv, FileTypes, Journals, Stages
    <2>5. LedgerFollows'
      BY <1>0, <1>1, <2>1, <2>2 DEF GateInv, StageInv, ClosingInv, HandInv, LedgerFollows, Stages
    <2>6. (Tame(Limit))'
      BY <1>0, <1>1, <2>1, <2>2
         DEF FileTypes, Updaters, Journals, FenceTypeOK, Workers, WorkerInv, LeaseInv, DiskInv,
             StageInv, HandInv, ClosingInv, ReturnInv, fenceVars
    <2> QED
      BY <1>1, <2>1, <2>2, <2>3, <2>4, <2>5, <2>6, StopKeeps, TypedAgain
  <1>4. CASE disk' = NewJournal(up.active) /\ ledger' = "none" /\ up' = Recovered
              /\ up.goal = 0
    <2>1. /\ up.pc = "supersede" /\ up.active = disk.candidate
          /\ disk.stage \in {"rollback", "blocked"} /\ slots' = slots /\ told' = told
          /\ UNCHANGED fenceVars /\ disk'.stage = "idle" /\ disk'.active = up.active
          /\ disk'.candidate = 0 /\ ledger' = "none"
      BY <1>0, <1>4, JournalFields, AbsentJournal
         DEF Supersede, InMemory, OnJournal, OnDisk, gateVars, Open, Updaters, ActiveInv
    <2>2. /\ up' \in Updaters /\ up'.pc \in {"down", "idle", "recover"}
          /\ up'.lease \in {0, up.lease} /\ up'.active = up.active
      BY <1>0, <1>4, <2>1, RecoveredFields
    <2>3. DiskInv'
      BY <1>0, <1>1, <2>1, <2>2
         DEF FileTypes, Updaters, Journals, DiskInv, ReturnInv, ActiveInv, StageInv, HandInv,
             ClosingInv, SlotInv, NoJournal
    <2>4. ActiveInv'
      BY <1>0, <1>1, <2>1, <2>2
         DEF ActiveInv, DiskInv, StageInv, HandInv, ClosingInv, FileTypes, Journals, Stages
    <2>5. LedgerFollows'
      BY <1>0, <1>1, <2>1, <2>2 DEF GateInv, StageInv, ClosingInv, HandInv, LedgerFollows, Stages
    <2>6. (Tame(Limit))'
      BY <1>0, <1>1, <2>1, <2>2
         DEF FileTypes, Updaters, Journals, FenceTypeOK, Workers, WorkerInv, LeaseInv, DiskInv,
             StageInv, HandInv, ClosingInv, ReturnInv, fenceVars
    <2> QED
      BY <1>1, <2>1, <2>2, <2>3, <2>4, <2>5, <2>6, StopKeeps, TypedAgain
  <1>5. CASE disk' = NewJournal(up.active) /\ ledger' = "none" /\ up' = Recovered
              /\ up.goal # 0
    <2>1. /\ up.pc = "supersede" /\ up.active = disk.candidate
          /\ disk.stage \in {"rollback", "blocked"} /\ slots' = slots /\ told' = told
          /\ UNCHANGED fenceVars /\ disk'.stage = "idle" /\ disk'.active = up.active
          /\ disk'.candidate = 0 /\ ledger' = "none"
      BY <1>0, <1>5, JournalFields, AbsentJournal
         DEF Supersede, InMemory, OnJournal, OnDisk, gateVars, Open, Updaters, ActiveInv
    <2>2. "begin" \in Pcs
      BY PcNames
    <2>3. up' \in Updaters /\ up'.pc = "begin" /\ up'.active = up.active /\ up'.lease = 0
      BY <1>0, <1>5, <2>1, <2>2, RecoveredFields
    <2>4. ReturnInv' /\ ActiveInv' /\ StageInv' /\ HandInv' /\ ClosingInv'
      BY <1>0, <1>1, <2>1, <2>3
         DEF ReturnInv, ActiveInv, DiskInv, StageInv, HandInv, ClosingInv, FileTypes, Journals,
             Stages, Updaters, SlotInv
    <2>5. DiskInv'
      BY <1>0, <1>1, <2>1, <2>3
         DEF FileTypes, Updaters, Journals, DiskInv, ReturnInv, ActiveInv, StageInv, HandInv,
             ClosingInv, SlotInv, NoJournal
    <2>6. SlotInv'
      BY <1>0, <1>1, <2>1, <2>3
         DEF DiskInv, ReturnInv, ActiveInv, StageInv, HandInv, ClosingInv, SlotInv
    <2>7. GateInv'
      BY <1>0, <1>1, <2>1, <2>3 DEF GateInv, StageInv, ClosingInv, HandInv, LedgerFollows, Stages
    <2>8. LeaseInv'
      BY <1>0, <1>1, <2>1, <2>3
         DEF FileTypes, Updaters, Journals, FenceTypeOK, Workers, LeaseInv, ReturnInv, fenceVars
    <2>9. WorkerInv'
      BY <1>0, <1>1, <2>1, <2>3
         DEF FileTypes, Updaters, Journals, FenceTypeOK, Workers, WorkerInv, LeaseInv, DiskInv,
             StageInv, HandInv, ClosingInv, ReturnInv, fenceVars
    <2> QED
      BY <1>1, <2>1, <2>3, <2>4, <2>5, <2>6, <2>7, <2>8, <2>9, TypedAgain
  <1> QED
    BY <1>0, <1>1, <1>2, <1>3, <1>4, <1>5, OpenEffect DEF Supersede

LEMMA BeginKeeps ==
    ASSUME TypeOK, UpdateInv, Begin
    PROVE  TypeOK' /\ UpdateInv'
PROOF
  <1> USE Numbers
      DEF UpdateInv, Aside, BeforeCutover, Closing, Handling, Home, Limit, Outside, Swapped, Tame
  <1>0. FenceTypeOK /\ GateTypeOK /\ FileTypes /\ CountTypes /\ up \in Updaters
    BY TypeParts
  <1>1. FenceTypeOK' /\ GateTypeOK' /\ FileTypes' /\ CountTypes'
    <2>1. FenceTypeOK'
      BY <1>0
         DEF FenceTypeOK, Workers, Begin, Open, Write, Updaters, InMemory, OnJournal, OnDisk,
             fenceVars, gateVars
    <2>2. GateTypeOK'
      BY OpenEffect DEF Begin
    <2>3. FileTypes'
      <3>1. NewJournal(up.active) \in Journals(Versions, 0..MaxLeases)
        BY <1>0, JournalFields DEF Updaters
      <3>2. disk' \in {disk, NewJournal(up.active)}
        BY DEF Begin, Open, Write
      <3> QED BY <1>0, <3>1, <3>2 DEF FileTypes, Begin, Open
    <2>4. CountTypes'
      BY <1>0, FaultCounted, JournalFields
         DEF CountTypes, Begin, Open, Write, Updaters, InMemory, OnJournal, OnDisk, fenceVars,
             gateVars
    <2> QED BY <2>1, <2>2, <2>3, <2>4
  <1>2. CASE disk' = disk /\ ledger' \in {ledger, "none"} /\ up' = Failed
    <2>1. /\ up.pc = "begin" /\ up.goal > up.active /\ disk' = disk /\ slots' = slots
          /\ told' = told /\ UNCHANGED fenceVars /\ ledger' \in {ledger, "none"}
      BY <1>0, <1>2, AbsentJournal
         DEF Begin, InMemory, OnJournal, OnDisk, gateVars, Open, ActiveInv, Updaters
    <2>2. /\ up' \in Updaters /\ up'.pc \in {"down", "idle", "recover"}
          /\ up'.lease \in {0, up.lease} /\ up'.active = up.active
      BY <1>0, <1>2, <2>1, FailedFields
    <2>3. DiskInv'
      BY <2>1 DEF DiskInv
    <2>4. ActiveInv'
      BY <1>0, <1>1, <2>1, <2>2
         DEF ActiveInv, DiskInv, StageInv, HandInv, ClosingInv, FileTypes, Journals, Stages
    <2>5. LedgerFollows'
      BY <1>0, <1>1, <2>1, <2>2 DEF GateInv, StageInv, ClosingInv, HandInv, LedgerFollows, Stages
    <2>6. (Tame(Limit))'
      BY <1>0, <1>1, <2>1, <2>2
         DEF FileTypes, Updaters, Journals, FenceTypeOK, Workers, WorkerInv, LeaseInv, DiskInv,
             StageInv, HandInv, ClosingInv, ReturnInv, fenceVars
    <2> QED
      BY <1>1, <2>1, <2>2, <2>3, <2>4, <2>5, <2>6, StopKeeps, TypedAgain
  <1>3. CASE disk' = NewJournal(up.active) /\ ledger' = "none" /\ up' = Failed
    <2>1. /\ up.pc = "begin" /\ up.goal > up.active /\ slots' = slots /\ told' = told
          /\ UNCHANGED fenceVars /\ disk'.stage = "idle" /\ disk'.active = up.active
          /\ disk'.candidate = 0 /\ ledger' = "none"
      BY <1>0, <1>3, JournalFields, AbsentJournal
         DEF Begin, InMemory, OnJournal, OnDisk, gateVars, Open, Updaters, ActiveInv
    <2>2. /\ up' \in Updaters /\ up'.pc \in {"down", "idle", "recover"}
          /\ up'.lease \in {0, up.lease} /\ up'.active = up.active
      BY <1>0, <1>3, <2>1, FailedFields
    <2>3. DiskInv'
      BY <1>0, <1>1, <2>1, <2>2
         DEF FileTypes, Updaters, Journals, DiskInv, ReturnInv, ActiveInv, StageInv, HandInv,
             ClosingInv, SlotInv, NoJournal
    <2>4. ActiveInv'
      BY <1>0, <1>1, <2>1, <2>2
         DEF ActiveInv, DiskInv, StageInv, HandInv, ClosingInv, FileTypes, Journals, Stages
    <2>5. LedgerFollows'
      BY <1>0, <1>1, <2>1, <2>2 DEF GateInv, StageInv, ClosingInv, HandInv, LedgerFollows, Stages
    <2>6. (Tame(Limit))'
      BY <1>0, <1>1, <2>1, <2>2
         DEF FileTypes, Updaters, Journals, FenceTypeOK, Workers, WorkerInv, LeaseInv, DiskInv,
             StageInv, HandInv, ClosingInv, ReturnInv, fenceVars
    <2> QED
      BY <1>1, <2>1, <2>2, <2>3, <2>4, <2>5, <2>6, StopKeeps, TypedAgain
  <1>4. CASE /\ disk' = NewJournal(up.active) /\ ledger' = "none"
             /\ up' = [up EXCEPT !.pc = "checking", !.j = NewJournal(up.active), !.policy = TRUE]
    <2>1. /\ up.pc = "begin" /\ up.goal > up.active /\ slots' = slots /\ told' = told
          /\ UNCHANGED fenceVars /\ disk'.stage = "idle" /\ disk'.active = up.active
          /\ disk'.candidate = 0 /\ ledger' = "none"
      BY <1>0, <1>4, JournalFields, AbsentJournal
         DEF Begin, InMemory, OnJournal, OnDisk, gateVars, Open, Updaters, ActiveInv
    <2>2. "checking" \in Pcs
      BY PcNames
    <2>3. NewJournal(up.active) \in Journals(Versions, 0..MaxLeases)
      BY <1>0, <2>1, <2>2, JournalFields DEF Updaters
    <2>4. /\ up' \in Updaters /\ up'.pc = "checking" /\ up'.goal = up.goal
          /\ up'.active = up.active /\ up'.lease = up.lease /\ up'.reply = up.reply
          /\ up'.jerr = up.jerr /\ up'.cause = up.cause /\ up'.ret = up.ret /\ up'.j = disk'
      BY <1>0, <1>4, <2>1, <2>2, <2>3 DEF Updaters
    <2>5. ReturnInv' /\ ActiveInv' /\ StageInv' /\ HandInv' /\ ClosingInv'
      BY <1>0, <1>1, <2>1, <2>4
         DEF ReturnInv, ActiveInv, DiskInv, StageInv, HandInv, ClosingInv, FileTypes, Journals,
             Stages, Updaters, SlotInv
    <2>6. DiskInv'
      BY <1>0, <1>1, <2>1, <2>4
         DEF FileTypes, Updaters, Journals, DiskInv, ReturnInv, ActiveInv, StageInv, HandInv,
             ClosingInv, SlotInv, NoJournal
    <2>7. SlotInv'
      BY <1>0, <1>1, <2>1, <2>4
         DEF DiskInv, ReturnInv, ActiveInv, StageInv, HandInv, ClosingInv, SlotInv
    <2>8. GateInv'
      BY <1>0, <1>1, <2>1, <2>4 DEF GateInv, StageInv, ClosingInv, HandInv, LedgerFollows, Stages
    <2>9. LeaseInv'
      BY <1>0, <1>1, <2>1, <2>4
         DEF FileTypes, Updaters, Journals, FenceTypeOK, Workers, LeaseInv, ReturnInv, fenceVars
    <2>10. WorkerInv'
      BY <1>0, <1>1, <2>1, <2>4
         DEF FileTypes, Updaters, Journals, FenceTypeOK, Workers, WorkerInv, LeaseInv, DiskInv,
             StageInv, HandInv, ClosingInv, ReturnInv, fenceVars
    <2> QED
      BY <1>1, <2>1, <2>4, <2>5, <2>6, <2>7, <2>8, <2>9, <2>10, TypedAgain
  <1> QED
    BY <1>0, <1>1, <1>2, <1>3, <1>4, OpenEffect DEF Begin

LEMMA RecoverRollbackKeeps ==
    ASSUME TypeOK, UpdateInv, RecoverRollback
    PROVE  TypeOK' /\ UpdateInv'
PROOF
  <1> USE Numbers
      DEF UpdateInv, Aside, BeforeCutover, Closing, Handling, Home, Limit, Outside, Swapped, Tame
  <1>0. FenceTypeOK /\ GateTypeOK /\ FileTypes /\ CountTypes /\ up \in Updaters
    BY TypeParts
  <1>1. FenceTypeOK' /\ GateTypeOK' /\ FileTypes' /\ CountTypes'
    BY <1>0, FaultCounted
       DEF FenceTypeOK, GateTypeOK, FileTypes, CountTypes, RecoverRollback, Write, Journals,
           Stages, InMemory, OnJournal, OnDisk, fenceVars, gateVars
  <1>2. CASE disk' = disk /\ up' = Failed
    BY <1>0, <1>1, <1>2, FailKeeps, TypedAgain, RecoveringStage
       DEF RecoverRollback, InMemory, OnJournal, OnDisk, gateVars
  <1>3. CASE disk' = [disk EXCEPT !.stage = "rollback"] /\ up' = Failed
    <2>1. /\ up.pc = "recover" /\ disk.stage \in {"rollback", "blocked"}
          /\ disk.active = up.active /\ slots' = slots /\ told' = told /\ ledger' = ledger
          /\ UNCHANGED fenceVars /\ disk'.stage = "rollback" /\ disk'.active = disk.active
          /\ disk'.candidate = disk.candidate
      BY <1>0, <1>3, RecoveringStage, RecoveryStages
         DEF RecoverRollback, InMemory, OnJournal, OnDisk, gateVars, FileTypes, Journals
    <2>2. /\ up' \in Updaters /\ up'.pc \in {"down", "idle", "recover"}
          /\ up'.lease \in {0, up.lease} /\ up'.active = up.active
      BY <1>0, <1>3, <2>1, FailedFields
    <2>3. DiskInv'
      BY <1>0, <1>1, <2>1, <2>2
         DEF FileTypes, Updaters, Journals, DiskInv, ReturnInv, ActiveInv, StageInv, HandInv,
             ClosingInv, SlotInv, NoJournal
    <2>4. ActiveInv'
      BY <1>0, <1>1, <2>1, <2>2
         DEF ActiveInv, DiskInv, StageInv, HandInv, ClosingInv, FileTypes, Journals, Stages
    <2>5. LedgerFollows'
      BY <1>0, <1>1, <2>1, <2>2 DEF GateInv, StageInv, ClosingInv, HandInv, LedgerFollows, Stages
    <2>6. (Tame(Limit))'
      BY <1>0, <1>1, <2>1, <2>2
         DEF FileTypes, Updaters, Journals, FenceTypeOK, Workers, WorkerInv, LeaseInv, DiskInv,
             StageInv, HandInv, ClosingInv, ReturnInv, fenceVars
    <2> QED
      BY <1>1, <2>1, <2>2, <2>3, <2>4, <2>5, <2>6, StopKeeps, TypedAgain
  <1>4. CASE /\ disk' = [disk EXCEPT !.stage = "rollback"]
             /\ up' = [FromJournal("restore") EXCEPT !.cause = "interrupted",
                                                    !.j.stage = "draining"]
    <2>1. /\ up.pc = "recover" /\ disk.stage \in {"rollback", "blocked"}
          /\ disk.active = up.active /\ slots' = slots /\ told' = told /\ ledger' = ledger
          /\ UNCHANGED fenceVars /\ disk'.stage = "rollback" /\ disk'.active = disk.active
          /\ disk'.candidate = disk.candidate
          /\ [disk EXCEPT !.stage = "draining"] \in Journals(Versions, 0..MaxLeases)
          /\ [disk EXCEPT !.stage = "draining"].active = disk.active
          /\ [disk EXCEPT !.stage = "draining"].candidate = disk.candidate
      BY <1>0, <1>4, RecoveringStage, RecoveryStages, StageNames
         DEF RecoverRollback, InMemory, OnJournal, OnDisk, gateVars, FileTypes, Journals
    <2>2. "restore" \in Pcs
      BY PcNames
    <2>3. /\ FromJournal("restore") \in Updaters /\ FromJournal("restore").pc = "restore"
          /\ FromJournal("restore").j = disk /\ ~FromJournal("restore").policy
          /\ FromJournal("restore").active = up.active
          /\ FromJournal("restore").lease = up.lease /\ FromJournal("restore").reply = up.reply
          /\ FromJournal("restore").ret = up.ret /\ FromJournal("restore").goal = up.goal
      BY <1>0, <2>1, <2>2, FromJournalFields DEF FileTypes
    <2>4. /\ up' \in Updaters /\ up'.pc = "restore" /\ up'.active = up.active /\ ~up'.policy
          /\ up'.lease = up.lease /\ up'.reply = up.reply
          /\ up'.j = [disk EXCEPT !.stage = "draining"]
      BY <1>0, <1>4, <2>1, <2>2, <2>3 DEF Updaters
    <2>5. ReturnInv' /\ ActiveInv' /\ StageInv' /\ HandInv' /\ ClosingInv'
      BY <1>0, <1>1, <2>1, <2>4
         DEF ReturnInv, ActiveInv, DiskInv, StageInv, HandInv, ClosingInv, FileTypes, Journals,
             Stages, Updaters, SlotInv
    <2>6. DiskInv'
      BY <1>0, <1>1, <2>1, <2>4
         DEF FileTypes, Updaters, Journals, DiskInv, ReturnInv, ActiveInv, StageInv, HandInv,
             ClosingInv, SlotInv, NoJournal
    <2>7. SlotInv'
      BY <1>0, <1>1, <2>1, <2>4
         DEF DiskInv, ReturnInv, ActiveInv, StageInv, HandInv, ClosingInv, SlotInv
    <2>8. GateInv'
      BY <1>0, <1>1, <2>1, <2>4 DEF GateInv, StageInv, ClosingInv, HandInv, LedgerFollows, Stages
    <2>9. LeaseInv'
      BY <1>0, <1>1, <2>1, <2>4
         DEF FileTypes, Updaters, Journals, FenceTypeOK, Workers, LeaseInv, ReturnInv, fenceVars
    <2>10. WorkerInv'
      BY <1>0, <1>1, <2>1, <2>4
         DEF FileTypes, Updaters, Journals, FenceTypeOK, Workers, WorkerInv, LeaseInv, DiskInv,
             StageInv, HandInv, ClosingInv, ReturnInv, fenceVars
    <2> QED
      BY <1>1, <2>1, <2>4, <2>5, <2>6, <2>7, <2>8, <2>9, <2>10, TypedAgain
  <1> QED
    BY <1>0, <1>1, <1>2, <1>3, <1>4, TypedAgain DEF RecoverRollback, Write

LEMMA WriteStageKeeps ==
    ASSUME TypeOK, UpdateInv, WriteStage
    PROVE  TypeOK' /\ UpdateInv'
PROOF
  <1> USE Numbers
      DEF UpdateInv, Aside, BeforeCutover, Closing, Handling, Home, Limit, Outside, Swapped, Tame
  <1>0. FenceTypeOK /\ GateTypeOK /\ FileTypes /\ CountTypes /\ up \in Updaters
    BY TypeParts
  <1>1. FenceTypeOK' /\ GateTypeOK' /\ FileTypes' /\ CountTypes'
    BY <1>0, FaultCounted, TransitionFields, StageNames
       DEF FenceTypeOK, GateTypeOK, FileTypes, CountTypes, WriteStage, Write, AfterWrite,
           InMemory, OnJournal, OnDisk, fenceVars, gateVars
  <1>2. CASE disk' = disk /\ up' = Failed
    BY <1>0, <1>1, <1>2, FailKeeps, TypedAgain
       DEF WriteStage, InMemory, OnJournal, OnDisk, gateVars, AfterWrite
  <1>3. CASE up.pc = "checking" /\ disk' = Transition("checking") /\ up' = Failed
    <2>1. /\ up.pc = "checking" /\ slots' = slots /\ told' = told /\ ledger' = ledger
          /\ UNCHANGED fenceVars /\ disk'.stage = "checking" /\ disk'.active = disk.active
          /\ disk'.candidate = 0
      BY <1>0, <1>3, TransitionFields, StageNames
         DEF WriteStage, InMemory, OnJournal, OnDisk, gateVars, HandInv, Outside, FileTypes,
             Journals, Updaters
    <2>2. /\ up' \in Updaters /\ up'.pc \in {"down", "idle", "recover"}
          /\ up'.lease \in {0, up.lease} /\ up'.active = up.active
      BY <1>0, <1>3, <2>1, FailedFields
    <2>3. DiskInv'
      BY <1>0, <1>1, <2>1, <2>2
         DEF FileTypes, Updaters, Journals, DiskInv, ReturnInv, ActiveInv, StageInv, HandInv,
             ClosingInv, SlotInv, NoJournal
    <2>4. ActiveInv'
      BY <1>0, <1>1, <2>1, <2>2
         DEF ActiveInv, DiskInv, StageInv, HandInv, ClosingInv, FileTypes, Journals, Stages
    <2>5. LedgerFollows'
      BY <1>0, <1>1, <2>1, <2>2 DEF GateInv, StageInv, ClosingInv, HandInv, LedgerFollows, Stages
    <2>6. (Tame(Limit))'
      BY <1>0, <1>1, <2>1, <2>2
         DEF FileTypes, Updaters, Journals, FenceTypeOK, Workers, WorkerInv, LeaseInv, DiskInv,
             StageInv, HandInv, ClosingInv, ReturnInv, fenceVars
    <2> QED
      BY <1>1, <2>1, <2>2, <2>3, <2>4, <2>5, <2>6, StopKeeps, TypedAgain
  <1>4. CASE /\ up.pc = "checking" /\ disk' = Transition("checking")
             /\ up' = [up EXCEPT !.pc = "stage", !.j = Transition("checking")]
    <2>1. /\ up.pc = "checking" /\ slots' = slots /\ told' = told /\ ledger' = ledger
          /\ UNCHANGED fenceVars /\ disk'.stage = "checking" /\ disk'.active = disk.active
          /\ disk'.candidate = 0
      BY <1>0, <1>4, TransitionFields, StageNames
         DEF WriteStage, InMemory, OnJournal, OnDisk, gateVars, HandInv, Outside, FileTypes,
             Journals, Updaters
    <2>2. "stage" \in Pcs
      BY PcNames
    <2>3. Transition("checking") \in Journals(Versions, 0..MaxLeases)
      BY <1>0, <2>1, <2>2, TransitionFields, StageNames
    <2>4. /\ up' \in Updaters /\ up'.pc = "stage" /\ up'.goal = up.goal
          /\ up'.active = up.active /\ up'.policy = up.policy /\ up'.lease = up.lease
          /\ up'.reply = up.reply /\ up'.jerr = up.jerr /\ up'.cause = up.cause
          /\ up'.ret = up.ret /\ up'.j = disk'
      BY <1>0, <1>4, <2>1, <2>2, <2>3 DEF Updaters
    <2>5. ReturnInv' /\ ActiveInv' /\ StageInv' /\ HandInv' /\ ClosingInv'
      BY <1>0, <1>1, <2>1, <2>4
         DEF ReturnInv, ActiveInv, DiskInv, StageInv, HandInv, ClosingInv, FileTypes, Journals,
             Stages, Updaters, SlotInv
    <2>6. DiskInv'
      BY <1>0, <1>1, <2>1, <2>4
         DEF FileTypes, Updaters, Journals, DiskInv, ReturnInv, ActiveInv, StageInv, HandInv,
             ClosingInv, SlotInv, NoJournal
    <2>7. SlotInv'
      BY <1>0, <1>1, <2>1, <2>4
         DEF DiskInv, ReturnInv, ActiveInv, StageInv, HandInv, ClosingInv, SlotInv
    <2>8. GateInv'
      BY <1>0, <1>1, <2>1, <2>4 DEF GateInv, StageInv, ClosingInv, HandInv, LedgerFollows, Stages
    <2>9. LeaseInv'
      BY <1>0, <1>1, <2>1, <2>4
         DEF FileTypes, Updaters, Journals, FenceTypeOK, Workers, LeaseInv, ReturnInv, fenceVars
    <2>10. WorkerInv'
      BY <1>0, <1>1, <2>1, <2>4
         DEF FileTypes, Updaters, Journals, FenceTypeOK, Workers, WorkerInv, LeaseInv, DiskInv,
             StageInv, HandInv, ClosingInv, ReturnInv, fenceVars
    <2> QED
      BY <1>1, <2>1, <2>4, <2>5, <2>6, <2>7, <2>8, <2>9, <2>10, TypedAgain
  <1>5. CASE up.pc = "staged" /\ disk' = Transition("staged") /\ up' = Failed
    <2>1. /\ up.pc = "staged" /\ up.goal > disk.active /\ up.goal # 0 /\ slots' = slots
          /\ told' = told /\ ledger' = ledger /\ UNCHANGED fenceVars /\ disk'.stage = "staged"
          /\ disk'.active = disk.active /\ disk'.candidate = up.goal
      BY <1>0, <1>5, TransitionFields, StageNames
         DEF WriteStage, InMemory, OnJournal, OnDisk, gateVars, HandInv, Outside, FileTypes,
             Journals, Updaters
    <2>2. /\ up' \in Updaters /\ up'.pc \in {"down", "idle", "recover"}
          /\ up'.lease \in {0, up.lease} /\ up'.active = up.active
      BY <1>0, <1>5, <2>1, FailedFields
    <2>3. DiskInv'
      BY <1>0, <1>1, <2>1, <2>2
         DEF FileTypes, Updaters, Journals, DiskInv, ReturnInv, ActiveInv, StageInv, HandInv,
             ClosingInv, SlotInv, NoJournal
    <2>4. ActiveInv'
      BY <1>0, <1>1, <2>1, <2>2
         DEF ActiveInv, DiskInv, StageInv, HandInv, ClosingInv, FileTypes, Journals, Stages
    <2>5. LedgerFollows'
      BY <1>0, <1>1, <2>1, <2>2 DEF GateInv, StageInv, ClosingInv, HandInv, LedgerFollows, Stages
    <2>6. (Tame(Limit))'
      BY <1>0, <1>1, <2>1, <2>2
         DEF FileTypes, Updaters, Journals, FenceTypeOK, Workers, WorkerInv, LeaseInv, DiskInv,
             StageInv, HandInv, ClosingInv, ReturnInv, fenceVars
    <2> QED
      BY <1>1, <2>1, <2>2, <2>3, <2>4, <2>5, <2>6, StopKeeps, TypedAgain
  <1>6. CASE /\ up.pc = "staged" /\ disk' = Transition("staged")
             /\ up' = [up EXCEPT !.pc = "started", !.j = Transition("staged")]
    <2>1. /\ up.pc = "staged" /\ up.goal > disk.active /\ up.goal # 0 /\ slots' = slots
          /\ told' = told /\ ledger' = ledger /\ UNCHANGED fenceVars /\ disk'.stage = "staged"
          /\ disk'.active = disk.active /\ disk'.candidate = up.goal
      BY <1>0, <1>6, TransitionFields, StageNames
         DEF WriteStage, InMemory, OnJournal, OnDisk, gateVars, HandInv, Outside, FileTypes,
             Journals, Updaters
    <2>2. "started" \in Pcs
      BY PcNames
    <2>3. Transition("staged") \in Journals(Versions, 0..MaxLeases)
      BY <1>0, <2>1, <2>2, TransitionFields, StageNames
    <2>4. /\ up' \in Updaters /\ up'.pc = "started" /\ up'.goal = up.goal
          /\ up'.active = up.active /\ up'.policy = up.policy /\ up'.lease = up.lease
          /\ up'.reply = up.reply /\ up'.jerr = up.jerr /\ up'.cause = up.cause
          /\ up'.ret = up.ret /\ up'.j = disk'
      BY <1>0, <1>6, <2>1, <2>2, <2>3 DEF Updaters
    <2>5. ReturnInv' /\ ActiveInv' /\ StageInv' /\ HandInv' /\ ClosingInv'
      BY <1>0, <1>1, <2>1, <2>4
         DEF ReturnInv, ActiveInv, DiskInv, StageInv, HandInv, ClosingInv, FileTypes, Journals,
             Stages, Updaters, SlotInv
    <2>6. DiskInv'
      BY <1>0, <1>1, <2>1, <2>4
         DEF FileTypes, Updaters, Journals, DiskInv, ReturnInv, ActiveInv, StageInv, HandInv,
             ClosingInv, SlotInv, NoJournal
    <2>7. SlotInv'
      BY <1>0, <1>1, <2>1, <2>4
         DEF DiskInv, ReturnInv, ActiveInv, StageInv, HandInv, ClosingInv, SlotInv
    <2>8. GateInv'
      BY <1>0, <1>1, <2>1, <2>4 DEF GateInv, StageInv, ClosingInv, HandInv, LedgerFollows, Stages
    <2>9. LeaseInv'
      BY <1>0, <1>1, <2>1, <2>4
         DEF FileTypes, Updaters, Journals, FenceTypeOK, Workers, LeaseInv, ReturnInv, fenceVars
    <2>10. WorkerInv'
      BY <1>0, <1>1, <2>1, <2>4
         DEF FileTypes, Updaters, Journals, FenceTypeOK, Workers, WorkerInv, LeaseInv, DiskInv,
             StageInv, HandInv, ClosingInv, ReturnInv, fenceVars
    <2> QED
      BY <1>1, <2>1, <2>4, <2>5, <2>6, <2>7, <2>8, <2>9, <2>10, TypedAgain
  <1>7. CASE up.pc = "started" /\ disk' = Transition("started") /\ up' = Failed
    <2>1. /\ up.pc = "started" /\ slots' = slots /\ told' = told /\ ledger' = ledger
          /\ UNCHANGED fenceVars /\ disk'.stage = "started" /\ disk'.active = disk.active
          /\ disk'.candidate = disk.candidate
      BY <1>0, <1>7, TransitionFields, StageNames
         DEF WriteStage, InMemory, OnJournal, OnDisk, gateVars, HandInv, Outside, FileTypes,
             Journals, Updaters
    <2>2. /\ up' \in Updaters /\ up'.pc \in {"down", "idle", "recover"}
          /\ up'.lease \in {0, up.lease} /\ up'.active = up.active
      BY <1>0, <1>7, <2>1, FailedFields
    <2>3. DiskInv'
      BY <1>0, <1>1, <2>1, <2>2
         DEF FileTypes, Updaters, Journals, DiskInv, ReturnInv, ActiveInv, StageInv, HandInv,
             ClosingInv, SlotInv, NoJournal
    <2>4. ActiveInv'
      BY <1>0, <1>1, <2>1, <2>2
         DEF ActiveInv, DiskInv, StageInv, HandInv, ClosingInv, FileTypes, Journals, Stages
    <2>5. LedgerFollows'
      BY <1>0, <1>1, <2>1, <2>2 DEF GateInv, StageInv, ClosingInv, HandInv, LedgerFollows, Stages
    <2>6. (Tame(Limit))'
      BY <1>0, <1>1, <2>1, <2>2
         DEF FileTypes, Updaters, Journals, FenceTypeOK, Workers, WorkerInv, LeaseInv, DiskInv,
             StageInv, HandInv, ClosingInv, ReturnInv, fenceVars
    <2> QED
      BY <1>1, <2>1, <2>2, <2>3, <2>4, <2>5, <2>6, StopKeeps, TypedAgain
  <1>8. CASE /\ up.pc = "started" /\ disk' = Transition("started")
             /\ up' = [up EXCEPT !.pc = "launch", !.j = Transition("started")]
    <2>1. /\ up.pc = "started" /\ slots' = slots /\ told' = told /\ ledger' = ledger
          /\ UNCHANGED fenceVars /\ disk'.stage = "started" /\ disk'.active = disk.active
          /\ disk'.candidate = disk.candidate
      BY <1>0, <1>8, TransitionFields, StageNames
         DEF WriteStage, InMemory, OnJournal, OnDisk, gateVars, HandInv, Outside, FileTypes,
             Journals, Updaters
    <2>2. "launch" \in Pcs
      BY PcNames
    <2>3. Transition("started") \in Journals(Versions, 0..MaxLeases)
      BY <1>0, <2>1, <2>2, TransitionFields, StageNames
    <2>4. /\ up' \in Updaters /\ up'.pc = "launch" /\ up'.goal = up.goal
          /\ up'.active = up.active /\ up'.policy = up.policy /\ up'.lease = up.lease
          /\ up'.reply = up.reply /\ up'.jerr = up.jerr /\ up'.cause = up.cause
          /\ up'.ret = up.ret /\ up'.j = disk'
      BY <1>0, <1>8, <2>1, <2>2, <2>3 DEF Updaters
    <2>5. ReturnInv' /\ ActiveInv' /\ StageInv' /\ HandInv' /\ ClosingInv'
      BY <1>0, <1>1, <2>1, <2>4
         DEF ReturnInv, ActiveInv, DiskInv, StageInv, HandInv, ClosingInv, FileTypes, Journals,
             Stages, Updaters, SlotInv
    <2>6. DiskInv'
      BY <1>0, <1>1, <2>1, <2>4
         DEF FileTypes, Updaters, Journals, DiskInv, ReturnInv, ActiveInv, StageInv, HandInv,
             ClosingInv, SlotInv, NoJournal
    <2>7. SlotInv'
      BY <1>0, <1>1, <2>1, <2>4
         DEF DiskInv, ReturnInv, ActiveInv, StageInv, HandInv, ClosingInv, SlotInv
    <2>8. GateInv'
      BY <1>0, <1>1, <2>1, <2>4 DEF GateInv, StageInv, ClosingInv, HandInv, LedgerFollows, Stages
    <2>9. LeaseInv'
      BY <1>0, <1>1, <2>1, <2>4
         DEF FileTypes, Updaters, Journals, FenceTypeOK, Workers, LeaseInv, ReturnInv, fenceVars
    <2>10. WorkerInv'
      BY <1>0, <1>1, <2>1, <2>4
         DEF FileTypes, Updaters, Journals, FenceTypeOK, Workers, WorkerInv, LeaseInv, DiskInv,
             StageInv, HandInv, ClosingInv, ReturnInv, fenceVars
    <2> QED
      BY <1>1, <2>1, <2>4, <2>5, <2>6, <2>7, <2>8, <2>9, <2>10, TypedAgain
  <1>9. CASE up.pc = "validating" /\ disk' = Transition("validating") /\ up' = Failed
    <2>1. /\ up.pc = "validating" /\ slots' = slots /\ told' = told /\ ledger' = ledger
          /\ UNCHANGED fenceVars /\ disk'.stage = "validating" /\ disk'.active = disk.active
          /\ disk'.candidate = disk.candidate
      BY <1>0, <1>9, TransitionFields, StageNames
         DEF WriteStage, InMemory, OnJournal, OnDisk, gateVars, HandInv, Outside, FileTypes,
             Journals, Updaters
    <2>2. /\ up' \in Updaters /\ up'.pc \in {"down", "idle", "recover"}
          /\ up'.lease \in {0, up.lease} /\ up'.active = up.active
      BY <1>0, <1>9, <2>1, FailedFields
    <2>3. DiskInv'
      BY <1>0, <1>1, <2>1, <2>2
         DEF FileTypes, Updaters, Journals, DiskInv, ReturnInv, ActiveInv, StageInv, HandInv,
             ClosingInv, SlotInv, NoJournal
    <2>4. ActiveInv'
      BY <1>0, <1>1, <2>1, <2>2
         DEF ActiveInv, DiskInv, StageInv, HandInv, ClosingInv, FileTypes, Journals, Stages
    <2>5. LedgerFollows'
      BY <1>0, <1>1, <2>1, <2>2 DEF GateInv, StageInv, ClosingInv, HandInv, LedgerFollows, Stages
    <2>6. (Tame(Limit))'
      BY <1>0, <1>1, <2>1, <2>2
         DEF FileTypes, Updaters, Journals, FenceTypeOK, Workers, WorkerInv, LeaseInv, DiskInv,
             StageInv, HandInv, ClosingInv, ReturnInv, fenceVars
    <2> QED
      BY <1>1, <2>1, <2>2, <2>3, <2>4, <2>5, <2>6, StopKeeps, TypedAgain
  <1>10. CASE /\ up.pc = "validating" /\ disk' = Transition("validating")
             /\ up' = [up EXCEPT !.pc = "canary", !.j = Transition("validating")]
    <2>1. /\ up.pc = "validating" /\ slots' = slots /\ told' = told /\ ledger' = ledger
          /\ UNCHANGED fenceVars /\ disk'.stage = "validating" /\ disk'.active = disk.active
          /\ disk'.candidate = disk.candidate
      BY <1>0, <1>10, TransitionFields, StageNames
         DEF WriteStage, InMemory, OnJournal, OnDisk, gateVars, HandInv, Outside, FileTypes,
             Journals, Updaters
    <2>2. "canary" \in Pcs
      BY PcNames
    <2>3. Transition("validating") \in Journals(Versions, 0..MaxLeases)
      BY <1>0, <2>1, <2>2, TransitionFields, StageNames
    <2>4. /\ up' \in Updaters /\ up'.pc = "canary" /\ up'.goal = up.goal
          /\ up'.active = up.active /\ up'.policy = up.policy /\ up'.lease = up.lease
          /\ up'.reply = up.reply /\ up'.jerr = up.jerr /\ up'.cause = up.cause
          /\ up'.ret = up.ret /\ up'.j = disk'
      BY <1>0, <1>10, <2>1, <2>2, <2>3 DEF Updaters
    <2>5. ReturnInv' /\ ActiveInv' /\ StageInv' /\ HandInv' /\ ClosingInv'
      BY <1>0, <1>1, <2>1, <2>4
         DEF ReturnInv, ActiveInv, DiskInv, StageInv, HandInv, ClosingInv, FileTypes, Journals,
             Stages, Updaters, SlotInv
    <2>6. DiskInv'
      BY <1>0, <1>1, <2>1, <2>4
         DEF FileTypes, Updaters, Journals, DiskInv, ReturnInv, ActiveInv, StageInv, HandInv,
             ClosingInv, SlotInv, NoJournal
    <2>7. SlotInv'
      BY <1>0, <1>1, <2>1, <2>4
         DEF DiskInv, ReturnInv, ActiveInv, StageInv, HandInv, ClosingInv, SlotInv
    <2>8. GateInv'
      BY <1>0, <1>1, <2>1, <2>4 DEF GateInv, StageInv, ClosingInv, HandInv, LedgerFollows, Stages
    <2>9. LeaseInv'
      BY <1>0, <1>1, <2>1, <2>4
         DEF FileTypes, Updaters, Journals, FenceTypeOK, Workers, LeaseInv, ReturnInv, fenceVars
    <2>10. WorkerInv'
      BY <1>0, <1>1, <2>1, <2>4
         DEF FileTypes, Updaters, Journals, FenceTypeOK, Workers, WorkerInv, LeaseInv, DiskInv,
             StageInv, HandInv, ClosingInv, ReturnInv, fenceVars
    <2> QED
      BY <1>1, <2>1, <2>4, <2>5, <2>6, <2>7, <2>8, <2>9, <2>10, TypedAgain
  <1>11. CASE up.pc = "ready" /\ disk' = Transition("ready") /\ up' = Failed
    <2>1. /\ up.pc = "ready" /\ slots' = slots /\ told' = told /\ ledger' = ledger
          /\ UNCHANGED fenceVars /\ disk'.stage = "ready" /\ disk'.active = disk.active
          /\ disk'.candidate = disk.candidate
      BY <1>0, <1>11, TransitionFields, StageNames
         DEF WriteStage, InMemory, OnJournal, OnDisk, gateVars, HandInv, Outside, FileTypes,
             Journals, Updaters
    <2>2. /\ up' \in Updaters /\ up'.pc \in {"down", "idle", "recover"}
          /\ up'.lease \in {0, up.lease} /\ up'.active = up.active
      BY <1>0, <1>11, <2>1, FailedFields
    <2>3. DiskInv'
      BY <1>0, <1>1, <2>1, <2>2
         DEF FileTypes, Updaters, Journals, DiskInv, ReturnInv, ActiveInv, StageInv, HandInv,
             ClosingInv, SlotInv, NoJournal
    <2>4. ActiveInv'
      BY <1>0, <1>1, <2>1, <2>2
         DEF ActiveInv, DiskInv, StageInv, HandInv, ClosingInv, FileTypes, Journals, Stages
    <2>5. LedgerFollows'
      BY <1>0, <1>1, <2>1, <2>2 DEF GateInv, StageInv, ClosingInv, HandInv, LedgerFollows, Stages
    <2>6. (Tame(Limit))'
      BY <1>0, <1>1, <2>1, <2>2
         DEF FileTypes, Updaters, Journals, FenceTypeOK, Workers, WorkerInv, LeaseInv, DiskInv,
             StageInv, HandInv, ClosingInv, ReturnInv, fenceVars
    <2> QED
      BY <1>1, <2>1, <2>2, <2>3, <2>4, <2>5, <2>6, StopKeeps, TypedAgain
  <1>12. CASE /\ up.pc = "ready" /\ disk' = Transition("ready")
             /\ up' = [up EXCEPT !.pc = "draining", !.j = Transition("ready")]
    <2>1. /\ up.pc = "ready" /\ slots' = slots /\ told' = told /\ ledger' = ledger
          /\ UNCHANGED fenceVars /\ disk'.stage = "ready" /\ disk'.active = disk.active
          /\ disk'.candidate = disk.candidate
      BY <1>0, <1>12, TransitionFields, StageNames
         DEF WriteStage, InMemory, OnJournal, OnDisk, gateVars, HandInv, Outside, FileTypes,
             Journals, Updaters
    <2>2. "draining" \in Pcs
      BY PcNames
    <2>3. Transition("ready") \in Journals(Versions, 0..MaxLeases)
      BY <1>0, <2>1, <2>2, TransitionFields, StageNames
    <2>4. /\ up' \in Updaters /\ up'.pc = "draining" /\ up'.goal = up.goal
          /\ up'.active = up.active /\ up'.policy = up.policy /\ up'.lease = up.lease
          /\ up'.reply = up.reply /\ up'.jerr = up.jerr /\ up'.cause = up.cause
          /\ up'.ret = up.ret /\ up'.j = disk'
      BY <1>0, <1>12, <2>1, <2>2, <2>3 DEF Updaters
    <2>5. ReturnInv' /\ ActiveInv' /\ StageInv' /\ HandInv' /\ ClosingInv'
      BY <1>0, <1>1, <2>1, <2>4
         DEF ReturnInv, ActiveInv, DiskInv, StageInv, HandInv, ClosingInv, FileTypes, Journals,
             Stages, Updaters, SlotInv
    <2>6. DiskInv'
      BY <1>0, <1>1, <2>1, <2>4
         DEF FileTypes, Updaters, Journals, DiskInv, ReturnInv, ActiveInv, StageInv, HandInv,
             ClosingInv, SlotInv, NoJournal
    <2>7. SlotInv'
      BY <1>0, <1>1, <2>1, <2>4
         DEF DiskInv, ReturnInv, ActiveInv, StageInv, HandInv, ClosingInv, SlotInv
    <2>8. GateInv'
      BY <1>0, <1>1, <2>1, <2>4 DEF GateInv, StageInv, ClosingInv, HandInv, LedgerFollows, Stages
    <2>9. LeaseInv'
      BY <1>0, <1>1, <2>1, <2>4
         DEF FileTypes, Updaters, Journals, FenceTypeOK, Workers, LeaseInv, ReturnInv, fenceVars
    <2>10. WorkerInv'
      BY <1>0, <1>1, <2>1, <2>4
         DEF FileTypes, Updaters, Journals, FenceTypeOK, Workers, WorkerInv, LeaseInv, DiskInv,
             StageInv, HandInv, ClosingInv, ReturnInv, fenceVars
    <2> QED
      BY <1>1, <2>1, <2>4, <2>5, <2>6, <2>7, <2>8, <2>9, <2>10, TypedAgain
  <1>13. CASE up.pc = "draining" /\ disk' = Transition("draining") /\ up' = Failed
    <2>1. /\ up.pc = "draining" /\ slots' = slots /\ told' = told /\ ledger' = ledger
          /\ UNCHANGED fenceVars /\ disk'.stage = "draining" /\ disk'.active = disk.active
          /\ disk'.candidate = disk.candidate
      BY <1>0, <1>13, TransitionFields, StageNames
         DEF WriteStage, InMemory, OnJournal, OnDisk, gateVars, HandInv, Outside, FileTypes,
             Journals, Updaters
    <2>2. /\ up' \in Updaters /\ up'.pc \in {"down", "idle", "recover"}
          /\ up'.lease \in {0, up.lease} /\ up'.active = up.active
      BY <1>0, <1>13, <2>1, FailedFields
    <2>3. DiskInv'
      BY <1>0, <1>1, <2>1, <2>2
         DEF FileTypes, Updaters, Journals, DiskInv, ReturnInv, ActiveInv, StageInv, HandInv,
             ClosingInv, SlotInv, NoJournal
    <2>4. ActiveInv'
      BY <1>0, <1>1, <2>1, <2>2
         DEF ActiveInv, DiskInv, StageInv, HandInv, ClosingInv, FileTypes, Journals, Stages
    <2>5. LedgerFollows'
      BY <1>0, <1>1, <2>1, <2>2 DEF GateInv, StageInv, ClosingInv, HandInv, LedgerFollows, Stages
    <2>6. (Tame(Limit))'
      BY <1>0, <1>1, <2>1, <2>2
         DEF FileTypes, Updaters, Journals, FenceTypeOK, Workers, WorkerInv, LeaseInv, DiskInv,
             StageInv, HandInv, ClosingInv, ReturnInv, fenceVars
    <2> QED
      BY <1>1, <2>1, <2>2, <2>3, <2>4, <2>5, <2>6, StopKeeps, TypedAgain
  <1>14. CASE /\ up.pc = "draining" /\ disk' = Transition("draining")
             /\ up' = [up EXCEPT !.pc = "drain", !.j = Transition("draining")]
    <2>1. /\ up.pc = "draining" /\ slots' = slots /\ told' = told /\ ledger' = ledger
          /\ UNCHANGED fenceVars /\ disk'.stage = "draining" /\ disk'.active = disk.active
          /\ disk'.candidate = disk.candidate
      BY <1>0, <1>14, TransitionFields, StageNames
         DEF WriteStage, InMemory, OnJournal, OnDisk, gateVars, HandInv, Outside, FileTypes,
             Journals, Updaters
    <2>2. "drain" \in Pcs
      BY PcNames
    <2>3. Transition("draining") \in Journals(Versions, 0..MaxLeases)
      BY <1>0, <2>1, <2>2, TransitionFields, StageNames
    <2>4. /\ up' \in Updaters /\ up'.pc = "drain" /\ up'.goal = up.goal
          /\ up'.active = up.active /\ up'.policy = up.policy /\ up'.lease = up.lease
          /\ up'.reply = up.reply /\ up'.jerr = up.jerr /\ up'.cause = up.cause
          /\ up'.ret = up.ret /\ up'.j = disk'
      BY <1>0, <1>14, <2>1, <2>2, <2>3 DEF Updaters
    <2>5. ReturnInv' /\ ActiveInv' /\ StageInv' /\ HandInv' /\ ClosingInv'
      BY <1>0, <1>1, <2>1, <2>4
         DEF ReturnInv, ActiveInv, DiskInv, StageInv, HandInv, ClosingInv, FileTypes, Journals,
             Stages, Updaters, SlotInv
    <2>6. DiskInv'
      BY <1>0, <1>1, <2>1, <2>4
         DEF FileTypes, Updaters, Journals, DiskInv, ReturnInv, ActiveInv, StageInv, HandInv,
             ClosingInv, SlotInv, NoJournal
    <2>7. SlotInv'
      BY <1>0, <1>1, <2>1, <2>4
         DEF DiskInv, ReturnInv, ActiveInv, StageInv, HandInv, ClosingInv, SlotInv
    <2>8. GateInv'
      BY <1>0, <1>1, <2>1, <2>4 DEF GateInv, StageInv, ClosingInv, HandInv, LedgerFollows, Stages
    <2>9. LeaseInv'
      BY <1>0, <1>1, <2>1, <2>4
         DEF FileTypes, Updaters, Journals, FenceTypeOK, Workers, LeaseInv, ReturnInv, fenceVars
    <2>10. WorkerInv'
      BY <1>0, <1>1, <2>1, <2>4
         DEF FileTypes, Updaters, Journals, FenceTypeOK, Workers, WorkerInv, LeaseInv, DiskInv,
             StageInv, HandInv, ClosingInv, ReturnInv, fenceVars
    <2> QED
      BY <1>1, <2>1, <2>4, <2>5, <2>6, <2>7, <2>8, <2>9, <2>10, TypedAgain
  <1>15. CASE up.pc = "monitoring" /\ disk' = Transition("monitoring") /\ up' = Failed
    <2>1. /\ up.pc = "monitoring" /\ slots' = slots /\ told' = told /\ ledger' = ledger
          /\ UNCHANGED fenceVars /\ disk'.stage = "monitoring" /\ disk'.active = disk.active
          /\ disk'.candidate = disk.candidate
      BY <1>0, <1>15, TransitionFields, StageNames
         DEF WriteStage, InMemory, OnJournal, OnDisk, gateVars, HandInv, Outside, FileTypes,
             Journals, Updaters
    <2>2. /\ up' \in Updaters /\ up'.pc \in {"down", "idle", "recover"}
          /\ up'.lease \in {0, up.lease} /\ up'.active = up.active
      BY <1>0, <1>15, <2>1, FailedFields
    <2>3. DiskInv'
      BY <1>0, <1>1, <2>1, <2>2
         DEF FileTypes, Updaters, Journals, DiskInv, ReturnInv, ActiveInv, StageInv, HandInv,
             ClosingInv, SlotInv, NoJournal
    <2>4. ActiveInv'
      BY <1>0, <1>1, <2>1, <2>2
         DEF ActiveInv, DiskInv, StageInv, HandInv, ClosingInv, FileTypes, Journals, Stages
    <2>5. LedgerFollows'
      BY <1>0, <1>1, <2>1, <2>2 DEF GateInv, StageInv, ClosingInv, HandInv, LedgerFollows, Stages
    <2>6. (Tame(Limit))'
      BY <1>0, <1>1, <2>1, <2>2
         DEF FileTypes, Updaters, Journals, FenceTypeOK, Workers, WorkerInv, LeaseInv, DiskInv,
             StageInv, HandInv, ClosingInv, ReturnInv, fenceVars
    <2> QED
      BY <1>1, <2>1, <2>2, <2>3, <2>4, <2>5, <2>6, StopKeeps, TypedAgain
  <1>16. CASE /\ up.pc = "monitoring" /\ disk' = Transition("monitoring")
             /\ up' = [up EXCEPT !.pc = "monitor", !.j = Transition("monitoring")]
    <2>1. /\ up.pc = "monitoring" /\ slots' = slots /\ told' = told /\ ledger' = ledger
          /\ UNCHANGED fenceVars /\ disk'.stage = "monitoring" /\ disk'.active = disk.active
          /\ disk'.candidate = disk.candidate
      BY <1>0, <1>16, TransitionFields, StageNames
         DEF WriteStage, InMemory, OnJournal, OnDisk, gateVars, HandInv, Outside, FileTypes,
             Journals, Updaters
    <2>2. "monitor" \in Pcs
      BY PcNames
    <2>3. Transition("monitoring") \in Journals(Versions, 0..MaxLeases)
      BY <1>0, <2>1, <2>2, TransitionFields, StageNames
    <2>4. /\ up' \in Updaters /\ up'.pc = "monitor" /\ up'.goal = up.goal
          /\ up'.active = up.active /\ up'.policy = up.policy /\ up'.lease = up.lease
          /\ up'.reply = up.reply /\ up'.jerr = up.jerr /\ up'.cause = up.cause
          /\ up'.ret = up.ret /\ up'.j = disk'
      BY <1>0, <1>16, <2>1, <2>2, <2>3 DEF Updaters
    <2>5. ReturnInv' /\ ActiveInv' /\ StageInv' /\ HandInv' /\ ClosingInv'
      BY <1>0, <1>1, <2>1, <2>4
         DEF ReturnInv, ActiveInv, DiskInv, StageInv, HandInv, ClosingInv, FileTypes, Journals,
             Stages, Updaters, SlotInv
    <2>6. DiskInv'
      BY <1>0, <1>1, <2>1, <2>4
         DEF FileTypes, Updaters, Journals, DiskInv, ReturnInv, ActiveInv, StageInv, HandInv,
             ClosingInv, SlotInv, NoJournal
    <2>7. SlotInv'
      BY <1>0, <1>1, <2>1, <2>4
         DEF DiskInv, ReturnInv, ActiveInv, StageInv, HandInv, ClosingInv, SlotInv
    <2>8. GateInv'
      BY <1>0, <1>1, <2>1, <2>4 DEF GateInv, StageInv, ClosingInv, HandInv, LedgerFollows, Stages
    <2>9. LeaseInv'
      BY <1>0, <1>1, <2>1, <2>4
         DEF FileTypes, Updaters, Journals, FenceTypeOK, Workers, LeaseInv, ReturnInv, fenceVars
    <2>10. WorkerInv'
      BY <1>0, <1>1, <2>1, <2>4
         DEF FileTypes, Updaters, Journals, FenceTypeOK, Workers, WorkerInv, LeaseInv, DiskInv,
             StageInv, HandInv, ClosingInv, ReturnInv, fenceVars
    <2> QED
      BY <1>1, <2>1, <2>4, <2>5, <2>6, <2>7, <2>8, <2>9, <2>10, TypedAgain
  <1>17. CASE up.pc = "committed" /\ disk' = Transition("committed") /\ up' = Failed
    <2>1. /\ up.pc = "committed" /\ slots' = slots /\ told' = told /\ ledger' = ledger
          /\ UNCHANGED fenceVars /\ disk'.stage = "committed" /\ disk'.active = disk.active
          /\ disk'.candidate = disk.candidate
      BY <1>0, <1>17, TransitionFields, StageNames
         DEF WriteStage, InMemory, OnJournal, OnDisk, gateVars, HandInv, Outside, FileTypes,
             Journals, Updaters
    <2>2. /\ up' \in Updaters /\ up'.pc \in {"down", "idle", "recover"}
          /\ up'.lease \in {0, up.lease} /\ up'.active = up.active
      BY <1>0, <1>17, <2>1, FailedFields
    <2>3. DiskInv'
      BY <1>0, <1>1, <2>1, <2>2
         DEF FileTypes, Updaters, Journals, DiskInv, ReturnInv, ActiveInv, StageInv, HandInv,
             ClosingInv, SlotInv, NoJournal
    <2>4. ActiveInv'
      BY <1>0, <1>1, <2>1, <2>2
         DEF ActiveInv, DiskInv, StageInv, HandInv, ClosingInv, FileTypes, Journals, Stages
    <2>5. LedgerFollows'
      BY <1>0, <1>1, <2>1, <2>2 DEF GateInv, StageInv, ClosingInv, HandInv, LedgerFollows, Stages
    <2>6. (Tame(Limit))'
      BY <1>0, <1>1, <2>1, <2>2
         DEF FileTypes, Updaters, Journals, FenceTypeOK, Workers, WorkerInv, LeaseInv, DiskInv,
             StageInv, HandInv, ClosingInv, ReturnInv, fenceVars
    <2> QED
      BY <1>1, <2>1, <2>2, <2>3, <2>4, <2>5, <2>6, StopKeeps, TypedAgain
  <1>18. CASE /\ up.pc = "committed" /\ disk' = Transition("committed")
             /\ up' = [up EXCEPT !.pc = "commit", !.j = Transition("committed")]
    <2>1. /\ up.pc = "committed" /\ slots' = slots /\ told' = told /\ ledger' = ledger
          /\ UNCHANGED fenceVars /\ disk'.stage = "committed" /\ disk'.active = disk.active
          /\ disk'.candidate = disk.candidate
      BY <1>0, <1>18, TransitionFields, StageNames
         DEF WriteStage, InMemory, OnJournal, OnDisk, gateVars, HandInv, Outside, FileTypes,
             Journals, Updaters
    <2>2. "commit" \in Pcs
      BY PcNames
    <2>3. Transition("committed") \in Journals(Versions, 0..MaxLeases)
      BY <1>0, <2>1, <2>2, TransitionFields, StageNames
    <2>4. /\ up' \in Updaters /\ up'.pc = "commit" /\ up'.goal = up.goal
          /\ up'.active = up.active /\ up'.policy = up.policy /\ up'.lease = up.lease
          /\ up'.reply = up.reply /\ up'.jerr = up.jerr /\ up'.cause = up.cause
          /\ up'.ret = up.ret /\ up'.j = disk'
      BY <1>0, <1>18, <2>1, <2>2, <2>3 DEF Updaters
    <2>5. ReturnInv' /\ ActiveInv' /\ StageInv' /\ HandInv' /\ ClosingInv'
      BY <1>0, <1>1, <2>1, <2>4
         DEF ReturnInv, ActiveInv, DiskInv, StageInv, HandInv, ClosingInv, FileTypes, Journals,
             Stages, Updaters, SlotInv
    <2>6. DiskInv'
      BY <1>0, <1>1, <2>1, <2>4
         DEF FileTypes, Updaters, Journals, DiskInv, ReturnInv, ActiveInv, StageInv, HandInv,
             ClosingInv, SlotInv, NoJournal
    <2>7. SlotInv'
      BY <1>0, <1>1, <2>1, <2>4
         DEF DiskInv, ReturnInv, ActiveInv, StageInv, HandInv, ClosingInv, SlotInv
    <2>8. GateInv'
      BY <1>0, <1>1, <2>1, <2>4 DEF GateInv, StageInv, ClosingInv, HandInv, LedgerFollows, Stages
    <2>9. LeaseInv'
      BY <1>0, <1>1, <2>1, <2>4
         DEF FileTypes, Updaters, Journals, FenceTypeOK, Workers, LeaseInv, ReturnInv, fenceVars
    <2>10. WorkerInv'
      BY <1>0, <1>1, <2>1, <2>4
         DEF FileTypes, Updaters, Journals, FenceTypeOK, Workers, WorkerInv, LeaseInv, DiskInv,
             StageInv, HandInv, ClosingInv, ReturnInv, fenceVars
    <2> QED
      BY <1>1, <2>1, <2>4, <2>5, <2>6, <2>7, <2>8, <2>9, <2>10, TypedAgain
  <1> QED
    <2>1. up.pc \in {"checking", "staged", "started", "validating", "ready", "draining",
                    "monitoring", "committed"}
      BY DEF WriteStage, AfterWrite
    <2>2. CASE up.pc = "checking"
      BY <1>2, <1>3, <1>4, <2>2 DEF WriteStage, Write, AfterWrite
    <2>3. CASE up.pc = "staged"
      BY <1>2, <1>5, <1>6, <2>3 DEF WriteStage, Write, AfterWrite
    <2>4. CASE up.pc = "started"
      BY <1>2, <1>7, <1>8, <2>4 DEF WriteStage, Write, AfterWrite
    <2>5. CASE up.pc = "validating"
      BY <1>2, <1>9, <1>10, <2>5 DEF WriteStage, Write, AfterWrite
    <2>6. CASE up.pc = "ready"
      BY <1>2, <1>11, <1>12, <2>6 DEF WriteStage, Write, AfterWrite
    <2>7. CASE up.pc = "draining"
      BY <1>2, <1>13, <1>14, <2>7 DEF WriteStage, Write, AfterWrite
    <2>8. CASE up.pc = "monitoring"
      BY <1>2, <1>15, <1>16, <2>8 DEF WriteStage, Write, AfterWrite
    <2>9. CASE up.pc = "committed"
      BY <1>2, <1>17, <1>18, <2>9 DEF WriteStage, Write, AfterWrite
    <2> QED BY <2>1, <2>2, <2>3, <2>4, <2>5, <2>6, <2>7, <2>8, <2>9

LEMMA WriteCutoverKeeps ==
    ASSUME TypeOK, UpdateInv, WriteCutover
    PROVE  TypeOK' /\ UpdateInv'
PROOF
  <1> USE Numbers
      DEF UpdateInv, Aside, BeforeCutover, Closing, Handling, Home, Limit, Outside, Swapped, Tame
  <1>0. FenceTypeOK /\ GateTypeOK /\ FileTypes /\ CountTypes /\ up \in Updaters
    BY TypeParts
  <1>1. FenceTypeOK' /\ GateTypeOK' /\ FileTypes' /\ CountTypes'
    BY <1>0, FaultCounted, TransitionFields, StageNames
       DEF FenceTypeOK, GateTypeOK, FileTypes, CountTypes, WriteCutover, Write, InMemory,
           OnJournal, OnDisk, fenceVars, gateVars
  <1>2. CASE /\ disk' = Transition("cutover")
             /\ up' = [up EXCEPT !.pc = "promote1", !.ret = "promoted",
                                                              !.j = Transition("cutover")]
    <2>1. /\ up.pc = "cutover" /\ slots' = slots /\ told' = told /\ ledger' = ledger
          /\ UNCHANGED fenceVars /\ disk'.stage = "cutover" /\ disk'.active = disk.active
          /\ disk'.candidate = disk.candidate
      BY <1>0, <1>2, TransitionFields, StageNames
         DEF WriteCutover, InMemory, OnJournal, OnDisk, gateVars, HandInv, Outside
    <2>2. "promote1" \in Pcs
      BY PcNames
    <2>3. Transition("cutover") \in Journals(Versions, 0..MaxLeases)
      BY <1>0, <2>1, <2>2, TransitionFields, StageNames
    <2>4. /\ up' \in Updaters /\ up'.pc = "promote1" /\ up'.goal = up.goal
          /\ up'.active = up.active /\ up'.policy = up.policy /\ up'.lease = up.lease
          /\ up'.reply = up.reply /\ up'.jerr = up.jerr /\ up'.cause = up.cause
          /\ up'.ret = "promoted" /\ up'.j = disk'
      BY <1>0, <1>2, <2>1, <2>2, <2>3 DEF Updaters
    <2>5. ReturnInv' /\ ActiveInv' /\ StageInv' /\ HandInv' /\ ClosingInv'
      BY <1>0, <1>1, <2>1, <2>4
         DEF ReturnInv, ActiveInv, DiskInv, StageInv, HandInv, ClosingInv, FileTypes, Journals,
             Stages, Updaters, SlotInv
    <2>6. DiskInv'
      BY <1>0, <1>1, <2>1, <2>4
         DEF FileTypes, Updaters, Journals, DiskInv, ReturnInv, ActiveInv, StageInv, HandInv,
             ClosingInv, SlotInv, NoJournal
    <2>7. SlotInv'
      BY <1>0, <1>1, <2>1, <2>4
         DEF DiskInv, ReturnInv, ActiveInv, StageInv, HandInv, ClosingInv, SlotInv
    <2>8. GateInv'
      BY <1>0, <1>1, <2>1, <2>4 DEF GateInv, StageInv, ClosingInv, HandInv, LedgerFollows, Stages
    <2>9. LeaseInv'
      BY <1>0, <1>1, <2>1, <2>4
         DEF FileTypes, Updaters, Journals, FenceTypeOK, Workers, LeaseInv, ReturnInv, fenceVars
    <2>10. WorkerInv'
      BY <1>0, <1>1, <2>1, <2>4
         DEF FileTypes, Updaters, Journals, FenceTypeOK, Workers, WorkerInv, LeaseInv, DiskInv,
             StageInv, HandInv, ClosingInv, ReturnInv, fenceVars
    <2> QED
      BY <1>1, <2>1, <2>4, <2>5, <2>6, <2>7, <2>8, <2>9, <2>10, TypedAgain
  <1>3. CASE /\ disk' = Transition("cutover")
             /\ up' = [up EXCEPT !.pc = "restore", !.j = Transition("cutover")]
    <2>1. /\ up.pc = "cutover" /\ slots' = slots /\ told' = told /\ ledger' = ledger
          /\ UNCHANGED fenceVars /\ disk'.stage = "cutover" /\ disk'.active = disk.active
          /\ disk'.candidate = disk.candidate
      BY <1>0, <1>3, TransitionFields, StageNames
         DEF WriteCutover, InMemory, OnJournal, OnDisk, gateVars, HandInv, Outside
    <2>2. "restore" \in Pcs
      BY PcNames
    <2>3. Transition("cutover") \in Journals(Versions, 0..MaxLeases)
      BY <1>0, <2>1, <2>2, TransitionFields, StageNames
    <2>4. /\ up' \in Updaters /\ up'.pc = "restore" /\ up'.goal = up.goal
          /\ up'.active = up.active /\ up'.policy = up.policy /\ up'.lease = up.lease
          /\ up'.reply = up.reply /\ up'.jerr = up.jerr /\ up'.cause = up.cause
          /\ up'.ret = up.ret /\ up'.j = disk'
      BY <1>0, <1>3, <2>1, <2>2, <2>3 DEF Updaters
    <2>5. ReturnInv' /\ ActiveInv' /\ StageInv' /\ HandInv' /\ ClosingInv'
      BY <1>0, <1>1, <2>1, <2>4
         DEF ReturnInv, ActiveInv, DiskInv, StageInv, HandInv, ClosingInv, FileTypes, Journals,
             Stages, Updaters, SlotInv
    <2>6. DiskInv'
      BY <1>0, <1>1, <2>1, <2>4
         DEF FileTypes, Updaters, Journals, DiskInv, ReturnInv, ActiveInv, StageInv, HandInv,
             ClosingInv, SlotInv, NoJournal
    <2>7. SlotInv'
      BY <1>0, <1>1, <2>1, <2>4
         DEF DiskInv, ReturnInv, ActiveInv, StageInv, HandInv, ClosingInv, SlotInv
    <2>8. GateInv'
      BY <1>0, <1>1, <2>1, <2>4 DEF GateInv, StageInv, ClosingInv, HandInv, LedgerFollows, Stages
    <2>9. LeaseInv'
      BY <1>0, <1>1, <2>1, <2>4
         DEF FileTypes, Updaters, Journals, FenceTypeOK, Workers, LeaseInv, ReturnInv, fenceVars
    <2>10. WorkerInv'
      BY <1>0, <1>1, <2>1, <2>4
         DEF FileTypes, Updaters, Journals, FenceTypeOK, Workers, WorkerInv, LeaseInv, DiskInv,
             StageInv, HandInv, ClosingInv, ReturnInv, fenceVars
    <2> QED
      BY <1>1, <2>1, <2>4, <2>5, <2>6, <2>7, <2>8, <2>9, <2>10, TypedAgain
  <1>4. CASE disk' = disk /\ up' = [up EXCEPT !.pc = "restore", !.j = Transition("cutover")]
    <2>1. /\ up.pc = "cutover" /\ disk' = disk /\ slots' = slots /\ told' = told
          /\ ledger' = ledger /\ UNCHANGED fenceVars
      BY <1>0, <1>4, TransitionFields, StageNames
         DEF WriteCutover, InMemory, OnJournal, OnDisk, gateVars, HandInv, Outside
    <2>2. "restore" \in Pcs
      BY PcNames
    <2>3. /\ Transition("cutover") \in Journals(Versions, 0..MaxLeases)
          /\ Transition("cutover").active = up.j.active
          /\ Transition("cutover").candidate = up.j.candidate
      BY <1>0, <2>1, <2>2, TransitionFields, StageNames
    <2>4. /\ up' \in Updaters /\ up'.pc = "restore" /\ up'.goal = up.goal
          /\ up'.active = up.active /\ up'.policy = up.policy /\ up'.lease = up.lease
          /\ up'.reply = up.reply /\ up'.jerr = up.jerr /\ up'.cause = up.cause
          /\ up'.ret = up.ret /\ up'.j.active = up.j.active /\ up'.j.candidate = up.j.candidate
      BY <1>0, <1>4, <2>1, <2>2, <2>3 DEF Updaters
    <2>5. ReturnInv' /\ ActiveInv' /\ StageInv' /\ HandInv' /\ ClosingInv'
      BY <1>0, <1>1, <2>1, <2>4
         DEF ReturnInv, ActiveInv, DiskInv, StageInv, HandInv, ClosingInv, FileTypes, Journals,
             Stages, Updaters, SlotInv
    <2>6. SlotInv'
      BY <1>0, <1>1, <2>1, <2>4
         DEF DiskInv, ReturnInv, ActiveInv, StageInv, HandInv, ClosingInv, SlotInv
    <2>7. DiskInv'
      BY <2>1 DEF DiskInv
    <2>8. GateInv'
      BY <1>0, <1>1, <2>1, <2>4 DEF GateInv, StageInv, ClosingInv, HandInv, LedgerFollows, Stages
    <2>9. LeaseInv'
      BY <1>0, <1>1, <2>1, <2>4
         DEF FileTypes, Updaters, Journals, FenceTypeOK, Workers, LeaseInv, ReturnInv, fenceVars
    <2>10. WorkerInv'
      BY <1>0, <1>1, <2>1, <2>4
         DEF FileTypes, Updaters, Journals, FenceTypeOK, Workers, WorkerInv, LeaseInv, DiskInv,
             StageInv, HandInv, ClosingInv, ReturnInv, fenceVars
    <2> QED
      BY <1>1, <2>1, <2>4, <2>5, <2>6, <2>7, <2>8, <2>9, <2>10, TypedAgain
  <1> QED
    BY <1>0, <1>1, <1>2, <1>3, <1>4, TypedAgain DEF WriteCutover, Write

LEMMA WritePromotedKeeps ==
    ASSUME TypeOK, UpdateInv, WritePromoted
    PROVE  TypeOK' /\ UpdateInv'
PROOF
  <1> USE Numbers
      DEF UpdateInv, Aside, BeforeCutover, Closing, Handling, Home, Limit, Outside, Swapped, Tame
  <1>0. FenceTypeOK /\ GateTypeOK /\ FileTypes /\ CountTypes /\ up \in Updaters
    BY TypeParts
  <1>1. FenceTypeOK' /\ GateTypeOK' /\ FileTypes' /\ CountTypes'
    BY <1>0, FaultCounted
       DEF FenceTypeOK, GateTypeOK, FileTypes, CountTypes, WritePromoted, Write, Updaters,
           InMemory, OnJournal, OnDisk, fenceVars, gateVars
  <1>2. CASE disk' = up.j /\ up' = Goto("activate")
    <2>1. /\ up.pc = "promoted" /\ slots' = slots /\ told' = told /\ ledger' = ledger
          /\ UNCHANGED fenceVars /\ disk'.stage = "cutover" /\ disk'.active = disk.active
          /\ disk'.candidate = disk.candidate
      BY <1>0, <1>2 DEF WritePromoted, InMemory, OnJournal, OnDisk, gateVars, HandInv, Outside
    <2>2. "activate" \in Pcs
      BY PcNames
    <2>3. /\ up' \in Updaters /\ up'.pc = "activate" /\ up'.goal = up.goal
          /\ up'.active = up.active /\ up'.j = up.j /\ up'.policy = up.policy
          /\ up'.lease = up.lease /\ up'.reply = up.reply /\ up'.jerr = up.jerr
          /\ up'.cause = up.cause /\ up'.ret = up.ret
      BY <1>0, <1>2, <2>1, <2>2, GotoFields
    <2>4. ReturnInv' /\ ActiveInv' /\ StageInv' /\ HandInv' /\ ClosingInv'
      BY <1>0, <1>1, <2>1, <2>3
         DEF ReturnInv, ActiveInv, DiskInv, StageInv, HandInv, ClosingInv, FileTypes, Journals,
             Stages, Updaters, SlotInv
    <2>5. DiskInv'
      BY <1>0, <1>1, <2>1, <2>3
         DEF FileTypes, Updaters, Journals, DiskInv, ReturnInv, ActiveInv, StageInv, HandInv,
             ClosingInv, SlotInv, NoJournal
    <2>6. SlotInv'
      BY <1>0, <1>1, <2>1, <2>3
         DEF DiskInv, ReturnInv, ActiveInv, StageInv, HandInv, ClosingInv, SlotInv
    <2>7. GateInv'
      BY <1>0, <1>1, <2>1, <2>3 DEF GateInv, StageInv, ClosingInv, HandInv, LedgerFollows, Stages
    <2>8. LeaseInv'
      BY <1>0, <1>1, <2>1, <2>3
         DEF FileTypes, Updaters, Journals, FenceTypeOK, Workers, LeaseInv, ReturnInv, fenceVars
    <2>9. WorkerInv'
      BY <1>0, <1>1, <2>1, <2>3
         DEF FileTypes, Updaters, Journals, FenceTypeOK, Workers, WorkerInv, LeaseInv, DiskInv,
             StageInv, HandInv, ClosingInv, ReturnInv, fenceVars
    <2> QED
      BY <1>1, <2>1, <2>3, <2>4, <2>5, <2>6, <2>7, <2>8, <2>9, TypedAgain
  <1>3. CASE disk' \in {disk, up.j} /\ up' = [up EXCEPT !.pc = "storage1", !.ret = "restore"]
    <2>1. /\ up.pc = "promoted" /\ slots' = slots /\ told' = told /\ ledger' = ledger
          /\ UNCHANGED fenceVars /\ disk'.stage = "cutover" /\ disk'.active = disk.active
          /\ disk'.candidate = disk.candidate
      BY <1>0, <1>3
         DEF WritePromoted, InMemory, OnJournal, OnDisk, gateVars, HandInv, StageInv, Outside
    <2>2. "storage1" \in Pcs
      BY PcNames
    <2>3. /\ up' \in Updaters /\ up'.pc = "storage1" /\ up'.goal = up.goal
          /\ up'.active = up.active /\ up'.j = up.j /\ up'.policy = up.policy
          /\ up'.lease = up.lease /\ up'.reply = up.reply /\ up'.jerr = up.jerr
          /\ up'.cause = up.cause /\ up'.ret = "restore"
      BY <1>0, <1>3, <2>1, <2>2 DEF Updaters
    <2>4. ReturnInv' /\ ActiveInv' /\ StageInv' /\ HandInv' /\ ClosingInv'
      BY <1>0, <1>1, <2>1, <2>3
         DEF ReturnInv, ActiveInv, DiskInv, StageInv, HandInv, ClosingInv, FileTypes, Journals,
             Stages, Updaters, SlotInv
    <2>5. DiskInv'
      BY <1>0, <1>1, <2>1, <2>3
         DEF FileTypes, Updaters, Journals, DiskInv, ReturnInv, ActiveInv, StageInv, HandInv,
             ClosingInv, SlotInv, NoJournal
    <2>6. SlotInv'
      BY <1>0, <1>1, <2>1, <2>3
         DEF DiskInv, ReturnInv, ActiveInv, StageInv, HandInv, ClosingInv, SlotInv
    <2>7. GateInv'
      BY <1>0, <1>1, <2>1, <2>3 DEF GateInv, StageInv, ClosingInv, HandInv, LedgerFollows, Stages
    <2>8. LeaseInv'
      BY <1>0, <1>1, <2>1, <2>3
         DEF FileTypes, Updaters, Journals, FenceTypeOK, Workers, LeaseInv, ReturnInv, fenceVars
    <2>9. WorkerInv'
      BY <1>0, <1>1, <2>1, <2>3
         DEF FileTypes, Updaters, Journals, FenceTypeOK, Workers, WorkerInv, LeaseInv, DiskInv,
             StageInv, HandInv, ClosingInv, ReturnInv, fenceVars
    <2> QED
      BY <1>1, <2>1, <2>3, <2>4, <2>5, <2>6, <2>7, <2>8, <2>9, TypedAgain
  <1> QED
    BY <1>0, <1>1, <1>2, <1>3, TypedAgain DEF WritePromoted, Write

LEMMA RestoreBeginKeeps ==
    ASSUME TypeOK, UpdateInv, RestoreBegin
    PROVE  TypeOK' /\ UpdateInv'
PROOF
  <1> USE Numbers
      DEF UpdateInv, Aside, BeforeCutover, Closing, Handling, Home, Limit, Outside, Swapped, Tame
  <1>0. FenceTypeOK /\ GateTypeOK /\ FileTypes /\ CountTypes /\ up \in Updaters
    BY TypeParts
  <1>1. FenceTypeOK' /\ GateTypeOK' /\ FileTypes' /\ CountTypes'
    BY <1>0, FaultCounted, RolledBackFields
       DEF FenceTypeOK, GateTypeOK, FileTypes, CountTypes, RestoreBegin, Write, RolledBack,
           InMemory, OnJournal, OnDisk, fenceVars, gateVars
  <1>2. CASE disk' = RolledBack /\ up' = [up EXCEPT !.pc = "restoregate", !.j = RolledBack]
    <2>1. /\ up.pc = "restore" /\ slots' = slots /\ told' = told /\ ledger' = ledger
          /\ UNCHANGED fenceVars /\ disk'.stage = "rollback" /\ disk'.active = disk.active
          /\ disk'.candidate = disk.candidate
      BY <1>0, <1>2, RolledBackFields
         DEF RestoreBegin, InMemory, OnJournal, OnDisk, gateVars, HandInv, Outside
    <2>2. "restoregate" \in Pcs
      BY PcNames
    <2>3. RolledBack \in Journals(Versions, 0..MaxLeases)
      BY <1>0, <2>1, <2>2, RolledBackFields
    <2>4. /\ up' \in Updaters /\ up'.pc = "restoregate" /\ up'.goal = up.goal
          /\ up'.active = up.active /\ up'.policy = up.policy /\ up'.lease = up.lease
          /\ up'.reply = up.reply /\ up'.jerr = up.jerr /\ up'.cause = up.cause
          /\ up'.ret = up.ret /\ up'.j = disk'
      BY <1>0, <1>2, <2>1, <2>2, <2>3 DEF Updaters
    <2>5. ReturnInv' /\ ActiveInv' /\ StageInv' /\ HandInv' /\ ClosingInv'
      BY <1>0, <1>1, <2>1, <2>4
         DEF ReturnInv, ActiveInv, DiskInv, StageInv, HandInv, ClosingInv, FileTypes, Journals,
             Stages, Updaters, SlotInv
    <2>6. DiskInv'
      BY <1>0, <1>1, <2>1, <2>4
         DEF FileTypes, Updaters, Journals, DiskInv, ReturnInv, ActiveInv, StageInv, HandInv,
             ClosingInv, SlotInv, NoJournal
    <2>7. SlotInv'
      BY <1>0, <1>1, <2>1, <2>4
         DEF DiskInv, ReturnInv, ActiveInv, StageInv, HandInv, ClosingInv, SlotInv
    <2>8. GateInv'
      BY <1>0, <1>1, <2>1, <2>4 DEF GateInv, StageInv, ClosingInv, HandInv, LedgerFollows, Stages
    <2>9. LeaseInv'
      BY <1>0, <1>1, <2>1, <2>4
         DEF FileTypes, Updaters, Journals, FenceTypeOK, Workers, LeaseInv, ReturnInv, fenceVars
    <2>10. WorkerInv'
      BY <1>0, <1>1, <2>1, <2>4
         DEF FileTypes, Updaters, Journals, FenceTypeOK, Workers, WorkerInv, LeaseInv, DiskInv,
             StageInv, HandInv, ClosingInv, ReturnInv, fenceVars
    <2> QED
      BY <1>1, <2>1, <2>4, <2>5, <2>6, <2>7, <2>8, <2>9, <2>10, TypedAgain
  <1>3. CASE /\ disk' = RolledBack
             /\ up' = [up EXCEPT !.pc = "restoregate", !.j = RolledBack, !.jerr = TRUE]
    <2>1. /\ up.pc = "restore" /\ slots' = slots /\ told' = told /\ ledger' = ledger
          /\ UNCHANGED fenceVars /\ disk'.stage = "rollback" /\ disk'.active = disk.active
          /\ disk'.candidate = disk.candidate
      BY <1>0, <1>3, RolledBackFields
         DEF RestoreBegin, InMemory, OnJournal, OnDisk, gateVars, HandInv, Outside
    <2>2. "restoregate" \in Pcs
      BY PcNames
    <2>3. RolledBack \in Journals(Versions, 0..MaxLeases)
      BY <1>0, <2>1, <2>2, RolledBackFields
    <2>4. /\ up' \in Updaters /\ up'.pc = "restoregate" /\ up'.goal = up.goal
          /\ up'.active = up.active /\ up'.policy = up.policy /\ up'.lease = up.lease
          /\ up'.reply = up.reply /\ up'.cause = up.cause /\ up'.ret = up.ret /\ up'.j = disk'
      BY <1>0, <1>3, <2>1, <2>2, <2>3 DEF Updaters
    <2>5. ReturnInv' /\ ActiveInv' /\ StageInv' /\ HandInv' /\ ClosingInv'
      BY <1>0, <1>1, <2>1, <2>4
         DEF ReturnInv, ActiveInv, DiskInv, StageInv, HandInv, ClosingInv, FileTypes, Journals,
             Stages, Updaters, SlotInv
    <2>6. DiskInv'
      BY <1>0, <1>1, <2>1, <2>4
         DEF FileTypes, Updaters, Journals, DiskInv, ReturnInv, ActiveInv, StageInv, HandInv,
             ClosingInv, SlotInv, NoJournal
    <2>7. SlotInv'
      BY <1>0, <1>1, <2>1, <2>4
         DEF DiskInv, ReturnInv, ActiveInv, StageInv, HandInv, ClosingInv, SlotInv
    <2>8. GateInv'
      BY <1>0, <1>1, <2>1, <2>4 DEF GateInv, StageInv, ClosingInv, HandInv, LedgerFollows, Stages
    <2>9. LeaseInv'
      BY <1>0, <1>1, <2>1, <2>4
         DEF FileTypes, Updaters, Journals, FenceTypeOK, Workers, LeaseInv, ReturnInv, fenceVars
    <2>10. WorkerInv'
      BY <1>0, <1>1, <2>1, <2>4
         DEF FileTypes, Updaters, Journals, FenceTypeOK, Workers, WorkerInv, LeaseInv, DiskInv,
             StageInv, HandInv, ClosingInv, ReturnInv, fenceVars
    <2> QED
      BY <1>1, <2>1, <2>4, <2>5, <2>6, <2>7, <2>8, <2>9, <2>10, TypedAgain
  <1>4. CASE /\ disk' = disk
             /\ up' = [up EXCEPT !.pc = "restoregate", !.j = RolledBack, !.jerr = TRUE]
    <2>1. /\ up.pc = "restore" /\ disk' = disk /\ slots' = slots /\ told' = told
          /\ ledger' = ledger /\ UNCHANGED fenceVars
      BY <1>0, <1>4 DEF RestoreBegin, InMemory, OnJournal, OnDisk, gateVars
    <2>2. "restoregate" \in Pcs
      BY PcNames
    <2>3. /\ RolledBack \in Journals(Versions, 0..MaxLeases) /\ RolledBack.active = up.j.active
          /\ RolledBack.candidate = up.j.candidate
      BY <1>0, <2>1, <2>2, RolledBackFields
    <2>4. /\ up' \in Updaters /\ up'.pc = "restoregate" /\ up'.goal = up.goal
          /\ up'.active = up.active /\ up'.policy = up.policy /\ up'.lease = up.lease
          /\ up'.reply = up.reply /\ up'.cause = up.cause /\ up'.ret = up.ret
          /\ up'.jerr = TRUE /\ up'.j.active = up.j.active /\ up'.j.candidate = up.j.candidate
      BY <1>0, <1>4, <2>1, <2>2, <2>3 DEF Updaters
    <2>5. ReturnInv' /\ ActiveInv' /\ StageInv' /\ HandInv' /\ ClosingInv'
      BY <1>0, <1>1, <2>1, <2>4
         DEF ReturnInv, ActiveInv, DiskInv, StageInv, HandInv, ClosingInv, FileTypes, Journals,
             Stages, Updaters, SlotInv
    <2>6. SlotInv'
      BY <1>0, <1>1, <2>1, <2>4
         DEF DiskInv, ReturnInv, ActiveInv, StageInv, HandInv, ClosingInv, SlotInv
    <2>7. DiskInv'
      BY <2>1 DEF DiskInv
    <2>8. GateInv'
      BY <1>0, <1>1, <2>1, <2>4 DEF GateInv, StageInv, ClosingInv, HandInv, LedgerFollows, Stages
    <2>9. LeaseInv'
      BY <1>0, <1>1, <2>1, <2>4
         DEF FileTypes, Updaters, Journals, FenceTypeOK, Workers, LeaseInv, ReturnInv, fenceVars
    <2>10. WorkerInv'
      BY <1>0, <1>1, <2>1, <2>4
         DEF FileTypes, Updaters, Journals, FenceTypeOK, Workers, WorkerInv, LeaseInv, DiskInv,
             StageInv, HandInv, ClosingInv, ReturnInv, fenceVars
    <2> QED
      BY <1>1, <2>1, <2>4, <2>5, <2>6, <2>7, <2>8, <2>9, <2>10, TypedAgain
  <1> QED
    BY <1>0, <1>1, <1>2, <1>3, <1>4, TypedAgain DEF RestoreBegin, Write, RolledBack

LEMMA RollbackBeginKeeps ==
    ASSUME TypeOK, UpdateInv, RollbackBegin
    PROVE  TypeOK' /\ UpdateInv'
PROOF
  <1> USE Numbers
      DEF UpdateInv, Aside, BeforeCutover, Closing, Handling, Home, Limit, Outside, Swapped, Tame
  <1>0. FenceTypeOK /\ GateTypeOK /\ FileTypes /\ CountTypes /\ up \in Updaters
    BY TypeParts
  <1>1. FenceTypeOK' /\ GateTypeOK' /\ FileTypes' /\ CountTypes'
    BY <1>0, FaultCounted, RolledBackFields
       DEF FenceTypeOK, GateTypeOK, FileTypes, CountTypes, RollbackBegin, Write, RolledBack,
           InMemory, OnJournal, OnDisk, fenceVars, gateVars
  <1>2. CASE disk' = disk /\ up' = Failed
    BY <1>0, <1>1, <1>2, FailKeeps, TypedAgain
       DEF RollbackBegin, InMemory, OnJournal, OnDisk, gateVars
  <1>3. CASE /\ disk' = RolledBack
             /\ up' = Failed
    <2>1. /\ up.pc = "rollback" /\ slots' = slots /\ told' = told /\ ledger' = ledger
          /\ UNCHANGED fenceVars /\ disk'.stage = "rollback" /\ disk'.active = disk.active
          /\ disk'.candidate = disk.candidate
      BY <1>0, <1>3, RolledBackFields
         DEF RollbackBegin, InMemory, OnJournal, OnDisk, gateVars, HandInv, Outside
    <2>2. /\ up' \in Updaters /\ up'.pc \in {"down", "idle", "recover"}
          /\ up'.lease \in {0, up.lease} /\ up'.active = up.active
      BY <1>0, <1>3, <2>1, FailedFields
    <2>3. DiskInv'
      BY <1>0, <1>1, <2>1, <2>2
         DEF FileTypes, Updaters, Journals, DiskInv, ReturnInv, ActiveInv, StageInv, HandInv,
             ClosingInv, SlotInv, NoJournal
    <2>4. ActiveInv'
      BY <1>0, <1>1, <2>1, <2>2
         DEF ActiveInv, DiskInv, StageInv, HandInv, ClosingInv, FileTypes, Journals, Stages
    <2>5. LedgerFollows'
      BY <1>0, <1>1, <2>1, <2>2 DEF GateInv, StageInv, ClosingInv, HandInv, LedgerFollows, Stages
    <2>6. (Tame(Limit))'
      BY <1>0, <1>1, <2>1, <2>2
         DEF FileTypes, Updaters, Journals, FenceTypeOK, Workers, WorkerInv, LeaseInv, DiskInv,
             StageInv, HandInv, ClosingInv, ReturnInv, fenceVars
    <2> QED
      BY <1>1, <2>1, <2>2, <2>3, <2>4, <2>5, <2>6, StopKeeps, TypedAgain
  <1>4. CASE disk' = RolledBack /\ up' = [up EXCEPT !.pc = "relaunch", !.j = RolledBack]
    <2>1. /\ up.pc = "rollback" /\ slots' = slots /\ told' = told /\ ledger' = ledger
          /\ UNCHANGED fenceVars /\ disk'.stage = "rollback" /\ disk'.active = disk.active
          /\ disk'.candidate = disk.candidate
      BY <1>0, <1>4, RolledBackFields
         DEF RollbackBegin, InMemory, OnJournal, OnDisk, gateVars, HandInv, Outside
    <2>2. "relaunch" \in Pcs
      BY PcNames
    <2>3. RolledBack \in Journals(Versions, 0..MaxLeases)
      BY <1>0, <2>1, <2>2, RolledBackFields
    <2>4. /\ up' \in Updaters /\ up'.pc = "relaunch" /\ up'.goal = up.goal
          /\ up'.active = up.active /\ up'.policy = up.policy /\ up'.lease = up.lease
          /\ up'.reply = up.reply /\ up'.jerr = up.jerr /\ up'.cause = up.cause
          /\ up'.ret = up.ret /\ up'.j = disk'
      BY <1>0, <1>4, <2>1, <2>2, <2>3 DEF Updaters
    <2>5. ReturnInv' /\ ActiveInv' /\ StageInv' /\ HandInv' /\ ClosingInv'
      BY <1>0, <1>1, <2>1, <2>4
         DEF ReturnInv, ActiveInv, DiskInv, StageInv, HandInv, ClosingInv, FileTypes, Journals,
             Stages, Updaters, SlotInv
    <2>6. DiskInv'
      BY <1>0, <1>1, <2>1, <2>4
         DEF FileTypes, Updaters, Journals, DiskInv, ReturnInv, ActiveInv, StageInv, HandInv,
             ClosingInv, SlotInv, NoJournal
    <2>7. SlotInv'
      BY <1>0, <1>1, <2>1, <2>4
         DEF DiskInv, ReturnInv, ActiveInv, StageInv, HandInv, ClosingInv, SlotInv
    <2>8. GateInv'
      BY <1>0, <1>1, <2>1, <2>4 DEF GateInv, StageInv, ClosingInv, HandInv, LedgerFollows, Stages
    <2>9. LeaseInv'
      BY <1>0, <1>1, <2>1, <2>4
         DEF FileTypes, Updaters, Journals, FenceTypeOK, Workers, LeaseInv, ReturnInv, fenceVars
    <2>10. WorkerInv'
      BY <1>0, <1>1, <2>1, <2>4
         DEF FileTypes, Updaters, Journals, FenceTypeOK, Workers, WorkerInv, LeaseInv, DiskInv,
             StageInv, HandInv, ClosingInv, ReturnInv, fenceVars
    <2> QED
      BY <1>1, <2>1, <2>4, <2>5, <2>6, <2>7, <2>8, <2>9, <2>10, TypedAgain
  <1> QED
    BY <1>0, <1>1, <1>2, <1>3, <1>4, TypedAgain DEF RollbackBegin, Write, RolledBack

LEMMA BlockKeeps ==
    ASSUME TypeOK, UpdateInv, Block
    PROVE  TypeOK' /\ UpdateInv'
PROOF
  <1> USE Numbers
      DEF UpdateInv, Aside, BeforeCutover, Closing, Handling, Home, Limit, Outside, Swapped, Tame
  <1>0. FenceTypeOK /\ GateTypeOK /\ FileTypes /\ CountTypes /\ up \in Updaters
    BY TypeParts
  <1>1. FenceTypeOK' /\ GateTypeOK' /\ FileTypes' /\ CountTypes'
    BY <1>0, FaultCounted, StageNames
       DEF FenceTypeOK, GateTypeOK, FileTypes, CountTypes, Block, Write, Updaters, Journals,
           InMemory, OnJournal, OnDisk, fenceVars, gateVars
  <1>2. CASE disk' = disk /\ up' = Failed
    BY <1>0, <1>1, <1>2, FailKeeps, TypedAgain DEF Block, InMemory, OnJournal, OnDisk, gateVars
  <1>3. CASE disk' = [up.j EXCEPT !.stage = "blocked"] /\ up' = Failed
    <2>1. /\ up.pc = "block" /\ slots' = slots /\ told' = told /\ ledger' = ledger
          /\ UNCHANGED fenceVars /\ disk'.stage = "blocked" /\ disk'.active = disk.active
          /\ disk'.candidate = disk.candidate
      BY <1>0, <1>3, StageNames
         DEF Block, InMemory, OnJournal, OnDisk, gateVars, HandInv, Outside, Updaters, Journals
    <2>2. /\ up' \in Updaters /\ up'.pc \in {"down", "idle", "recover"}
          /\ up'.lease \in {0, up.lease} /\ up'.active = up.active
      BY <1>0, <1>3, <2>1, FailedFields
    <2>3. DiskInv'
      BY <1>0, <1>1, <2>1, <2>2
         DEF FileTypes, Updaters, Journals, DiskInv, ReturnInv, ActiveInv, StageInv, HandInv,
             ClosingInv, SlotInv, NoJournal
    <2>4. ActiveInv'
      BY <1>0, <1>1, <2>1, <2>2
         DEF ActiveInv, DiskInv, StageInv, HandInv, ClosingInv, FileTypes, Journals, Stages
    <2>5. LedgerFollows'
      BY <1>0, <1>1, <2>1, <2>2 DEF GateInv, StageInv, ClosingInv, HandInv, LedgerFollows, Stages
    <2>6. (Tame(Limit))'
      BY <1>0, <1>1, <2>1, <2>2
         DEF FileTypes, Updaters, Journals, FenceTypeOK, Workers, WorkerInv, LeaseInv, DiskInv,
             StageInv, HandInv, ClosingInv, ReturnInv, fenceVars
    <2> QED
      BY <1>1, <2>1, <2>2, <2>3, <2>4, <2>5, <2>6, StopKeeps, TypedAgain
  <1> QED
    BY <1>0, <1>1, <1>2, <1>3, TypedAgain DEF Block, Write

LEMMA CanaryKeeps ==
    ASSUME TypeOK, UpdateInv, Canary
    PROVE  TypeOK' /\ UpdateInv'
PROOF
  <1> USE Numbers
      DEF UpdateInv, Aside, BeforeCutover, Closing, Handling, Home, Limit, Outside, Swapped, Tame
  <1>0. FenceTypeOK /\ GateTypeOK /\ FileTypes /\ CountTypes /\ up \in Updaters
    BY TypeParts
  <1>c. /\ UNCHANGED <<index, offered, slots, disk, told, crashes, fenceVars>>
        /\ faults' \in 0..MaxFaults /\ moved' \in BOOLEAN /\ stranded' = stranded
        /\ \/ up' = Goto("ready")
               /\ up.policy /\ Admits("candidate") /\ ledger' = Recorded("candidate")
           \/ /\ up' = Discard(TRUE, up.j.candidate, "abandoned")
              /\ \/ ledger' \in {ledger, Targeted}
                 \/ Admits("candidate") /\ ledger' = Recorded("candidate")
    <2>1. faults \in 0..MaxFaults /\ moved \in BOOLEAN
      BY <1>0 DEF CountTypes, GateTypeOK
    <2> QED BY <2>1, CallEffect DEF Canary
  <1>f. /\ UNCHANGED <<index, offered, slots, disk, told, crashes, fenceVars>>
        /\ faults' \in 0..MaxFaults /\ moved' \in BOOLEAN /\ stranded' = stranded
        /\ ledger' \in {"none", "target", "bound", "drained", "committed"}
    BY <1>0, <1>c, LedgerValues DEF GateTypeOK
  <1>1. FenceTypeOK' /\ GateTypeOK' /\ FileTypes' /\ CountTypes'
    BY <1>0, <1>f DEF FenceTypeOK, GateTypeOK, FileTypes, CountTypes, fenceVars
  <1>2. CASE /\ up' = Goto("ready")
             /\ up.policy /\ ledger' = Recorded("candidate")
    <2>1. /\ up.pc = "canary" /\ ledger \notin {"drained", "committed"} /\ disk' = disk
          /\ slots' = slots /\ told' = told /\ UNCHANGED fenceVars
          /\ ledger' \notin {"drained", "committed"}
      BY <1>0, <1>2, <1>f, LedgerValues
         DEF Canary, InMemory, OnJournal, OnDisk, gateVars, GateInv, LedgerFollows, StageInv,
             BeforeCutover, Stages, GateTypeOK
    <2>2. "ready" \in Pcs
      BY PcNames
    <2>3. /\ up' \in Updaters /\ up'.pc = "ready" /\ up'.goal = up.goal
          /\ up'.active = up.active /\ up'.j = up.j /\ up'.policy = up.policy
          /\ up'.lease = up.lease /\ up'.reply = up.reply /\ up'.jerr = up.jerr
          /\ up'.cause = up.cause /\ up'.ret = up.ret
      BY <1>0, <1>2, <2>1, <2>2, GotoFields
    <2>4. ReturnInv' /\ ActiveInv' /\ StageInv' /\ HandInv' /\ ClosingInv'
      BY <1>0, <1>1, <2>1, <2>3
         DEF ReturnInv, ActiveInv, DiskInv, StageInv, HandInv, ClosingInv, FileTypes, Journals,
             Stages, Updaters, SlotInv
    <2>5. SlotInv'
      BY <1>0, <1>1, <2>1, <2>3
         DEF DiskInv, ReturnInv, ActiveInv, StageInv, HandInv, ClosingInv, SlotInv
    <2>6. DiskInv'
      BY <2>1 DEF DiskInv
    <2>7. GateInv'
      BY <1>0, <1>1, <2>1, <2>3 DEF GateInv, StageInv, ClosingInv, HandInv, LedgerFollows, Stages
    <2>8. LeaseInv'
      BY <1>0, <1>1, <2>1, <2>3
         DEF FileTypes, Updaters, Journals, FenceTypeOK, Workers, LeaseInv, ReturnInv, fenceVars
    <2>9. WorkerInv'
      BY <1>0, <1>1, <2>1, <2>3
         DEF FileTypes, Updaters, Journals, FenceTypeOK, Workers, WorkerInv, LeaseInv, DiskInv,
             StageInv, HandInv, ClosingInv, ReturnInv, fenceVars
    <2> QED
      BY <1>1, <2>1, <2>3, <2>4, <2>5, <2>6, <2>7, <2>8, <2>9, TypedAgain
  <1>3. CASE /\ up' = Discard(TRUE, up.j.candidate, "abandoned")
             /\ ledger' \in {ledger, Targeted, Recorded("candidate")}
    <2>1. /\ up.pc = "canary" /\ ledger \notin {"drained", "committed"}
          /\ up.j.candidate \in Versions \cup {0} /\ disk' = disk /\ slots' = slots
          /\ told' = told /\ UNCHANGED fenceVars /\ ledger' \notin {"drained", "committed"}
      BY <1>0, <1>3, <1>f, LedgerValues
         DEF Canary, InMemory, OnJournal, OnDisk, gateVars, GateInv, LedgerFollows, StageInv,
             BeforeCutover, Stages, GateTypeOK, Updaters, Journals
    <2>2. /\ "abandoned" \in {"failed", "abandoned", "recovered", "updated"}
          /\ "discard" \in Pcs
      BY PcNames
    <2>3. /\ Abandon(up.j.candidate, "abandoned") \in Updaters
          /\ Abandon(up.j.candidate, "abandoned").pc = "discard"
          /\ Abandon(up.j.candidate, "abandoned").ret = "idlewrite"
          /\ Abandon(up.j.candidate, "abandoned").active = up.active
          /\ Abandon(up.j.candidate, "abandoned").lease = up.lease
          /\ Abandon(up.j.candidate, "abandoned").j.stage = "idle"
          /\ Abandon(up.j.candidate, "abandoned").j.active = up.active
          /\ Abandon(up.j.candidate, "abandoned").j.candidate = up.j.candidate
      BY <1>0, <2>1, <2>2, AbandonFields
    <2>4. /\ up' \in Updaters /\ up'.pc = "discard" /\ up'.active = up.active
          /\ up'.lease = up.lease /\ up'.ret = "idlewrite" /\ up'.j.stage = "idle"
          /\ up'.j.active = up.active /\ up'.j.candidate = up.j.candidate
      BY <1>0, <1>3, <2>1, <2>2, <2>3 DEF Abandon
    <2>5. ReturnInv' /\ ActiveInv' /\ StageInv' /\ HandInv' /\ ClosingInv'
      BY <1>0, <1>1, <2>1, <2>4
         DEF ReturnInv, ActiveInv, DiskInv, StageInv, HandInv, ClosingInv, FileTypes, Journals,
             Stages, Updaters, SlotInv
    <2>6. SlotInv'
      BY <1>0, <1>1, <2>1, <2>4
         DEF DiskInv, ReturnInv, ActiveInv, StageInv, HandInv, ClosingInv, SlotInv
    <2>7. DiskInv'
      BY <2>1 DEF DiskInv
    <2>8. GateInv'
      BY <1>0, <1>1, <2>1, <2>4 DEF GateInv, StageInv, ClosingInv, HandInv, LedgerFollows, Stages
    <2>9. LeaseInv'
      BY <1>0, <1>1, <2>1, <2>4
         DEF FileTypes, Updaters, Journals, FenceTypeOK, Workers, LeaseInv, ReturnInv, fenceVars
    <2>10. WorkerInv'
      BY <1>0, <1>1, <2>1, <2>4
         DEF FileTypes, Updaters, Journals, FenceTypeOK, Workers, WorkerInv, LeaseInv, DiskInv,
             StageInv, HandInv, ClosingInv, ReturnInv, fenceVars
    <2> QED
      BY <1>1, <2>1, <2>4, <2>5, <2>6, <2>7, <2>8, <2>9, <2>10, TypedAgain
  <1> QED
    BY <1>0, <1>1, <1>2, <1>3, <1>c, TypedAgain DEF Canary

LEMMA DrainKeeps ==
    ASSUME TypeOK, UpdateInv, Drain
    PROVE  TypeOK' /\ UpdateInv'
PROOF
  <1> USE Numbers
      DEF UpdateInv, Aside, BeforeCutover, Closing, Handling, Home, Limit, Outside, Swapped, Tame
  <1>0. FenceTypeOK /\ GateTypeOK /\ FileTypes /\ CountTypes /\ up \in Updaters
    BY TypeParts
  <1>c. /\ UNCHANGED <<index, offered, slots, disk, told, crashes, fenceVars>>
        /\ faults' \in 0..MaxFaults /\ moved' \in BOOLEAN /\ stranded' = stranded
        /\ \/ up' = Goto("cutover") /\ up.policy /\ Admits("drain") /\ ledger' = Recorded("drain")
           \/ /\ up' = Goto("restore")
              /\ \/ ledger' \in {ledger, Targeted}
                 \/ Admits("drain") /\ ledger' = Recorded("drain")
    <2>1. faults \in 0..MaxFaults /\ moved \in BOOLEAN
      BY <1>0 DEF CountTypes, GateTypeOK
    <2> QED BY <2>1, CallEffect DEF Drain
  <1>f. /\ UNCHANGED <<index, offered, slots, disk, told, crashes, fenceVars>>
        /\ faults' \in 0..MaxFaults /\ moved' \in BOOLEAN /\ stranded' = stranded
        /\ ledger' \in {"none", "target", "bound", "drained", "committed"}
    BY <1>0, <1>c, LedgerValues DEF GateTypeOK
  <1>1. FenceTypeOK' /\ GateTypeOK' /\ FileTypes' /\ CountTypes'
    BY <1>0, <1>f DEF FenceTypeOK, GateTypeOK, FileTypes, CountTypes, fenceVars
  <1>2. CASE /\ up' = Goto("cutover")
             /\ up.policy /\ ledger' = Recorded("drain")
    <2>1. /\ up.pc = "drain" /\ ledger # "committed" /\ disk' = disk /\ slots' = slots
          /\ told' = told /\ UNCHANGED fenceVars /\ ledger' = "drained"
      BY <1>0, <1>2, <1>f, LedgerValues
         DEF Drain, InMemory, OnJournal, OnDisk, gateVars, GateInv, LedgerFollows, StageInv,
             BeforeCutover, Stages, GateTypeOK
    <2>2. "cutover" \in Pcs
      BY PcNames
    <2>3. /\ up' \in Updaters /\ up'.pc = "cutover" /\ up'.goal = up.goal
          /\ up'.active = up.active /\ up'.j = up.j /\ up'.policy = up.policy
          /\ up'.lease = up.lease /\ up'.reply = up.reply /\ up'.jerr = up.jerr
          /\ up'.cause = up.cause /\ up'.ret = up.ret
      BY <1>0, <1>2, <2>1, <2>2, GotoFields
    <2>4. ReturnInv' /\ ActiveInv' /\ StageInv' /\ HandInv' /\ ClosingInv'
      BY <1>0, <1>1, <2>1, <2>3
         DEF ReturnInv, ActiveInv, DiskInv, StageInv, HandInv, ClosingInv, FileTypes, Journals,
             Stages, Updaters, SlotInv
    <2>5. SlotInv'
      BY <1>0, <1>1, <2>1, <2>3
         DEF DiskInv, ReturnInv, ActiveInv, StageInv, HandInv, ClosingInv, SlotInv
    <2>6. DiskInv'
      BY <2>1 DEF DiskInv
    <2>7. GateInv'
      BY <1>0, <1>1, <2>1, <2>3 DEF GateInv, StageInv, ClosingInv, HandInv, LedgerFollows, Stages
    <2>8. LeaseInv'
      BY <1>0, <1>1, <2>1, <2>3
         DEF FileTypes, Updaters, Journals, FenceTypeOK, Workers, LeaseInv, ReturnInv, fenceVars
    <2>9. WorkerInv'
      BY <1>0, <1>1, <2>1, <2>3
         DEF FileTypes, Updaters, Journals, FenceTypeOK, Workers, WorkerInv, LeaseInv, DiskInv,
             StageInv, HandInv, ClosingInv, ReturnInv, fenceVars
    <2> QED
      BY <1>1, <2>1, <2>3, <2>4, <2>5, <2>6, <2>7, <2>8, <2>9, TypedAgain
  <1>3. CASE /\ up' = Goto("restore")
             /\ ledger' \in {ledger, Targeted, Recorded("drain")}
    <2>1. /\ up.pc = "drain" /\ ledger # "committed" /\ disk' = disk /\ slots' = slots
          /\ told' = told /\ UNCHANGED fenceVars /\ ledger' # "committed"
      BY <1>0, <1>3, <1>f, LedgerValues
         DEF Drain, InMemory, OnJournal, OnDisk, gateVars, GateInv, LedgerFollows, StageInv,
             BeforeCutover, Stages, GateTypeOK
    <2>2. "restore" \in Pcs
      BY PcNames
    <2>3. /\ up' \in Updaters /\ up'.pc = "restore" /\ up'.goal = up.goal
          /\ up'.active = up.active /\ up'.j = up.j /\ up'.policy = up.policy
          /\ up'.lease = up.lease /\ up'.reply = up.reply /\ up'.jerr = up.jerr
          /\ up'.cause = up.cause /\ up'.ret = up.ret
      BY <1>0, <1>3, <2>1, <2>2, GotoFields
    <2>4. ReturnInv' /\ ActiveInv' /\ StageInv' /\ HandInv' /\ ClosingInv'
      BY <1>0, <1>1, <2>1, <2>3
         DEF ReturnInv, ActiveInv, DiskInv, StageInv, HandInv, ClosingInv, FileTypes, Journals,
             Stages, Updaters, SlotInv
    <2>5. SlotInv'
      BY <1>0, <1>1, <2>1, <2>3
         DEF DiskInv, ReturnInv, ActiveInv, StageInv, HandInv, ClosingInv, SlotInv
    <2>6. DiskInv'
      BY <2>1 DEF DiskInv
    <2>7. GateInv'
      BY <1>0, <1>1, <2>1, <2>3 DEF GateInv, StageInv, ClosingInv, HandInv, LedgerFollows, Stages
    <2>8. LeaseInv'
      BY <1>0, <1>1, <2>1, <2>3
         DEF FileTypes, Updaters, Journals, FenceTypeOK, Workers, LeaseInv, ReturnInv, fenceVars
    <2>9. WorkerInv'
      BY <1>0, <1>1, <2>1, <2>3
         DEF FileTypes, Updaters, Journals, FenceTypeOK, Workers, WorkerInv, LeaseInv, DiskInv,
             StageInv, HandInv, ClosingInv, ReturnInv, fenceVars
    <2> QED
      BY <1>1, <2>1, <2>3, <2>4, <2>5, <2>6, <2>7, <2>8, <2>9, TypedAgain
  <1> QED
    BY <1>0, <1>1, <1>2, <1>3, <1>c, TypedAgain DEF Drain

LEMMA MonitorKeeps ==
    ASSUME TypeOK, UpdateInv, Monitor
    PROVE  TypeOK' /\ UpdateInv'
PROOF
  <1> USE Numbers
      DEF UpdateInv, Aside, BeforeCutover, Closing, Handling, Home, Limit, Outside, Swapped, Tame
  <1>0. FenceTypeOK /\ GateTypeOK /\ FileTypes /\ CountTypes /\ up \in Updaters
    BY TypeParts
  <1>c. /\ UNCHANGED <<index, offered, slots, disk, told, crashes, fenceVars>>
        /\ faults' \in 0..MaxFaults /\ moved' \in BOOLEAN /\ stranded' = stranded
        /\ \/ up' = Goto("monitored")
               /\ up.policy /\ Admits("stability") /\ ledger' = Recorded("stability")
           \/ /\ up' = Goto("rollback")
              /\ \/ ledger' \in {ledger, Targeted}
                 \/ Admits("stability") /\ ledger' = Recorded("stability")
    <2>1. faults \in 0..MaxFaults /\ moved \in BOOLEAN
      BY <1>0 DEF CountTypes, GateTypeOK
    <2>2. CASE Call("stability", Goto("monitored"), Goto("rollback"))
      BY <2>1, <2>2, CallEffect
    <2>3. CASE up' = Goto("rollback") /\ InMemory
      BY <2>1, <2>3 DEF InMemory, OnJournal, OnDisk, gateVars
    <2> QED BY <2>2, <2>3 DEF Monitor
  <1>f. /\ UNCHANGED <<index, offered, slots, disk, told, crashes, fenceVars>>
        /\ faults' \in 0..MaxFaults /\ moved' \in BOOLEAN /\ stranded' = stranded
        /\ ledger' \in {"none", "target", "bound", "drained", "committed"}
    BY <1>0, <1>c, LedgerValues DEF GateTypeOK
  <1>1. FenceTypeOK' /\ GateTypeOK' /\ FileTypes' /\ CountTypes'
    BY <1>0, <1>f DEF FenceTypeOK, GateTypeOK, FileTypes, CountTypes, fenceVars
  <1>2. CASE /\ up' = Goto("monitored")
             /\ up.policy /\ ledger' = Recorded("stability")
    <2>1. /\ up.pc = "monitor" /\ ledger # "committed" /\ disk' = disk /\ slots' = slots
          /\ told' = told /\ UNCHANGED fenceVars /\ ledger' = "drained"
      BY <1>0, <1>2, <1>f, LedgerValues
         DEF Monitor, InMemory, OnJournal, OnDisk, gateVars, GateInv, LedgerFollows, StageInv,
             BeforeCutover, Stages, GateTypeOK
    <2>2. "monitored" \in Pcs
      BY PcNames
    <2>3. /\ up' \in Updaters /\ up'.pc = "monitored" /\ up'.goal = up.goal
          /\ up'.active = up.active /\ up'.j = up.j /\ up'.policy = up.policy
          /\ up'.lease = up.lease /\ up'.reply = up.reply /\ up'.jerr = up.jerr
          /\ up'.cause = up.cause /\ up'.ret = up.ret
      BY <1>0, <1>2, <2>1, <2>2, GotoFields
    <2>4. ReturnInv' /\ ActiveInv' /\ StageInv' /\ HandInv' /\ ClosingInv'
      BY <1>0, <1>1, <2>1, <2>3
         DEF ReturnInv, ActiveInv, DiskInv, StageInv, HandInv, ClosingInv, FileTypes, Journals,
             Stages, Updaters, SlotInv
    <2>5. SlotInv'
      BY <1>0, <1>1, <2>1, <2>3
         DEF DiskInv, ReturnInv, ActiveInv, StageInv, HandInv, ClosingInv, SlotInv
    <2>6. DiskInv'
      BY <2>1 DEF DiskInv
    <2>7. GateInv'
      BY <1>0, <1>1, <2>1, <2>3 DEF GateInv, StageInv, ClosingInv, HandInv, LedgerFollows, Stages
    <2>8. LeaseInv'
      BY <1>0, <1>1, <2>1, <2>3
         DEF FileTypes, Updaters, Journals, FenceTypeOK, Workers, LeaseInv, ReturnInv, fenceVars
    <2>9. WorkerInv'
      BY <1>0, <1>1, <2>1, <2>3
         DEF FileTypes, Updaters, Journals, FenceTypeOK, Workers, WorkerInv, LeaseInv, DiskInv,
             StageInv, HandInv, ClosingInv, ReturnInv, fenceVars
    <2> QED
      BY <1>1, <2>1, <2>3, <2>4, <2>5, <2>6, <2>7, <2>8, <2>9, TypedAgain
  <1>3. CASE /\ up' = Goto("rollback")
             /\ ledger' \in {ledger, Targeted, Recorded("stability")}
    <2>1. /\ up.pc = "monitor" /\ ledger # "committed" /\ disk' = disk /\ slots' = slots
          /\ told' = told /\ UNCHANGED fenceVars /\ ledger' # "committed"
      BY <1>0, <1>3, <1>f, LedgerValues
         DEF Monitor, InMemory, OnJournal, OnDisk, gateVars, GateInv, LedgerFollows, StageInv,
             BeforeCutover, Stages, GateTypeOK
    <2>2. "rollback" \in Pcs
      BY PcNames
    <2>3. /\ up' \in Updaters /\ up'.pc = "rollback" /\ up'.goal = up.goal
          /\ up'.active = up.active /\ up'.j = up.j /\ up'.policy = up.policy
          /\ up'.lease = up.lease /\ up'.reply = up.reply /\ up'.jerr = up.jerr
          /\ up'.cause = up.cause /\ up'.ret = up.ret
      BY <1>0, <1>3, <2>1, <2>2, GotoFields
    <2>4. ReturnInv' /\ ActiveInv' /\ StageInv' /\ HandInv' /\ ClosingInv'
      BY <1>0, <1>1, <2>1, <2>3
         DEF ReturnInv, ActiveInv, DiskInv, StageInv, HandInv, ClosingInv, FileTypes, Journals,
             Stages, Updaters, SlotInv
    <2>5. SlotInv'
      BY <1>0, <1>1, <2>1, <2>3
         DEF DiskInv, ReturnInv, ActiveInv, StageInv, HandInv, ClosingInv, SlotInv
    <2>6. DiskInv'
      BY <2>1 DEF DiskInv
    <2>7. GateInv'
      BY <1>0, <1>1, <2>1, <2>3 DEF GateInv, StageInv, ClosingInv, HandInv, LedgerFollows, Stages
    <2>8. LeaseInv'
      BY <1>0, <1>1, <2>1, <2>3
         DEF FileTypes, Updaters, Journals, FenceTypeOK, Workers, LeaseInv, ReturnInv, fenceVars
    <2>9. WorkerInv'
      BY <1>0, <1>1, <2>1, <2>3
         DEF FileTypes, Updaters, Journals, FenceTypeOK, Workers, WorkerInv, LeaseInv, DiskInv,
             StageInv, HandInv, ClosingInv, ReturnInv, fenceVars
    <2> QED
      BY <1>1, <2>1, <2>3, <2>4, <2>5, <2>6, <2>7, <2>8, <2>9, TypedAgain
  <1> QED
    BY <1>0, <1>1, <1>2, <1>3, <1>c, TypedAgain DEF Monitor

LEMMA MonitoredKeeps ==
    ASSUME TypeOK, UpdateInv, Monitored
    PROVE  TypeOK' /\ UpdateInv'
PROOF
  <1> USE Numbers
      DEF UpdateInv, Aside, BeforeCutover, Closing, Handling, Home, Limit, Outside, Swapped, Tame
  <1>0. FenceTypeOK /\ GateTypeOK /\ FileTypes /\ CountTypes /\ up \in Updaters
    BY TypeParts
  <1>1. FenceTypeOK' /\ GateTypeOK' /\ FileTypes' /\ CountTypes'
    BY <1>0, FaultCounted
       DEF FenceTypeOK, GateTypeOK, FileTypes, CountTypes, Monitored, InMemory, OnJournal,
           OnDisk, fenceVars, gateVars
  <1>2. CASE up' = Goto("committed")
    <2>1. /\ up.pc = "monitored" /\ disk' = disk /\ slots' = slots /\ told' = told
          /\ ledger' = ledger /\ UNCHANGED fenceVars
      BY <1>0, <1>2 DEF Monitored, InMemory, OnJournal, OnDisk, gateVars
    <2>2. "committed" \in Pcs
      BY PcNames
    <2>3. /\ up' \in Updaters /\ up'.pc = "committed" /\ up'.goal = up.goal
          /\ up'.active = up.active /\ up'.j = up.j /\ up'.policy = up.policy
          /\ up'.lease = up.lease /\ up'.reply = up.reply /\ up'.jerr = up.jerr
          /\ up'.cause = up.cause /\ up'.ret = up.ret
      BY <1>0, <1>2, <2>1, <2>2, GotoFields
    <2>4. ReturnInv' /\ ActiveInv' /\ StageInv' /\ HandInv' /\ ClosingInv'
      BY <1>0, <1>1, <2>1, <2>3
         DEF ReturnInv, ActiveInv, DiskInv, StageInv, HandInv, ClosingInv, FileTypes, Journals,
             Stages, Updaters, SlotInv
    <2>5. SlotInv'
      BY <1>0, <1>1, <2>1, <2>3
         DEF DiskInv, ReturnInv, ActiveInv, StageInv, HandInv, ClosingInv, SlotInv
    <2>6. DiskInv'
      BY <2>1 DEF DiskInv
    <2>7. GateInv'
      BY <1>0, <1>1, <2>1, <2>3 DEF GateInv, StageInv, ClosingInv, HandInv, LedgerFollows, Stages
    <2>8. LeaseInv'
      BY <1>0, <1>1, <2>1, <2>3
         DEF FileTypes, Updaters, Journals, FenceTypeOK, Workers, LeaseInv, ReturnInv, fenceVars
    <2>9. WorkerInv'
      BY <1>0, <1>1, <2>1, <2>3
         DEF FileTypes, Updaters, Journals, FenceTypeOK, Workers, WorkerInv, LeaseInv, DiskInv,
             StageInv, HandInv, ClosingInv, ReturnInv, fenceVars
    <2> QED
      BY <1>1, <2>1, <2>3, <2>4, <2>5, <2>6, <2>7, <2>8, <2>9, TypedAgain
  <1>3. CASE up' = Goto("rollback")
    <2>1. /\ up.pc = "monitored" /\ disk' = disk /\ slots' = slots /\ told' = told
          /\ ledger' = ledger /\ UNCHANGED fenceVars
      BY <1>0, <1>3 DEF Monitored, InMemory, OnJournal, OnDisk, gateVars
    <2>2. "rollback" \in Pcs
      BY PcNames
    <2>3. /\ up' \in Updaters /\ up'.pc = "rollback" /\ up'.goal = up.goal
          /\ up'.active = up.active /\ up'.j = up.j /\ up'.policy = up.policy
          /\ up'.lease = up.lease /\ up'.reply = up.reply /\ up'.jerr = up.jerr
          /\ up'.cause = up.cause /\ up'.ret = up.ret
      BY <1>0, <1>3, <2>1, <2>2, GotoFields
    <2>4. ReturnInv' /\ ActiveInv' /\ StageInv' /\ HandInv' /\ ClosingInv'
      BY <1>0, <1>1, <2>1, <2>3
         DEF ReturnInv, ActiveInv, DiskInv, StageInv, HandInv, ClosingInv, FileTypes, Journals,
             Stages, Updaters, SlotInv
    <2>5. SlotInv'
      BY <1>0, <1>1, <2>1, <2>3
         DEF DiskInv, ReturnInv, ActiveInv, StageInv, HandInv, ClosingInv, SlotInv
    <2>6. DiskInv'
      BY <2>1 DEF DiskInv
    <2>7. GateInv'
      BY <1>0, <1>1, <2>1, <2>3 DEF GateInv, StageInv, ClosingInv, HandInv, LedgerFollows, Stages
    <2>8. LeaseInv'
      BY <1>0, <1>1, <2>1, <2>3
         DEF FileTypes, Updaters, Journals, FenceTypeOK, Workers, LeaseInv, ReturnInv, fenceVars
    <2>9. WorkerInv'
      BY <1>0, <1>1, <2>1, <2>3
         DEF FileTypes, Updaters, Journals, FenceTypeOK, Workers, WorkerInv, LeaseInv, DiskInv,
             StageInv, HandInv, ClosingInv, ReturnInv, fenceVars
    <2> QED
      BY <1>1, <2>1, <2>3, <2>4, <2>5, <2>6, <2>7, <2>8, <2>9, TypedAgain
  <1> QED
    BY <1>0, <1>1, <1>2, <1>3, TypedAgain DEF Monitored

LEMMA CommitKeeps ==
    ASSUME TypeOK, UpdateInv, Commit
    PROVE  TypeOK' /\ UpdateInv'
PROOF
  <1> USE Numbers
      DEF UpdateInv, Aside, BeforeCutover, Closing, Handling, Home, Limit, Outside, Swapped, Tame
  <1>0. FenceTypeOK /\ GateTypeOK /\ FileTypes /\ CountTypes /\ up \in Updaters
    BY TypeParts
  <1>c. /\ UNCHANGED <<index, offered, slots, disk, told, crashes, fenceVars>>
        /\ faults' \in 0..MaxFaults /\ moved' \in BOOLEAN /\ stranded' = stranded
        /\ \/ up' = [up EXCEPT !.pc = "discard", !.ret = "idlewrite", !.active = up.j.candidate,
                       !.done = IF up.policy THEN "updated" ELSE "recovered",
                       !.j = Finished(up.j.candidate)]
               /\ up.policy /\ Admits("commit") /\ ledger' = Recorded("commit")
           \/ /\ up' = Failed
              /\ \/ ledger' \in {ledger, Targeted}
                 \/ Admits("commit") /\ ledger' = Recorded("commit")
    <2>1. faults \in 0..MaxFaults /\ moved \in BOOLEAN
      BY <1>0 DEF CountTypes, GateTypeOK
    <2> QED BY <2>1, CallEffect DEF Commit, Finished
  <1>f. /\ UNCHANGED <<index, offered, slots, disk, told, crashes, fenceVars>>
        /\ faults' \in 0..MaxFaults /\ moved' \in BOOLEAN /\ stranded' = stranded
        /\ ledger' \in {"none", "target", "bound", "drained", "committed"}
    BY <1>0, <1>c, LedgerValues DEF GateTypeOK
  <1>1. FenceTypeOK' /\ GateTypeOK' /\ FileTypes' /\ CountTypes'
    BY <1>0, <1>f DEF FenceTypeOK, GateTypeOK, FileTypes, CountTypes, fenceVars
  <1>2. CASE /\ up' = [up EXCEPT !.pc = "discard", !.ret = "idlewrite", !.active = up.j.candidate,
                       !.done = IF up.policy THEN "updated" ELSE "recovered",
                       !.j = Finished(up.j.candidate)]
             /\ up.policy /\ ledger' = Recorded("commit")
    <2>1. /\ up.pc = "commit" /\ up.j.candidate \in Versions \cup {0}
          /\ up.j.candidate = disk.candidate /\ disk' = disk /\ slots' = slots /\ told' = told
          /\ UNCHANGED fenceVars /\ ledger' = "committed"
      BY <1>0, <1>2, <1>f, LedgerValues
         DEF Commit, InMemory, OnJournal, OnDisk, gateVars, GateInv, LedgerFollows, StageInv,
             BeforeCutover, Stages, GateTypeOK, Updaters, Journals, HandInv, Outside
    <2>2. "discard" \in Pcs
      BY PcNames
    <2>3. /\ Finished(up.j.candidate) \in Journals(Versions, 0..MaxLeases)
          /\ Finished(up.j.candidate).stage = "idle"
          /\ Finished(up.j.candidate).active = up.j.candidate
          /\ Finished(up.j.candidate).candidate = 0
      BY <1>0, <2>1, <2>2, FinishedFields
    <2>4. /\ up' \in Updaters /\ up'.pc = "discard" /\ up'.active = up.j.candidate
          /\ up'.j = Finished(up.j.candidate) /\ up'.lease = up.lease /\ up'.ret = "idlewrite"
          /\ up'.j.stage = "idle" /\ up'.j.active = up.j.candidate /\ up'.j.candidate = 0
      BY <1>0, <1>2, <2>1, <2>2, <2>3 DEF Updaters
    <2>5. ReturnInv' /\ ActiveInv' /\ StageInv' /\ HandInv' /\ ClosingInv'
      BY <1>0, <1>1, <2>1, <2>4
         DEF ReturnInv, ActiveInv, DiskInv, StageInv, HandInv, ClosingInv, FileTypes, Journals,
             Stages, Updaters, SlotInv
    <2>6. SlotInv'
      BY <1>0, <1>1, <2>1, <2>4
         DEF DiskInv, ReturnInv, ActiveInv, StageInv, HandInv, ClosingInv, SlotInv
    <2>7. DiskInv'
      BY <2>1 DEF DiskInv
    <2>8. GateInv'
      BY <1>0, <1>1, <2>1, <2>4 DEF GateInv, StageInv, ClosingInv, HandInv, LedgerFollows, Stages
    <2>9. LeaseInv'
      BY <1>0, <1>1, <2>1, <2>4
         DEF FileTypes, Updaters, Journals, FenceTypeOK, Workers, LeaseInv, ReturnInv, fenceVars
    <2>10. WorkerInv'
      BY <1>0, <1>1, <2>1, <2>4
         DEF FileTypes, Updaters, Journals, FenceTypeOK, Workers, WorkerInv, LeaseInv, DiskInv,
             StageInv, HandInv, ClosingInv, ReturnInv, fenceVars
    <2> QED
      BY <1>1, <2>1, <2>4, <2>5, <2>6, <2>7, <2>8, <2>9, <2>10, TypedAgain
  <1>3. CASE /\ up' = Failed
             /\ ledger' \in {ledger, Targeted, Recorded("commit")}
    <2>1. /\ up.pc = "commit" /\ disk' = disk /\ slots' = slots /\ told' = told
          /\ UNCHANGED fenceVars
      BY <1>0, <1>3, <1>f, LedgerValues
         DEF Commit, InMemory, OnJournal, OnDisk, gateVars, GateInv, LedgerFollows, StageInv,
             BeforeCutover, Stages, GateTypeOK
    <2>2. /\ up' \in Updaters /\ up'.pc \in {"down", "idle", "recover"}
          /\ up'.lease \in {0, up.lease} /\ up'.active = up.active
      BY <1>0, <1>3, <2>1, FailedFields
    <2>3. DiskInv'
      BY <2>1 DEF DiskInv
    <2>4. ActiveInv'
      BY <1>0, <1>1, <2>1, <2>2
         DEF ActiveInv, DiskInv, StageInv, HandInv, ClosingInv, FileTypes, Journals, Stages
    <2>5. LedgerFollows'
      BY <1>0, <1>1, <2>1, <2>2 DEF GateInv, StageInv, ClosingInv, HandInv, LedgerFollows, Stages
    <2>6. (Tame(Limit))'
      BY <1>0, <1>1, <2>1, <2>2
         DEF FileTypes, Updaters, Journals, FenceTypeOK, Workers, WorkerInv, LeaseInv, DiskInv,
             StageInv, HandInv, ClosingInv, ReturnInv, fenceVars
    <2> QED
      BY <1>1, <2>1, <2>2, <2>3, <2>4, <2>5, <2>6, StopKeeps, TypedAgain
  <1> QED
    BY <1>0, <1>1, <1>2, <1>3, <1>c, TypedAgain DEF Commit

LEMMA RestoreGateKeeps ==
    ASSUME TypeOK, UpdateInv, RestoreGate
    PROVE  TypeOK' /\ UpdateInv'
PROOF
  <1> USE Numbers
      DEF UpdateInv, Aside, BeforeCutover, Closing, Handling, Home, Limit, Outside, Swapped, Tame
  <1>0. FenceTypeOK /\ GateTypeOK /\ FileTypes /\ CountTypes /\ up \in Updaters
    BY TypeParts
  <1>c. /\ UNCHANGED <<index, offered, slots, disk, told, crashes, fenceVars>>
        /\ faults' \in 0..MaxFaults /\ moved' \in BOOLEAN /\ stranded' = stranded
        /\ \/ up' = (IF up.jerr \/ up.cause = "storage" THEN Goto("block")
                   ELSE Discard(TRUE, up.j.candidate,
                             IF up.cause = "interrupted" THEN "recovered" ELSE "failed"))
               /\ up.policy /\ Admits("rollback") /\ ledger' = Recorded("rollback")
           \/ /\ up' = Goto("block")
              /\ \/ ledger' \in {ledger, Targeted}
                 \/ Admits("rollback") /\ ledger' = Recorded("rollback")
    <2>1. faults \in 0..MaxFaults /\ moved \in BOOLEAN
      BY <1>0 DEF CountTypes, GateTypeOK
    <2>2. CASE HasActive
      BY <2>1, <2>2, CallEffect DEF RestoreGate
    <2>3. CASE ~HasActive
      BY <1>0, <2>1, <2>3 DEF RestoreGate, InMemory, OnJournal, OnDisk, gateVars, CountTypes
    <2> QED BY <2>2, <2>3
  <1>f. /\ UNCHANGED <<index, offered, slots, disk, told, crashes, fenceVars>>
        /\ faults' \in 0..MaxFaults /\ moved' \in BOOLEAN /\ stranded' = stranded
        /\ ledger' \in {"none", "target", "bound", "drained", "committed"}
    BY <1>0, <1>c, LedgerValues DEF GateTypeOK
  <1>1. FenceTypeOK' /\ GateTypeOK' /\ FileTypes' /\ CountTypes'
    BY <1>0, <1>f DEF FenceTypeOK, GateTypeOK, FileTypes, CountTypes, fenceVars
  <1>2. CASE /\ up' = Goto("block")
             /\ up.policy /\ ledger' = Recorded("rollback")
    <2>1. /\ up.pc = "restoregate" /\ ledger # "committed" /\ disk' = disk /\ slots' = slots
          /\ told' = told /\ UNCHANGED fenceVars /\ ledger' = "none"
      BY <1>0, <1>2, <1>f, LedgerValues
         DEF RestoreGate, InMemory, OnJournal, OnDisk, gateVars, GateInv, LedgerFollows, StageInv,
             BeforeCutover, Stages, GateTypeOK, Updaters, Journals
    <2>2. "block" \in Pcs
      BY PcNames
    <2>3. /\ up' \in Updaters /\ up'.pc = "block" /\ up'.goal = up.goal
          /\ up'.active = up.active /\ up'.j = up.j /\ up'.policy = up.policy
          /\ up'.lease = up.lease /\ up'.reply = up.reply /\ up'.jerr = up.jerr
          /\ up'.cause = up.cause /\ up'.ret = up.ret
      BY <1>0, <1>2, <2>1, <2>2, GotoFields
    <2>4. ReturnInv' /\ ActiveInv' /\ StageInv' /\ HandInv' /\ ClosingInv'
      BY <1>0, <1>1, <2>1, <2>3
         DEF ReturnInv, ActiveInv, DiskInv, StageInv, HandInv, ClosingInv, FileTypes, Journals,
             Stages, Updaters, SlotInv
    <2>5. SlotInv'
      BY <1>0, <1>1, <2>1, <2>3
         DEF DiskInv, ReturnInv, ActiveInv, StageInv, HandInv, ClosingInv, SlotInv
    <2>6. DiskInv'
      BY <2>1 DEF DiskInv
    <2>7. GateInv'
      BY <1>0, <1>1, <2>1, <2>3 DEF GateInv, StageInv, ClosingInv, HandInv, LedgerFollows, Stages
    <2>8. LeaseInv'
      BY <1>0, <1>1, <2>1, <2>3
         DEF FileTypes, Updaters, Journals, FenceTypeOK, Workers, LeaseInv, ReturnInv, fenceVars
    <2>9. WorkerInv'
      BY <1>0, <1>1, <2>1, <2>3
         DEF FileTypes, Updaters, Journals, FenceTypeOK, Workers, WorkerInv, LeaseInv, DiskInv,
             StageInv, HandInv, ClosingInv, ReturnInv, fenceVars
    <2> QED
      BY <1>1, <2>1, <2>3, <2>4, <2>5, <2>6, <2>7, <2>8, <2>9, TypedAgain
  <1>3. CASE /\ up' = Goto("block")
             /\ ledger' \in {ledger, Targeted, Recorded("rollback")}
    <2>1. /\ up.pc = "restoregate" /\ ledger # "committed" /\ disk' = disk /\ slots' = slots
          /\ told' = told /\ UNCHANGED fenceVars /\ ledger' # "committed"
      BY <1>0, <1>3, <1>f, LedgerValues
         DEF RestoreGate, InMemory, OnJournal, OnDisk, gateVars, GateInv, LedgerFollows, StageInv,
             BeforeCutover, Stages, GateTypeOK, Updaters, Journals
    <2>2. "block" \in Pcs
      BY PcNames
    <2>3. /\ up' \in Updaters /\ up'.pc = "block" /\ up'.goal = up.goal
          /\ up'.active = up.active /\ up'.j = up.j /\ up'.policy = up.policy
          /\ up'.lease = up.lease /\ up'.reply = up.reply /\ up'.jerr = up.jerr
          /\ up'.cause = up.cause /\ up'.ret = up.ret
      BY <1>0, <1>3, <2>1, <2>2, GotoFields
    <2>4. ReturnInv' /\ ActiveInv' /\ StageInv' /\ HandInv' /\ ClosingInv'
      BY <1>0, <1>1, <2>1, <2>3
         DEF ReturnInv, ActiveInv, DiskInv, StageInv, HandInv, ClosingInv, FileTypes, Journals,
             Stages, Updaters, SlotInv
    <2>5. SlotInv'
      BY <1>0, <1>1, <2>1, <2>3
         DEF DiskInv, ReturnInv, ActiveInv, StageInv, HandInv, ClosingInv, SlotInv
    <2>6. DiskInv'
      BY <2>1 DEF DiskInv
    <2>7. GateInv'
      BY <1>0, <1>1, <2>1, <2>3 DEF GateInv, StageInv, ClosingInv, HandInv, LedgerFollows, Stages
    <2>8. LeaseInv'
      BY <1>0, <1>1, <2>1, <2>3
         DEF FileTypes, Updaters, Journals, FenceTypeOK, Workers, LeaseInv, ReturnInv, fenceVars
    <2>9. WorkerInv'
      BY <1>0, <1>1, <2>1, <2>3
         DEF FileTypes, Updaters, Journals, FenceTypeOK, Workers, WorkerInv, LeaseInv, DiskInv,
             StageInv, HandInv, ClosingInv, ReturnInv, fenceVars
    <2> QED
      BY <1>1, <2>1, <2>3, <2>4, <2>5, <2>6, <2>7, <2>8, <2>9, TypedAgain
  <1>4. CASE /\ ~up.jerr /\ up.cause # "storage"
             /\ up' = Discard(TRUE, up.j.candidate, "recovered")
             /\ up.policy /\ ledger' = Recorded("rollback")
    <2>1. /\ up.pc = "restoregate" /\ ~up.jerr /\ up.cause # "storage" /\ up.policy
          /\ up.j.candidate \in Versions \cup {0} /\ disk' = disk /\ slots' = slots
          /\ told' = told /\ UNCHANGED fenceVars /\ ledger' = "none"
      BY <1>0, <1>4, <1>f, LedgerValues
         DEF RestoreGate, InMemory, OnJournal, OnDisk, gateVars, GateInv, LedgerFollows, StageInv,
             BeforeCutover, Stages, GateTypeOK, Updaters, Journals
    <2>2. /\ "recovered" \in {"failed", "abandoned", "recovered", "updated"}
          /\ "discard" \in Pcs
      BY PcNames
    <2>3. /\ Abandon(up.j.candidate, "recovered") \in Updaters
          /\ Abandon(up.j.candidate, "recovered").pc = "discard"
          /\ Abandon(up.j.candidate, "recovered").ret = "idlewrite"
          /\ Abandon(up.j.candidate, "recovered").active = up.active
          /\ Abandon(up.j.candidate, "recovered").lease = up.lease
          /\ Abandon(up.j.candidate, "recovered").j.stage = "idle"
          /\ Abandon(up.j.candidate, "recovered").j.active = up.active
          /\ Abandon(up.j.candidate, "recovered").j.candidate = up.j.candidate
      BY <1>0, <2>1, <2>2, AbandonFields
    <2>4. /\ up' \in Updaters /\ up'.pc = "discard" /\ up'.active = up.active
          /\ up'.lease = up.lease /\ up'.ret = "idlewrite" /\ up'.j.stage = "idle"
          /\ up'.j.active = up.active /\ up'.j.candidate = up.j.candidate
      BY <1>0, <1>4, <2>1, <2>2, <2>3 DEF Abandon
    <2>5. ReturnInv' /\ ActiveInv' /\ StageInv' /\ HandInv' /\ ClosingInv'
      BY <1>0, <1>1, <2>1, <2>4
         DEF ReturnInv, ActiveInv, DiskInv, StageInv, HandInv, ClosingInv, FileTypes, Journals,
             Stages, Updaters, SlotInv
    <2>6. SlotInv'
      BY <1>0, <1>1, <2>1, <2>4
         DEF DiskInv, ReturnInv, ActiveInv, StageInv, HandInv, ClosingInv, SlotInv
    <2>7. DiskInv'
      BY <2>1 DEF DiskInv
    <2>8. GateInv'
      BY <1>0, <1>1, <2>1, <2>4 DEF GateInv, StageInv, ClosingInv, HandInv, LedgerFollows, Stages
    <2>9. LeaseInv'
      BY <1>0, <1>1, <2>1, <2>4
         DEF FileTypes, Updaters, Journals, FenceTypeOK, Workers, LeaseInv, ReturnInv, fenceVars
    <2>10. WorkerInv'
      BY <1>0, <1>1, <2>1, <2>4
         DEF FileTypes, Updaters, Journals, FenceTypeOK, Workers, WorkerInv, LeaseInv, DiskInv,
             StageInv, HandInv, ClosingInv, ReturnInv, fenceVars
    <2> QED
      BY <1>1, <2>1, <2>4, <2>5, <2>6, <2>7, <2>8, <2>9, <2>10, TypedAgain
  <1>5. CASE /\ ~up.jerr /\ up.cause # "storage"
             /\ up' = Discard(TRUE, up.j.candidate, "failed")
             /\ up.policy /\ ledger' = Recorded("rollback")
    <2>1. /\ up.pc = "restoregate" /\ ~up.jerr /\ up.cause # "storage" /\ up.policy
          /\ up.j.candidate \in Versions \cup {0} /\ disk' = disk /\ slots' = slots
          /\ told' = told /\ UNCHANGED fenceVars /\ ledger' = "none"
      BY <1>0, <1>5, <1>f, LedgerValues
         DEF RestoreGate, InMemory, OnJournal, OnDisk, gateVars, GateInv, LedgerFollows, StageInv,
             BeforeCutover, Stages, GateTypeOK, Updaters, Journals
    <2>2. "failed" \in {"failed", "abandoned", "recovered", "updated"} /\ "discard" \in Pcs
      BY PcNames
    <2>3. /\ Abandon(up.j.candidate, "failed") \in Updaters
          /\ Abandon(up.j.candidate, "failed").pc = "discard"
          /\ Abandon(up.j.candidate, "failed").ret = "idlewrite"
          /\ Abandon(up.j.candidate, "failed").active = up.active
          /\ Abandon(up.j.candidate, "failed").lease = up.lease
          /\ Abandon(up.j.candidate, "failed").j.stage = "idle"
          /\ Abandon(up.j.candidate, "failed").j.active = up.active
          /\ Abandon(up.j.candidate, "failed").j.candidate = up.j.candidate
      BY <1>0, <2>1, <2>2, AbandonFields
    <2>4. /\ up' \in Updaters /\ up'.pc = "discard" /\ up'.active = up.active
          /\ up'.lease = up.lease /\ up'.ret = "idlewrite" /\ up'.j.stage = "idle"
          /\ up'.j.active = up.active /\ up'.j.candidate = up.j.candidate
      BY <1>0, <1>5, <2>1, <2>2, <2>3 DEF Abandon
    <2>5. ReturnInv' /\ ActiveInv' /\ StageInv' /\ HandInv' /\ ClosingInv'
      BY <1>0, <1>1, <2>1, <2>4
         DEF ReturnInv, ActiveInv, DiskInv, StageInv, HandInv, ClosingInv, FileTypes, Journals,
             Stages, Updaters, SlotInv
    <2>6. SlotInv'
      BY <1>0, <1>1, <2>1, <2>4
         DEF DiskInv, ReturnInv, ActiveInv, StageInv, HandInv, ClosingInv, SlotInv
    <2>7. DiskInv'
      BY <2>1 DEF DiskInv
    <2>8. GateInv'
      BY <1>0, <1>1, <2>1, <2>4 DEF GateInv, StageInv, ClosingInv, HandInv, LedgerFollows, Stages
    <2>9. LeaseInv'
      BY <1>0, <1>1, <2>1, <2>4
         DEF FileTypes, Updaters, Journals, FenceTypeOK, Workers, LeaseInv, ReturnInv, fenceVars
    <2>10. WorkerInv'
      BY <1>0, <1>1, <2>1, <2>4
         DEF FileTypes, Updaters, Journals, FenceTypeOK, Workers, WorkerInv, LeaseInv, DiskInv,
             StageInv, HandInv, ClosingInv, ReturnInv, fenceVars
    <2> QED
      BY <1>1, <2>1, <2>4, <2>5, <2>6, <2>7, <2>8, <2>9, <2>10, TypedAgain
  <1> QED
    BY <1>0, <1>1, <1>2, <1>3, <1>4, <1>5, <1>c, TypedAgain DEF RestoreGate

LEMMA RollbackGateKeeps ==
    ASSUME TypeOK, UpdateInv, RollbackGate
    PROVE  TypeOK' /\ UpdateInv'
PROOF
  <1> USE Numbers
      DEF UpdateInv, Aside, BeforeCutover, Closing, Handling, Home, Limit, Outside, Swapped, Tame
  <1>0. FenceTypeOK /\ GateTypeOK /\ FileTypes /\ CountTypes /\ up \in Updaters
    BY TypeParts
  <1>c. /\ UNCHANGED <<index, offered, slots, disk, told, crashes, fenceVars>>
        /\ faults' \in 0..MaxFaults /\ moved' \in BOOLEAN /\ stranded' = stranded
        /\ \/ up' = Failed /\ ledger' = ledger
           \/ up' = [up EXCEPT !.pc = "idlewrite", !.done = "failed",
                            !.j = Retired(up.active, up.j.candidate)]
               /\ up.policy /\ Admits("rollback") /\ ledger' = Recorded("rollback")
           \/ /\ up' = Goto("block")
              /\ \/ ledger' \in {ledger, Targeted}
                 \/ Admits("rollback") /\ ledger' = Recorded("rollback")
    <2>1. faults \in 0..MaxFaults /\ moved \in BOOLEAN
      BY <1>0 DEF CountTypes, GateTypeOK
    <2>2. CASE Serving /\ HasActive
      BY <2>1, <2>2, CallEffect DEF RollbackGate, Retired
    <2>3. CASE Serving /\ ~HasActive
      BY <1>0, <2>1, <2>3 DEF RollbackGate, InMemory, OnJournal, OnDisk, gateVars, CountTypes
    <2>4. CASE ~Serving
      BY <1>0, <2>1, <2>4 DEF RollbackGate, InMemory, OnJournal, OnDisk, gateVars, CountTypes
    <2> QED BY <2>2, <2>3, <2>4
  <1>f. /\ UNCHANGED <<index, offered, slots, disk, told, crashes, fenceVars>>
        /\ faults' \in 0..MaxFaults /\ moved' \in BOOLEAN /\ stranded' = stranded
        /\ ledger' \in {"none", "target", "bound", "drained", "committed"}
    BY <1>0, <1>c, LedgerValues DEF GateTypeOK
  <1>1. FenceTypeOK' /\ GateTypeOK' /\ FileTypes' /\ CountTypes'
    BY <1>0, <1>f DEF FenceTypeOK, GateTypeOK, FileTypes, CountTypes, fenceVars
  <1>2. CASE ledger' = ledger /\ up' = Failed
    BY <1>0, <1>1, <1>2, FailKeeps, TypedAgain, <1>f
       DEF RollbackGate, InMemory, OnJournal, OnDisk, gateVars
  <1>3. CASE /\ up' = Goto("block")
             /\ ledger' \in {ledger, Targeted, Recorded("rollback")}
    <2>1. /\ up.pc = "regate" /\ ledger # "committed" /\ disk' = disk /\ slots' = slots
          /\ told' = told /\ UNCHANGED fenceVars /\ ledger' # "committed"
      BY <1>0, <1>3, <1>f, LedgerValues
         DEF RollbackGate, InMemory, OnJournal, OnDisk, gateVars, GateInv, LedgerFollows,
             StageInv, BeforeCutover, Stages, GateTypeOK, Updaters, Journals
    <2>2. "block" \in Pcs
      BY PcNames
    <2>3. /\ up' \in Updaters /\ up'.pc = "block" /\ up'.goal = up.goal
          /\ up'.active = up.active /\ up'.j = up.j /\ up'.policy = up.policy
          /\ up'.lease = up.lease /\ up'.reply = up.reply /\ up'.jerr = up.jerr
          /\ up'.cause = up.cause /\ up'.ret = up.ret
      BY <1>0, <1>3, <2>1, <2>2, GotoFields
    <2>4. ReturnInv' /\ ActiveInv' /\ StageInv' /\ HandInv' /\ ClosingInv'
      BY <1>0, <1>1, <2>1, <2>3
         DEF ReturnInv, ActiveInv, DiskInv, StageInv, HandInv, ClosingInv, FileTypes, Journals,
             Stages, Updaters, SlotInv
    <2>5. SlotInv'
      BY <1>0, <1>1, <2>1, <2>3
         DEF DiskInv, ReturnInv, ActiveInv, StageInv, HandInv, ClosingInv, SlotInv
    <2>6. DiskInv'
      BY <2>1 DEF DiskInv
    <2>7. GateInv'
      BY <1>0, <1>1, <2>1, <2>3 DEF GateInv, StageInv, ClosingInv, HandInv, LedgerFollows, Stages
    <2>8. LeaseInv'
      BY <1>0, <1>1, <2>1, <2>3
         DEF FileTypes, Updaters, Journals, FenceTypeOK, Workers, LeaseInv, ReturnInv, fenceVars
    <2>9. WorkerInv'
      BY <1>0, <1>1, <2>1, <2>3
         DEF FileTypes, Updaters, Journals, FenceTypeOK, Workers, WorkerInv, LeaseInv, DiskInv,
             StageInv, HandInv, ClosingInv, ReturnInv, fenceVars
    <2> QED
      BY <1>1, <2>1, <2>3, <2>4, <2>5, <2>6, <2>7, <2>8, <2>9, TypedAgain
  <1>4. CASE /\ up' = [up EXCEPT !.pc = "idlewrite", !.done = "failed",
                            !.j = Retired(up.active, up.j.candidate)]
             /\ up.policy /\ ledger' = Recorded("rollback")
    <2>1. /\ up.pc = "regate" /\ up.active \in Versions \cup {0}
          /\ up.j.candidate \in Versions \cup {0} /\ disk' = disk /\ slots' = slots
          /\ told' = told /\ UNCHANGED fenceVars /\ ledger' = "none"
      BY <1>0, <1>4, <1>f, LedgerValues
         DEF RollbackGate, InMemory, OnJournal, OnDisk, gateVars, GateInv, LedgerFollows,
             StageInv, BeforeCutover, Stages, GateTypeOK, Updaters, Journals
    <2>2. "idlewrite" \in Pcs
      BY PcNames
    <2>3. /\ Retired(up.active, up.j.candidate) \in Journals(Versions, 0..MaxLeases)
          /\ Retired(up.active, up.j.candidate).stage = "idle"
          /\ Retired(up.active, up.j.candidate).active = up.active
          /\ Retired(up.active, up.j.candidate).candidate = up.j.candidate
      BY <1>0, <2>1, <2>2, RetiredFields
    <2>4. /\ up' \in Updaters /\ up'.pc = "idlewrite" /\ up'.active = up.active
          /\ up'.j = Retired(up.active, up.j.candidate) /\ up'.lease = up.lease
          /\ up'.j.stage = "idle" /\ up'.j.active = up.active
          /\ up'.j.candidate = up.j.candidate
      BY <1>0, <1>4, <2>1, <2>2, <2>3 DEF Updaters
    <2>5. ReturnInv' /\ ActiveInv' /\ StageInv' /\ HandInv' /\ ClosingInv'
      BY <1>0, <1>1, <2>1, <2>4
         DEF ReturnInv, ActiveInv, DiskInv, StageInv, HandInv, ClosingInv, FileTypes, Journals,
             Stages, Updaters, SlotInv
    <2>6. SlotInv'
      BY <1>0, <1>1, <2>1, <2>4
         DEF DiskInv, ReturnInv, ActiveInv, StageInv, HandInv, ClosingInv, SlotInv
    <2>7. DiskInv'
      BY <2>1 DEF DiskInv
    <2>8. GateInv'
      BY <1>0, <1>1, <2>1, <2>4 DEF GateInv, StageInv, ClosingInv, HandInv, LedgerFollows, Stages
    <2>9. LeaseInv'
      BY <1>0, <1>1, <2>1, <2>4
         DEF FileTypes, Updaters, Journals, FenceTypeOK, Workers, LeaseInv, ReturnInv, fenceVars
    <2>10. WorkerInv'
      BY <1>0, <1>1, <2>1, <2>4
         DEF FileTypes, Updaters, Journals, FenceTypeOK, Workers, WorkerInv, LeaseInv, DiskInv,
             StageInv, HandInv, ClosingInv, ReturnInv, fenceVars
    <2> QED
      BY <1>1, <2>1, <2>4, <2>5, <2>6, <2>7, <2>8, <2>9, <2>10, TypedAgain
  <1> QED
    BY <1>0, <1>1, <1>2, <1>3, <1>4, <1>c, TypedAgain DEF RollbackGate

LEMMA LaunchKeeps ==
    ASSUME TypeOK, UpdateInv, Launch
    PROVE  TypeOK' /\ UpdateInv'
PROOF
  <1> USE Numbers
      DEF UpdateInv, Aside, BeforeCutover, Closing, Handling, Home, Limit, Outside, Swapped, Tame
  <1>0. FenceTypeOK /\ GateTypeOK /\ FileTypes /\ CountTypes /\ up \in Updaters
    BY TypeParts
  <1>1. FenceTypeOK' /\ GateTypeOK' /\ FileTypes' /\ CountTypes'
    <2>1. FenceTypeOK'
      <3>1. leases < MaxLeases => lastEpoch + 1 \in 0..MaxLeases /\ leases + 1 \in 0..MaxLeases
        BY <1>0 DEF FenceTypeOK, LeaseInv
      <3>2. /\ up.active \in Versions \cup {0} /\ up.j.candidate \in Versions \cup {0}
            /\ slots.staged \in Versions \cup {0} /\ slots.rollback \in Versions \cup {0}
        BY <1>0 DEF Updaters, Journals, FileTypes
      <3>3. ASSUME NEW id \in Versions \cup {0}, NEW runs \in Versions \cup {0},
                   Negotiate(id, runs), UNCHANGED <<hostd, own>>
            PROVE  FenceTypeOK'
        BY <1>0, <3>1, <3>3 DEF FenceTypeOK, Workers, Negotiate
      <3>4. CASE UNCHANGED fenceVars
        BY <1>0, <3>4 DEF FenceTypeOK, fenceVars
      <3> QED BY <3>2, <3>3, <3>4 DEF Launch
    <2>2. GateTypeOK'
      BY <1>0
         DEF GateTypeOK, Launch, WorkerFailed, InMemory, OnJournal, OnDisk, fenceVars, gateVars
    <2>3. FileTypes'
      BY <1>0, FaultCounted
         DEF FileTypes, Launch, WorkerFailed, InMemory, OnJournal, OnDisk, fenceVars, gateVars
    <2>4. CountTypes'
      BY <1>0, FaultCounted
         DEF CountTypes, Launch, WorkerFailed, InMemory, OnJournal, OnDisk, fenceVars, gateVars
    <2> QED BY <2>1, <2>2, <2>3, <2>4
  <1>2. CASE /\ up.pc = "launch" /\ Negotiate(up.j.candidate, slots.staged)
             /\ UNCHANGED <<hostd, own>>
             /\ up' = [up EXCEPT !.pc = "hello", !.lease = leases + 1, !.reply = "none"]
    <2>1. /\ up.pc = "launch" /\ slots.staged = disk.candidate /\ disk' = disk
          /\ slots' = slots /\ told' = told /\ ledger' = ledger /\ hostd' = hostd /\ own' = own
          /\ active' = active /\ persisted' = persisted /\ leases' = leases + 1
          /\ lastEpoch' = lastEpoch + 1 /\ candidate'.lease = leases + 1
          /\ candidate'.runs = slots.staged /\ candidate'.epoch = lastEpoch + 1
      BY <1>0, <1>2 DEF Launch, InMemory, OnJournal, OnDisk, gateVars, Negotiate, SlotInv, Swapped
    <2>2. "hello" \in Pcs
      BY PcNames
    <2>3. leases + 1 \in 0..MaxLeases
      BY <1>0, <2>1, <2>2, <1>1, FenceLeases
    <2>4. /\ up' \in Updaters /\ up'.pc = "hello" /\ up'.goal = up.goal
          /\ up'.active = up.active /\ up'.j = up.j /\ up'.policy = up.policy
          /\ up'.lease = leases + 1 /\ up'.reply = "none" /\ up'.jerr = up.jerr
          /\ up'.cause = up.cause /\ up'.ret = up.ret
      BY <1>0, <1>2, <2>1, <2>2, <2>3 DEF Updaters
    <2>5. ReturnInv' /\ ActiveInv' /\ StageInv' /\ HandInv' /\ ClosingInv'
      BY <1>0, <1>1, <2>1, <2>4
         DEF ReturnInv, ActiveInv, DiskInv, StageInv, HandInv, ClosingInv, FileTypes, Journals,
             Stages, Updaters, SlotInv
    <2>6. SlotInv'
      BY <1>0, <1>1, <2>1, <2>4
         DEF DiskInv, ReturnInv, ActiveInv, StageInv, HandInv, ClosingInv, SlotInv
    <2>7. DiskInv'
      BY <2>1 DEF DiskInv
    <2>8. GateInv'
      BY <1>0, <1>1, <2>1, <2>4 DEF GateInv, StageInv, ClosingInv, HandInv, LedgerFollows, Stages
    <2>9. LeaseInv'
      BY <1>0, <1>1, <2>1, <2>4
         DEF FileTypes, Updaters, Journals, FenceTypeOK, Workers, LeaseInv, ReturnInv, NoWorker
    <2>10. WorkerInv'
      BY <1>0, <1>1, <2>1, <2>4
         DEF FileTypes, Updaters, Journals, FenceTypeOK, Workers, WorkerInv, LeaseInv, DiskInv,
             StageInv, HandInv, ClosingInv, ReturnInv, NoWorker
    <2> QED
      BY <1>1, <2>1, <2>4, <2>5, <2>6, <2>7, <2>8, <2>9, <2>10, TypedAgain
  <1>3. CASE /\ up.pc = "relaunch" /\ Negotiate(up.active, slots.rollback)
             /\ UNCHANGED <<hostd, own>>
             /\ up' = [up EXCEPT !.pc = "rehello", !.lease = leases + 1, !.reply = "none"]
    <2>1. /\ up.pc = "relaunch" /\ slots.rollback = disk.active /\ disk' = disk
          /\ slots' = slots /\ told' = told /\ ledger' = ledger /\ hostd' = hostd /\ own' = own
          /\ active' = active /\ persisted' = persisted /\ leases' = leases + 1
          /\ lastEpoch' = lastEpoch + 1 /\ candidate'.lease = leases + 1
          /\ candidate'.runs = slots.rollback /\ candidate'.epoch = lastEpoch + 1
      BY <1>0, <1>3 DEF Launch, InMemory, OnJournal, OnDisk, gateVars, Negotiate, SlotInv, Swapped
    <2>2. "rehello" \in Pcs
      BY PcNames
    <2>3. leases + 1 \in 0..MaxLeases
      BY <1>0, <2>1, <2>2, <1>1, FenceLeases
    <2>4. /\ up' \in Updaters /\ up'.pc = "rehello" /\ up'.goal = up.goal
          /\ up'.active = up.active /\ up'.j = up.j /\ up'.policy = up.policy
          /\ up'.lease = leases + 1 /\ up'.reply = "none" /\ up'.jerr = up.jerr
          /\ up'.cause = up.cause /\ up'.ret = up.ret
      BY <1>0, <1>3, <2>1, <2>2, <2>3 DEF Updaters
    <2>5. ReturnInv' /\ ActiveInv' /\ StageInv' /\ HandInv' /\ ClosingInv'
      BY <1>0, <1>1, <2>1, <2>4
         DEF ReturnInv, ActiveInv, DiskInv, StageInv, HandInv, ClosingInv, FileTypes, Journals,
             Stages, Updaters, SlotInv
    <2>6. SlotInv'
      BY <1>0, <1>1, <2>1, <2>4
         DEF DiskInv, ReturnInv, ActiveInv, StageInv, HandInv, ClosingInv, SlotInv
    <2>7. DiskInv'
      BY <2>1 DEF DiskInv
    <2>8. GateInv'
      BY <1>0, <1>1, <2>1, <2>4 DEF GateInv, StageInv, ClosingInv, HandInv, LedgerFollows, Stages
    <2>9. LeaseInv'
      BY <1>0, <1>1, <2>1, <2>4
         DEF FileTypes, Updaters, Journals, FenceTypeOK, Workers, LeaseInv, ReturnInv, NoWorker
    <2>10. WorkerInv'
      BY <1>0, <1>1, <2>1, <2>4
         DEF FileTypes, Updaters, Journals, FenceTypeOK, Workers, WorkerInv, LeaseInv, DiskInv,
             StageInv, HandInv, ClosingInv, ReturnInv, NoWorker
    <2> QED
      BY <1>1, <2>1, <2>4, <2>5, <2>6, <2>7, <2>8, <2>9, <2>10, TypedAgain
  <1>4. CASE up.pc = "launch" /\ up' = Discard(TRUE, 0, "abandoned") /\ UNCHANGED fenceVars
    <2>1. /\ up.pc = "launch" /\ disk' = disk /\ slots' = slots /\ told' = told
          /\ ledger' = ledger /\ UNCHANGED fenceVars
      BY <1>0, <1>4 DEF Launch, InMemory, OnJournal, OnDisk, gateVars
    <2>2. /\ 0 \in Versions \cup {0}
          /\ "abandoned" \in {"failed", "abandoned", "recovered", "updated"}
          /\ "discard" \in Pcs
      BY PcNames
    <2>3. /\ Abandon(0, "abandoned") \in Updaters /\ Abandon(0, "abandoned").pc = "discard"
          /\ Abandon(0, "abandoned").ret = "idlewrite"
          /\ Abandon(0, "abandoned").active = up.active
          /\ Abandon(0, "abandoned").lease = up.lease
          /\ Abandon(0, "abandoned").j.stage = "idle"
          /\ Abandon(0, "abandoned").j.active = up.active
          /\ Abandon(0, "abandoned").j.candidate = 0
      BY <1>0, <2>1, <2>2, AbandonFields
    <2>4. /\ up' \in Updaters /\ up'.pc = "discard" /\ up'.active = up.active
          /\ up'.lease = up.lease /\ up'.ret = "idlewrite" /\ up'.j.stage = "idle"
          /\ up'.j.active = up.active /\ up'.j.candidate = 0
      BY <1>0, <1>4, <2>1, <2>2, <2>3 DEF Abandon
    <2>5. ReturnInv' /\ ActiveInv' /\ StageInv' /\ HandInv' /\ ClosingInv'
      BY <1>0, <1>1, <2>1, <2>4
         DEF ReturnInv, ActiveInv, DiskInv, StageInv, HandInv, ClosingInv, FileTypes, Journals,
             Stages, Updaters, SlotInv
    <2>6. SlotInv'
      BY <1>0, <1>1, <2>1, <2>4
         DEF DiskInv, ReturnInv, ActiveInv, StageInv, HandInv, ClosingInv, SlotInv
    <2>7. DiskInv'
      BY <2>1 DEF DiskInv
    <2>8. GateInv'
      BY <1>0, <1>1, <2>1, <2>4 DEF GateInv, StageInv, ClosingInv, HandInv, LedgerFollows, Stages
    <2>9. LeaseInv'
      BY <1>0, <1>1, <2>1, <2>4
         DEF FileTypes, Updaters, Journals, FenceTypeOK, Workers, LeaseInv, ReturnInv, fenceVars
    <2>10. WorkerInv'
      BY <1>0, <1>1, <2>1, <2>4
         DEF FileTypes, Updaters, Journals, FenceTypeOK, Workers, WorkerInv, LeaseInv, DiskInv,
             StageInv, HandInv, ClosingInv, ReturnInv, fenceVars
    <2> QED
      BY <1>1, <2>1, <2>4, <2>5, <2>6, <2>7, <2>8, <2>9, <2>10, TypedAgain
  <1>5. CASE up.pc = "relaunch" /\ up' = Goto("block") /\ UNCHANGED fenceVars
    <2>1. /\ up.pc = "relaunch" /\ disk' = disk /\ slots' = slots /\ told' = told
          /\ ledger' = ledger /\ UNCHANGED fenceVars
      BY <1>0, <1>5 DEF Launch, InMemory, OnJournal, OnDisk, gateVars
    <2>2. "block" \in Pcs
      BY PcNames
    <2>3. /\ up' \in Updaters /\ up'.pc = "block" /\ up'.goal = up.goal
          /\ up'.active = up.active /\ up'.j = up.j /\ up'.policy = up.policy
          /\ up'.lease = up.lease /\ up'.reply = up.reply /\ up'.jerr = up.jerr
          /\ up'.cause = up.cause /\ up'.ret = up.ret
      BY <1>0, <1>5, <2>1, <2>2, GotoFields
    <2>4. ReturnInv' /\ ActiveInv' /\ StageInv' /\ HandInv' /\ ClosingInv'
      BY <1>0, <1>1, <2>1, <2>3
         DEF ReturnInv, ActiveInv, DiskInv, StageInv, HandInv, ClosingInv, FileTypes, Journals,
             Stages, Updaters, SlotInv
    <2>5. SlotInv'
      BY <1>0, <1>1, <2>1, <2>3
         DEF DiskInv, ReturnInv, ActiveInv, StageInv, HandInv, ClosingInv, SlotInv
    <2>6. DiskInv'
      BY <2>1 DEF DiskInv
    <2>7. GateInv'
      BY <1>0, <1>1, <2>1, <2>3 DEF GateInv, StageInv, ClosingInv, HandInv, LedgerFollows, Stages
    <2>8. LeaseInv'
      BY <1>0, <1>1, <2>1, <2>3
         DEF FileTypes, Updaters, Journals, FenceTypeOK, Workers, LeaseInv, ReturnInv, fenceVars
    <2>9. WorkerInv'
      BY <1>0, <1>1, <2>1, <2>3
         DEF FileTypes, Updaters, Journals, FenceTypeOK, Workers, WorkerInv, LeaseInv, DiskInv,
             StageInv, HandInv, ClosingInv, ReturnInv, fenceVars
    <2> QED
      BY <1>1, <2>1, <2>3, <2>4, <2>5, <2>6, <2>7, <2>8, <2>9, TypedAgain
  <1> QED
    BY <1>0, <1>1, <1>2, <1>3, <1>4, <1>5, TypedAgain DEF Launch, WorkerFailed

LEMMA HelloKeeps ==
    ASSUME TypeOK, UpdateInv, Hello
    PROVE  TypeOK' /\ UpdateInv'
PROOF
  <1> USE Numbers
      DEF UpdateInv, Aside, BeforeCutover, Closing, Handling, Home, Limit, Outside, Swapped, Tame
  <1>0. FenceTypeOK /\ GateTypeOK /\ FileTypes /\ CountTypes /\ up \in Updaters
    BY TypeParts
  <1>1. FenceTypeOK' /\ GateTypeOK' /\ FileTypes' /\ CountTypes'
    <2>1. FenceTypeOK'
      BY <1>0 DEF FenceTypeOK, Workers, Hello, MarkReady, fenceVars
    <2>2. GateTypeOK'
      BY <1>0
         DEF GateTypeOK, Hello, WorkerFailed, InMemory, OnJournal, OnDisk, fenceVars, gateVars
    <2>3. FileTypes'
      BY <1>0, FaultCounted
         DEF FileTypes, Hello, WorkerFailed, InMemory, OnJournal, OnDisk, fenceVars, gateVars
    <2>4. CountTypes'
      BY <1>0, FaultCounted
         DEF CountTypes, Hello, WorkerFailed, InMemory, OnJournal, OnDisk, fenceVars, gateVars
    <2> QED BY <2>1, <2>2, <2>3, <2>4
  <1>2. CASE /\ up.pc = "hello" /\ MarkReady(up.lease)
             /\ UNCHANGED <<hostd, own>>
             /\ up' = [up EXCEPT !.pc = "validating", !.j.epoch = candidate.epoch]
    <2>1. /\ up.pc = "hello" /\ disk' = disk /\ slots' = slots /\ told' = told
          /\ ledger' = ledger /\ hostd' = hostd /\ own' = own /\ active' = active
          /\ persisted' = persisted /\ leases' = leases /\ lastEpoch' = lastEpoch
          /\ candidate'.lease = candidate.lease /\ candidate'.runs = candidate.runs
          /\ candidate'.epoch = candidate.epoch /\ candidate.epoch \in 0..MaxLeases
          /\ [up.j EXCEPT !.epoch = candidate.epoch] \in Journals(Versions, 0..MaxLeases)
      BY <1>0, <1>2
         DEF Hello, InMemory, OnJournal, OnDisk, gateVars, MarkReady, FenceTypeOK, Workers,
             Updaters, Journals
    <2>2. "validating" \in Pcs
      BY PcNames
    <2>3. /\ up' \in Updaters /\ up'.pc = "validating" /\ up'.goal = up.goal
          /\ up'.active = up.active /\ up'.policy = up.policy /\ up'.lease = up.lease
          /\ up'.reply = up.reply /\ up'.jerr = up.jerr /\ up'.cause = up.cause
          /\ up'.ret = up.ret /\ up'.j.active = up.j.active /\ up'.j.candidate = up.j.candidate
      BY <1>0, <1>2, <2>1, <2>2 DEF Updaters, Journals
    <2>4. ReturnInv' /\ ActiveInv' /\ StageInv' /\ HandInv' /\ ClosingInv'
      BY <1>0, <1>1, <2>1, <2>3
         DEF ReturnInv, ActiveInv, DiskInv, StageInv, HandInv, ClosingInv, FileTypes, Journals,
             Stages, Updaters, SlotInv
    <2>5. SlotInv'
      BY <1>0, <1>1, <2>1, <2>3
         DEF DiskInv, ReturnInv, ActiveInv, StageInv, HandInv, ClosingInv, SlotInv
    <2>6. DiskInv'
      BY <2>1 DEF DiskInv
    <2>7. GateInv'
      BY <1>0, <1>1, <2>1, <2>3 DEF GateInv, StageInv, ClosingInv, HandInv, LedgerFollows, Stages
    <2>8. LeaseInv'
      BY <1>0, <1>1, <2>1, <2>3
         DEF FileTypes, Updaters, Journals, FenceTypeOK, Workers, LeaseInv, ReturnInv, NoWorker
    <2>9. WorkerInv'
      BY <1>0, <1>1, <2>1, <2>3
         DEF FileTypes, Updaters, Journals, FenceTypeOK, Workers, WorkerInv, LeaseInv, DiskInv,
             StageInv, HandInv, ClosingInv, ReturnInv, NoWorker
    <2> QED
      BY <1>1, <2>1, <2>3, <2>4, <2>5, <2>6, <2>7, <2>8, <2>9, TypedAgain
  <1>3. CASE /\ up.pc = "rehello" /\ MarkReady(up.lease)
             /\ UNCHANGED <<hostd, own>>
             /\ up' = Goto("reactivate")
    <2>1. /\ up.pc = "rehello" /\ disk' = disk /\ slots' = slots /\ told' = told
          /\ ledger' = ledger /\ hostd' = hostd /\ own' = own /\ active' = active
          /\ persisted' = persisted /\ leases' = leases /\ lastEpoch' = lastEpoch
          /\ candidate'.lease = candidate.lease /\ candidate'.runs = candidate.runs
          /\ candidate'.epoch = candidate.epoch
      BY <1>0, <1>3
         DEF Hello, InMemory, OnJournal, OnDisk, gateVars, MarkReady, FenceTypeOK, Workers
    <2>2. "reactivate" \in Pcs
      BY PcNames
    <2>3. /\ up' \in Updaters /\ up'.pc = "reactivate" /\ up'.goal = up.goal
          /\ up'.active = up.active /\ up'.j = up.j /\ up'.policy = up.policy
          /\ up'.lease = up.lease /\ up'.reply = up.reply /\ up'.jerr = up.jerr
          /\ up'.cause = up.cause /\ up'.ret = up.ret
      BY <1>0, <1>3, <2>1, <2>2, GotoFields
    <2>4. ReturnInv' /\ ActiveInv' /\ StageInv' /\ HandInv' /\ ClosingInv'
      BY <1>0, <1>1, <2>1, <2>3
         DEF ReturnInv, ActiveInv, DiskInv, StageInv, HandInv, ClosingInv, FileTypes, Journals,
             Stages, Updaters, SlotInv
    <2>5. SlotInv'
      BY <1>0, <1>1, <2>1, <2>3
         DEF DiskInv, ReturnInv, ActiveInv, StageInv, HandInv, ClosingInv, SlotInv
    <2>6. DiskInv'
      BY <2>1 DEF DiskInv
    <2>7. GateInv'
      BY <1>0, <1>1, <2>1, <2>3 DEF GateInv, StageInv, ClosingInv, HandInv, LedgerFollows, Stages
    <2>8. LeaseInv'
      BY <1>0, <1>1, <2>1, <2>3
         DEF FileTypes, Updaters, Journals, FenceTypeOK, Workers, LeaseInv, ReturnInv, NoWorker
    <2>9. WorkerInv'
      BY <1>0, <1>1, <2>1, <2>3
         DEF FileTypes, Updaters, Journals, FenceTypeOK, Workers, WorkerInv, LeaseInv, DiskInv,
             StageInv, HandInv, ClosingInv, ReturnInv, NoWorker
    <2> QED
      BY <1>1, <2>1, <2>3, <2>4, <2>5, <2>6, <2>7, <2>8, <2>9, TypedAgain
  <1>4. CASE up.pc = "hello" /\ up' = Discard(TRUE, 0, "abandoned") /\ UNCHANGED fenceVars
    <2>1. /\ up.pc = "hello" /\ disk' = disk /\ slots' = slots /\ told' = told
          /\ ledger' = ledger /\ UNCHANGED fenceVars
      BY <1>0, <1>4 DEF Hello, InMemory, OnJournal, OnDisk, gateVars
    <2>2. /\ 0 \in Versions \cup {0}
          /\ "abandoned" \in {"failed", "abandoned", "recovered", "updated"}
          /\ "discard" \in Pcs
      BY PcNames
    <2>3. /\ Abandon(0, "abandoned") \in Updaters /\ Abandon(0, "abandoned").pc = "discard"
          /\ Abandon(0, "abandoned").ret = "idlewrite"
          /\ Abandon(0, "abandoned").active = up.active
          /\ Abandon(0, "abandoned").lease = up.lease
          /\ Abandon(0, "abandoned").j.stage = "idle"
          /\ Abandon(0, "abandoned").j.active = up.active
          /\ Abandon(0, "abandoned").j.candidate = 0
      BY <1>0, <2>1, <2>2, AbandonFields
    <2>4. /\ up' \in Updaters /\ up'.pc = "discard" /\ up'.active = up.active
          /\ up'.lease = up.lease /\ up'.ret = "idlewrite" /\ up'.j.stage = "idle"
          /\ up'.j.active = up.active /\ up'.j.candidate = 0
      BY <1>0, <1>4, <2>1, <2>2, <2>3 DEF Abandon
    <2>5. ReturnInv' /\ ActiveInv' /\ StageInv' /\ HandInv' /\ ClosingInv'
      BY <1>0, <1>1, <2>1, <2>4
         DEF ReturnInv, ActiveInv, DiskInv, StageInv, HandInv, ClosingInv, FileTypes, Journals,
             Stages, Updaters, SlotInv
    <2>6. SlotInv'
      BY <1>0, <1>1, <2>1, <2>4
         DEF DiskInv, ReturnInv, ActiveInv, StageInv, HandInv, ClosingInv, SlotInv
    <2>7. DiskInv'
      BY <2>1 DEF DiskInv
    <2>8. GateInv'
      BY <1>0, <1>1, <2>1, <2>4 DEF GateInv, StageInv, ClosingInv, HandInv, LedgerFollows, Stages
    <2>9. LeaseInv'
      BY <1>0, <1>1, <2>1, <2>4
         DEF FileTypes, Updaters, Journals, FenceTypeOK, Workers, LeaseInv, ReturnInv, fenceVars
    <2>10. WorkerInv'
      BY <1>0, <1>1, <2>1, <2>4
         DEF FileTypes, Updaters, Journals, FenceTypeOK, Workers, WorkerInv, LeaseInv, DiskInv,
             StageInv, HandInv, ClosingInv, ReturnInv, fenceVars
    <2> QED
      BY <1>1, <2>1, <2>4, <2>5, <2>6, <2>7, <2>8, <2>9, <2>10, TypedAgain
  <1>5. CASE up.pc = "rehello" /\ up' = Goto("block") /\ UNCHANGED fenceVars
    <2>1. /\ up.pc = "rehello" /\ disk' = disk /\ slots' = slots /\ told' = told
          /\ ledger' = ledger /\ UNCHANGED fenceVars
      BY <1>0, <1>5 DEF Hello, InMemory, OnJournal, OnDisk, gateVars
    <2>2. "block" \in Pcs
      BY PcNames
    <2>3. /\ up' \in Updaters /\ up'.pc = "block" /\ up'.goal = up.goal
          /\ up'.active = up.active /\ up'.j = up.j /\ up'.policy = up.policy
          /\ up'.lease = up.lease /\ up'.reply = up.reply /\ up'.jerr = up.jerr
          /\ up'.cause = up.cause /\ up'.ret = up.ret
      BY <1>0, <1>5, <2>1, <2>2, GotoFields
    <2>4. ReturnInv' /\ ActiveInv' /\ StageInv' /\ HandInv' /\ ClosingInv'
      BY <1>0, <1>1, <2>1, <2>3
         DEF ReturnInv, ActiveInv, DiskInv, StageInv, HandInv, ClosingInv, FileTypes, Journals,
             Stages, Updaters, SlotInv
    <2>5. SlotInv'
      BY <1>0, <1>1, <2>1, <2>3
         DEF DiskInv, ReturnInv, ActiveInv, StageInv, HandInv, ClosingInv, SlotInv
    <2>6. DiskInv'
      BY <2>1 DEF DiskInv
    <2>7. GateInv'
      BY <1>0, <1>1, <2>1, <2>3 DEF GateInv, StageInv, ClosingInv, HandInv, LedgerFollows, Stages
    <2>8. LeaseInv'
      BY <1>0, <1>1, <2>1, <2>3
         DEF FileTypes, Updaters, Journals, FenceTypeOK, Workers, LeaseInv, ReturnInv, fenceVars
    <2>9. WorkerInv'
      BY <1>0, <1>1, <2>1, <2>3
         DEF FileTypes, Updaters, Journals, FenceTypeOK, Workers, WorkerInv, LeaseInv, DiskInv,
             StageInv, HandInv, ClosingInv, ReturnInv, fenceVars
    <2> QED
      BY <1>1, <2>1, <2>3, <2>4, <2>5, <2>6, <2>7, <2>8, <2>9, TypedAgain
  <1> QED
    BY <1>0, <1>1, <1>2, <1>3, <1>4, <1>5, TypedAgain DEF Hello, WorkerFailed

LEMMA TellKeeps ==
    ASSUME TypeOK, UpdateInv, Tell
    PROVE  TypeOK' /\ UpdateInv'
PROOF
  <1> USE Numbers
      DEF UpdateInv, Aside, BeforeCutover, Closing, Handling, Home, Limit, Outside, Swapped, Tame
  <1>0. FenceTypeOK /\ GateTypeOK /\ FileTypes /\ CountTypes /\ up \in Updaters
    BY TypeParts
  <1>l. up.lease \in 1..leases
    BY <1>0 DEF Tell, LeaseInv, Handling, Updaters, FenceTypeOK
  <1>t. told \cup {up.lease} \subseteq 1..leases /\ own \notin told \cup {up.lease}
    <2>1. told \subseteq 1..leases /\ own \notin told /\ own # up.lease
      BY <1>l DEF LeaseInv
    <2> QED BY <1>l, <2>1
  <1>r. 1..leases \subseteq 1..MaxLeases
    BY <1>0 DEF FenceTypeOK
  <1>1. FenceTypeOK' /\ GateTypeOK' /\ FileTypes' /\ CountTypes'
    <2>1. FenceTypeOK'
      BY <1>0 DEF FenceTypeOK, Workers, Tell, InMemory, OnJournal, OnDisk, fenceVars, gateVars
    <2>2. GateTypeOK'
      BY <1>0 DEF GateTypeOK, Tell, InMemory, OnJournal, OnDisk, fenceVars, gateVars
    <2>3. FileTypes'
      BY <1>0 DEF FileTypes, Tell, InMemory, OnJournal, OnDisk, fenceVars, gateVars
    <2>4. CountTypes'
      BY <1>0, <1>t, <1>r DEF CountTypes, Tell
    <2> QED BY <2>1, <2>2, <2>3, <2>4
  <1>2. CASE up.pc = "activate" /\ up' = Goto("activating")
    <2>1. /\ up.pc = "activate" /\ up.lease \in 1..leases /\ disk' = disk /\ slots' = slots
          /\ ledger' = ledger /\ UNCHANGED fenceVars /\ told' = told \cup {up.lease}
          /\ told' \subseteq 1..leases /\ own \notin told'
      BY <1>0, <1>2, <1>l, <1>t DEF Tell, InMemory, OnJournal, OnDisk, gateVars
    <2>2. "activating" \in Pcs
      BY PcNames
    <2>3. /\ up' \in Updaters /\ up'.pc = "activating" /\ up'.goal = up.goal
          /\ up'.active = up.active /\ up'.j = up.j /\ up'.policy = up.policy
          /\ up'.lease = up.lease /\ up'.reply = up.reply /\ up'.jerr = up.jerr
          /\ up'.cause = up.cause /\ up'.ret = up.ret
      BY <1>0, <1>2, <2>1, <2>2, GotoFields
    <2>4. ReturnInv' /\ ActiveInv' /\ StageInv' /\ HandInv' /\ ClosingInv'
      BY <1>0, <1>1, <2>1, <2>3
         DEF ReturnInv, ActiveInv, DiskInv, StageInv, HandInv, ClosingInv, FileTypes, Journals,
             Stages, Updaters, SlotInv
    <2>5. SlotInv'
      BY <1>0, <1>1, <2>1, <2>3
         DEF DiskInv, ReturnInv, ActiveInv, StageInv, HandInv, ClosingInv, SlotInv
    <2>6. DiskInv'
      BY <2>1 DEF DiskInv
    <2>7. GateInv'
      BY <1>0, <1>1, <2>1, <2>3 DEF GateInv, StageInv, ClosingInv, HandInv, LedgerFollows, Stages
    <2>8. LeaseInv'
      BY <1>0, <1>1, <2>1, <2>3
         DEF FileTypes, Updaters, Journals, FenceTypeOK, Workers, LeaseInv, ReturnInv, fenceVars
    <2>9. WorkerInv'
      BY <1>0, <1>1, <2>1, <2>3
         DEF FileTypes, Updaters, Journals, FenceTypeOK, Workers, WorkerInv, LeaseInv, DiskInv,
             StageInv, HandInv, ClosingInv, ReturnInv, fenceVars
    <2> QED
      BY <1>1, <2>1, <2>3, <2>4, <2>5, <2>6, <2>7, <2>8, <2>9, TypedAgain
  <1>3. CASE up.pc = "reactivate" /\ up' = Goto("reactivating")
    <2>1. /\ up.pc = "reactivate" /\ up.lease \in 1..leases /\ disk' = disk /\ slots' = slots
          /\ ledger' = ledger /\ UNCHANGED fenceVars /\ told' = told \cup {up.lease}
          /\ told' \subseteq 1..leases /\ own \notin told'
      BY <1>0, <1>3, <1>l, <1>t DEF Tell, InMemory, OnJournal, OnDisk, gateVars
    <2>2. "reactivating" \in Pcs
      BY PcNames
    <2>3. /\ up' \in Updaters /\ up'.pc = "reactivating" /\ up'.goal = up.goal
          /\ up'.active = up.active /\ up'.j = up.j /\ up'.policy = up.policy
          /\ up'.lease = up.lease /\ up'.reply = up.reply /\ up'.jerr = up.jerr
          /\ up'.cause = up.cause /\ up'.ret = up.ret
      BY <1>0, <1>3, <2>1, <2>2, GotoFields
    <2>4. ReturnInv' /\ ActiveInv' /\ StageInv' /\ HandInv' /\ ClosingInv'
      BY <1>0, <1>1, <2>1, <2>3
         DEF ReturnInv, ActiveInv, DiskInv, StageInv, HandInv, ClosingInv, FileTypes, Journals,
             Stages, Updaters, SlotInv
    <2>5. SlotInv'
      BY <1>0, <1>1, <2>1, <2>3
         DEF DiskInv, ReturnInv, ActiveInv, StageInv, HandInv, ClosingInv, SlotInv
    <2>6. DiskInv'
      BY <2>1 DEF DiskInv
    <2>7. GateInv'
      BY <1>0, <1>1, <2>1, <2>3 DEF GateInv, StageInv, ClosingInv, HandInv, LedgerFollows, Stages
    <2>8. LeaseInv'
      BY <1>0, <1>1, <2>1, <2>3
         DEF FileTypes, Updaters, Journals, FenceTypeOK, Workers, LeaseInv, ReturnInv, fenceVars
    <2>9. WorkerInv'
      BY <1>0, <1>1, <2>1, <2>3
         DEF FileTypes, Updaters, Journals, FenceTypeOK, Workers, WorkerInv, LeaseInv, DiskInv,
             StageInv, HandInv, ClosingInv, ReturnInv, fenceVars
    <2> QED
      BY <1>1, <2>1, <2>3, <2>4, <2>5, <2>6, <2>7, <2>8, <2>9, TypedAgain
  <1> QED
    BY <1>0, <1>1, <1>2, <1>3, TypedAgain DEF Tell

LEMMA ActivatedKeeps ==
    ASSUME TypeOK, UpdateInv, Activated
    PROVE  TypeOK' /\ UpdateInv'
PROOF
  <1> USE Numbers
      DEF UpdateInv, Aside, BeforeCutover, Closing, Handling, Home, Limit, Outside, Swapped, Tame
  <1>0. FenceTypeOK /\ GateTypeOK /\ FileTypes /\ CountTypes /\ up \in Updaters
    BY TypeParts
  <1>1. FenceTypeOK' /\ GateTypeOK' /\ FileTypes' /\ CountTypes'
    BY <1>0, FaultCounted
       DEF FenceTypeOK, GateTypeOK, FileTypes, CountTypes, Activated, InMemory, OnJournal,
           OnDisk, fenceVars, gateVars
  <1>2. CASE up.pc = "activating" /\ up' = Failed
    BY <1>0, <1>1, <1>2, FailKeeps, TypedAgain
       DEF Activated, InMemory, OnJournal, OnDisk, gateVars
  <1>3. CASE up.pc = "activating" /\ up' = Goto("monitoring")
    <2>1. /\ up.pc = "activating" /\ disk' = disk /\ slots' = slots /\ told' = told
          /\ ledger' = ledger /\ UNCHANGED fenceVars
      BY <1>0, <1>3 DEF Activated, InMemory, OnJournal, OnDisk, gateVars
    <2>2. "monitoring" \in Pcs
      BY PcNames
    <2>3. /\ up' \in Updaters /\ up'.pc = "monitoring" /\ up'.goal = up.goal
          /\ up'.active = up.active /\ up'.j = up.j /\ up'.policy = up.policy
          /\ up'.lease = up.lease /\ up'.reply = up.reply /\ up'.jerr = up.jerr
          /\ up'.cause = up.cause /\ up'.ret = up.ret
      BY <1>0, <1>3, <2>1, <2>2, GotoFields
    <2>4. ReturnInv' /\ ActiveInv' /\ StageInv' /\ HandInv' /\ ClosingInv'
      BY <1>0, <1>1, <2>1, <2>3
         DEF ReturnInv, ActiveInv, DiskInv, StageInv, HandInv, ClosingInv, FileTypes, Journals,
             Stages, Updaters, SlotInv
    <2>5. SlotInv'
      BY <1>0, <1>1, <2>1, <2>3
         DEF DiskInv, ReturnInv, ActiveInv, StageInv, HandInv, ClosingInv, SlotInv
    <2>6. DiskInv'
      BY <2>1 DEF DiskInv
    <2>7. GateInv'
      BY <1>0, <1>1, <2>1, <2>3 DEF GateInv, StageInv, ClosingInv, HandInv, LedgerFollows, Stages
    <2>8. LeaseInv'
      BY <1>0, <1>1, <2>1, <2>3
         DEF FileTypes, Updaters, Journals, FenceTypeOK, Workers, LeaseInv, ReturnInv, fenceVars
    <2>9. WorkerInv'
      BY <1>0, <1>1, <2>1, <2>3
         DEF FileTypes, Updaters, Journals, FenceTypeOK, Workers, WorkerInv, LeaseInv, DiskInv,
             StageInv, HandInv, ClosingInv, ReturnInv, fenceVars
    <2> QED
      BY <1>1, <2>1, <2>3, <2>4, <2>5, <2>6, <2>7, <2>8, <2>9, TypedAgain
  <1>4. CASE up.pc = "reactivating" /\ up' = Goto("block")
    <2>1. /\ up.pc = "reactivating" /\ disk' = disk /\ slots' = slots /\ told' = told
          /\ ledger' = ledger /\ UNCHANGED fenceVars
      BY <1>0, <1>4 DEF Activated, InMemory, OnJournal, OnDisk, gateVars
    <2>2. "block" \in Pcs
      BY PcNames
    <2>3. /\ up' \in Updaters /\ up'.pc = "block" /\ up'.goal = up.goal
          /\ up'.active = up.active /\ up'.j = up.j /\ up'.policy = up.policy
          /\ up'.lease = up.lease /\ up'.reply = up.reply /\ up'.jerr = up.jerr
          /\ up'.cause = up.cause /\ up'.ret = up.ret
      BY <1>0, <1>4, <2>1, <2>2, GotoFields
    <2>4. ReturnInv' /\ ActiveInv' /\ StageInv' /\ HandInv' /\ ClosingInv'
      BY <1>0, <1>1, <2>1, <2>3
         DEF ReturnInv, ActiveInv, DiskInv, StageInv, HandInv, ClosingInv, FileTypes, Journals,
             Stages, Updaters, SlotInv
    <2>5. SlotInv'
      BY <1>0, <1>1, <2>1, <2>3
         DEF DiskInv, ReturnInv, ActiveInv, StageInv, HandInv, ClosingInv, SlotInv
    <2>6. DiskInv'
      BY <2>1 DEF DiskInv
    <2>7. GateInv'
      BY <1>0, <1>1, <2>1, <2>3 DEF GateInv, StageInv, ClosingInv, HandInv, LedgerFollows, Stages
    <2>8. LeaseInv'
      BY <1>0, <1>1, <2>1, <2>3
         DEF FileTypes, Updaters, Journals, FenceTypeOK, Workers, LeaseInv, ReturnInv, fenceVars
    <2>9. WorkerInv'
      BY <1>0, <1>1, <2>1, <2>3
         DEF FileTypes, Updaters, Journals, FenceTypeOK, Workers, WorkerInv, LeaseInv, DiskInv,
             StageInv, HandInv, ClosingInv, ReturnInv, fenceVars
    <2> QED
      BY <1>1, <2>1, <2>3, <2>4, <2>5, <2>6, <2>7, <2>8, <2>9, TypedAgain
  <1>5. CASE /\ up.pc = "reactivating" /\ up.reply = "active"
             /\ up' = [up EXCEPT !.pc = "storage1", !.ret = "regate"]
    <2>1. /\ up.pc = "reactivating" /\ up.reply = "active" /\ disk' = disk /\ slots' = slots
          /\ told' = told /\ ledger' = ledger /\ UNCHANGED fenceVars
      BY <1>0, <1>5 DEF Activated, InMemory, OnJournal, OnDisk, gateVars
    <2>2. "storage1" \in Pcs
      BY PcNames
    <2>3. /\ up' \in Updaters /\ up'.pc = "storage1" /\ up'.goal = up.goal
          /\ up'.active = up.active /\ up'.j = up.j /\ up'.policy = up.policy
          /\ up'.lease = up.lease /\ up'.reply = up.reply /\ up'.jerr = up.jerr
          /\ up'.cause = up.cause /\ up'.ret = "regate"
      BY <1>0, <1>5, <2>1, <2>2 DEF Updaters
    <2>4. ReturnInv' /\ ActiveInv' /\ StageInv' /\ HandInv' /\ ClosingInv'
      BY <1>0, <1>1, <2>1, <2>3
         DEF ReturnInv, ActiveInv, DiskInv, StageInv, HandInv, ClosingInv, FileTypes, Journals,
             Stages, Updaters, SlotInv
    <2>5. SlotInv'
      BY <1>0, <1>1, <2>1, <2>3
         DEF DiskInv, ReturnInv, ActiveInv, StageInv, HandInv, ClosingInv, SlotInv
    <2>6. DiskInv'
      BY <2>1 DEF DiskInv
    <2>7. GateInv'
      BY <1>0, <1>1, <2>1, <2>3 DEF GateInv, StageInv, ClosingInv, HandInv, LedgerFollows, Stages
    <2>8. LeaseInv'
      BY <1>0, <1>1, <2>1, <2>3
         DEF FileTypes, Updaters, Journals, FenceTypeOK, Workers, LeaseInv, ReturnInv, fenceVars
    <2>9. WorkerInv'
      BY <1>0, <1>1, <2>1, <2>3
         DEF FileTypes, Updaters, Journals, FenceTypeOK, Workers, WorkerInv, LeaseInv, DiskInv,
             StageInv, HandInv, ClosingInv, ReturnInv, fenceVars
    <2> QED
      BY <1>1, <2>1, <2>3, <2>4, <2>5, <2>6, <2>7, <2>8, <2>9, TypedAgain
  <1> QED
    BY <1>0, <1>1, <1>2, <1>3, <1>4, <1>5, TypedAgain DEF Activated, Updaters

LEMMA PublishKeeps ==
    ASSUME TypeOK, UpdateInv, Publish
    PROVE  TypeOK' /\ UpdateInv'
PROOF
  <1> USE Numbers
      DEF UpdateInv, Aside, BeforeCutover, Closing, Handling, Home, Limit, Outside, Swapped, Tame
  <1>0. FenceTypeOK /\ GateTypeOK /\ FileTypes /\ CountTypes /\ up \in Updaters
    BY TypeParts
  <1>1. FenceTypeOK' /\ GateTypeOK' /\ FileTypes' /\ CountTypes'
    BY <1>0
       DEF FenceTypeOK, GateTypeOK, FileTypes, CountTypes, Publish, InMemory, OnJournal, OnDisk,
           fenceVars, gateVars
  <1>2. TypeOK' /\ UpdateInv'
    BY <1>0, <1>1, FrameKeeps, TypedAgain DEF Publish, gateVars
  <1> QED
    BY <1>0, <1>1, <1>2, TypedAgain DEF Publish

LEMMA RolloutKeeps ==
    ASSUME TypeOK, UpdateInv, Rollout
    PROVE  TypeOK' /\ UpdateInv'
PROOF
  <1> USE Numbers
      DEF UpdateInv, Aside, BeforeCutover, Closing, Handling, Home, Limit, Outside, Swapped, Tame
  <1>0. FenceTypeOK /\ GateTypeOK /\ FileTypes /\ CountTypes /\ up \in Updaters
    BY TypeParts
  <1>1. FenceTypeOK' /\ GateTypeOK' /\ FileTypes' /\ CountTypes'
    BY <1>0
       DEF FenceTypeOK, GateTypeOK, FileTypes, CountTypes, Rollout, InMemory, OnJournal, OnDisk,
           fenceVars, gateVars
  <1>2. TypeOK' /\ UpdateInv'
    BY <1>0, <1>1, FrameKeeps, TypedAgain DEF Rollout, gateVars
  <1> QED
    BY <1>0, <1>1, <1>2, TypedAgain DEF Rollout

LEMMA GateKeeps ==
    ASSUME TypeOK, UpdateInv, Gate
    PROVE  TypeOK' /\ UpdateInv'
PROOF
  <1> USE Numbers
      DEF UpdateInv, Aside, BeforeCutover, Closing, Handling, Home, Limit, Outside, Swapped, Tame
  <1>0. FenceTypeOK /\ GateTypeOK /\ FileTypes /\ CountTypes /\ up \in Updaters
    BY TypeParts
  <1>1. FenceTypeOK' /\ GateTypeOK' /\ FileTypes' /\ CountTypes'
    BY <1>0
       DEF FenceTypeOK, GateTypeOK, FileTypes, CountTypes, Gate, WorkloadsChange, Purge,
           InMemory, OnJournal, OnDisk, fenceVars, gateVars
  <1>2. CASE WorkloadsChange
    BY <1>0, <1>1, <1>2, FrameKeeps, TypedAgain DEF Gate, gateVars, WorkloadsChange
  <1>3. CASE Purge
    <2>1. /\ disk' = disk /\ slots' = slots /\ told' = told /\ UNCHANGED fenceVars
          /\ ledger' = "none"
      BY <1>0, <1>3 DEF Gate, InMemory, OnJournal, OnDisk, gateVars, Purge
    <2>2. /\ up' \in Updaters /\ up'.pc = up.pc /\ up'.goal = up.goal /\ up'.active = up.active
          /\ up'.j = up.j /\ up'.policy = up.policy /\ up'.lease = up.lease
          /\ up'.reply = up.reply /\ up'.jerr = up.jerr /\ up'.cause = up.cause
          /\ up'.ret = up.ret
      BY <1>0, <1>3, <2>1 DEF Gate, Purge
    <2>3. ReturnInv' /\ ActiveInv' /\ StageInv' /\ HandInv' /\ ClosingInv'
      BY <1>0, <1>1, <2>1, <2>2
         DEF ReturnInv, ActiveInv, DiskInv, StageInv, HandInv, ClosingInv, FileTypes, Journals,
             Stages, Updaters, SlotInv
    <2>4. SlotInv'
      BY <1>0, <1>1, <2>1, <2>2
         DEF DiskInv, ReturnInv, ActiveInv, StageInv, HandInv, ClosingInv, SlotInv
    <2>5. DiskInv'
      BY <2>1 DEF DiskInv
    <2>6. GateInv'
      BY <1>0, <1>1, <2>1, <2>2 DEF GateInv, StageInv, ClosingInv, HandInv, LedgerFollows, Stages
    <2>7. LeaseInv'
      BY <1>0, <1>1, <2>1, <2>2
         DEF FileTypes, Updaters, Journals, FenceTypeOK, Workers, LeaseInv, ReturnInv, fenceVars
    <2>8. WorkerInv'
      BY <1>0, <1>1, <2>1, <2>2
         DEF FileTypes, Updaters, Journals, FenceTypeOK, Workers, WorkerInv, LeaseInv, DiskInv,
             StageInv, HandInv, ClosingInv, ReturnInv, fenceVars
    <2> QED
      BY <1>1, <2>1, <2>2, <2>3, <2>4, <2>5, <2>6, <2>7, <2>8, TypedAgain
  <1> QED
    BY <1>0, <1>1, <1>2, <1>3, TypedAgain DEF Gate, WorkloadsChange, Purge

LEMMA HostdKeeps ==
    ASSUME TypeOK, UpdateInv, Hostd
    PROVE  TypeOK' /\ UpdateInv'
PROOF
  <1> USE Numbers
      DEF UpdateInv, Aside, BeforeCutover, Closing, Handling, Home, Limit, Outside, Swapped, Tame
  <1>0. FenceTypeOK /\ GateTypeOK /\ FileTypes /\ CountTypes /\ up \in Updaters
    BY TypeParts
  <1>1. FenceTypeOK' /\ GateTypeOK' /\ FileTypes' /\ CountTypes'
    <2>1. FenceTypeOK'
      <3>1. CASE HostdCrash \/ HostdFenced
        <4>1. NoWorker \in Workers
          BY DEF NoWorker, Workers
        <4>2. hostdCrashes' \in 0..MaxHostdCrashes
          BY <1>0, <3>1 DEF FenceTypeOK, HostdCrash, HostdFenced
        <4> QED
          BY <1>0, <3>1, <4>1, <4>2
             DEF FenceTypeOK, HostdCrash, HostdFenced, NewController
      <3>2. CASE HostdBoot(slots.current)
        <4>1. leases + 1 \in 0..MaxLeases /\ lastEpoch + 1 \in 0..MaxLeases
          BY <1>0, <3>2 DEF FenceTypeOK, LeaseInv, HostdBoot, Negotiate
        <4> QED BY <1>0, <3>2, <4>1 DEF FenceTypeOK, FileTypes, Workers, HostdBoot, Negotiate
      <3>3. CASE HostdReady
        BY <1>0, <3>3 DEF FenceTypeOK, Workers, HostdReady, MarkReady
      <3>4. CASE HostdOwn
        BY <1>0, <3>4 DEF FenceTypeOK, Workers, NoWorker, HostdOwn, Promote
      <3> QED BY <3>1, <3>2, <3>3, <3>4 DEF Hostd, HostdStep
    <2>2. GateTypeOK'
      BY <1>0 DEF GateTypeOK, Hostd, HostdStep, InMemory, OnJournal, OnDisk, fenceVars, gateVars
    <2>3. FileTypes'
      BY <1>0 DEF FileTypes, Hostd, HostdStep, InMemory, OnJournal, OnDisk, fenceVars, gateVars
    <2>4. CountTypes'
      BY <1>0 DEF CountTypes, Hostd, HostdStep, InMemory, OnJournal, OnDisk, fenceVars, gateVars
    <2> QED BY <2>1, <2>2, <2>3, <2>4
  <1>2. CASE HostdCrash \/ HostdFenced
    <2>1. /\ UNCHANGED <<disk, slots, told, up, ledger>>
          /\ hostd' = "starting"
          /\ own' = 0
          /\ active' = NoWorker
          /\ active'.lease = 0
          /\ active'.runs = 0
          /\ candidate'.lease = 0
          /\ candidate'.runs = 0
          /\ candidate'.epoch = 0
          /\ lastEpoch' = persisted
          /\ persisted' = persisted
          /\ leases' = leases
      BY <1>0, <1>2 DEF Hostd, gateVars, HostdCrash, HostdFenced, NewController, NoWorker
    <2>2. LeaseInv'
      BY <1>0, <1>1, <2>1
         DEF FileTypes, Updaters, Journals, FenceTypeOK, Workers, LeaseInv, Handling
    <2>3. WorkerInv'
      BY <1>0, <1>1, <2>1
         DEF FileTypes, Updaters, Journals, FenceTypeOK, Workers, WorkerInv, LeaseInv, Tame,
             Limit, Handling, Closing, BeforeCutover
    <2> QED BY <1>0, <1>1, <2>1, <2>2, <2>3, FilesKeep, TypedAgain
  <1>3. CASE HostdBoot(slots.current)
    <2>1. /\ UNCHANGED <<disk, slots, told, up, ledger>>
          /\ hostd' = "booting"
          /\ own' = leases + 1
          /\ active' = active
          /\ active.lease = 0
          /\ active.runs = 0
          /\ persisted' = persisted
          /\ lastEpoch' = lastEpoch + 1
          /\ leases' = leases + 1
          /\ candidate'.lease = leases + 1
          /\ candidate'.epoch = lastEpoch + 1
      BY <1>0, <1>3 DEF Hostd, gateVars, HostdBoot, Negotiate, LeaseInv, NoWorker
    <2>2. LeaseInv'
      BY <1>0, <1>1, <2>1
         DEF FileTypes, Updaters, Journals, FenceTypeOK, Workers, LeaseInv, Handling
    <2>3. WorkerInv'
      BY <1>0, <1>1, <2>1
         DEF FileTypes, Updaters, Journals, FenceTypeOK, Workers, WorkerInv, LeaseInv, Tame,
             Limit, Handling, Closing, BeforeCutover
    <2> QED BY <1>0, <1>1, <2>1, <2>2, <2>3, FilesKeep, TypedAgain
  <1>4. CASE HostdReady
    <2>1. /\ UNCHANGED <<disk, slots, told, up, ledger>>
          /\ hostd' = hostd
          /\ own' = own
          /\ active' = active
          /\ persisted' = persisted
          /\ leases' = leases
          /\ lastEpoch' = lastEpoch
          /\ candidate'.lease = candidate.lease
          /\ candidate'.runs = candidate.runs
          /\ candidate'.epoch = candidate.epoch
      BY <1>0, <1>4 DEF Hostd, gateVars, HostdReady, MarkReady, FenceTypeOK, Workers
    <2>2. LeaseInv'
      BY <1>0, <1>1, <2>1
         DEF FileTypes, Updaters, Journals, FenceTypeOK, Workers, LeaseInv, Handling
    <2>3. WorkerInv'
      BY <1>0, <1>1, <2>1
         DEF FileTypes, Updaters, Journals, FenceTypeOK, Workers, WorkerInv, LeaseInv, Tame,
             Limit, Handling, Closing, BeforeCutover
    <2> QED BY <1>0, <1>1, <2>1, <2>2, <2>3, FilesKeep, TypedAgain
  <1>5. CASE HostdOwn
    <2>1. /\ UNCHANGED <<disk, slots, told, up, ledger>>
          /\ hostd' = "running"
          /\ own' = own
          /\ active' = candidate
          /\ candidate.lease = own
          /\ candidate'.lease = 0
          /\ candidate'.runs = 0
          /\ candidate'.epoch = 0
          /\ persisted' = candidate.epoch
          /\ lastEpoch' = lastEpoch
          /\ leases' = leases
      BY <1>0, <1>5 DEF Hostd, gateVars, HostdOwn, Promote, IsCandidate, NoWorker
    <2>2. LeaseInv'
      BY <1>0, <1>1, <2>1
         DEF FileTypes, Updaters, Journals, FenceTypeOK, Workers, LeaseInv, Handling
    <2>3. WorkerInv'
      BY <1>0, <1>1, <2>1
         DEF FileTypes, Updaters, Journals, FenceTypeOK, Workers, WorkerInv, LeaseInv, Tame,
             Limit, Handling, Closing, BeforeCutover
    <2> QED BY <1>0, <1>1, <2>1, <2>2, <2>3, FilesKeep, TypedAgain
  <1> QED
    BY <1>0, <1>1, <1>2, <1>3, <1>4, <1>5, TypedAgain DEF Hostd, HostdStep

LEMMA WorkerActivatesKeeps ==
    ASSUME TypeOK, UpdateInv, NEW lease \in 1..MaxLeases, WorkerActivates(lease)
    PROVE  TypeOK' /\ UpdateInv'
PROOF
  <1> USE Numbers
      DEF UpdateInv, Aside, BeforeCutover, Closing, Handling, Home, Limit, Outside, Swapped, Tame
  <1>0. FenceTypeOK /\ GateTypeOK /\ FileTypes /\ CountTypes /\ up \in Updaters
    BY TypeParts
  <1>1. FenceTypeOK' /\ GateTypeOK' /\ FileTypes' /\ CountTypes'
    <2>1. FenceTypeOK'
      BY <1>0 DEF FenceTypeOK, Workers, NoWorker, WorkerActivates, Promote
    <2>2. GateTypeOK'
      BY <1>0 DEF GateTypeOK, WorkerActivates, InMemory, OnJournal, OnDisk, fenceVars, gateVars
    <2>3. FileTypes'
      BY <1>0 DEF FileTypes, WorkerActivates, InMemory, OnJournal, OnDisk, fenceVars, gateVars
    <2>4. CountTypes'
      BY <1>0 DEF CountTypes, WorkerActivates, InMemory, OnJournal, OnDisk, fenceVars, gateVars
    <2> QED BY <2>1, <2>2, <2>3, <2>4
  <1>2. TypeOK' /\ UpdateInv'
    <2>1. /\ disk' = disk /\ slots' = slots /\ ledger' = ledger /\ lease \in told
          /\ told' = told \ {lease} /\ hostd' = hostd /\ own' = own /\ active' = candidate
          /\ candidate.lease = lease /\ candidate'.lease = 0 /\ candidate'.runs = 0
          /\ candidate'.epoch = 0 /\ persisted' = candidate.epoch /\ lastEpoch' = lastEpoch
          /\ leases' = leases /\ hostd # "starting"
      BY <1>0
         DEF WorkerActivates, InMemory, OnJournal, OnDisk, gateVars, Serving, Promote,
             IsCandidate, NoWorker
    <2>2. /\ up' \in Updaters /\ up'.pc = up.pc /\ up'.goal = up.goal /\ up'.active = up.active
          /\ up'.j = up.j /\ up'.policy = up.policy /\ up'.lease = up.lease
          /\ up'.jerr = up.jerr /\ up'.cause = up.cause /\ up'.ret = up.ret
          /\ up'.reply \in {up.reply, "active"}
          /\ up'.reply = "active" => (up.reply = "active" \/ up.lease = lease)
          /\ up.pc \in {"rehello", "reactivate"} => up'.reply = up.reply
      BY <1>0, <2>1 DEF WorkerActivates, Replied, Updaters
    <2>3. ReturnInv' /\ ActiveInv' /\ StageInv' /\ HandInv' /\ ClosingInv'
      BY <1>0, <1>1, <2>1, <2>2
         DEF ReturnInv, ActiveInv, DiskInv, StageInv, HandInv, ClosingInv, FileTypes, Journals,
             Stages, Updaters, SlotInv
    <2>4. SlotInv'
      BY <1>0, <1>1, <2>1, <2>2
         DEF DiskInv, ReturnInv, ActiveInv, StageInv, HandInv, ClosingInv, SlotInv
    <2>5. DiskInv'
      BY <2>1 DEF DiskInv
    <2>6. GateInv'
      BY <1>0, <1>1, <2>1, <2>2 DEF GateInv, StageInv, ClosingInv, HandInv, LedgerFollows, Stages
    <2>7. LeaseInv'
      BY <1>0, <1>1, <2>1, <2>2
         DEF FileTypes, Updaters, Journals, FenceTypeOK, Workers, LeaseInv, ReturnInv, NoWorker
    <2>8. WorkerInv'
      BY <1>0, <1>1, <2>1, <2>2
         DEF FileTypes, Updaters, Journals, FenceTypeOK, Workers, WorkerInv, LeaseInv, DiskInv,
             StageInv, HandInv, ClosingInv, ReturnInv, NoWorker
    <2> QED
      BY <1>1, <2>1, <2>2, <2>3, <2>4, <2>5, <2>6, <2>7, <2>8, TypedAgain
  <1> QED
    BY <1>0, <1>1, <1>2, TypedAgain DEF WorkerActivates

LEMMA WorkerExitsKeeps ==
    ASSUME TypeOK, UpdateInv, NEW lease \in 1..MaxLeases, WorkerExits(lease)
    PROVE  TypeOK' /\ UpdateInv'
PROOF
  <1> USE Numbers
      DEF UpdateInv, Aside, BeforeCutover, Closing, Handling, Home, Limit, Outside, Swapped, Tame
  <1>0. FenceTypeOK /\ GateTypeOK /\ FileTypes /\ CountTypes /\ up \in Updaters
    BY TypeParts
  <1>1. FenceTypeOK' /\ GateTypeOK' /\ FileTypes' /\ CountTypes'
    BY <1>0, FaultCounted
       DEF FenceTypeOK, GateTypeOK, FileTypes, CountTypes, WorkerExits, InMemory, OnJournal,
           OnDisk, fenceVars, gateVars
  <1>2. TypeOK' /\ UpdateInv'
    <2>1. /\ disk' = disk /\ slots' = slots /\ ledger' = ledger /\ UNCHANGED fenceVars
          /\ told' = told \ {lease}
      BY <1>0 DEF WorkerExits, InMemory, OnJournal, OnDisk, gateVars
    <2>2. /\ up' \in Updaters /\ up'.pc = up.pc /\ up'.goal = up.goal /\ up'.active = up.active
          /\ up'.j = up.j /\ up'.policy = up.policy /\ up'.lease = up.lease
          /\ up'.jerr = up.jerr /\ up'.cause = up.cause /\ up'.ret = up.ret
          /\ up'.reply \in {up.reply, "dead"}
          /\ up.pc \in {"rehello", "reactivate"} => up'.reply = up.reply
      BY <1>0, <2>1 DEF WorkerExits, Replied, Updaters
    <2>3. ReturnInv' /\ ActiveInv' /\ StageInv' /\ HandInv' /\ ClosingInv'
      BY <1>0, <1>1, <2>1, <2>2
         DEF ReturnInv, ActiveInv, DiskInv, StageInv, HandInv, ClosingInv, FileTypes, Journals,
             Stages, Updaters, SlotInv
    <2>4. SlotInv'
      BY <1>0, <1>1, <2>1, <2>2
         DEF DiskInv, ReturnInv, ActiveInv, StageInv, HandInv, ClosingInv, SlotInv
    <2>5. DiskInv'
      BY <2>1 DEF DiskInv
    <2>6. GateInv'
      BY <1>0, <1>1, <2>1, <2>2 DEF GateInv, StageInv, ClosingInv, HandInv, LedgerFollows, Stages
    <2>7. LeaseInv'
      BY <1>0, <1>1, <2>1, <2>2
         DEF FileTypes, Updaters, Journals, FenceTypeOK, Workers, LeaseInv, ReturnInv, fenceVars
    <2>8. WorkerInv'
      BY <1>0, <1>1, <2>1, <2>2
         DEF FileTypes, Updaters, Journals, FenceTypeOK, Workers, WorkerInv, LeaseInv, DiskInv,
             StageInv, HandInv, ClosingInv, ReturnInv, fenceVars
    <2> QED
      BY <1>1, <2>1, <2>2, <2>3, <2>4, <2>5, <2>6, <2>7, <2>8, TypedAgain
  <1> QED
    BY <1>0, <1>1, <1>2, TypedAgain DEF WorkerExits

-----------------------------------------------------------------------------
(* The specification. *)

LEMMA InitEstablishes ==
    ASSUME Init
    PROVE  TypeOK /\ UpdateInv
PROOF
  <1>1. FenceTypeOK /\ GateTypeOK /\ FileTypes /\ CountTypes
    <2>1. FenceTypeOK
      BY FenceAssumption DEF Init, FenceInit, FenceTypeOK, Workers, NoWorker
    <2>2. GateTypeOK
      BY Zenon DEF Init, GateInit, GateTypeOK
    <2>3. CountTypes
      BY UpdateAssumption, Numbers DEF Init, CountTypes
    <2>4. FileTypes
      BY Numbers DEF Init, FileTypes, NoJournal, Journals
    <2> QED BY <2>1, <2>2, <2>3, <2>4
  <1>2. up \in Updaters /\ up.pc = "down" /\ up.lease = 0
    <2>1. "down" \in Pcs /\ 0 \in Versions \cup {0}
      BY PcNames
    <2>2. up = Process("down", 0)
      BY DEF Init
    <2> QED BY <2>1, <2>2, ProcessFields
  <1>3. TypeOK
    BY <1>1, <1>2 DEF TypeOK, FileTypes, CountTypes, Updaters
  <1>4. DiskInv
    BY Numbers DEF Init, DiskInv, NoJournal, BeforeCutover
  <1>5. ReturnInv /\ ActiveInv /\ StageInv /\ HandInv /\ ClosingInv /\ SlotInv
    BY <1>2 DEF ReturnInv, ActiveInv, StageInv, HandInv, ClosingInv, SlotInv, Closing, Outside
  <1>6. GateInv
    BY <1>2 DEF Init, GateInit, GateInv, LedgerFollows, Closing
  <1>7. LeaseInv
    BY <1>2 DEF Init, FenceInit, LeaseInv, Handling, NoWorker
  <1>8. WorkerInv
    BY <1>2 DEF Init, FenceInit, WorkerInv, Handling, Tame, Closing
  <1> QED BY <1>3, <1>4, <1>5, <1>6, <1>7, <1>8 DEF UpdateInv

LEMMA NextKeeps ==
    ASSUME TypeOK, UpdateInv, [Next]_vars
    PROVE  TypeOK' /\ UpdateInv'
PROOF
  <1>1. CASE Updater
    BY <1>1,
       StartKeeps, RemoveStagedKeeps, WriteIdleKeeps, PromoteRemoveKeeps, PromoteRetireKeeps,
       PromoteInstallKeeps, RestoreQuarantineKeeps, RestoreCurrentKeeps, RecoverAbsentKeeps,
       RecoverSupersededKeeps, SupersedeKeeps, RecoverMismatchKeeps, RecoverKeepActiveKeeps,
       RecoverDiscardKeeps, RecoverDrainKeeps, RecoverCutoverKeeps, RecoverMonitorKeeps,
       RecoverCommittedKeeps, RecoverRollbackKeeps, RefuseKeeps, BeginKeeps, WriteStageKeeps,
       StageKeeps, LaunchKeeps, HelloKeeps, TellKeeps, ActivatedKeeps, CanaryKeeps, DrainKeeps,
       WriteCutoverKeeps, WritePromotedKeeps, MonitorKeeps, MonitoredKeeps, CommitKeeps,
       RestoreBeginKeeps, RestoreGateKeeps, BlockKeeps, RollbackBeginKeeps, RollbackGateKeeps
       DEF Updater
  <1>2. CASE WorkerStep
    BY <1>2, WorkerActivatesKeeps, WorkerExitsKeeps DEF WorkerStep
  <1>3. CASE Check \/ Reexec \/ Crash \/ Rollout \/ Publish \/ Hostd \/ Gate
    BY <1>3, CheckKeeps, ReexecKeeps, CrashKeeps, RolloutKeeps, PublishKeeps, HostdKeeps,
       GateKeeps
  <1>4. CASE UNCHANGED vars
    <2>1. UpdateInv'
      BY <1>4, FrameKeeps DEF vars, gateVars
    <2>2. TypeOK'
      BY <1>4 DEF vars, fenceVars, gateVars, TypeOK, FenceTypeOK, GateTypeOK
    <2> QED BY <2>1, <2>2
  <1> QED BY <1>1, <1>2, <1>3, <1>4 DEF Next

\* Every step of the updater, of its workers, of hostd and of its gate keeps
\* UpdateInv: at each step the updater knows the stage on disk, where the bytes
\* of both releases are, and which releases the workers it started may run.
THEOREM UpdateInvariance == Spec => [](TypeOK /\ UpdateInv)
PROOF
  <1>1. Init => TypeOK /\ UpdateInv
    BY InitEstablishes
  <1>2. TypeOK /\ UpdateInv /\ [Next]_vars => (TypeOK /\ UpdateInv)'
    BY NextKeeps
  <1> QED BY <1>1, <1>2, PTL DEF Spec

\* Journal, slots, fence, ledger and the updater's memory keep their types; the
\* epochs stay below the number of leases although hostd forgets the last one
\* when it restarts.
THEOREM UpdateTypeCorrect == Spec => []TypeOK
PROOF BY UpdateInvariance, PTL

\* Whatever fails and wherever the updater or hostd stops, the bytes of the
\* active release are in the current or the rollback slot.
THEOREM ActiveReleaseNeverLost == Spec => []ActiveReleaseKept
PROOF
  <1>1. TypeOK /\ UpdateInv => ActiveReleaseKept
    BY TypeParts DEF UpdateInv, DiskInv, ActiveReleaseKept, Home, Swapped, BeforeCutover,
                     FileTypes, Journals, Stages
  <1> QED BY <1>1, UpdateInvariance, PTL

\* Until the cutover is journaled, and again after a rollback, neither the current
\* slot nor a worker of the updater runs the candidate, even when the worker reads
\* its activation after the updater crashed.
THEOREM CutoverNeedsJournal == Spec => []CutoverIsJournaled
PROOF
  <1>1. ASSUME TypeOK, UpdateInv
        PROVE  CutoverIsJournaled
    <2>1. FenceTypeOK /\ FileTypes
      BY <1>1, TypeParts
    <2>2. active.runs \in Nat /\ disk.active \in Nat /\ disk.candidate \in Nat
      BY <2>1, Numbers DEF FenceTypeOK, FileTypes, Workers, Journals
    <2>3. disk.stage \in BeforeCutover => slots.current \in {disk.active, 0}
      BY <1>1 DEF UpdateInv, DiskInv, Home
    <2>4. disk.stage \in BeforeCutover => (active.lease # own => active.runs <= disk.active)
      BY <1>1 DEF UpdateInv, WorkerInv, Tame, Limit
    <2>5. disk.candidate # 0 => disk.candidate > disk.active
      BY <1>1 DEF UpdateInv, DiskInv
    <2> QED BY <2>2, <2>3, <2>4, <2>5 DEF CutoverIsJournaled
  <1> QED BY <1>1, UpdateInvariance, PTL

-----------------------------------------------------------------------------
(* The entries that the gate keeps of transactions the journal has forgotten. *)

\* They are of releases before the active one.
StrandedInv == \A release \in stranded : release < disk.active

\* The release in the journal never becomes an older one.
LEMMA Behind ==
    ASSUME TypeOK, TypeOK', StrandedInv, stranded' = stranded, disk'.active >= disk.active
    PROVE  StrandedInv'
PROOF
  <1>1. stranded \subseteq Nat /\ disk.active \in Nat /\ disk'.active \in Nat
    BY Numbers DEF TypeOK, GateTypeOK, Journals
  <1> QED BY <1>1 DEF StrandedInv

LEMMA SameJournal ==
    ASSUME TypeOK, TypeOK', StrandedInv, disk' = disk, stranded' = stranded
    PROVE  StrandedInv'
PROOF BY DEF StrandedInv

\* Steps that write neither the journal nor the ledger.
LEMMA QuietStrands ==
    ASSUME TypeOK, UpdateInv, TypeOK', StrandedInv,
           \/ Start \/ RemoveStaged \/ PromoteRemove \/ PromoteRetire \/ PromoteInstall
           \/ RestoreQuarantine \/ RestoreCurrent \/ RecoverSuperseded \/ RecoverMismatch
           \/ RecoverKeepActive \/ RecoverDiscard \/ RecoverDrain \/ RecoverCutover
           \/ RecoverMonitor \/ RecoverCommitted \/ Refuse \/ Stage \/ Launch \/ Hello \/ Tell
           \/ Activated \/ Monitored \/ Check \/ Reexec \/ Crash \/ Rollout \/ Publish
           \/ WorkerStep \/ Hostd \/ Gate \/ UNCHANGED vars
    PROVE  StrandedInv'
PROOF
  <1>1. CASE \/ Start \/ RecoverSuperseded \/ RecoverMismatch \/ RecoverKeepActive
             \/ RecoverDiscard \/ RecoverDrain \/ RecoverCutover \/ RecoverMonitor
             \/ RecoverCommitted \/ Refuse \/ Monitored \/ Check \/ Reexec
    <2>1. InMemory
      BY <1>1 DEF Start, RecoverSuperseded, RecoverMismatch, RecoverKeepActive, RecoverDiscard,
                  RecoverDrain, RecoverCutover, RecoverMonitor, RecoverCommitted, Refuse,
                  Monitored, Check, Reexec
    <2> QED BY <2>1, SameJournal DEF InMemory, OnJournal, OnDisk, gateVars
  <1>2. CASE \/ RemoveStaged \/ PromoteRemove \/ PromoteRetire \/ PromoteInstall
             \/ RestoreQuarantine \/ RestoreCurrent \/ Stage \/ Activated
    <2>1. OnDisk /\ disk' = disk
      BY <1>2 DEF RemoveStaged, PromoteRemove, PromoteRetire, PromoteInstall,
                  RestoreQuarantine, RestoreCurrent, Stage, Activated, OnJournal
    <2> QED BY <2>1, SameJournal DEF OnDisk, gateVars
  <1>3. CASE Launch \/ Hello \/ Tell \/ Crash \/ Rollout \/ Publish \/ Hostd
    <2>1. disk' = disk /\ UNCHANGED gateVars
      BY <1>3 DEF Launch, Hello, Tell, Crash, Rollout, Publish, Hostd
    <2> QED BY <2>1, SameJournal DEF gateVars
  <1>4. CASE WorkerStep
    BY <1>4, SameJournal DEF WorkerStep, WorkerActivates, WorkerExits, gateVars
  <1>5. CASE Gate
    BY <1>5, SameJournal DEF Gate, WorkloadsChange, Purge
  <1>6. CASE UNCHANGED vars
    BY <1>6, SameJournal DEF vars, gateVars
  <1> QED BY <1>1, <1>2, <1>3, <1>4, <1>5, <1>6

\* Gate calls.
LEMMA CallStrands ==
    ASSUME TypeOK, UpdateInv, TypeOK', StrandedInv,
           Canary \/ Drain \/ Monitor \/ Commit \/ RestoreGate \/ RollbackGate
    PROVE  StrandedInv'
PROOF
  <1>1. CASE InMemory
    BY <1>1, SameJournal DEF InMemory, OnJournal, OnDisk, gateVars
  <1>2. ASSUME NEW op, NEW passed, NEW refused, Call(op, passed, refused)
        PROVE  StrandedInv'
    <2>1. faults \in 0..MaxFaults /\ moved \in BOOLEAN
      BY DEF TypeOK, GateTypeOK
    <2> QED BY <1>2, <2>1, CallEffect, SameJournal
  <1> QED BY <1>1, <1>2 DEF Canary, Drain, Monitor, Commit, RestoreGate, RollbackGate

\* Writes of the journal in hand: it names the active release, or the candidate
\* once that is committed.
LEMMA WriteStrands ==
    ASSUME TypeOK, UpdateInv, TypeOK', StrandedInv,
           \/ WriteIdle \/ WriteStage \/ WriteCutover \/ WritePromoted \/ RestoreBegin \/ Block
           \/ RollbackBegin \/ RecoverRollback
    PROVE  StrandedInv'
PROOF
  <1>0. /\ disk \in Journals(Versions, 0..MaxLeases) /\ up \in Updaters
        /\ disk.active \in Nat /\ disk.candidate \in Nat
    <2>1. FileTypes /\ up \in Updaters
      BY TypeParts
    <2> QED BY <2>1, Numbers DEF FileTypes, Journals
  <1>a. ASSUME NEW j, NEW written, NEW failed, Write(j, written, failed), OnJournal,
               j.active >= disk.active
        PROVE  StrandedInv'
    <2>1. disk' \in {disk, j} /\ stranded' = stranded
      BY <1>a DEF Write, OnJournal, OnDisk, gateVars
    <2>2. disk'.active >= disk.active
      BY <1>0, <1>a, <2>1
    <2> QED BY <2>1, <2>2, Behind
  <1>b. up.j.active = disk.active =>
          /\ \A stage \in Stages : Transition(stage).active >= disk.active
          /\ RolledBack.active >= disk.active
    BY <1>0, TransitionFields, RolledBackFields
  <1>1. CASE WriteIdle
    <2>1. up.pc = "idlewrite" /\ OnJournal /\ Write(up.j, Returned, Failed)
      BY <1>1 DEF WriteIdle
    <2>2. disk.stage # "absent" /\ up.j.active = up.active
      BY <2>1 DEF UpdateInv, ClosingInv, Closing
    <2>3. up.active = disk.active \/ (up.active = disk.candidate /\ Swapped /\ up.active # 0)
      BY <2>1, <2>2 DEF UpdateInv, ActiveInv, Outside
    <2>4. up.j.active >= disk.active
      BY <1>0, <2>2, <2>3 DEF UpdateInv, DiskInv
    <2> QED BY <2>1, <2>4, <1>a
  <1>2. CASE WriteStage
    <2>1. up.pc \in DOMAIN AfterWrite /\ OnJournal
      BY <1>2 DEF WriteStage
    <2>2. up.pc \in {"checking", "staged", "started", "validating", "ready", "draining",
                     "monitoring", "committed"}
      BY <2>1 DEF AfterWrite
    <2>3. up.pc \in Stages /\ up.j.active = disk.active
      BY <2>2 DEF UpdateInv, HandInv, Outside, Stages
    <2>4. PICK written : Write(Transition(up.pc), written, Failed)
      BY <1>2 DEF WriteStage
    <2> QED BY <2>1, <2>3, <2>4, <1>a, <1>b
  <1>3. CASE WriteCutover
    <2>1. up.pc = "cutover" /\ OnJournal
      BY <1>3 DEF WriteCutover
    <2>2. "cutover" \in Stages /\ up.j.active = disk.active
      BY <2>1 DEF UpdateInv, HandInv, Outside, Stages
    <2>3. PICK written, failed : Write(Transition("cutover"), written, failed)
      BY <1>3 DEF WriteCutover
    <2> QED BY <2>1, <2>2, <2>3, <1>a, <1>b
  <1>4. CASE WritePromoted
    <2>1. up.pc = "promoted" /\ OnJournal
      BY <1>4 DEF WritePromoted
    <2>2. up.j.active = disk.active
      BY <2>1 DEF UpdateInv, HandInv, Outside
    <2>3. PICK written, failed : Write(up.j, written, failed)
      BY <1>4 DEF WritePromoted
    <2> QED BY <1>0, <2>1, <2>2, <2>3, <1>a
  <1>5. CASE RestoreBegin
    <2>1. up.pc = "restore" /\ OnJournal
      BY <1>5 DEF RestoreBegin
    <2>2. up.j.active = disk.active
      BY <2>1 DEF UpdateInv, HandInv, Outside
    <2>3. PICK written, failed : Write(RolledBack, written, failed)
      BY <1>5 DEF RestoreBegin, RolledBack
    <2> QED BY <2>1, <2>2, <2>3, <1>a, <1>b
  <1>6. CASE Block
    <2> DEFINE j == [up.j EXCEPT !.stage = "blocked"]
    <2>1. up.pc = "block" /\ OnJournal /\ Write(j, Failed, Failed)
      BY <1>6 DEF Block
    <2>2. up.j.active = disk.active
      BY <2>1 DEF UpdateInv, HandInv, Outside
    <2>3. j.active >= disk.active
      BY <1>0, <2>2 DEF Updaters, Journals
    <2> HIDE DEF j
    <2> QED BY <2>1, <2>3, <1>a
  <1>7. CASE RollbackBegin
    <2>1. up.pc = "rollback" /\ OnJournal
      BY <1>7 DEF RollbackBegin
    <2>2. up.j.active = disk.active
      BY <2>1 DEF UpdateInv, HandInv, Outside
    <2>3. PICK written : Write(RolledBack, written, Failed)
      BY <1>7 DEF RollbackBegin, RolledBack
    <2> QED BY <2>1, <2>2, <2>3, <1>a, <1>b
  <1>8. CASE RecoverRollback
    <2>1. CASE Allowed(disk.stage, "rollback")
      <3> DEFINE j == [disk EXCEPT !.stage = "rollback"]
      <3>1. OnJournal /\ \E written : Write(j, written, Failed)
        BY <1>8, <2>1 DEF RecoverRollback
      <3>2. j.active >= disk.active
        BY <1>0 DEF Journals
      <3> HIDE DEF j
      <3> QED BY <3>1, <3>2, <1>a
    <2>2. CASE ~Allowed(disk.stage, "rollback")
      BY <1>8, <2>2, SameJournal DEF RecoverRollback, OnJournal, OnDisk, gateVars
    <2> QED BY <2>1, <2>2
  <1> QED BY <1>1, <1>2, <1>3, <1>4, <1>5, <1>6, <1>7, <1>8

\* New transactions.  Only the one of a newer executable may leave a drained entry
\* behind, and the release that entry was about is then an older one.
LEMMA OpenStrands ==
    ASSUME TypeOK, UpdateInv, TypeOK', StrandedInv, RecoverAbsent \/ Supersede \/ Begin
    PROVE  StrandedInv'
PROOF
  <1>0. /\ stranded \subseteq Nat /\ disk.active \in Nat /\ disk.candidate \in Nat
        /\ up.active \in Nat /\ up.active \in Versions \cup {0}
    <2>1. FileTypes /\ GateTypeOK /\ up \in Updaters
      BY TypeParts
    <2> QED BY <2>1, Numbers DEF FileTypes, GateTypeOK, Journals, Updaters
  <1>1. PICK written : Open(written)
    BY DEF RecoverAbsent, Supersede, Begin
  <1>2. \/ disk' = disk /\ stranded' = stranded
        \/ /\ disk'.active = up.active
           /\ stranded' = IF ledger = "drained" THEN stranded \cup {disk.active} ELSE stranded
    BY <1>0, <1>1, OpenEffect, JournalFields
  <1>3. CASE disk' = disk /\ stranded' = stranded
    BY <1>3, SameJournal
  <1>4. CASE /\ disk'.active = up.active
             /\ stranded' = IF ledger = "drained" THEN stranded \cup {disk.active} ELSE stranded
    <2>1. CASE Supersede
      <3>1. up.active > disk.active
        BY <1>0, <2>1, Numbers DEF Supersede, UpdateInv, ActiveInv, DiskInv
      <3>2. \A release \in stranded' : release \in stranded \/ release = disk.active
        BY <1>4
      <3> QED BY <1>0, <1>4, <3>1, <3>2 DEF StrandedInv
    <2>2. CASE RecoverAbsent \/ Begin
      <3>1. disk.stage \in {"absent", "idle", "checking"}
        BY <2>2 DEF RecoverAbsent, Begin, UpdateInv, StageInv
      <3>2. ledger # "drained"
        BY <3>1 DEF UpdateInv, GateInv, LedgerFollows, BeforeCutover, Stages
      <3>3. up.active >= disk.active
        <4>1. CASE RecoverAbsent
          BY <1>0, <4>1, AbsentJournal DEF RecoverAbsent, UpdateInv
        <4>2. CASE Begin
          BY <1>0, <4>2 DEF Begin, UpdateInv, HandInv, Outside
        <4> QED BY <2>2, <4>1, <4>2
      <3> QED BY <1>4, <3>2, <3>3, Behind
    <2> QED BY <2>1, <2>2
  <1> QED BY <1>2, <1>3, <1>4

\* The journal's own transaction is drained at hostd only past its drain in the
\* journal, and committed there only once it is committed in the journal; the
\* drained entries that hostd keeps of forgotten transactions are of releases the
\* machine has left behind.
THEOREM LedgerFollowsJournal == Spec => []LedgerAgrees
PROOF
  <1>1. Init => StrandedInv
    BY DEF Init, GateInit, StrandedInv
  <1>2. ASSUME TypeOK, UpdateInv, TypeOK', StrandedInv, [Next]_vars
        PROVE  StrandedInv'
    <2>1. CASE Updater
      BY <1>2, <2>1, QuietStrands, CallStrands, WriteStrands, OpenStrands DEF Updater
    <2>2. CASE \/ Check \/ Reexec \/ Crash \/ Rollout \/ Publish \/ WorkerStep \/ Hostd \/ Gate
               \/ UNCHANGED vars
      BY <1>2, <2>2, QuietStrands
    <2> QED BY <1>2, <2>1, <2>2 DEF Next
  <1>3. UpdateInv /\ StrandedInv => LedgerAgrees
    BY DEF UpdateInv, GateInv, StrandedInv, LedgerAgrees
  <1>4. (TypeOK /\ UpdateInv) /\ (TypeOK /\ UpdateInv)' /\ StrandedInv /\ [Next]_vars
          => StrandedInv'
    BY <1>2
  <1> QED BY <1>1, <1>3, <1>4, UpdateInvariance, PTL DEF Spec
=============================================================================
