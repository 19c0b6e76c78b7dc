---------------------------- MODULE UpdateJournal ----------------------------
(***************************************************************************)
(* The update journal of package updateflow: its stages, the transitions   *)
(* between them, and the recovery each stage calls for.                    *)
(***************************************************************************)
EXTENDS Integers

Stages == {"idle", "checking", "staged", "started", "validating", "ready", "draining",
           "cutover", "monitoring", "committed", "rollback", "blocked"}

\* Journal.Transition's table.
AllowedNext ==
    [idle       |-> {"checking"},
     checking   |-> {"staged", "idle", "blocked"},
     staged     |-> {"started", "idle", "blocked"},
     started    |-> {"validating", "rollback", "blocked"},
     validating |-> {"ready", "rollback", "blocked"},
     ready      |-> {"draining", "rollback", "blocked"},
     draining   |-> {"cutover", "rollback", "blocked"},
     cutover    |-> {"monitoring", "rollback", "blocked"},
     monitoring |-> {"committed", "rollback", "blocked"},
     committed  |-> {"idle"},
     rollback   |-> {"idle", "blocked"},
     blocked    |-> {"rollback"}]

Allowed(from, to) == to \in AllowedNext[from]

\* Journal.Recovery.
Recovery(stage) ==
    CASE stage \in {"idle", "checking"}                        -> "keep_active"
      [] stage \in {"staged", "started", "validating", "ready"} -> "discard_candidate"
      [] stage = "draining"                                    -> "restore_drained_active"
      [] stage = "cutover"                                     -> "query_hostd_epoch"
      [] stage = "monitoring"                                  -> "continue_monitoring"
      [] stage = "committed"                                   -> "finalize_cleanup"
      [] stage \in {"rollback", "blocked"}                     -> "perform_rollback"

\* The fields recovery reads.  The worker's identity is derived from the
\* candidate's version, and a failure of any kind is the same to recovery.
\* "absent" is the missing file.
Journals(versions, epochs) ==
    [stage : Stages \cup {"absent"}, active : versions \cup {0},
     candidate : versions \cup {0}, epoch : epochs, failed : BOOLEAN]

NoJournal == [stage |-> "absent", active |-> 0, candidate |-> 0, epoch |-> 0, failed |-> FALSE]

\* Manager.newJournal, and Manager.idleJournal which keeps the candidate only
\* to quarantine it.
NewJournal(version) == [NoJournal EXCEPT !.stage = "idle", !.active = version]

IdleJournal(version, failure, quarantine) ==
    [NewJournal(version) EXCEPT !.failed = failure, !.candidate = quarantine]

\* Manager.quarantinedLocked.
Quarantined(j) == IF j.stage = "idle" /\ j.failed THEN j.candidate ELSE 0

\* candidateMayBeActive.
CandidateMayBeActive(stage) == stage \in {"cutover", "monitoring", "committed"}

\* RecoveryReleaseFromJournal: the release an executable that the signed index
\* does not list takes for the active one, 0 when the journal does not name it.
RecoveryRelease(j, executable) ==
    IF /\ j.stage # "absent"
       /\ \/ j.active = executable
          \/ j.candidate = executable /\ CandidateMayBeActive(j.stage)
      THEN j.active
      ELSE 0
=============================================================================
