--------------------------- MODULE OperationStore ---------------------------
(***************************************************************************)
(* The table operation_results of the host runtime's SQLite store, which   *)
(* the operation journal and the executions share: one row per operation,  *)
(* reserved before the operation runs and completed with its outcome.  A   *)
(* statement is atomic and durable (WAL, synchronous=FULL).  `run' is the  *)
(* outcome, named by the run that produced it; `expired' says that the     *)
(* time expires_at has passed.                                             *)
(***************************************************************************)
EXTENDS Integers

Rows(hashes, runs) ==
    [state : {"none", "pending", "completed"}, hash : hashes \cup {0}, run : runs \cup {0},
     expired : BOOLEAN]

NoRow == [state |-> "none", hash |-> 0, run |-> 0, expired |-> FALSE]

\* Store.ReserveOperation: INSERT ... ON CONFLICT DO NOTHING, and ErrConflict
\* when the row belongs to another request.
Reservable(row) == row.state = "none"
Reserved(hash) == [NoRow EXCEPT !.state = "pending", !.hash = hash]
Conflict(row, hash) == row.state # "none" /\ row.hash # hash

\* Store.CompleteOperation succeeds on the pending row of the same request, and
\* repeats on a row that is completed with the same outcome.
CompleteOK(row, hash, run) ==
    /\ row.hash = hash
    /\ row.state = "pending" \/ (row.state = "completed" /\ row.run = run)

Completed(row, hash, run) ==
    IF row.state = "pending" /\ row.hash = hash
      THEN [row EXCEPT !.state = "completed", !.run = run, !.expired = FALSE]
      ELSE row

\* Mutant: pending rows are taken for garbage.
Purged_Pending(row) == IF row.expired \/ row.state = "pending" THEN NoRow ELSE row

\* Store.DeleteExpiredOperations.
Purged(row) == IF row.expired THEN NoRow ELSE row
=============================================================================
