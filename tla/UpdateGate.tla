----------------------------- MODULE UpdateGate -----------------------------
(***************************************************************************)
(* The activation gate an update passes: the updater's side                *)
(* (deploymentActivationGate) and hostd's ledger of update transactions    *)
(* (standaloneUpdateGate), which outlives both processes.  The ledger is   *)
(* keyed by transaction and a transaction never asks about another one:    *)
(* `ledger' is the entry of the transaction the update journal names,      *)
(* `stranded' the drained entries of transactions it names no more, each   *)
(* by the release that was active in it.  Nothing drops a drained entry    *)
(* but the rollback or the commit of its own transaction.                  *)
(***************************************************************************)
EXTENDS Integers

VARIABLES
    ledger,   \* "none", "target", "bound", "drained" or "committed"
    stranded, \* drained transactions the journal has forgotten
    moved     \* hostd's workloads are not the ones the drain recorded

gateVars == <<ledger, stranded, moved>>

GateTypeOK ==
    /\ ledger \in {"none", "target", "bound", "drained", "committed"}
    /\ stranded \subseteq Nat
    /\ moved \in BOOLEAN

GateInit ==
    /\ ledger = "none"
    /\ stranded = {}
    /\ moved = FALSE

\* CurrentTarget opens the entry when there is none.
Targeted == IF ledger = "none" THEN "target" ELSE ledger

\* HandleUpdateGate's condition for each operation, on the targeted entry.
Admits(op) ==
    CASE op = "candidate" -> Targeted \in {"target", "bound", "drained"}
      [] op = "drain"     -> Targeted \in {"bound", "drained"}
      [] op = "stability" -> Targeted = "drained" /\ ~moved
      [] op = "rollback"  -> Targeted \in {"bound", "drained"}
      [] op = "commit"    -> Targeted = "committed" \/ (Targeted = "drained" /\ ~moved)

\* What the operation leaves in the ledger.
Recorded(op) ==
    CASE op = "candidate" -> IF Targeted = "drained" THEN "drained" ELSE "bound"
      [] op = "drain"     -> "drained"
      [] op = "stability" -> "drained"
      [] op = "rollback"  -> "none"
      [] op = "commit"    -> "committed"

\* The updater refuses a release that carries no signed activation policy
\* before it asks hostd; a rollback asks for the target first, and hostd
\* refuses the empty path, status and samples.
Refused(op, policy) ==
    IF policy \/ op = "rollback" THEN Targeted ELSE ledger

\* The possible outcomes of one gate call: hostd's own answer, or a failure
\* (a probe, a write of the ledger, a lost answer) before or after the entry
\* was opened or changed.
Outcomes(op, policy) ==
    IF policy /\ Admits(op)
      THEN {[ok |-> TRUE, ledger |-> Recorded(op), fault |-> FALSE]} \cup
           {[ok |-> FALSE, ledger |-> l, fault |-> TRUE] : l \in {ledger, Targeted, Recorded(op)}}
      ELSE {[ok |-> FALSE, ledger |-> Refused(op, policy), fault |-> FALSE]}

Answer(op, outcome) ==
    /\ ledger' = outcome.ledger
    /\ moved' = (moved /\ ~(op = "drain" /\ outcome.ledger = "drained"))
    /\ UNCHANGED stranded

\* The journal names another transaction from now on; nobody tells the gate.
Forget(release) ==
    /\ ledger' = "none"
    /\ stranded' = IF ledger = "drained" THEN stranded \cup {release} ELSE stranded
    /\ UNCHANGED moved

-----------------------------------------------------------------------------
\* A session, preview, tunnel or transfer of hostd starts or ends.
WorkloadsChange ==
    /\ ledger = "drained"
    /\ ~moved
    /\ moved' = TRUE
    /\ UNCHANGED <<ledger, stranded>>

\* An entry that is not drained is dropped two hours after it was opened.
Purge ==
    /\ ledger \in {"target", "bound", "committed"}
    /\ ledger' = "none"
    /\ UNCHANGED <<stranded, moved>>
=============================================================================
