------------------------- MODULE MCOperationJournal -------------------------
(* The journal with model values for callers and operations. *)
EXTENDS OperationJournal, TLC

=============================================================================
