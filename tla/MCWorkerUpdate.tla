--------------------------- MODULE MCWorkerUpdate ---------------------------
(***************************************************************************)
(* Instances of WorkerUpdate for TLC.                                      *)
(***************************************************************************)
EXTENDS WorkerUpdate
=============================================================================
