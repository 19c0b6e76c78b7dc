------------------------- MODULE MCTransportManager -------------------------
(* Two transport keys under one prefix. *)
EXTENDS TransportManager, TLC

AllScopes == SUBSET Keys \ {{}}
ConsumerSymmetry == Permutations(Consumers)
=============================================================================
