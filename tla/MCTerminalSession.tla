------------------------- MODULE MCTerminalSession -------------------------
(* TerminalSession on a small instance; the .cfg gives the bounds.         *)
EXTENDS TerminalSession
=============================================================================
