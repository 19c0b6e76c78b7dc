-------------------------- MODULE MCTerminalOutput --------------------------
(* TerminalOutput on a small instance; the .cfg gives the bounds.           *)
EXTENDS TerminalOutput
=============================================================================
