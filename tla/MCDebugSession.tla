--------------------------- MODULE MCDebugSession ---------------------------
(* Model-checking instance of DebugSession: the commands GDB sends and the *)
(* number of connections it opens.                                         *)
EXTENDS DebugSession

\* continue, step, halt-reason query and register read
MCUserCmds == {"c", "s", "?", "g"}
=============================================================================
