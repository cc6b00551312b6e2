---------------------------- MODULE MCStopPoints ----------------------------
(* StopPoints for TLC: three watch starts, a breakpoint at one of two pcs, *)
(* one condition bytecode, s and i of one and two cycles.                  *)
EXTENDS StopPoints
=============================================================================
