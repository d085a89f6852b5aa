----------------------------- MODULE MCExecutor -----------------------------
(* Two or three list entries, so that a few sleeps fill the list; sleeps   *)
(* of zero, one and two ticks, so that a future is due at once, at the     *)
(* next tick, and after a tick that finds it pending.                      *)
EXTENDS Executor
Sleeps == 0 .. 2
=============================================================================
