----------------------------- MODULE MCSpinlock -----------------------------
(* Three contexts: one holds the lock, one spins or tries, and one may let *)
(* a third in between their steps.                                         *)
EXTENDS Spinlock
=============================================================================
