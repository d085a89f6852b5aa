------------------------------ MODULE Spinlock ------------------------------
(***************************************************************************)
(* The spinlock (kernel/kernel/spinlock.c) used by contexts that run at    *)
(* once.  Every access to the lock is a step.                              *)
(*                                                                         *)
(* set_val_atomic exchanges a 32-bit register with the 8-bit lock: it also *)
(* reads, and clears, the three bytes beside it.                           *)
(***************************************************************************)
EXTENDS Integers

CONSTANT Contexts   \* what runs at once

VARIABLES
  locked,    \* lock->locked
  beside,    \* are the three bytes after it not all 0? (0 or 1)
  pc,        \* where each context is
  trying,    \* is its call spin_trylock, not spin_lock?
  result,    \* did its exchange return 0? (0, or 1 for anything else)
  clobbered  \* history: an exchange has cleared data beside the lock

vars == <<locked, beside, pc, trying, result, clobbered>>

Init ==
  /\ locked = 0
  /\ beside = 0
  /\ pc = [c \in Contexts |-> "idle"]
  /\ trying = [c \in Contexts |-> FALSE]
  /\ result = [c \in Contexts |-> 0]
  /\ clobbered = FALSE

Goto(c, from, to) == pc[c] = from /\ pc' = [pc EXCEPT ![c] = to]

\* The assert and panic of panic.c: a context that panics halts for ever.
AssertThen(cond, label) == IF cond THEN label ELSE "panic"

----------------------------------------------------------------------------
(* spin_lock and spin_trylock.                                             *)

Call(c, try) ==
  /\ Goto(c, "idle", "xchg")
  /\ trying' = [trying EXCEPT ![c] = try]
  /\ UNCHANGED <<locked, beside, result, clobbered>>

\* Mutant: the old value is read by an instruction of its own, before the lock
\* is set.
TestThenSet(c) ==
  /\ IF pc[c] = "xchg"
     THEN /\ pc' = [pc EXCEPT ![c] = "set"]
          /\ result' = [result EXCEPT ![c] = IF locked = 0 /\ beside = 0 THEN 0 ELSE 1]
          /\ UNCHANGED <<locked, beside, clobbered>>
     ELSE /\ Goto(c, "set", "assert")
          /\ locked' = 1 /\ beside' = 0
          /\ UNCHANGED <<result, clobbered>>
  /\ UNCHANGED trying

\* The xchg of set_val_atomic(&lock->locked, 1).
Exchange(c) ==
  /\ Goto(c, "xchg", "assert")
  /\ result' = [result EXCEPT ![c] = IF locked = 0 /\ beside = 0 THEN 0 ELSE 1]
  /\ locked' = 1
  /\ beside' = 0
  /\ clobbered' = (clobbered \/ beside = 1)
  /\ UNCHANGED trying

\* Where a context goes on after its exchange.
Outcome(c) ==
  IF result[c] = 0 THEN (IF trying[c] THEN "held" ELSE "verify")
                   ELSE (IF trying[c] THEN "idle" ELSE "xchg")

\* assert(*ptr == val): the lock is read again, after the exchange.
AssertSet(c) ==
  /\ Goto(c, "assert", AssertThen(locked = 1, Outcome(c)))
  /\ UNCHANGED <<locked, beside, trying, result, clobbered>>

\* spin_lock's assert(lock->locked == 1).
VerifyLocked(c) ==
  /\ Goto(c, "verify", AssertThen(locked = 1, "held"))
  /\ UNCHANGED <<locked, beside, trying, result, clobbered>>

\* The holder writes data that lies right beside the lock.
Use(c) ==
  /\ pc[c] = "held"
  /\ beside' = 1
  /\ UNCHANGED <<locked, pc, trying, result, clobbered>>

----------------------------------------------------------------------------
(* spin_unlock, called by the holder.                                      *)

UnlockTest(c) ==
  /\ Goto(c, "held", AssertThen(locked # 0, "unlock"))
  /\ UNCHANGED <<locked, beside, trying, result, clobbered>>

\* Mutant: the lock is not cleared.
UnlockForgets(c) ==
  /\ Goto(c, "unlock", "idle")
  /\ UNCHANGED <<locked, beside, trying, result, clobbered>>

Unlock(c) ==
  /\ Goto(c, "unlock", "idle")
  /\ locked' = 0
  /\ UNCHANGED <<beside, trying, result, clobbered>>

----------------------------------------------------------------------------
(* The specification.  A context in a call, or holding the lock, runs on.  *)

Step(c) ==
  Exchange(c) \/ AssertSet(c) \/ VerifyLocked(c) \/ UnlockTest(c) \/ Unlock(c)

Next ==
  \E c \in Contexts :
    \/ \E try \in BOOLEAN : Call(c, try)
    \/ Exchange(c) \/ AssertSet(c) \/ VerifyLocked(c)
    \/ Use(c) \/ UnlockTest(c) \/ Unlock(c)

Spec == Init /\ [][Next]_vars

FairSpec == Spec /\ \A c \in Contexts : WF_vars(Step(c))

----------------------------------------------------------------------------
(* Properties.                                                             *)

TypeOK ==
  /\ locked \in {0, 1}
  /\ beside \in {0, 1}
  /\ pc \in [Contexts -> {"idle", "xchg", "assert", "verify", "held", "unlock", "panic"}]
  /\ trying \in [Contexts -> BOOLEAN]
  /\ result \in [Contexts -> {0, 1}]
  /\ clobbered \in BOOLEAN

\* c's exchange found the lock free, and c has not cleared it since.
Owns(c) ==
  \/ pc[c] \in {"verify", "held", "unlock"}
  \/ pc[c] = "assert" /\ result[c] = 0

\* The lock (spinlock.c:16-43) admits one context at a time.
MutualExclusion == \A c, d \in Contexts : Owns(c) /\ Owns(d) => c = d

\* The lock is never left taken by nobody, unless an exchange (spinlock.c:9-14)
\* has cleared data beside it.
NoLostLock == locked = 1 /\ ~ clobbered => \E c \in Contexts : Owns(c)

\* A context that spins in spin_lock (spinlock.c:19) gets somebody in, unless its
\* own assert stops it or data beside the lock was cleared: else a lock would
\* leave everyone spinning.
SpinnersProgress ==
  \A c \in Contexts :
    pc[c] = "xchg" /\ ~ trying[c] ~>
      pc[c] = "panic" \/ clobbered \/ \E d \in Contexts : pc[d] \in {"held", "unlock"}

\* spinlock.c:12, assert(*ptr == val): after the exchange the lock holds val.
AssertHolds == \A c \in Contexts : pc[c] # "panic"
=============================================================================
