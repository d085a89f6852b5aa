--------------------------- MODULE SpinlockProofs ---------------------------
(***************************************************************************)
(* Proofs about Spinlock, for any set of contexts.  Mutual exclusion alone *)
(* is not inductive: it needs that the lock reads as taken while it is     *)
(* owned, so that an exchange by another context cannot return 0.  While   *)
(* nobody is in, at most two steps that help are missing.                  *)
(***************************************************************************)
EXTENDS Spinlock, TLAPS

\* The asserts of spin_lock and the test of spin_unlock (spinlock.c:22,29) hold
\* for the owner: the lock reads as taken for as long as it is owned.
OwnerFindsItLocked == \A c \in Contexts : Owns(c) => locked = 1

IInv ==
  /\ TypeOK
  /\ MutualExclusion
  /\ OwnerFindsItLocked
  /\ NoLostLock

LEMMA InitIInv == Init => IInv
<1> SUFFICES ASSUME Init
             PROVE  IInv
  OBVIOUS
<1>1. TypeOK
  BY DEF Init, TypeOK
<1>2. \A c \in Contexts : ~ Owns(c)
  BY DEF Init, Owns
<1> QED
  BY <1>1, <1>2 DEF Init, IInv, MutualExclusion, OwnerFindsItLocked, NoLostLock

\* A step of c that leaves the lock alone, and does not change whether c owns
\* it, keeps the invariant.
LEMMA QuietStep ==
  ASSUME IInv, TypeOK', NEW c \in Contexts, UNCHANGED <<locked, beside, clobbered>>,
         Owns(c)' <=> Owns(c),
         \A d \in Contexts \ {c} : pc'[d] = pc[d] /\ result'[d] = result[d]
  PROVE  IInv'
<1>1. \A d \in Contexts : Owns(d)' <=> Owns(d)
  BY DEF Owns
<1> QED
  BY <1>1 DEF IInv, MutualExclusion, OwnerFindsItLocked, NoLostLock

LEMMA NextIInv == IInv /\ [Next]_vars => IInv'
<1> SUFFICES ASSUME IInv, [Next]_vars
             PROVE  IInv'
  OBVIOUS
<1> USE DEF Goto
<1>1. ASSUME NEW c \in Contexts, NEW try \in BOOLEAN, Call(c, try)
      PROVE  IInv'
  <2>1. TypeOK'
    BY <1>1 DEF IInv, TypeOK, Call
  <2>2. Owns(c)' <=> Owns(c)
    BY <1>1 DEF IInv, TypeOK, Call, Owns
  <2> QED
    BY <1>1, <2>1, <2>2, QuietStep DEF IInv, TypeOK, Call
<1>2. ASSUME NEW c \in Contexts, Exchange(c)
      PROVE  IInv'
  <2>1. TypeOK' /\ ~ Owns(c) /\ locked' = 1 /\ beside' = 0
             /\ clobbered' = (clobbered \/ beside = 1)
    BY <1>2 DEF IInv, TypeOK, Exchange, Owns
  <2>2. \A d \in Contexts \ {c} : Owns(d)' <=> Owns(d)
    BY <1>2 DEF IInv, TypeOK, Exchange, Owns
  <2>3. Owns(c)' <=> locked = 0 /\ beside = 0
    BY <1>2 DEF IInv, TypeOK, Exchange, Owns
  <2>4. locked = 0 => \A d \in Contexts : ~ Owns(d)
    BY DEF IInv, OwnerFindsItLocked
  <2>5. MutualExclusion'
    BY <2>1, <2>2, <2>3, <2>4 DEF IInv, MutualExclusion
  <2>6. NoLostLock'
    <3>1. CASE locked = 0
      BY <2>1, <2>3, <3>1 DEF IInv, TypeOK, NoLostLock
    <3>2. CASE locked = 1
      BY <2>1, <2>2, <3>2 DEF IInv, NoLostLock
    <3> QED
      BY <3>1, <3>2 DEF IInv, TypeOK
  <2> QED
    BY <2>1, <2>5, <2>6 DEF IInv, OwnerFindsItLocked
<1>3. ASSUME NEW c \in Contexts, AssertSet(c)
      PROVE  IInv'
  <2>1. TypeOK'
    BY <1>3 DEF IInv, TypeOK, AssertSet, AssertThen, Outcome
  <2>2. Owns(c)' <=> Owns(c)
    BY <1>3 DEF IInv, TypeOK, OwnerFindsItLocked, AssertSet, AssertThen, Outcome, Owns
  <2> QED
    BY <1>3, <2>1, <2>2, QuietStep DEF IInv, TypeOK, AssertSet
<1>4. ASSUME NEW c \in Contexts, VerifyLocked(c)
      PROVE  IInv'
  <2>1. TypeOK'
    BY <1>4 DEF IInv, TypeOK, VerifyLocked, AssertThen
  <2>2. Owns(c)' <=> Owns(c)
    BY <1>4 DEF IInv, TypeOK, OwnerFindsItLocked, VerifyLocked, AssertThen, Owns
  <2> QED
    BY <1>4, <2>1, <2>2, QuietStep DEF IInv, TypeOK, VerifyLocked
<1>5. ASSUME NEW c \in Contexts, Use(c)
      PROVE  IInv'
  <2>1. \A d \in Contexts : Owns(d)' <=> Owns(d)
    BY <1>5 DEF Use, Owns
  <2> QED
    BY <1>5, <2>1
    DEF Use, IInv, TypeOK, MutualExclusion, OwnerFindsItLocked, NoLostLock
<1>6. ASSUME NEW c \in Contexts, UnlockTest(c)
      PROVE  IInv'
  <2>1. TypeOK'
    BY <1>6 DEF IInv, TypeOK, UnlockTest, AssertThen
  <2>2. Owns(c)' <=> Owns(c)
    BY <1>6 DEF IInv, TypeOK, OwnerFindsItLocked, UnlockTest, AssertThen, Owns
  <2> QED
    BY <1>6, <2>1, <2>2, QuietStep DEF IInv, TypeOK, UnlockTest
<1>7. ASSUME NEW c \in Contexts, Unlock(c)
      PROVE  IInv'
  <2>1. TypeOK' /\ Owns(c) /\ ~ Owns(c)' /\ locked' = 0 /\ UNCHANGED clobbered
    BY <1>7 DEF IInv, TypeOK, Unlock, Owns
  <2>2. \A d \in Contexts \ {c} : Owns(d)' <=> Owns(d)
    BY <1>7 DEF IInv, TypeOK, Unlock, Owns
  <2>3. \A d \in Contexts : ~ Owns(d)'
    BY <2>1, <2>2 DEF IInv, MutualExclusion
  <2> QED
    BY <2>1, <2>3 DEF IInv, MutualExclusion, OwnerFindsItLocked, NoLostLock
<1>8. CASE UNCHANGED vars
  BY <1>8 DEF vars, IInv, TypeOK, MutualExclusion, OwnerFindsItLocked, NoLostLock, Owns
<1> QED
  BY <1>1, <1>2, <1>3, <1>4, <1>5, <1>6, <1>7, <1>8 DEF Next

THEOREM Invariant == Spec => []IInv
<1> QED
  BY InitIInv, NextIInv, PTL DEF Spec

\* Every variable of the lock keeps its type (spinlock.c:9-43).
THEOREM TypeCorrect == Spec => []TypeOK
<1>1. IInv => TypeOK
  BY DEF IInv
<1> QED
  BY <1>1, Invariant, PTL

\* Whatever runs at once, and whatever lies beside the lock, one context at a
\* time owns it (spinlock.c:16-43).
THEOREM Exclusion == Spec => []MutualExclusion
<1>1. IInv => MutualExclusion
  BY DEF IInv
<1> QED
  BY <1>1, Invariant, PTL

\* The owner's own asserts hold (spinlock.c:22, 29), and while no data beside the
\* lock was cleared, a lock that reads as taken is owned.
THEOREM LockByteMeansOwned == Spec => [](OwnerFindsItLocked /\ NoLostLock)
<1>1. IInv => OwnerFindsItLocked /\ NoLostLock
  BY DEF IInv
<1> QED
  BY <1>1, Invariant, PTL

----------------------------------------------------------------------------
(* How far the lock is from letting somebody in: the argument behind       *)
(* SpinnersProgress, whose fairness stays with TLC.                        *)

\* No context is in, and no data beside the lock was cleared.
Vacant == ~ clobbered /\ \A c \in Contexts : pc[c] \notin {"held", "unlock"}

\* The steps that the next one to enter has yet to take.
Rank == IF locked = 0 THEN 2
        ELSE IF \E c \in Contexts : pc[c] = "verify" THEN 0 ELSE 1

\* Any exchange while the lock is free, and then the steps of the one who got it.
Helps ==
  \E c \in Contexts :
    \/ locked = 0 /\ Exchange(c)
    \/ Owns(c) /\ (AssertSet(c) \/ VerifyLocked(c))

\* While nobody is in, the lock stays taken, and nobody leaves "verify" but for
\* the critical section.
LEMMA NeverBack ==
  ASSUME IInv, IInv', Next, Vacant, Vacant'
  PROVE  Rank' <= Rank
<1> USE DEF Goto
<1>1. Rank \in {0, 1, 2} /\ Rank' \in {0, 1, 2}
  BY DEF Rank
<1>2. locked \in {0, 1} /\ locked' \in {0, 1}
  BY DEF IInv, TypeOK
<1>3. locked = 1 => locked' = 1
  BY <1>2 DEF Next, Call, Exchange, AssertSet, VerifyLocked, Use, UnlockTest, Unlock, Vacant
<1>4. ASSUME NEW d \in Contexts, pc[d] = "verify", locked = 1
      PROVE  pc'[d] = "verify"
  <2>1. PICK c \in Contexts :
          \/ \E try \in BOOLEAN : Call(c, try)
          \/ Exchange(c) \/ AssertSet(c) \/ VerifyLocked(c)
          \/ Use(c) \/ UnlockTest(c) \/ Unlock(c)
    BY DEF Next
  <2>2. c # d => pc'[d] = pc[d]
    BY <2>1 DEF IInv, TypeOK, Call, Exchange, AssertSet, VerifyLocked, Use, UnlockTest, Unlock
  <2>3. c # d
    <3>1. VerifyLocked(d) => pc'[d] = "held"
      BY <1>4 DEF IInv, TypeOK, VerifyLocked, AssertThen
    <3>2. ~ VerifyLocked(d)
      BY <3>1 DEF Vacant
    <3> QED
      BY <1>4, <2>1, <3>2 DEF Call, Exchange, AssertSet, Use, UnlockTest, Unlock
  <2> QED
    BY <1>4, <2>2, <2>3
<1> QED
  BY <1>1, <1>2, <1>3, <1>4 DEF Rank

LEMMA HelpLowers ==
  ASSUME IInv, IInv', Vacant, Vacant', Helps
  PROVE  Rank' < Rank
<1> USE DEF Goto
<1>1. CASE \E c \in Contexts : locked = 0 /\ Exchange(c)
  BY <1>1 DEF Exchange, Rank
<1>2. CASE \E c \in Contexts : Owns(c) /\ (AssertSet(c) \/ VerifyLocked(c))
  <2>1. PICK c \in Contexts : Owns(c) /\ (AssertSet(c) \/ VerifyLocked(c))
    BY <1>2
  <2>2. locked = 1 /\ locked' = 1
    BY <2>1 DEF IInv, OwnerFindsItLocked, AssertSet, VerifyLocked
  <2>3. pc[c] = "assert" /\ pc'[c] = "verify"
    <3>1. pc'[c] \notin {"held", "unlock"}
      BY DEF Vacant
    <3> QED
      BY <2>1, <2>2, <3>1
      DEF IInv, TypeOK, Owns, AssertSet, VerifyLocked, AssertThen, Outcome
  <2>4. \A d \in Contexts : pc[d] # "verify"
    BY <2>1, <2>3 DEF IInv, MutualExclusion, Owns
  <2> QED
    BY <2>2, <2>3, <2>4 DEF Rank
<1> QED
  BY <1>1, <1>2 DEF Helps

\* Whoever spins (spinlock.c:16-24), and whoever else comes: while nobody is in,
\* the lock is free or its owner has not yet returned from the call that took it;
\* no step takes the lock further from letting somebody in, and each that helps
\* brings it nearer, two at the most.
THEOREM LockGoesOn ==
  Spec => /\ [](Vacant => \/ locked = 0
                          \/ \E c \in Contexts : Owns(c) /\ pc[c] \in {"assert", "verify"})
          /\ [](Rank \in 0 .. 2)
          /\ [][Vacant /\ Vacant' => Rank' <= Rank /\ (Helps => Rank' < Rank)]_vars
<1>1. IInv => (Vacant => \/ locked = 0
                         \/ \E c \in Contexts : Owns(c) /\ pc[c] \in {"assert", "verify"})
  BY DEF IInv, TypeOK, NoLostLock, Vacant, Owns
<1>2. Rank \in 0 .. 2
  BY DEF Rank
<1>3. IInv /\ IInv' /\ [Next]_vars =>
        [Vacant /\ Vacant' => Rank' <= Rank /\ (Helps => Rank' < Rank)]_vars
  BY NeverBack, HelpLowers
<1> QED
  BY <1>1, <1>2, <1>3, Invariant, PTL DEF Spec
=============================================================================
