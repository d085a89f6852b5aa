--------------------------- MODULE RtcClockProofs ---------------------------
(***************************************************************************)
(* Proofs about RtcClock, for any number of registers, values and any time *)
(* before an update that a date fits in.                                   *)
(*                                                                         *)
(* The flag was down when a call went on.  If it has come up since, enough *)
(* time is left for what the call still has to transfer: so no update      *)
(* starts before the last register.  That needs the call to have selected  *)
(* the flag's register and then each date register itself: an interrupt    *)
(* in between is what hit tells.                                           *)
(***************************************************************************)
EXTENDS RtcClock, TLAPS

Transferring == pc \in {"select", "data"}

\* The port accesses a call has yet to make before its last register is done.
AccessesLeft == 2 * (NumRegs - n) + (IF pc = "select" THEN 2 ELSE 1)

\* A call begins with the first register, and selects what it then uses.
IndexInv ==
  /\ pc \in {"wait", "wait_in"} => n = 1
  /\ pc = "wait_in" /\ ~ hit => index = STATUS_REG_A
  /\ pc = "data" /\ ~ hit => index = n

\* No update comes during the transfer.
NoUpdateInv ==
  Transferring /\ ~ hit =>
    /\ phase # "update"
    /\ phase = "near" => grace >= AccessesLeft

ReadInv ==
  op = "read" /\ ~ hit =>
    /\ Transferring => regs = before /\ \A r \in Regs : r < n => date[r] = before[r]
    /\ pc \in {"settle", "settle_in", "done"} => date = before

WriteInv ==
  op = "write" =>
    /\ date \in [Regs -> Values]
    /\ Transferring /\ ~ hit => \A r \in Regs : r < n => regs[r] = date[r]

IInv == TypeOK /\ IndexInv /\ NoUpdateInv /\ ReadInv /\ WriteInv

----------------------------------------------------------------------------

LEMMA Numbers ==
  /\ NumRegs \in Nat /\ NumRegs > 0
  /\ Grace \in Nat /\ Grace >= 2 * NumRegs
  /\ Regs = 1 .. NumRegs
  /\ STATUS_REG_A \notin Regs /\ REG_C \notin Regs /\ REG_C # STATUS_REG_A
BY ClockAssumption DEF Regs, STATUS_REG_A, REG_C

LEMMA LaterIsValue ==
  ASSUME NEW v \in Values
  PROVE  Later(v) \in Values
<1>1. v + 1 \in Nat /\ Modulus \in Nat /\ Modulus > 1
  BY ClockAssumption DEF Values
<1>2. (v + 1) % Modulus \in 0 .. Modulus - 1
  BY <1>1, SMTT(30)
<1> QED
  BY <1>2 DEF Later, Values

LEMMA InitIInv == Init => IInv
<1> SUFFICES ASSUME Init
             PROVE  IInv
  OBVIOUS
<1>1. regs \in [Regs -> Values] /\ date = regs /\ before = regs
  BY DEF Init
<1>2. date \in [Regs -> Values \cup {NOISE}]
  BY <1>1
<1>3. grace \in 0 .. Grace /\ n \in Regs
  BY Numbers DEF Init
<1>4. TypeOK
  BY <1>1, <1>2, <1>3 DEF Init, TypeOK
<1>5. pc = "idle" /\ op = "read"
  BY DEF Init
<1> QED
  BY <1>4, <1>5 DEF IInv, IndexInv, NoUpdateInv, ReadInv, WriteInv, Transferring

----------------------------------------------------------------------------
(* The clock and the interrupt.                                            *)

\* While a call is away from its registers, an update may change them.
LEMMA AwayFromRegisters ==
  ASSUME IInv, TypeOK', ~ Transferring,
         UNCHANGED <<index, pc, op, n, date, hit, before>>
  PROVE  IInv'
<1>1. ~ Transferring'
  BY DEF Transferring
<1> QED
  BY <1>1 DEF IInv, IndexInv, NoUpdateInv, ReadInv, WriteInv

\* Nor is a call that was hit held to anything but its types.
LEMMA ClockStep ==
  ASSUME IInv, UpdateNear \/ UpdateStart \/ UpdateEnd \/ \E r \in Regs : UpdateReg(r)
  PROVE  IInv'
<1> USE DEF IInv
<1>1. CASE UpdateNear
  <2>1. TypeOK'
    BY <1>1, Numbers DEF UpdateNear, TypeOK
  <2>2. Transferring => AccessesLeft <= Grace
    <3>1. n \in Nat /\ n >= 1
      BY Numbers DEF TypeOK
    <3> QED
      BY <3>1, Numbers DEF AccessesLeft
  <2>3. NoUpdateInv'
    BY <1>1, <2>2 DEF UpdateNear, NoUpdateInv, Transferring, AccessesLeft
  <2> QED
    BY <1>1, <2>1, <2>3 DEF UpdateNear, IndexInv, ReadInv, WriteInv, Transferring
<1>2. CASE UpdateStart
  <2>1. TypeOK'
    BY <1>2, Numbers DEF UpdateStart, TypeOK
  <2>2. ~ Transferring \/ hit
    <3> SUFFICES ASSUME Transferring, ~ hit
                 PROVE  FALSE
      OBVIOUS
    <3>1. grace = 0 /\ phase = "near"
      BY <1>2 DEF UpdateStart, Transferring
    <3>2. n \in Nat /\ n <= NumRegs
      BY Numbers DEF TypeOK
    <3>3. AccessesLeft \in Nat /\ AccessesLeft > 0
      BY <3>2, Numbers DEF AccessesLeft
    <3> QED
      BY <3>1, <3>3 DEF NoUpdateInv
  <2> QED
    BY <1>2, <2>1, <2>2
    DEF UpdateStart, IndexInv, NoUpdateInv, ReadInv, WriteInv, Transferring
<1>3. ASSUME NEW r \in Regs, UpdateReg(r)
      PROVE  IInv'
  <2>1. regs' \in [Regs -> Values]
    <3>1. Later(regs[r]) \in Values
      BY LaterIsValue DEF TypeOK
    <3> QED
      BY <1>3, <3>1 DEF UpdateReg, TypeOK
  <2>2. TypeOK'
    BY <1>3, <2>1 DEF UpdateReg, TypeOK
  <2>3. ~ Transferring \/ hit
    BY <1>3 DEF UpdateReg, NoUpdateInv
  <2> QED
    BY <1>3, <2>2, <2>3
    DEF UpdateReg, IndexInv, NoUpdateInv, ReadInv, WriteInv, Transferring
<1>4. CASE UpdateEnd
  <2>1. TypeOK'
    BY <1>4, Numbers DEF UpdateEnd, TypeOK
  <2> QED
    BY <1>4, <2>1 DEF UpdateEnd, IndexInv, NoUpdateInv, ReadInv, WriteInv, Transferring
<1> QED
  BY <1>1, <1>2, <1>3, <1>4

\* The interrupt takes the selected register away and says so.
LEMMA InterruptStep ==
  ASSUME IInv, RtcInterrupt
  PROVE  IInv'
<1> USE DEF IInv
<1>1. /\ UNCHANGED <<regs, phase, stale, grace, pc, op, n, date, before>>
      /\ index' = REG_C
      /\ hit' = (hit \/ Selected)
  BY DEF RtcInterrupt, clock
<1>2. /\ hit \/ Selected => hit' = TRUE
      /\ ~ (hit \/ Selected) => hit' = FALSE
  BY <1>1
<1>3. TypeOK'
  BY <1>1, <1>2 DEF TypeOK
<1>4. ~ hit' => ~ hit /\ pc' \notin {"wait_in", "data"}
  BY <1>1, <1>2 DEF Selected
<1>5. IndexInv'
  BY <1>1, <1>4 DEF IndexInv
<1>6. NoUpdateInv'
  BY <1>1, <1>4 DEF NoUpdateInv, Transferring, AccessesLeft
<1>7. ReadInv' /\ WriteInv'
  BY <1>1, <1>4 DEF ReadInv, WriteInv, Transferring
<1> QED
  BY <1>3, <1>5, <1>6, <1>7

----------------------------------------------------------------------------
(* The call.                                                               *)

LEMMA AccessType ==
  ASSUME TypeOK, NEW from, NEW to, Access(from, to)
  PROVE  /\ grace' \in 0 .. Grace
         /\ grace' >= grace - 1
         /\ grace \in Nat
         /\ pc = from /\ pc' = to
BY Numbers DEF TypeOK, Access

LEMMA CallStarts ==
  ASSUME IInv, NEW o \in {"read", "write"}, NEW d \in [Regs -> Values \cup {NOISE}],
         Call(o, d), o = "write" => d \in [Regs -> Values]
  PROVE  IInv'
<1>1. /\ UNCHANGED <<regs, phase, stale, grace, index, before>>
      /\ pc' = "wait" /\ op' = o /\ date' = d /\ n' = 1 /\ hit' = FALSE
  BY DEF Call, clock
<1>2. n' \in Regs
  BY <1>1, Numbers
<1>3. TypeOK'
  BY <1>1, <1>2 DEF IInv, TypeOK
<1> QED
  BY <1>1, <1>3 DEF IInv, IndexInv, NoUpdateInv, ReadInv, WriteInv, Transferring

\* The polls before and after the transfer touch no register of a date.
LEMMA PollStep ==
  ASSUME IInv, Wait \/ WaitMore \/ Settle \/ SettleMore \/ SettleDone
  PROVE  IInv'
<1>1. /\ UNCHANGED <<regs, phase, stale, op, n, date, hit, before>>
      /\ pc' \in {"wait", "wait_in", "settle", "settle_in", "done"}
      /\ pc' \in {"settle", "settle_in", "done"} => pc \in {"settle", "settle_in", "done"}
      /\ pc' = "wait_in" => index' = STATUS_REG_A
      /\ index' \in {index, STATUS_REG_A}
      /\ pc' \in {"wait", "wait_in"} => pc \in {"wait", "wait_in"}
  BY DEF Wait, WaitMore, Settle, SettleMore, SettleDone, SelectA, Access, clock
<1>2. grace' \in 0 .. Grace
  BY AccessType DEF IInv, Wait, WaitMore, Settle, SettleMore, SettleDone, SelectA
<1>3. TypeOK'
  BY <1>1, <1>2 DEF IInv, TypeOK
<1>4. ~ Transferring'
  BY <1>1 DEF Transferring
<1>5. IndexInv' /\ NoUpdateInv'
  BY <1>1, <1>4 DEF IInv, IndexInv, NoUpdateInv
<1>6. ReadInv' /\ WriteInv'
  BY <1>1, <1>4 DEF IInv, ReadInv, WriteInv
<1> QED
  BY <1>3, <1>5, <1>6 DEF IInv

\* Unless the interrupt got in between, the flag that let the call go on is the
\* clock's.
LEMMA GoesOn ==
  ASSUME IInv, WaitDone
  PROVE  IInv'
<1>1. /\ UNCHANGED <<regs, phase, stale, index, op, n, date, hit>>
      /\ pc = "wait_in" /\ pc' = "select" /\ before' = regs
      /\ grace' \in 0 .. Grace
  BY AccessType DEF IInv, WaitDone, clock
<1>2. TypeOK'
  BY <1>1 DEF IInv, TypeOK
<1>3. ~ hit => phase = "quiet"
  BY <1>1 DEF IInv, IndexInv, WaitDone, Flag
<1>4. IndexInv' /\ NoUpdateInv'
  BY <1>1, <1>3 DEF IndexInv, NoUpdateInv
<1>5. ASSUME NEW r \in Regs
      PROVE  ~ (r < n')
  BY <1>1, Numbers DEF IInv, IndexInv
<1>6. ReadInv' /\ WriteInv'
  BY <1>1, <1>5 DEF IInv, ReadInv, WriteInv, Transferring
<1> QED
  BY <1>2, <1>4, <1>6 DEF IInv

LEMMA SelectStep ==
  ASSUME IInv, Select
  PROVE  IInv'
<1>1. /\ UNCHANGED <<regs, phase, stale, op, n, date, hit, before>>
      /\ pc = "select" /\ pc' = "data" /\ index' = n
      /\ grace' \in 0 .. Grace /\ grace' >= grace - 1 /\ grace \in Nat
  BY AccessType DEF IInv, Select, clock
<1>2. TypeOK'
  BY <1>1 DEF IInv, TypeOK
<1>3. AccessesLeft' = AccessesLeft - 1 /\ AccessesLeft \in Nat
  BY <1>1, Numbers DEF IInv, TypeOK, AccessesLeft
<1>4. NoUpdateInv'
  BY <1>1, <1>3 DEF IInv, NoUpdateInv, Transferring
<1>5. IndexInv'
  BY <1>1 DEF IndexInv
<1>6. ReadInv' /\ WriteInv'
  BY <1>1 DEF IInv, ReadInv, WriteInv, Transferring
<1> QED
  BY <1>2, <1>4, <1>5, <1>6 DEF IInv

\* One register is transferred: into the date, or out of it.
LEMMA Transferred ==
  ASSUME IInv, Data
  PROVE  /\ UNCHANGED <<phase, stale, index, op, hit, before>>
         /\ pc = "data"
         /\ pc' = (IF n = NumRegs THEN "settle" ELSE "select")
         /\ n' = (IF n = NumRegs THEN n ELSE n + 1) /\ n' \in Regs
         /\ grace' \in 0 .. Grace /\ grace' >= grace - 1 /\ grace \in Nat
         /\ op = "read" =>
              /\ regs' = regs
              /\ date' \in [Regs -> Values \cup {NOISE}]
              /\ \A r \in Regs \ {n} : date'[r] = date[r]
              /\ ~ hit => date'[n] = regs[n]
         /\ op = "write" =>
              /\ date' = date
              /\ regs' \in [Regs -> Values]
              /\ ~ hit => \A r \in Regs : regs'[r] = (IF r = n THEN date[n] ELSE regs[r])
<1> USE DEF IInv
<1>1. /\ UNCHANGED <<phase, stale, index, op, hit, before>>
      /\ pc' = (IF n = NumRegs THEN "settle" ELSE "select")
      /\ n' = (IF n = NumRegs THEN n ELSE n + 1)
  BY DEF Data, NextReg, Access
<1>2. n \in Regs /\ n' \in Regs
  BY <1>1, Numbers DEF TypeOK
<1>3. pc = "data" /\ grace' \in 0 .. Grace /\ grace' >= grace - 1 /\ grace \in Nat
  BY AccessType DEF Data, NextReg
<1>4. ~ hit => index = n
  BY <1>3 DEF IndexInv
<1>5. ASSUME op = "read"
      PROVE  /\ regs' = regs
             /\ date' \in [Regs -> Values \cup {NOISE}]
             /\ \A r \in Regs \ {n} : date'[r] = date[r]
             /\ ~ hit => date'[n] = regs[n]
  <2> DEFINE v == IF index \in Regs THEN regs[index] ELSE NOISE
  <2>1. regs' = regs /\ date' = [date EXCEPT ![n] = v]
    BY <1>5 DEF Data
  <2>2. v \in Values \cup {NOISE} /\ (~ hit => v = regs[n])
    BY <1>2, <1>4 DEF TypeOK
  <2>3. date \in [Regs -> Values \cup {NOISE}]
    BY DEF TypeOK
  <2> HIDE DEF v
  <2> QED
    BY <1>2, <2>1, <2>2, <2>3
<1>6. ASSUME op = "write"
      PROVE  /\ date' = date
             /\ regs' \in [Regs -> Values]
             /\ ~ hit => \A r \in Regs : regs'[r] = (IF r = n THEN date[n] ELSE regs[r])
  <2>1. date' = date /\ date \in [Regs -> Values] /\ regs \in [Regs -> Values]
    BY <1>6 DEF Data, WriteInv, TypeOK
  <2>2. regs' = IF index \in Regs THEN [regs EXCEPT ![index] = date[n]] ELSE regs
    BY <1>6 DEF Data
  <2> QED
    BY <1>2, <1>4, <2>1, <2>2
<1> QED
  BY <1>1, <1>2, <1>3, <1>5, <1>6

LEMMA DataStep ==
  ASSUME IInv, Data
  PROVE  IInv'
<1>1. op \in {"read", "write"} /\ n \in Regs
  BY DEF IInv, TypeOK
<1>2. \/ n = NumRegs /\ pc' = "settle" /\ n' = n
      \/ n # NumRegs /\ pc' = "select" /\ n' = n + 1
  BY Transferred
<1>3. TypeOK'
  <2>1. regs' \in [Regs -> Values] /\ date' \in [Regs -> Values \cup {NOISE}]
    BY <1>1, Transferred DEF IInv, TypeOK
  <2>2. pc' \in {"settle", "select"}
    BY <1>2
  <2> QED
    BY <2>1, <2>2, Transferred DEF IInv, TypeOK
<1>4. IndexInv'
  BY <1>2 DEF IndexInv
<1>5. NoUpdateInv'
  <2> SUFFICES ASSUME Transferring', ~ hit'
               PROVE  phase' # "update" /\ (phase' = "near" => grace' >= AccessesLeft')
    BY DEF NoUpdateInv
  <2>1. n' = n + 1 /\ pc' = "select" /\ pc = "data"
    BY <1>2, Transferred DEF Transferring
  <2>2. AccessesLeft' = AccessesLeft - 1 /\ AccessesLeft \in Int
    BY <1>1, <2>1, Numbers DEF AccessesLeft
  <2>3. phase # "update" /\ (phase = "near" => grace >= AccessesLeft)
    BY <2>1, Transferred DEF IInv, NoUpdateInv, Transferring
  <2> QED
    BY <2>2, <2>3, Transferred
<1>6. ReadInv'
  <2> SUFFICES ASSUME op = "read", ~ hit
               PROVE  /\ Transferring' => regs' = before' /\ \A r \in Regs : r < n' => date'[r] = before'[r]
                      /\ pc' \in {"settle", "settle_in", "done"} => date' = before'
    BY Transferred DEF ReadInv
  <2>1. regs = before /\ \A r \in Regs : r < n => date[r] = before[r]
    BY Transferred DEF IInv, ReadInv, Transferring
  <2>2. ASSUME NEW r \in Regs, r < n \/ r = n
        PROVE  date'[r] = before'[r]
    BY <1>1, <2>1, <2>2, Transferred
  <2>3. CASE n = NumRegs
    <3>1. \A r \in Regs : date'[r] = before'[r]
      BY <1>1, <2>2, <2>3, Numbers
    <3>2. date' = before'
      <4>1. date' \in [Regs -> Values \cup {NOISE}] /\ before' \in [Regs -> Values]
        BY <1>3 DEF TypeOK
      <4> QED
        BY <3>1, <4>1
    <3> QED
      BY <1>2, <2>3, <3>2 DEF Transferring
  <2>4. CASE n # NumRegs
    <3>1. \A r \in Regs : r < n' => r < n \/ r = n
      BY <1>1, <1>2, <2>4, Numbers
    <3> QED
      BY <1>2, <2>1, <2>2, <2>4, <3>1, Transferred
  <2> QED
    BY <2>3, <2>4
<1>7. WriteInv'
  <2> SUFFICES ASSUME op = "write"
               PROVE  /\ date' \in [Regs -> Values]
                      /\ Transferring' /\ ~ hit' => \A r \in Regs : r < n' => regs'[r] = date'[r]
    BY Transferred DEF WriteInv
  <2>1. date' = date /\ date \in [Regs -> Values]
    BY Transferred DEF IInv, WriteInv
  <2>2. ASSUME Transferring', ~ hit', NEW r \in Regs, r < n'
        PROVE  regs'[r] = date'[r]
    <3>1. ~ hit /\ (r = n \/ r < n)
      BY <1>1, <1>2, <2>2, Transferred, Numbers DEF Transferring
    <3>2. r < n => regs[r] = date[r]
      BY <3>1, Transferred DEF IInv, WriteInv, Transferring
    <3>3. regs'[r] = (IF r = n THEN date[n] ELSE regs[r])
      BY <3>1, Transferred
    <3> QED
      BY <2>1, <3>1, <3>2, <3>3
  <2> QED
    BY <2>1, <2>2
<1> QED
  BY <1>3, <1>4, <1>5, <1>6, <1>7 DEF IInv

LEMMA ReturnStep ==
  ASSUME IInv, Return
  PROVE  IInv'
BY DEF IInv, Return, clock, TypeOK, IndexInv, NoUpdateInv, ReadInv, WriteInv, Transferring

LEMMA NextIInv == IInv /\ [Next]_vars => IInv'
<1> SUFFICES ASSUME IInv, [Next]_vars
             PROVE  IInv'
  OBVIOUS
<1>1. CASE UpdateNear \/ UpdateStart \/ UpdateEnd \/ \E r \in Regs : UpdateReg(r)
  BY <1>1, ClockStep
<1>2. CASE RtcInterrupt
  BY <1>2, InterruptStep
<1>3. ASSUME NEW v \in Values, Call("write", [r \in Regs |-> v])
      PROVE  IInv'
  <2>1. [r \in Regs |-> v] \in [Regs -> Values]
    OBVIOUS
  <2>2. [r \in Regs |-> v] \in [Regs -> Values \cup {NOISE}]
    OBVIOUS
  <2> QED
    BY <1>3, <2>1, <2>2, CallStarts
<1>4. CASE Call("read", date)
  <2>1. date \in [Regs -> Values \cup {NOISE}]
    BY DEF IInv, TypeOK
  <2> QED
    BY <1>4, <2>1, CallStarts
<1>5. CASE Wait \/ WaitMore \/ Settle \/ SettleMore \/ SettleDone
  BY <1>5, PollStep
<1>6. CASE WaitDone
  BY <1>6, GoesOn
<1>7. CASE Select \/ Data \/ Return
  BY <1>7, SelectStep, DataStep, ReturnStep
<1>8. CASE UNCHANGED vars
  BY <1>8 DEF vars, IInv, TypeOK, IndexInv, NoUpdateInv, ReadInv, WriteInv, Transferring,
              AccessesLeft
<1> QED
  BY <1>1, <1>2, <1>3, <1>4, <1>5, <1>6, <1>7, <1>8 DEF Next

----------------------------------------------------------------------------

THEOREM Invariant == Spec => []IInv
<1> QED
  BY InitIInv, NextIInv, PTL DEF Spec

\* A call selects and transfers registers of a date only, whatever interrupts it
\* (rtc.c:53-77).
THEOREM TypeCorrect == Spec => []TypeOK
<1>1. IInv => TypeOK
  BY DEF IInv
<1> QED
  BY <1>1, Invariant, PTL

\* The date that get_date_time returns (rtc.c:37-64) is the one at the call's
\* start, whenever the clock updates it, unless the periodic interrupt fell
\* between an index and its data.
THEOREM DateIsNotTorn == Spec => []ReadIsSnapshot
<1>1. IInv => ReadIsSnapshot
  BY DEF IInv, ReadInv, ReadIsSnapshot
<1> QED
  BY <1>1, Invariant, PTL

\* Likewise set_date_time (rtc.c:66-77) leaves its date in all registers when it
\* has written the last one.
THEOREM DateIsSetWhole == Spec => WriteIsWhole
<1>1. IInv /\ [Next]_vars =>
        [op = "write" /\ ~ hit /\ pc = "data" /\ pc' = "settle" => regs' = date]_vars
  <2> SUFFICES ASSUME IInv, Next, op = "write", ~ hit, pc = "data", pc' = "settle"
               PROVE  regs' = date
    BY DEF vars
  <2>1. Data
    BY DEF Next, UpdateNear, UpdateStart, UpdateEnd, UpdateReg, RtcInterrupt, Call, Wait,
           WaitMore, WaitDone, Select, Settle, SettleMore, SettleDone, Return, SelectA, Access
  <2>2. n = NumRegs /\ n \in Regs
    BY <2>1, Transferred DEF IInv, TypeOK
  <2>3. \A r \in Regs : r # n => r < n
    BY <2>2, Numbers
  <2>4. \A r \in Regs : r < n => regs[r] = date[r]
    BY DEF IInv, WriteInv, Transferring
  <2>5. \A r \in Regs : regs'[r] = date[r]
    BY <2>1, <2>2, <2>3, <2>4, Transferred
  <2>6. regs' \in [Regs -> Values] /\ date \in [Regs -> Values]
    BY <2>1, Transferred DEF IInv, WriteInv
  <2> QED
    BY <2>5, <2>6
<1> QED
  BY <1>1, Invariant, PTL DEF Spec, WriteIsWhole
=============================================================================
