------------------------------ MODULE RtcClock ------------------------------
(***************************************************************************)
(* Reading and setting the RTC's date (kernel/kernel/io/rtc.c), a register *)
(* at a time through the CMOS index and data ports, while the clock runs   *)
(* and the RTC's periodic interrupt, enabled before (kernel.c:51), selects *)
(* register C in between.                                                  *)
(*                                                                         *)
(* Every port access is a step.  A register's value is the number of       *)
(* updates it has seen: that of a clock that was never set wrong is the    *)
(* same in all of them.                                                    *)
(***************************************************************************)
EXTENDS Integers

CONSTANTS NumRegs,  \* the registers of a date, 8 in rtc.c
          Grace,    \* port accesses there is time for between the flag that an
                    \* update is near and the update: 244 us on an MC146818
          Modulus   \* bound: the values of a register are 0 .. Modulus-1

ASSUME ClockAssumption ==
  /\ NumRegs \in Nat \ {0}
  /\ Grace \in Nat /\ Grace >= 2 * NumRegs
  /\ Modulus \in Nat /\ Modulus > 1

Regs == 1 .. NumRegs
STATUS_REG_A == 0
REG_C == NumRegs + 1

NOISE  == Modulus   \* what register C reads as, taken for a date's
Values == 0 .. Modulus - 1

VARIABLES
  regs,     \* the date registers
  phase,    \* of the clock: "quiet"; "near", the flag is up; "update"
  grace,    \* port accesses there is time for in this phase
  stale,    \* update: the registers yet to be updated
  index,    \* the selected register
  pc, op,   \* where kernel_main is, and its call: "read" or "write"
  n,        \* the date register it is at
  date,     \* the date that is read, or to be written
  hit,      \* history: this call was interrupted between index and data
  before    \* history: the registers as the call found them

vars == <<regs, phase, grace, stale, index, pc, op, n, date, hit, before>>

clock == <<regs, phase, stale>>

Init ==
  /\ regs \in {[r \in Regs |-> v] : v \in Values}
  /\ phase = "quiet"
  /\ grace = 0
  /\ stale = {}
  /\ index = STATUS_REG_A
  /\ pc = "idle"
  /\ op = "read"
  /\ n = 1
  /\ date = regs
  /\ hit = FALSE
  /\ before = regs

----------------------------------------------------------------------------
(* The clock.  It is quiet for most of every second, and the flag is up    *)
(* for long enough before an update.                                       *)

UpdateNear ==
  /\ phase = "quiet"
  /\ grace = 0 \/ pc = "idle"
  /\ phase' = "near"
  /\ grace' = Grace
  /\ UNCHANGED <<regs, stale, index, pc, op, n, date, hit, before>>

UpdateStart ==
  /\ phase = "near"
  /\ grace = 0 \/ pc = "idle"
  /\ phase' = "update"
  /\ stale' = Regs
  /\ grace' = 0
  /\ UNCHANGED <<regs, index, pc, op, n, date, hit, before>>

Later(v) == (v + 1) % Modulus

UpdateReg(r) ==
  /\ phase = "update" /\ r \in stale
  /\ regs' = [regs EXCEPT ![r] = Later(@)]
  /\ stale' = stale \ {r}
  /\ UNCHANGED <<phase, grace, index, pc, op, n, date, hit, before>>

UpdateEnd ==
  /\ phase = "update" /\ stale = {}
  /\ phase' = "quiet"
  /\ grace' = Grace
  /\ UNCHANGED <<regs, stale, index, pc, op, n, date, hit, before>>

----------------------------------------------------------------------------
(* The periodic interrupt.                                                 *)

\* kernel_main has written the index port and not yet used the data port.
Selected == pc \in {"wait_in", "data", "settle_in"}

\* process_rtc_interrupt selects and reads register C.
RtcInterrupt ==
  /\ index' = REG_C
  /\ hit' = (hit \/ Selected)
  /\ UNCHANGED <<clock, grace, pc, op, n, date, before>>

----------------------------------------------------------------------------
(* get_date_time and set_date_time: guarded_op around read and write.      *)

\* A port access of kernel_main, which takes it to a place.
Access(from, to) ==
  /\ pc = from
  /\ pc' = to
  /\ grace' = IF grace > 0 THEN grace - 1 ELSE 0

Call(o, d) ==
  /\ pc = "idle"
  /\ pc' = "wait"
  /\ op' = o
  /\ date' = d
  /\ n' = 1
  /\ hit' = FALSE
  /\ UNCHANGED <<clock, grace, index, before>>

\* What is_update_in_progress may make of the selected register.
Flag == IF index = STATUS_REG_A THEN {phase # "quiet"} ELSE BOOLEAN

SelectA(from, to) ==
  /\ Access(from, to)
  /\ index' = STATUS_REG_A
  /\ UNCHANGED <<clock, op, n, date, hit, before>>

Wait == SelectA("wait", "wait_in")

WaitMore ==
  /\ TRUE \in Flag
  /\ Access("wait_in", "wait")
  /\ UNCHANGED <<clock, index, op, n, date, hit, before>>

\* Mutants: the call goes on while the flag is up; it goes on only then.
GoOnInUpdate ==
  /\ Access("wait_in", "select")
  /\ before' = regs
  /\ UNCHANGED <<clock, index, op, n, date, hit>>

GoOnNever ==
  /\ FALSE
  /\ UNCHANGED vars

WaitDone ==
  /\ FALSE \in Flag
  /\ Access("wait_in", "select")
  /\ before' = regs
  /\ UNCHANGED <<clock, index, op, n, date, hit>>

\* Mutant: each register is taken for the one before it.
SelectOffByOne ==
  /\ Access("select", "data")
  /\ index' = n - 1
  /\ UNCHANGED <<clock, op, n, date, hit, before>>

Select ==
  /\ Access("select", "data")
  /\ index' = n
  /\ UNCHANGED <<clock, op, n, date, hit, before>>

\* Mutant: the loop runs one register too far.
NextRegTooFar == /\ Access("data", IF n > NumRegs THEN "settle" ELSE "select")
                 /\ n' = n + 1

NextReg ==
  /\ Access("data", IF n = NumRegs THEN "settle" ELSE "select")
  /\ n' = IF n = NumRegs THEN n ELSE n + 1

\* read_cmos_register's inb, and write_cmos_register's outb: register C cannot
\* be written.
Data ==
  /\ NextReg
  /\ IF op = "read"
     THEN /\ date' = [date EXCEPT ![n] = IF index \in Regs THEN regs[index] ELSE NOISE]
          /\ UNCHANGED regs
     ELSE /\ regs' = IF index \in Regs THEN [regs EXCEPT ![index] = date[n]] ELSE regs
          /\ UNCHANGED date
  /\ UNCHANGED <<phase, stale, index, op, hit, before>>

Settle == SelectA("settle", "settle_in")

SettleMore ==
  /\ TRUE \in Flag
  /\ Access("settle_in", "settle")
  /\ UNCHANGED <<clock, index, op, n, date, hit, before>>

SettleDone ==
  /\ FALSE \in Flag
  /\ Access("settle_in", "done")
  /\ UNCHANGED <<clock, index, op, n, date, hit, before>>

Return ==
  /\ pc = "done"
  /\ pc' = "idle"
  /\ UNCHANGED <<clock, grace, index, op, n, date, hit, before>>

----------------------------------------------------------------------------
(* The specification.  A call runs on, and so does an update.  A poll that *)
(* the interrupt makes read register C, which its handler has just cleared,*)
(* does not find that register's top bit set for ever.                     *)

Update == UpdateStart \/ UpdateEnd \/ \E r \in Regs : UpdateReg(r)

CallStep == Wait \/ WaitMore \/ Select \/ Data \/ Settle \/ SettleMore \/ Return

Next ==
  \/ UpdateNear \/ UpdateStart \/ UpdateEnd \/ \E r \in Regs : UpdateReg(r)
  \/ RtcInterrupt
  \/ \E v \in Values : Call("write", [r \in Regs |-> v])
  \/ Call("read", date)
  \/ Wait \/ WaitMore \/ WaitDone \/ Select \/ Data
  \/ Settle \/ SettleMore \/ SettleDone \/ Return

Spec == Init /\ [][Next]_vars

FairSpec ==
  Spec /\ WF_vars(Update) /\ WF_vars(CallStep) /\ SF_vars(WaitDone) /\ SF_vars(SettleDone)

----------------------------------------------------------------------------
(* Properties.                                                             *)

TypeOK ==
  /\ regs \in [Regs -> Values]
  /\ phase \in {"quiet", "near", "update"}
  /\ grace \in 0 .. Grace
  /\ stale \subseteq Regs
  /\ index \in {STATUS_REG_A, REG_C} \cup Regs
  /\ pc \in {"idle", "wait", "wait_in", "select", "data", "settle", "settle_in", "done"}
  /\ op \in {"read", "write"}
  /\ n \in Regs
  /\ date \in [Regs -> Values \cup {NOISE}]
  /\ hit \in BOOLEAN
  /\ before \in [Regs -> Values]

\* guarded_op (rtc.c:37-51) does not read again when an update came in between,
\* and need not: the date read is the one at the call's start, whenever updates
\* come, unless the periodic interrupt fell between an index and its data.
ReadIsSnapshot ==
  pc = "done" /\ op = "read" /\ ~ hit => date = before

\* A date is written as a whole (rtc.c:66-77): with the last register all of them
\* hold it, no update has gone through a part of it, and none lost its value to
\* another, unless the periodic interrupt fell between an index and its data.
WriteIsWhole ==
  [][op = "write" /\ ~ hit /\ pc = "data" /\ pc' = "settle" => regs' = date]_vars

\* Both calls return, although they wait for a flag that others raise.
CallsReturn == pc = "wait" ~> pc = "idle"
=============================================================================
