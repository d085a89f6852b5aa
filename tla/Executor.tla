------------------------------ MODULE Executor ------------------------------
(***************************************************************************)
(* Futures (kernel/kernel/future.c) and the two interrupts that wake the   *)
(* one context that awaits them: the RTC tick (monotonic_tick.c) and the   *)
(* UART's transmitter-empty interrupt (io/uart.c).                         *)
(*                                                                         *)
(* await polls, clears SHOULD_POLL, tests it and halts, with interrupts    *)
(* enabled between any two of these: each is a step here.  A handler runs  *)
(* to its end in one step: no other handler that touches this state is let *)
(* in before its end of interrupt, or has more than one store to make.     *)
(*                                                                         *)
(* Time is relative: ticksLeft is target_tick - tick, or 0 when the target *)
(* is reached.  This leaves out the wrap of the 32-bit tick (module Sleep).*)
(***************************************************************************)
EXTENDS Integers

CONSTANTS FUTURE_COUNT,  \* the capacity of futureList, 10 in future.h
          RTC_FREQ,      \* ticks per second
          Seconds,       \* the sleeps callers ask for
          Slots          \* how many contexts the heap has room for

ASSUME FutureAssumption ==
  /\ FUTURE_COUNT \in Nat \ {0}
  /\ RTC_FREQ \in Nat \ {0}
  /\ Seconds \subseteq Nat
  /\ Slots \in Nat \ {0}

NULL == 0   \* the context of an IOFuture, and of an unused list entry

VARIABLES
  SHOULD_POLL,  \* the flag between the handlers and await
  lastIdx,      \* futureList.lastIdx
  timeFutures,  \* futureList.timeFutures: the context of each entry
  ticksLeft,    \* each context's target_tick, minus the tick; kept after free
  owned,        \* the contexts that are allocated
  pc, fut,      \* where the awaiting context is, and the context it awaits
  thrEmpty,     \* the UART's transmitter holding register is empty
  overlapped    \* history: a future was created while another one was held

vars ==
  <<SHOULD_POLL, lastIdx, timeFutures, ticksLeft, owned, pc, fut, thrEmpty, overlapped>>

Contexts == 1 .. Slots

Indices == 0 .. FUTURE_COUNT - 1

\* In .bss lastIdx is 0 until init_futures runs, so a tick before that reads a
\* target at address 0; ticksLeft[NULL] stands for what it finds there.
Init ==
  /\ SHOULD_POLL = FALSE
  /\ lastIdx = 0
  /\ timeFutures = [i \in Indices |-> NULL]
  /\ ticksLeft \in [{NULL} \cup Contexts -> {0, RTC_FREQ}]
  /\ owned = {}
  /\ pc = "boot"
  /\ fut = NULL
  /\ thrEmpty = TRUE
  /\ overlapped = FALSE

InitFutures ==
  /\ pc = "boot"
  /\ pc' = "idle"
  /\ lastIdx' = -1
  /\ UNCHANGED <<SHOULD_POLL, timeFutures, ticksLeft, owned, fut, thrEmpty, overlapped>>

----------------------------------------------------------------------------
(* Creating and awaiting futures.                                          *)

Free == Contexts \ owned

\* malloc carves from the top of the lowest free segment.  Slots are numbered
\* from the top of the heap down: the next one is the first of the last free run.
IsNext(c) ==
  /\ c \in Free /\ c - 1 \notin Free
  /\ \A d \in Free : c < d => c .. d \subseteq Free

CreateFuture(s) ==
  /\ pc = "idle"
  /\ \E c \in Contexts :
       /\ IsNext(c)
       /\ owned' = owned \cup {c}
       /\ ticksLeft' = [ticksLeft EXCEPT ![c] = s * RTC_FREQ]
  /\ overlapped' = (overlapped \/ owned # {})
  /\ UNCHANGED <<SHOULD_POLL, lastIdx, timeFutures, pc, fut, thrEmpty>>

\* The heap has no room for a context: malloc panics.
CreateFuturePanics ==
  /\ pc = "idle"
  /\ Free = {}
  /\ pc' = "panic"
  /\ UNCHANGED <<SHOULD_POLL, lastIdx, timeFutures, ticksLeft, owned, fut, thrEmpty, overlapped>>

AwaitSleep(c) ==
  /\ pc = "idle"
  /\ fut' = c
  /\ pc' = "enroll"
  /\ UNCHANGED <<SHOULD_POLL, lastIdx, timeFutures, ticksLeft, owned, thrEmpty, overlapped>>

\* serial_write awaits the transmitter before each byte.
AwaitSerial ==
  /\ pc = "idle"
  /\ fut' = NULL
  /\ pc' = "poll"
  /\ UNCHANGED <<SHOULD_POLL, lastIdx, timeFutures, ticksLeft, owned, thrEmpty, overlapped>>

\* Mutant: the store past the end of the array hits nothing.
StoreUnaliased(i) ==
  /\ lastIdx' = i
  /\ timeFutures' = [timeFutures EXCEPT ![i] = fut]
  /\ UNCHANGED SHOULD_POLL

\* timeFutures[i] = fut.  lastIdx lies right behind the array and the flag may
\* lie behind that: a store at FUTURE_COUNT puts the future's type, which is 0,
\* in lastIdx, and bytes of the context's address in the flag.
Store(i) ==
  IF i < FUTURE_COUNT
  THEN /\ lastIdx' = i
       /\ timeFutures' = [timeFutures EXCEPT ![i] = fut]
       /\ UNCHANGED SHOULD_POLL
  ELSE /\ lastIdx' = 0
       /\ SHOULD_POLL' \in BOOLEAN
       /\ UNCHANGED timeFutures

\* The guarded head of await.
Enroll ==
  /\ pc = "enroll"
  /\ IF lastIdx = FUTURE_COUNT
     THEN pc' = "panic" /\ UNCHANGED <<SHOULD_POLL, lastIdx, timeFutures>>
     ELSE pc' = "poll" /\ Store(lastIdx + 1)
  /\ UNCHANGED <<ticksLeft, owned, fut, thrEmpty, overlapped>>

\* fut_is_ready and is_transmit_ready.
IsReady == IF fut = NULL THEN thrEmpty ELSE ticksLeft[fut] = 0

Poll ==
  /\ pc = "poll"
  /\ pc' = IF IsReady THEN "done" ELSE "clear"
  /\ UNCHANGED <<SHOULD_POLL, lastIdx, timeFutures, ticksLeft, owned, fut, thrEmpty, overlapped>>

Clear ==
  /\ pc = "clear"
  /\ SHOULD_POLL' = FALSE
  /\ pc' = "check"
  /\ UNCHANGED <<lastIdx, timeFutures, ticksLeft, owned, fut, thrEmpty, overlapped>>

Check ==
  /\ pc = "check"
  /\ pc' = IF SHOULD_POLL THEN "poll" ELSE "hlt"
  /\ UNCHANGED <<SHOULD_POLL, lastIdx, timeFutures, ticksLeft, owned, fut, thrEmpty, overlapped>>

Hlt ==
  /\ pc = "hlt"
  /\ pc' = "halted"
  /\ UNCHANGED <<SHOULD_POLL, lastIdx, timeFutures, ticksLeft, owned, fut, thrEmpty, overlapped>>

\* delete_future frees the context; its list entry stays.
DeleteFuture ==
  /\ pc = "done"
  /\ owned' = owned \ {fut}
  /\ pc' = IF fut = NULL THEN "putchar" ELSE "idle"
  /\ UNCHANGED <<SHOULD_POLL, lastIdx, timeFutures, ticksLeft, fut, thrEmpty, overlapped>>

\* serial_putchar spins until the transmitter is empty.
SerialPutchar ==
  /\ pc = "putchar"
  /\ thrEmpty
  /\ thrEmpty' = FALSE
  /\ pc' = "idle"
  /\ UNCHANGED <<SHOULD_POLL, lastIdx, timeFutures, ticksLeft, owned, fut, overlapped>>

----------------------------------------------------------------------------
(* The interrupt handlers.                                                 *)

\* Any interrupt ends hlt.
Wake == pc' = IF pc = "halted" THEN "check" ELSE pc

Ticked == [c \in DOMAIN ticksLeft |-> IF ticksLeft[c] > 0 THEN ticksLeft[c] - 1 ELSE 0]

\* Mutants: the futures are processed before the tick is counted; only the tick
\* that is the target counts as reaching it.
ProcessBeforeTick ==
  SHOULD_POLL' = (lastIdx # -1 /\ ticksLeft[timeFutures[0]] = 0)

ProcessOnTarget ==
  SHOULD_POLL' = (lastIdx # -1 /\ ticksLeft[timeFutures[0]] = 1)

\* process_time_futures looks at the first entry only.
ProcessTimeFutures ==
  SHOULD_POLL' = (lastIdx # -1 /\ ticksLeft'[timeFutures[0]] = 0)

\* process_rtc_interrupt: process_tick counts, then processes the futures.
RtcInterrupt ==
  /\ ticksLeft' = Ticked
  /\ ProcessTimeFutures
  /\ Wake
  /\ UNCHANGED <<lastIdx, timeFutures, owned, fut, thrEmpty, overlapped>>

\* The transmitter runs empty and uart_irq calls wakeup_executor.
UartInterrupt ==
  /\ ~ thrEmpty
  /\ thrEmpty' = TRUE
  /\ SHOULD_POLL' = TRUE
  /\ Wake
  /\ UNCHANGED <<lastIdx, timeFutures, ticksLeft, owned, fut, overlapped>>

----------------------------------------------------------------------------
(* The specification.  The RTC ticks and the UART transmits whatever the   *)
(* kernel does, and nothing else runs on the processor: their interrupts   *)
(* and the steps of a call are weakly fair.  Making a call is not.         *)

CallStep == Enroll \/ Poll \/ Clear \/ Check \/ Hlt \/ DeleteFuture \/ SerialPutchar

Next ==
  \/ InitFutures
  \/ \E s \in Seconds : CreateFuture(s)
  \/ CreateFuturePanics
  \/ \E c \in owned : AwaitSleep(c)
  \/ AwaitSerial
  \/ Enroll \/ Poll \/ Clear \/ Check \/ Hlt \/ DeleteFuture \/ SerialPutchar
  \/ RtcInterrupt \/ UartInterrupt

Spec == Init /\ [][Next]_vars

FairSpec ==
  Spec /\ WF_vars(CallStep) /\ WF_vars(RtcInterrupt) /\ WF_vars(UartInterrupt)

----------------------------------------------------------------------------
(* Properties.                                                             *)

TypeOK ==
  /\ SHOULD_POLL \in BOOLEAN
  /\ lastIdx \in -1 .. FUTURE_COUNT - 1
  /\ timeFutures \in [Indices -> {NULL} \cup Contexts]
  /\ ticksLeft \in [{NULL} \cup Contexts -> Nat]
  /\ owned \subseteq Contexts
  /\ pc \in {"boot", "idle", "enroll", "poll", "clear", "check", "hlt", "halted",
             "done", "putchar", "panic"}
  /\ fut \in {NULL} \cup Contexts
  /\ thrEmpty \in BOOLEAN
  /\ overlapped \in BOOLEAN

Asleep == pc \in {"check", "hlt", "halted"}

\* future.c:73, "if current tick exists in our set, set flag to true": a tick
\* that finds the awaited future due sets the flag, so the sleeper is late by
\* at most the one tick that Clear may have wiped out.
DueWakesSleeper ==
  [][RtcInterrupt /\ Asleep /\ fut # NULL /\ ticksLeft'[fut] = 0 => SHOULD_POLL']_vars

\* The comment holds for sleeps made one at a time: the stale first entry that
\* process_time_futures (future.c:72-81) looks at is then the awaited context.
DueWakesLoneSleeper ==
  [][RtcInterrupt /\ ~ overlapped /\ Asleep /\ fut # NULL /\ ticksLeft'[fut] = 0 =>
       SHOULD_POLL']_vars

\* await (future.c:36-53) of a sleep returns, wherever a tick falls between its
\* poll, its store to the flag, its test of the flag and its hlt.
SleepAwaitEnds == pc = "enroll" ~> pc = "idle"

\* The flag was set by the UART and then wiped out, by await's own store or by
\* a tick, and no tick will set it again as no sleep was ever awaited.
Stalled == fut = NULL /\ thrEmpty /\ Asleep /\ ~ SHOULD_POLL /\ lastIdx = -1

\* serial_write (uart.c:71-77) gets its byte out, unless the one interrupt for
\* it was lost; once any sleep was awaited, ticks make up for lost interrupts.
SerialEndsUnlessStalled ==
  pc = "poll" /\ fut = NULL ~> pc = "idle" \/ Stalled

\* future.c:39, panic("Future list full!"): a future is added behind the others
\* or the kernel panics.
EnrolledOrPanic ==
  [][pc = "enroll" /\ pc' # "enroll" => lastIdx' = lastIdx + 1 \/ pc' = "panic"]_vars
=============================================================================
