------------------------------- MODULE Sleep --------------------------------
(***************************************************************************)
(* sleep (libc/stdlib/unistd.c), await of a lone future (kernel/future.c)  *)
(* and the tick both count by (kernel/monotonic_tick.c), all of a machine  *)
(* word's width.  sleep reads the tick, halts until some interrupt, and    *)
(* reads again; await polls, clears a flag that the tick's handler sets,   *)
(* and halts until it is set.  Interrupts come between any two steps.      *)
(*                                                                         *)
(* A tick takes milliseconds and the way to the next hlt microseconds, so  *)
(* at most one tick falls between two halts.                               *)
(***************************************************************************)
EXTENDS Integers

CONSTANTS Word,      \* uint32_t is 0 .. Word-1: 2^32
          RTC_FREQ,  \* ticks per second, 256
          Seconds,   \* the sleeps callers ask for
          MaxElapsed \* bound: ticks of one call are counted up to here

ASSUME SleepAssumption ==
  /\ Word \in Nat /\ Word > 1
  /\ RTC_FREQ \in Nat \ {0}
  /\ Seconds \subseteq 0 .. Word - 1
  /\ MaxElapsed \in Nat
  \* The bound leaves room for a return that is more than a tick late.
  /\ \A s \in Seconds : s * RTC_FREQ + 1 < MaxElapsed

VARIABLES
  tick,         \* monotonicTick.tick
  end,          \* sleep's local, or the future's target_tick
  SHOULD_POLL,  \* the flag between the handlers and await
  listed,       \* timeFutures has an entry: this future's, or an old one's
                \* whose context malloc hands out again
  sending,      \* the UART has yet to interrupt for the last byte written
  pc,           \* where the caller is
  ticked,       \* a tick has come since the last halt
  asked,        \* history: the ticks this call is to last
  elapsed,      \* history: the ticks since its start, as far as counted
  wraps         \* history: the end of the call is not a word

history == <<asked, elapsed, wraps>>

vars == <<tick, end, SHOULD_POLL, listed, sending, pc, ticked, history>>

\* The kernel may have run for any time.
Init ==
  /\ tick \in 0 .. Word - 1
  /\ end = 0
  /\ SHOULD_POLL = FALSE /\ listed = FALSE /\ sending = FALSE
  /\ pc = "idle"
  /\ ticked = FALSE
  /\ asked = 0 /\ elapsed = 0 /\ wraps = FALSE

----------------------------------------------------------------------------
(* sleep.                                                                  *)

\* Mutants: the sum is wider than a word; the seconds are taken for ticks.
EndUnwrapped(s) == tick + s * RTC_FREQ
EndInSeconds(s) == (tick + s) % Word

End(s) == (tick + s * RTC_FREQ) % Word

\* Mutant: the tick at the end is slept through.
BeforeOrAtEnd == tick <= end

BeforeEnd == tick < end

\* The call's first step computes its end from the tick.  The caller may have
\* written a byte before; it writes none while it waits.
Start(s, next) ==
  /\ pc = "idle"
  /\ pc' = next
  /\ end' = End(s)
  /\ ticked' = FALSE
  /\ asked' = s * RTC_FREQ
  /\ elapsed' = 0
  /\ wraps' = (tick + s * RTC_FREQ >= Word)
  /\ sending' \in BOOLEAN
  /\ UNCHANGED <<tick, SHOULD_POLL, listed>>

Sleep(s) == Start(s, "test")

Step(from, to) ==
  /\ pc = from
  /\ pc' = to
  /\ UNCHANGED <<tick, end, sending, history>>

Test ==
  /\ Step("test", IF BeforeEnd THEN "hlt" ELSE "idle")
  /\ UNCHANGED <<SHOULD_POLL, listed, ticked>>

Hlt ==
  /\ Step("hlt", "halted")
  /\ ticked' = FALSE
  /\ UNCHANGED <<SHOULD_POLL, listed>>

----------------------------------------------------------------------------
(* await.                                                                  *)

CreateFuture(s) == Start(s, "enroll")

Enroll ==
  /\ Step("enroll", "poll")
  /\ listed' = TRUE
  /\ UNCHANGED <<SHOULD_POLL, ticked>>

\* fut_is_ready; delete_future, when it is.
Poll ==
  /\ Step("poll", IF BeforeEnd THEN "clear" ELSE "idle")
  /\ UNCHANGED <<SHOULD_POLL, listed, ticked>>

Clear ==
  /\ Step("clear", "check")
  /\ SHOULD_POLL' = FALSE
  /\ UNCHANGED <<listed, ticked>>

Check ==
  /\ Step("check", IF SHOULD_POLL THEN "poll" ELSE "hlt_await")
  /\ UNCHANGED <<SHOULD_POLL, listed, ticked>>

HltAwait ==
  /\ Step("hlt_await", "halted_await")
  /\ ticked' = FALSE
  /\ UNCHANGED <<SHOULD_POLL, listed>>

----------------------------------------------------------------------------
(* The interrupts.                                                         *)

\* Any interrupt ends hlt.
Wake ==
  pc' = CASE pc = "halted"       -> "test"
          [] pc = "halted_await" -> "check"
          [] OTHER               -> pc

\* Mutant: the flag is set on the target's own tick alone.
DueOnTarget(t) == t = end

\* process_time_futures' test.
Due(t) == t >= end

\* process_tick.
RtcInterrupt ==
  /\ pc = "idle" \/ ~ ticked
  /\ tick' = (tick + 1) % Word
  /\ SHOULD_POLL' = (listed /\ Due(tick'))
  /\ ticked' = TRUE
  /\ elapsed' = IF elapsed < MaxElapsed THEN elapsed + 1 ELSE elapsed
  /\ Wake
  /\ UNCHANGED <<end, listed, sending, asked, wraps>>

\* uart_irq.
UartInterrupt ==
  /\ sending /\ sending' = FALSE
  /\ SHOULD_POLL' = TRUE
  /\ Wake
  /\ UNCHANGED <<tick, end, listed, ticked, history>>

----------------------------------------------------------------------------
\* The caller's instructions are executed and the RTC ticks: both are fair.
Caller == Test \/ Hlt \/ Enroll \/ Poll \/ Clear \/ Check \/ HltAwait

Next ==
  \/ \E s \in Seconds : Sleep(s) \/ CreateFuture(s)
  \/ Test \/ Hlt
  \/ Enroll \/ Poll \/ Clear \/ Check \/ HltAwait
  \/ RtcInterrupt \/ UartInterrupt

Spec == Init /\ [][Next]_vars

FairSpec == Spec /\ WF_vars(Caller) /\ WF_vars(RtcInterrupt)

----------------------------------------------------------------------------
(* Properties.                                                             *)

Places == {"idle", "test", "hlt", "halted",
           "enroll", "poll", "clear", "check", "hlt_await", "halted_await"}

TypeOK ==
  /\ tick \in 0 .. Word - 1 /\ end \in 0 .. Word - 1
  /\ SHOULD_POLL \in BOOLEAN /\ listed \in BOOLEAN /\ sending \in BOOLEAN
  /\ pc \in Places
  /\ ticked \in BOOLEAN
  /\ asked \in Nat /\ elapsed \in 0 .. MaxElapsed
  /\ wraps \in BOOLEAN

Returns == pc # "idle" /\ pc' = "idle"

\* Neither sleep (unistd.c:5-10) nor await (future.c:44-51) returns before its
\* time, unless the end it computed has wrapped: then it may return at once.
NeverEarly == [][Returns /\ ~ wraps => elapsed >= asked]_vars

\* The greatest word leaves the loop a single tick to see that it is over.
EndsOnLastWord == end = Word - 1

\* Both return at most one tick late: the one that comes between sleep's test
\* and its hlt (unistd.c:9), or whose flag await clears after its poll or halts
\* on (future.c:44-48); unless the end is the greatest word.
NeverLate == [][Returns /\ ~ EndsOnLastWord => elapsed <= asked + 1]_vars

\* Both return, if need be a wrap of the tick later.
SleepEnds == pc \in {"test", "enroll"} ~> pc = "idle"
=============================================================================
