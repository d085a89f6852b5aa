--------------------------- MODULE ExecutorProofs ---------------------------
(***************************************************************************)
(* Proofs about Executor, for every capacity, frequency and set of sleeps. *)
(*                                                                         *)
(* Why a tick wakes the sleeper although process_time_futures looks at the *)
(* first list entry only, and that entry's context is freed when its sleep *)
(* is over: a caller that holds one context at a time gets the same one    *)
(* from malloc every time, so the stale first entry is the awaited one.    *)
(*                                                                         *)
(* Then, for sleeps that overlap as they like, how far an await is from    *)
(* its return, and which steps bring it nearer.                            *)
(***************************************************************************)
EXTENDS Executor, TLAPS

CallPcs == {"enroll", "poll", "clear", "check", "hlt", "halted", "done"}

\* A context is awaited by the caller that holds it, and only a caller that
\* holds one is where a sleep's await passes.
AwaitedInv ==
  /\ pc \in CallPcs /\ fut # NULL => fut \in owned
  /\ pc = "enroll" => fut # NULL

\* One context at a time.
SequentialInv ==
  ~ overlapped =>
    /\ owned \subseteq {1}
    /\ pc # "boot" /\ lastIdx # -1 => timeFutures[0] = 1
    /\ pc \in CallPcs \ {"enroll"} /\ fut # NULL => lastIdx # -1
    /\ pc = "boot" => lastIdx = 0

LEMMA TypeInit == Init => TypeOK
<1> SUFFICES ASSUME Init
             PROVE  TypeOK
  OBVIOUS
<1> USE FutureAssumption DEF Init
<1>1. ticksLeft \in [{NULL} \cup Contexts -> Nat]
  <2>1. {0, RTC_FREQ} \subseteq Nat
    OBVIOUS
  <2> QED
    BY <2>1
<1>2. timeFutures \in [Indices -> {NULL} \cup Contexts]
  OBVIOUS
<1>3. lastIdx \in -1 .. FUTURE_COUNT - 1
  OBVIOUS
<1> QED
  BY <1>1, <1>2, <1>3 DEF TypeOK

LEMMA TypeStep == TypeOK /\ [Next]_vars => TypeOK'
<1> SUFFICES ASSUME TypeOK, [Next]_vars
             PROVE  TypeOK'
  OBVIOUS
<1> USE FutureAssumption DEF TypeOK, Contexts, Indices, NULL
<1>1. CASE InitFutures
  BY <1>1 DEF InitFutures
<1>2. ASSUME NEW s \in Seconds, CreateFuture(s)
      PROVE  TypeOK'
  <2>1. s * RTC_FREQ \in Nat
    OBVIOUS
  <2>2. overlapped' \in BOOLEAN
    <3>1. overlapped' = (overlapped \/ owned # {})
      BY <1>2 DEF CreateFuture
    <3> QED
      BY <3>1, Zenon
  <2> QED
    BY <1>2, <2>1, <2>2 DEF CreateFuture
<1>3. ASSUME NEW c \in owned, AwaitSleep(c)
      PROVE  TypeOK'
  BY <1>3 DEF AwaitSleep
<1>4. CASE AwaitSerial \/ CreateFuturePanics
  BY <1>4 DEF AwaitSerial, CreateFuturePanics
<1>5. CASE Enroll
  <2>1. CASE lastIdx + 1 < FUTURE_COUNT
    BY <1>5, <2>1 DEF Enroll, Store
  <2>2. CASE lastIdx + 1 = FUTURE_COUNT
    BY <1>5, <2>2 DEF Enroll, Store
  <2> QED
    BY <2>1, <2>2
<1>6. CASE Poll
  BY <1>6 DEF Poll
<1>7. CASE Clear \/ Check \/ Hlt
  BY <1>7 DEF Clear, Check, Hlt
<1>8. CASE DeleteFuture \/ SerialPutchar
  BY <1>8 DEF DeleteFuture, SerialPutchar
<1>9. CASE RtcInterrupt
  <2>1. Ticked \in [{NULL} \cup Contexts -> Nat]
    BY DEF Ticked
  <2> QED
    BY <1>9, <2>1 DEF RtcInterrupt, ProcessTimeFutures, Wake
<1>10. CASE UartInterrupt
  BY <1>10 DEF UartInterrupt, Wake
<1>11. CASE UNCHANGED vars
  BY <1>11 DEF vars
<1> QED
  BY <1>1, <1>2, <1>3, <1>4, <1>5, <1>6, <1>7, <1>8, <1>9, <1>10, <1>11 DEF Next

\* Every variable of the executor keeps its type: in particular a store past
\* the end of futureList leaves an index inside it (future.c:40).
THEOREM TypeCorrect == Spec => []TypeOK
<1> QED
  BY TypeInit, TypeStep, PTL DEF Spec

LEMMA AwaitedStep == TypeOK /\ AwaitedInv /\ [Next]_vars => AwaitedInv'
<1> SUFFICES ASSUME TypeOK, AwaitedInv, [Next]_vars
             PROVE  AwaitedInv'
  OBVIOUS
<1> USE DEF AwaitedInv, CallPcs
<1>1. CASE InitFutures
  BY <1>1 DEF InitFutures
<1>2. ASSUME NEW s \in Seconds, CreateFuture(s)
      PROVE  AwaitedInv'
  BY <1>2 DEF CreateFuture
<1>3. ASSUME NEW c \in owned, AwaitSleep(c)
      PROVE  AwaitedInv'
  BY <1>3 DEF AwaitSleep, TypeOK, Contexts, NULL
<1>4. CASE AwaitSerial \/ CreateFuturePanics
  BY <1>4 DEF AwaitSerial, CreateFuturePanics
<1>5. CASE Enroll \/ Poll \/ Clear \/ Check \/ Hlt
  BY <1>5 DEF Enroll, Poll, Clear, Check, Hlt
<1>6. CASE DeleteFuture \/ SerialPutchar
  BY <1>6 DEF DeleteFuture, SerialPutchar
<1>7. CASE RtcInterrupt \/ UartInterrupt
  BY <1>7 DEF RtcInterrupt, UartInterrupt, Wake
<1>8. CASE UNCHANGED vars
  BY <1>8 DEF vars
<1> QED
  BY <1>1, <1>2, <1>3, <1>4, <1>5, <1>6, <1>7, <1>8 DEF Next

LEMMA NextWhenFree ==
  ASSUME owned = {}, NEW c \in Contexts, IsNext(c)
  PROVE  c = 1
BY FutureAssumption DEF IsNext, Free, Contexts

LEMMA SequentialStep ==
  ASSUME TypeOK, AwaitedInv, SequentialInv, [Next]_vars
  PROVE  SequentialInv'
<1> SUFFICES ASSUME ~ overlapped'
             PROVE  SequentialInv'
  BY DEF SequentialInv
<1> USE FutureAssumption DEF SequentialInv, CallPcs
<1>1. CASE InitFutures
  BY <1>1 DEF InitFutures
<1>2. ASSUME NEW s \in Seconds, CreateFuture(s)
      PROVE  SequentialInv'
  BY <1>2, NextWhenFree DEF CreateFuture
<1>3. ASSUME NEW c \in owned, AwaitSleep(c)
      PROVE  SequentialInv'
  BY <1>3 DEF AwaitSleep
<1>4. CASE AwaitSerial \/ CreateFuturePanics
  BY <1>4 DEF AwaitSerial, CreateFuturePanics
<1>5. CASE Enroll
  <2>1. fut = 1
    BY <1>5 DEF Enroll, AwaitedInv
  <2>2. /\ lastIdx \in -1 .. FUTURE_COUNT - 1 /\ lastIdx # FUTURE_COUNT
        /\ 0 \in DOMAIN timeFutures
    BY DEF TypeOK, Indices
  <2>3. CASE lastIdx = -1
    BY <1>5, <2>1, <2>2, <2>3 DEF Enroll, Store, TypeOK
  <2>4. CASE lastIdx # -1 /\ lastIdx + 1 < FUTURE_COUNT
    BY <1>5, <2>1, <2>2, <2>4 DEF Enroll, Store, TypeOK
  <2>5. CASE lastIdx # -1 /\ ~ (lastIdx + 1 < FUTURE_COUNT)
    BY <1>5, <2>2, <2>5 DEF Enroll, Store
  <2> QED
    BY <2>3, <2>4, <2>5
<1>6. CASE Poll \/ Clear \/ Check \/ Hlt
  BY <1>6 DEF Poll, Clear, Check, Hlt
<1>7. CASE DeleteFuture \/ SerialPutchar
  BY <1>7 DEF DeleteFuture, SerialPutchar
<1>8. CASE RtcInterrupt \/ UartInterrupt
  BY <1>8 DEF RtcInterrupt, UartInterrupt, Wake
<1>9. CASE UNCHANGED vars
  BY <1>9 DEF vars
<1> QED
  BY <1>1, <1>2, <1>3, <1>4, <1>5, <1>6, <1>7, <1>8, <1>9 DEF Next

\* While futures are created one at a time, a tick that finds the awaited future
\* due sets the flag (future.c:72-81).
THEOREM LoneSleeperWakes == Spec => DueWakesLoneSleeper
<1> DEFINE Inv == TypeOK /\ AwaitedInv /\ SequentialInv
<1>1. Init => Inv
  BY TypeInit DEF Init, AwaitedInv, SequentialInv, CallPcs
<1>2. Inv /\ [Next]_vars => Inv'
  BY TypeStep, AwaitedStep, SequentialStep
<1>3. Inv => (RtcInterrupt /\ ~ overlapped /\ Asleep /\ fut # NULL /\ ticksLeft'[fut] = 0
              => SHOULD_POLL')
  <2> SUFFICES ASSUME Inv, RtcInterrupt, ~ overlapped, Asleep, fut # NULL, ticksLeft'[fut] = 0
               PROVE  SHOULD_POLL'
    OBVIOUS
  <2>1. fut = 1 /\ lastIdx # -1 /\ timeFutures[0] = 1
    BY DEF AwaitedInv, SequentialInv, Asleep, CallPcs
  <2> QED
    BY <2>1 DEF RtcInterrupt, ProcessTimeFutures
<1> QED
  BY <1>1, <1>2, <1>3, PTL DEF Spec, DueWakesLoneSleeper

----------------------------------------------------------------------------
(* Awaits end.  Rank is what the ticks and the UART still have to do for   *)
(* the awaited future and for the first list entry, and then the steps to  *)
(* a poll that finds the future ready.  No step raises it, unless it loses *)
(* the UART's one interrupt, and in every state some fair step lowers it.  *)

Awaiting == pc \in {"poll", "clear", "check", "hlt", "halted"}

Left   == IF fut = NULL THEN 0 ELSE ticksLeft[fut]
First  == IF lastIdx = -1 THEN 0 ELSE ticksLeft[timeFutures[0]]
Unsent == IF thrEmpty THEN 0 ELSE 1

\* How far a caller is from polling, once its future is ready.  The flag may
\* be down when it falls asleep: a tick then sets it.
Place ==
  CASE ~ IsReady                       -> 0
    [] IsReady /\ pc = "clear"         -> 7
    [] IsReady /\ pc = "check"         -> IF SHOULD_POLL THEN 1 ELSE 6
    [] IsReady /\ pc = "hlt"           -> IF SHOULD_POLL THEN 3 ELSE 5
    [] IsReady /\ pc = "halted"        -> IF SHOULD_POLL THEN 2 ELSE 4
    [] OTHER                           -> 0

Rank == 8 * (Left + First + Unsent) + Place

\* The step that brings the await on.
Helps ==
  IF IsReady THEN IF pc = "halted" THEN RtcInterrupt ELSE CallStep
             ELSE IF fut = NULL THEN UartInterrupt ELSE RtcInterrupt

\* A future that is polled is on the list.
EnrolledInv == Awaiting /\ fut # NULL => lastIdx # -1

LEMMA EnrolledStep == TypeOK /\ EnrolledInv /\ [Next]_vars => EnrolledInv'
<1> SUFFICES ASSUME TypeOK, EnrolledInv, [Next]_vars
             PROVE  EnrolledInv'
  OBVIOUS
<1> USE DEF EnrolledInv, Awaiting
<1>1. CASE InitFutures
  BY <1>1 DEF InitFutures
<1>2. ASSUME NEW s \in Seconds, CreateFuture(s)
      PROVE  EnrolledInv'
  BY <1>2 DEF CreateFuture
<1>3. ASSUME NEW c \in owned, AwaitSleep(c)
      PROVE  EnrolledInv'
  BY <1>3 DEF AwaitSleep
<1>4. CASE AwaitSerial \/ CreateFuturePanics
  BY <1>4 DEF AwaitSerial, CreateFuturePanics
<1>5. CASE Enroll
  <2>1. lastIdx \in Int /\ lastIdx >= -1
    BY FutureAssumption DEF TypeOK
  <2>2. lastIdx + 1 # -1
    BY <2>1
  <2> QED
    BY <1>5, <2>2 DEF Enroll, Store
<1>6. CASE Poll \/ Clear \/ Check \/ Hlt
  BY <1>6 DEF Poll, Clear, Check, Hlt
<1>7. CASE DeleteFuture \/ SerialPutchar
  BY <1>7 DEF DeleteFuture, SerialPutchar
<1>8. CASE RtcInterrupt \/ UartInterrupt
  BY <1>8 DEF RtcInterrupt, UartInterrupt, Wake
<1>9. CASE UNCHANGED vars
  BY <1>9 DEF vars
<1> QED
  BY <1>1, <1>2, <1>3, <1>4, <1>5, <1>6, <1>7, <1>8, <1>9 DEF Next

Parts == Left \in Nat /\ First \in Nat /\ Unsent \in Nat /\ Place \in 0 .. 7

LEMMA RankParts == TypeOK => Parts /\ Rank \in Nat
<1> SUFFICES ASSUME TypeOK
             PROVE  Parts /\ Rank \in Nat
  OBVIOUS
<1>1. Left \in Nat
  BY DEF TypeOK, Left
<1>2. First \in Nat
  <2>1. 0 \in Indices
    BY FutureAssumption DEF Indices
  <2>2. timeFutures[0] \in {NULL} \cup Contexts
    BY <2>1 DEF TypeOK
  <2> QED
    BY <2>2 DEF TypeOK, First
<1>3. Unsent \in Nat
  BY DEF Unsent
<1>4. Place \in 0 .. 7
  BY DEF Place
<1> QED
  BY <1>1, <1>2, <1>3, <1>4 DEF Rank, Parts

LEMMA RankPartsNext ==
  ASSUME TypeOK, TypeOK'
  PROVE  /\ Left \in Nat /\ First \in Nat /\ Unsent \in Nat /\ Place \in 0 .. 7
         /\ Left' \in Nat /\ First' \in Nat /\ Unsent' \in Nat /\ Place' \in 0 .. 7
<1>1. Parts /\ Parts'
  <2>1. TypeOK' => Parts'
    BY RankParts, PTL
  <2> QED
    BY <2>1, RankParts
<1> QED
  BY <1>1 DEF Parts

LEMMA NotHigher ==
  ASSUME NEW a \in Nat, NEW b \in Nat, NEW c \in Nat, NEW p \in 0 .. 7,
         NEW x \in Nat, NEW y \in Nat, NEW z \in Nat, NEW q \in 0 .. 7,
         x <= a, y <= b, z <= c, q <= p
  PROVE  /\ 8 * (x + y + z) + q <= 8 * (a + b + c) + p
         /\ q < p => 8 * (x + y + z) + q < 8 * (a + b + c) + p
<1>1. x + y + z <= a + b + c
  OBVIOUS
<1> QED
  BY <1>1

LEMMA Lower ==
  ASSUME NEW a \in Nat, NEW b \in Nat, NEW c \in Nat, NEW p \in 0 .. 7,
         NEW x \in Nat, NEW y \in Nat, NEW z \in Nat, NEW q \in 0 .. 7,
         x <= a, y <= b, z <= c, x < a \/ y < b \/ z < c
  PROVE  /\ 8 * (x + y + z) + q <= 8 * (a + b + c) + p
         /\ 8 * (x + y + z) + q < 8 * (a + b + c) + p
<1>1. x + y + z < a + b + c
  OBVIOUS
<1> QED
  BY <1>1

\* A call's steps move it, and an interrupt moves only a halted call.
LEMMA StepsMove ==
  /\ CallStep => pc' # pc
  /\ (RtcInterrupt \/ UartInterrupt) /\ pc # "halted" => pc' = pc
  /\ ~ (RtcInterrupt /\ UartInterrupt)
  /\ (RtcInterrupt \/ UartInterrupt) /\ CallStep => pc = "halted"
<1>1. CallStep => pc' # pc
  BY DEF CallStep, Enroll, Poll, Clear, Check, Hlt, DeleteFuture, SerialPutchar
<1>2. (RtcInterrupt \/ UartInterrupt) /\ pc # "halted" => pc' = pc
  BY DEF RtcInterrupt, UartInterrupt, Wake
<1>3. ~ (RtcInterrupt /\ UartInterrupt)
  BY DEF RtcInterrupt, UartInterrupt
<1> QED
  BY <1>1, <1>2, <1>3

LEMMA CallerBringsOn ==
  ASSUME TypeOK, TypeOK', Awaiting, Awaiting', CallStep
  PROVE  Rank' <= Rank /\ (Helps => Rank' < Rank)
<1>1. Poll \/ Clear \/ Check \/ Hlt
  BY DEF CallStep, Awaiting, Enroll, DeleteFuture, SerialPutchar
<1>2. /\ Left' = Left /\ First' = First /\ Unsent' = Unsent /\ IsReady' = IsReady
  BY <1>1 DEF Poll, Clear, Check, Hlt, Left, First, Unsent, IsReady
<1>3. /\ Left \in Nat /\ First \in Nat /\ Unsent \in Nat /\ Place \in 0 .. 7
      /\ Left' \in Nat /\ First' \in Nat /\ Unsent' \in Nat /\ Place' \in 0 .. 7
  BY RankPartsNext
<1>4. Left' <= Left /\ First' <= First /\ Unsent' <= Unsent
  BY <1>2, <1>3
<1>5. CASE IsReady
  <2>1. ~ Poll
    BY <1>5 DEF Poll, Awaiting
  <2>2. SHOULD_POLL \in BOOLEAN
    BY DEF TypeOK
  <2>3. Place' < Place /\ Place' <= Place
    BY <1>1, <1>2, <1>5, <2>1, <2>2 DEF Clear, Check, Hlt, Place
  <2> QED
    BY <1>3, <1>4, <2>3, NotHigher DEF Rank
<1>6. CASE ~ IsReady
  <2>1. Place' = 0 /\ Place = 0
    BY <1>2, <1>6 DEF Place
  <2>2. Place' <= Place
    BY <2>1
  <2>3. ~ Helps
    <3>1. ~ RtcInterrupt /\ ~ UartInterrupt
      BY <1>1, StepsMove DEF Hlt, Poll, Clear, Check
    <3> QED
      BY <1>6, <3>1 DEF Helps
  <2> QED
    BY <1>3, <1>4, <2>2, <2>3, NotHigher DEF Rank
<1> QED
  BY <1>5, <1>6

LEMMA UartBringsOn ==
  ASSUME TypeOK, TypeOK', UartInterrupt
  PROVE  Rank' <= Rank /\ (Helps => Rank' < Rank)
<1>1. /\ Left' = Left /\ First' = First /\ Unsent = 1 /\ Unsent' = 0
  BY DEF UartInterrupt, Left, First, Unsent
<1>2. /\ Left \in Nat /\ First \in Nat /\ Unsent \in Nat /\ Place \in 0 .. 7
      /\ Left' \in Nat /\ First' \in Nat /\ Unsent' \in Nat /\ Place' \in 0 .. 7
  BY RankPartsNext
<1>3. Left' <= Left /\ First' <= First /\ Unsent' <= Unsent /\ Unsent' < Unsent
  BY <1>1, <1>2
<1> QED
  BY <1>2, <1>3, Lower DEF Rank

LEMMA RtcBringsOn ==
  ASSUME TypeOK, TypeOK', EnrolledInv, Awaiting, RtcInterrupt, ~ Stalled'
  PROVE  Rank' <= Rank /\ (Helps => Rank' < Rank)
<1>1. /\ Left \in Nat /\ First \in Nat /\ Unsent \in Nat /\ Place \in 0 .. 7
      /\ Left' \in Nat /\ First' \in Nat /\ Unsent' \in Nat /\ Place' \in 0 .. 7
  BY RankPartsNext
<1>2. Unsent' = Unsent /\ fut' = fut /\ lastIdx' = lastIdx /\ timeFutures' = timeFutures
      /\ thrEmpty' = thrEmpty
  BY DEF RtcInterrupt, Unsent
<1>3. \A c \in {NULL} \cup Contexts :
        /\ ticksLeft[c] \in Nat
        /\ ticksLeft'[c] = IF ticksLeft[c] > 0 THEN ticksLeft[c] - 1 ELSE 0
  BY DEF RtcInterrupt, Ticked, TypeOK
<1>4. Left' = IF Left > 0 THEN Left - 1 ELSE 0
  <2>1. fut \in {NULL} \cup Contexts
    BY DEF TypeOK
  <2> QED
    BY <1>2, <1>3, <2>1 DEF Left
<1>5. First' = IF First > 0 THEN First - 1 ELSE 0
  <2>1. 0 \in Indices
    BY FutureAssumption DEF Indices
  <2>2. timeFutures[0] \in {NULL} \cup Contexts
    BY <2>1 DEF TypeOK
  <2> QED
    BY <1>2, <1>3, <2>2 DEF First
<1>6. Left' <= Left /\ First' <= First /\ Unsent' <= Unsent
  BY <1>1, <1>2, <1>4, <1>5
<1>7. CASE Left > 0 \/ First > 0
  <2>1. Left' < Left \/ First' < First
    BY <1>1, <1>4, <1>5, <1>7
  <2> QED
    BY <1>1, <1>6, <2>1, Lower DEF Rank
<1>8. CASE ~ (Left > 0 \/ First > 0)
  <2>1. Left = 0 /\ First = 0 /\ Left' = 0 /\ First' = 0
    BY <1>1, <1>4, <1>5, <1>8
  <2>2. IsReady' = IsReady /\ IsReady \in BOOLEAN /\ (~ IsReady => fut = NULL)
    BY <1>2, <2>1 DEF IsReady, Left, TypeOK
  <2>3. CASE ~ IsReady
    <3>1. Place' = 0 /\ Place = 0
      BY <2>2, <2>3 DEF Place
    <3>2. Place' <= Place
      BY <3>1
    <3>3. ~ Helps
      BY <2>2, <2>3, StepsMove DEF Helps
    <3> QED
      BY <1>1, <1>6, <3>2, <3>3, NotHigher DEF Rank
  <2>4. CASE IsReady /\ lastIdx # -1
    <3>1. SHOULD_POLL' = TRUE
      BY <1>2, <2>1, <2>4 DEF RtcInterrupt, ProcessTimeFutures, First
    <3>2. SHOULD_POLL \in BOOLEAN
      BY DEF TypeOK
    <3>3. pc' = IF pc = "halted" THEN "check" ELSE pc
      BY DEF RtcInterrupt, Wake
    <3>4. Place' <= Place /\ (pc = "halted" => Place' < Place)
      BY <2>2, <2>4, <3>1, <3>2, <3>3 DEF Place, Awaiting
    <3>5. Helps => pc = "halted"
      BY <2>4, StepsMove DEF Helps
    <3> QED
      BY <1>1, <1>6, <3>4, <3>5, NotHigher DEF Rank
  <2>5. CASE IsReady /\ lastIdx = -1
    <3>1. fut = NULL /\ thrEmpty /\ SHOULD_POLL' = FALSE
      BY <1>2, <2>5 DEF RtcInterrupt, ProcessTimeFutures, EnrolledInv, IsReady
    <3>2. ~ Asleep'
      BY <1>2, <2>5, <3>1 DEF Stalled
    <3>3. pc' = pc /\ pc \in {"poll", "clear"}
      BY <3>2 DEF RtcInterrupt, Wake, Awaiting, Asleep
    <3>4. Place' = Place
      BY <2>2, <2>5, <3>3 DEF Place
    <3>5. Place' <= Place
      BY <1>1, <3>4
    <3>6. ~ Helps
      BY <2>5, <3>3, StepsMove DEF Helps
    <3> QED
      BY <1>1, <1>6, <3>5, <3>6, NotHigher DEF Rank
  <2> QED
    BY <2>2, <2>3, <2>4, <2>5
<1> QED
  BY <1>7, <1>8

\* An await (future.c:44-51) goes on, however interrupts fall between its poll,
\* its store to the flag, its test of the flag and its hlt, whichever entry the
\* tick looks at (future.c:72-81), and however many sleeps have overlapped: no
\* step takes back what was gained, unless the await is stalled by it, and a step
\* that helps gains.
THEOREM AwaitGoesOn ==
  Spec => /\ [](Awaiting => Rank \in Nat)
          /\ [][Awaiting /\ Awaiting' /\ ~ Stalled' =>
                  Rank' <= Rank /\ (Helps => Rank' < Rank)]_vars
<1> DEFINE Inv == TypeOK /\ EnrolledInv
<1>1. Init => Inv
  BY TypeInit DEF Init, EnrolledInv, Awaiting
<1>2. Inv /\ [Next]_vars => Inv'
  BY TypeStep, EnrolledStep
<1>3. Inv => (Awaiting => Rank \in Nat)
  BY RankParts
<1>4. Inv /\ Inv' /\ [Next]_vars =>
        [Awaiting /\ Awaiting' /\ ~ Stalled' =>
           Rank' <= Rank /\ (Helps => Rank' < Rank)]_vars
  <2> SUFFICES ASSUME Inv, Inv', Next, Awaiting, Awaiting', ~ Stalled'
               PROVE  Rank' <= Rank /\ (Helps => Rank' < Rank)
    BY DEF vars
  <2>1. CallStep \/ RtcInterrupt \/ UartInterrupt
    BY DEF Next, CallStep, Awaiting, InitFutures, CreateFuture, CreateFuturePanics, AwaitSleep,
           AwaitSerial
  <2> QED
    BY <2>1, CallerBringsOn, UartBringsOn, RtcBringsOn
<1> QED
  BY <1>1, <1>2, <1>3, <1>4, PTL DEF Spec
=============================================================================
