---------------------------- MODULE SleepProofs -----------------------------
(***************************************************************************)
(* Proofs about Sleep, for every width of the word, every frequency and    *)
(* every set of sleeps.                                                    *)
(*                                                                         *)
(* While the tick is below the end, the ticks counted and those still to   *)
(* come add up to what was asked.  Once it is not, the caller must be on   *)
(* its way out: wherever it may still halt, it does so with no tick of     *)
(* lateness, and the next tick both wakes it and, for await, sets the flag *)
(* again.  Last, a rank that every step of a call lowers.                  *)
(***************************************************************************)
EXTENDS Sleep, TLAPS

\* An awaited future is on the tick's list, and no tick has come since a halt
\* that lasts.
PlacesInv ==
  /\ pc \in {"poll", "clear", "check", "hlt_await", "halted_await"} => listed
  /\ pc \in {"halted", "halted_await"} => ~ ticked

\* What the caller has not yet slept is still to come, or it has slept enough.
EarlyInv ==
  pc # "idle" /\ ~ wraps =>
    \/ elapsed >= asked
    \/ BeforeEnd /\ elapsed + (end - tick) >= asked

\* No more than was asked is still to come.
ApproachesEnd == BeforeEnd => elapsed + (end - tick) <= asked

\* The caller has read a tick below the end and will halt, or halts, before it
\* reads the tick again.
WillHalt ==
  \/ pc \in {"hlt", "clear", "hlt_await"}
  \/ pc = "check" /\ ~ SHOULD_POLL

\* Past its end the call is at most the last tick late; if one may still come,
\* the tick is at the end itself, or the end lies behind a wrap.
PastEnd ==
  ~ BeforeEnd =>
    /\ elapsed <= asked + (IF ticked THEN 1 ELSE 0)
    /\ ticked \/ tick = end \/ elapsed + end + Word - tick <= asked
    /\ WillHalt => ticked /\ tick = end /\ elapsed <= asked
    /\ pc \in {"halted", "halted_await"} => tick = end

LateInv == pc # "idle" /\ ~ EndsOnLastWord => ApproachesEnd /\ PastEnd

\* The bound on the count never hides that a call is late.
AskedInv == pc # "idle" => asked < MaxElapsed

IInv == TypeOK /\ PlacesInv /\ AskedInv /\ EarlyInv /\ LateInv

----------------------------------------------------------------------------
(* The end is the sum of tick and length as far as a word holds it.        *)

LEMMA WordInNat == Word \in Nat /\ Word > 1 /\ MaxElapsed \in Nat
BY SleepAssumption

LEMMA Remainder ==
  ASSUME NEW x \in Nat
  PROVE  /\ x % Word \in 0 .. Word - 1
         /\ x < Word => x % Word = x
         /\ x >= Word => (x % Word) + Word <= x
BY WordInNat, SMTT(30)

LEMMA LengthInNat ==
  ASSUME NEW s \in Seconds
  PROVE  s * RTC_FREQ \in Nat /\ s * RTC_FREQ < MaxElapsed
BY SleepAssumption

LEMMA InitIInv == Init => IInv
<1> SUFFICES ASSUME Init
             PROVE  IInv
  OBVIOUS
<1>1. tick \in 0 .. Word - 1 /\ end \in 0 .. Word - 1
  BY WordInNat DEF Init
<1>2. SHOULD_POLL \in BOOLEAN /\ listed \in BOOLEAN /\ sending \in BOOLEAN
  BY DEF Init
<1>3. pc \in Places /\ ticked \in BOOLEAN /\ wraps \in BOOLEAN
  BY DEF Init, Places
<1>4. asked \in Nat /\ elapsed \in 0 .. MaxElapsed
  BY WordInNat DEF Init
<1>5. TypeOK
  BY <1>1, <1>2, <1>3, <1>4 DEF TypeOK
<1>6. pc = "idle"
  BY DEF Init
<1> QED
  BY <1>5, <1>6 DEF IInv, PlacesInv, AskedInv, EarlyInv, LateInv

----------------------------------------------------------------------------
(* The caller's steps.                                                     *)

LEMMA StartStep ==
  ASSUME IInv, NEW s \in Seconds, NEW next \in {"test", "enroll"}, Start(s, next)
  PROVE  IInv'
<1> DEFINE n == s * RTC_FREQ
<1>1. n \in Nat /\ n < MaxElapsed
  BY LengthInNat
<1>2. /\ tick \in 0 .. Word - 1 /\ tick' = tick /\ Word \in Nat
      /\ pc' = next /\ ticked' = FALSE /\ elapsed' = 0 /\ asked' = n
      /\ end' = (tick + n) % Word
      /\ wraps' = (tick + n >= Word)
  BY SleepAssumption DEF Start, End, IInv, TypeOK
<1>3. /\ end' \in 0 .. Word - 1
      /\ tick + n < Word => end' = tick + n
      /\ tick + n >= Word => end' + Word <= tick + n
  <2> HIDE DEF n
  <2> DEFINE x == tick + n
  <2>1. x \in Nat /\ end' = x % Word
    BY <1>1, <1>2
  <2>2. x % Word \in 0 .. Word - 1 /\ (x < Word => x % Word = x)
        /\ (x >= Word => (x % Word) + Word <= x)
    BY <2>1, Remainder
  <2> HIDE DEF x
  <2>3. /\ end' \in 0 .. Word - 1
        /\ x < Word => end' = x
        /\ x >= Word => end' + Word <= x
    BY <2>1, <2>2
  <2> QED
    BY <2>3 DEF x
<1> HIDE DEF n
<1>4. wraps' \in BOOLEAN /\ (wraps' <=> tick + n >= Word)
  <2> DEFINE past == tick + n >= Word
  <2>1. past \in BOOLEAN /\ wraps' = past
    BY <1>2
  <2> HIDE DEF past
  <2>2. wraps' \in BOOLEAN /\ (wraps' <=> past)
    BY <2>1
  <2> QED
    BY <2>2 DEF past
<1>5. TypeOK'
  <2>1. tick' \in 0 .. Word - 1 /\ asked' \in Nat /\ elapsed' \in 0 .. MaxElapsed
    BY <1>1, <1>2, WordInNat
  <2>2. pc' \in Places /\ ticked' \in BOOLEAN
    BY <1>2 DEF Places
  <2>3. /\ SHOULD_POLL' \in BOOLEAN /\ listed' \in BOOLEAN /\ sending' \in BOOLEAN
    BY DEF Start, IInv, TypeOK
  <2> QED
    BY <1>3, <1>4, <2>1, <2>2, <2>3 DEF TypeOK
<1>6. PlacesInv' /\ AskedInv'
  BY <1>1, <1>2 DEF PlacesInv, AskedInv
<1>7. EarlyInv'
  BY <1>1, <1>2, <1>3, <1>4 DEF EarlyInv, BeforeEnd
<1>8. LateInv'
  BY <1>1, <1>2, <1>3 DEF LateInv, ApproachesEnd, PastEnd, WillHalt, BeforeEnd
<1> QED
  BY <1>5, <1>6, <1>7, <1>8 DEF IInv

\* A step of the caller moves it, and may change the flag, the list and whether
\* a tick has come; the clauses on time then need to be looked at past the end.
LEMMA CallerStep ==
  ASSUME IInv, Caller
  PROVE  IInv'
<1> USE DEF IInv, Step, history
<1>1. TypeOK' /\ PlacesInv' /\ AskedInv' /\ EarlyInv'
  BY DEF Caller, Test, Hlt, Enroll, Poll, Clear, Check, HltAwait, TypeOK, Places,
         PlacesInv, AskedInv, EarlyInv, BeforeEnd
<1>2. ASSUME pc' # "idle", end # Word - 1
      PROVE  ApproachesEnd' /\ PastEnd'
  <2>1. ApproachesEnd /\ PastEnd /\ pc # "idle"
    BY <1>2 DEF Caller, Test, Hlt, Enroll, Poll, Clear, Check, HltAwait, LateInv,
                EndsOnLastWord
  <2>2. ApproachesEnd'
    BY <2>1 DEF Caller, Test, Hlt, Enroll, Poll, Clear, Check, HltAwait,
                ApproachesEnd, BeforeEnd
  <2>3. Test \/ Poll => PastEnd'
    BY <1>2 DEF Test, Poll, PastEnd, BeforeEnd
  <2>4. Hlt \/ HltAwait => PastEnd'
    BY <2>1 DEF Hlt, HltAwait, PastEnd, WillHalt, BeforeEnd, TypeOK
  <2>5. Enroll \/ Clear \/ Check => PastEnd'
    BY <2>1 DEF Enroll, Clear, Check, PastEnd, WillHalt, BeforeEnd
  <2> QED
    BY <2>2, <2>3, <2>4, <2>5 DEF Caller
<1>3. LateInv'
  BY <1>2 DEF LateInv, EndsOnLastWord, Caller, Test, Hlt, Enroll, Poll, Clear, Check,
              HltAwait
<1> QED
  BY <1>1, <1>3

----------------------------------------------------------------------------
(* The interrupts.                                                         *)

LEMMA UartStep ==
  ASSUME IInv, UartInterrupt
  PROVE  IInv'
<1> USE DEF IInv, UartInterrupt, Wake, history
<1>1. TypeOK' /\ PlacesInv' /\ AskedInv' /\ EarlyInv'
  BY DEF TypeOK, Places, PlacesInv, AskedInv, EarlyInv, BeforeEnd
<1>2. LateInv'
  BY DEF LateInv, EndsOnLastWord, ApproachesEnd, PastEnd, WillHalt, BeforeEnd
<1> QED
  BY <1>1, <1>2

LEMMA TickMoves ==
  ASSUME TypeOK
  PROVE  /\ tick # Word - 1 => (tick + 1) % Word = tick + 1
         /\ tick = Word - 1 => (tick + 1) % Word = 0
<1>1. tick + 1 \in Nat /\ tick + 1 <= Word
  BY WordInNat DEF TypeOK
<1> QED
  BY <1>1, Remainder, WordInNat DEF TypeOK

\* What a tick changes, the numbers apart from the places.
LEMMA RtcNumbers ==
  ASSUME TypeOK, RtcInterrupt
  PROVE  /\ tick \in Nat /\ tick < Word /\ end \in Nat /\ end < Word
         /\ asked \in Nat /\ elapsed \in Nat
         /\ tick' \in Nat /\ tick' < Word
         /\ tick # Word - 1 => tick' = tick + 1
         /\ tick = Word - 1 => tick' = 0
         /\ elapsed' \in Nat /\ elapsed' <= MaxElapsed
         /\ elapsed <= elapsed' /\ elapsed' <= elapsed + 1
         /\ elapsed' = elapsed + 1 \/ elapsed' = MaxElapsed
         /\ end' = end /\ asked' = asked
<1>1. /\ tick \in Nat /\ tick < Word /\ end \in Nat /\ end < Word
      /\ asked \in Nat /\ elapsed \in Nat /\ elapsed <= MaxElapsed
  BY WordInNat DEF TypeOK
<1>2. /\ tick' = (tick + 1) % Word
      /\ elapsed' = IF elapsed < MaxElapsed THEN elapsed + 1 ELSE elapsed
      /\ end' = end /\ asked' = asked
  BY DEF RtcInterrupt
<1>3. tick # Word - 1 => tick' = tick + 1
  BY <1>2, TickMoves
<1>4. tick = Word - 1 => tick' = 0
  BY <1>2, TickMoves
<1> QED
  BY <1>1, <1>2, <1>3, <1>4, WordInNat

LEMMA RtcPlaces ==
  ASSUME TypeOK, RtcInterrupt
  PROVE  /\ pc = "idle" <=> pc' = "idle"
         /\ pc # "idle" => ~ ticked
         /\ pc' \in Places \ {"halted", "halted_await"}
         /\ pc' = pc \/ pc = "halted" \/ pc = "halted_await"
         /\ ticked' = TRUE /\ listed' = listed /\ sending' = sending /\ wraps' = wraps
         /\ SHOULD_POLL' = (listed /\ Due(tick'))
BY DEF RtcInterrupt, Wake, TypeOK, Places

LEMMA RtcStep ==
  ASSUME IInv, RtcInterrupt
  PROVE  IInv'
<1>1. TypeOK /\ PlacesInv /\ AskedInv /\ EarlyInv /\ LateInv
  BY DEF IInv
<1>2. TypeOK'
  <2>1. tick' \in 0 .. Word - 1 /\ end' \in 0 .. Word - 1
    BY <1>1, RtcNumbers, WordInNat
  <2>2. asked' \in Nat /\ elapsed' \in 0 .. MaxElapsed
    BY <1>1, RtcNumbers, WordInNat
  <2>3. SHOULD_POLL' \in BOOLEAN /\ pc' \in Places /\ ticked' \in BOOLEAN
    BY <1>1, RtcPlaces
  <2>4. listed' \in BOOLEAN /\ sending' \in BOOLEAN /\ wraps' \in BOOLEAN
    BY <1>1, RtcPlaces DEF TypeOK
  <2> QED
    BY <2>1, <2>2, <2>3, <2>4 DEF TypeOK
<1>3. PlacesInv'
  BY <1>1, RtcPlaces DEF RtcInterrupt, Wake, PlacesInv
<1>4. AskedInv'
  BY <1>1, RtcNumbers, RtcPlaces DEF AskedInv
<1>5. EarlyInv'
  <2> SUFFICES ASSUME pc' # "idle", ~ wraps'
               PROVE  \/ elapsed' >= asked'
                      \/ BeforeEnd' /\ elapsed' + (end' - tick') >= asked'
    BY DEF EarlyInv
  <2>1. \/ elapsed >= asked
        \/ BeforeEnd /\ elapsed + (end - tick) >= asked
    BY <1>1, RtcPlaces DEF EarlyInv
  <2>2. asked < MaxElapsed
    BY <1>1, RtcPlaces DEF AskedInv
  <2> QED
    BY <1>1, <2>1, <2>2, RtcNumbers, WordInNat DEF BeforeEnd
<1>6. ASSUME pc' # "idle", end # Word - 1
      PROVE  ApproachesEnd' /\ PastEnd'
  <2>1. pc # "idle" /\ ~ ticked /\ ApproachesEnd /\ PastEnd
    BY <1>1, <1>6, RtcPlaces DEF LateInv, EndsOnLastWord
  <2>2. CASE BeforeEnd
    <3>1. tick' = tick + 1 /\ elapsed' + (end - tick') <= asked /\ tick' <= end
      BY <1>1, <2>1, <2>2, RtcNumbers, WordInNat DEF ApproachesEnd, BeforeEnd
    <3>2. ApproachesEnd'
      BY <1>1, <3>1, RtcNumbers DEF ApproachesEnd
    <3>3. ~ BeforeEnd' => tick' = end' /\ elapsed' <= asked'
      BY <1>1, <3>1, RtcNumbers DEF BeforeEnd
    <3>4. ticked' = TRUE
      BY <1>1, RtcPlaces
    <3>5. PastEnd'
      BY <1>1, <3>3, <3>4, RtcNumbers DEF PastEnd
    <3> QED
      BY <3>2, <3>5
  <2>3. CASE ~ BeforeEnd
    <3>1. /\ tick = end \/ elapsed + end + Word - tick <= asked
          /\ elapsed <= asked
          /\ ~ WillHalt
      BY <1>1, <2>1, <2>3 DEF PastEnd, TypeOK
    <3>2. ApproachesEnd'
      <4>1. CASE tick = Word - 1
        <5>1. tick' = 0 /\ elapsed + end + 1 <= asked
          BY <1>1, <1>6, <3>1, <4>1, RtcNumbers, WordInNat
        <5> QED
          BY <1>1, <5>1, RtcNumbers DEF ApproachesEnd
      <4>2. CASE tick # Word - 1
        BY <1>1, <2>3, <4>2, RtcNumbers DEF ApproachesEnd, BeforeEnd
      <4> QED
        BY <4>1, <4>2
    <3>3. ~ BeforeEnd' => Due(tick')
      BY <1>1, RtcNumbers DEF Due, BeforeEnd
    <3>4. ~ BeforeEnd' => ~ WillHalt'
      <4>1. ~ BeforeEnd' /\ listed => SHOULD_POLL'
        BY <1>1, <3>3, RtcPlaces
      <4>2. pc' = "check" => listed
        BY <1>1 DEF RtcInterrupt, Wake, PlacesInv, TypeOK, Places
      <4>3. pc' \notin {"hlt", "clear", "hlt_await"}
        BY <1>1, <3>1 DEF RtcInterrupt, Wake, WillHalt, TypeOK, Places
      <4> QED
        BY <4>1, <4>2, <4>3 DEF WillHalt
    <3>5. PastEnd'
      <4>1. elapsed' <= asked' + 1 /\ ticked' = TRUE
        BY <1>1, <3>1, RtcNumbers, RtcPlaces
      <4>2. pc' \notin {"halted", "halted_await"}
        BY <1>1, RtcPlaces
      <4> QED
        BY <3>4, <4>1, <4>2 DEF PastEnd
    <3> QED
      BY <3>2, <3>5
  <2> QED
    BY <2>2, <2>3
<1>7. LateInv'
  <2>1. end' = end
    BY <1>1, RtcNumbers
  <2> QED
    BY <1>6, <2>1 DEF LateInv, EndsOnLastWord
<1> QED
  BY <1>2, <1>3, <1>4, <1>5, <1>7 DEF IInv

LEMMA NextIInv == IInv /\ [Next]_vars => IInv'
<1> SUFFICES ASSUME IInv, [Next]_vars
             PROVE  IInv'
  OBVIOUS
<1>1. CASE \E s \in Seconds : Sleep(s) \/ CreateFuture(s)
  BY <1>1, StartStep DEF Sleep, CreateFuture
<1>2. CASE Caller
  BY <1>2, CallerStep
<1>3. CASE RtcInterrupt
  BY <1>3, RtcStep
<1>4. CASE UartInterrupt
  BY <1>4, UartStep
<1>5. CASE UNCHANGED vars
  BY <1>5 DEF vars, history, IInv, TypeOK, PlacesInv, AskedInv, EarlyInv, LateInv,
              EndsOnLastWord, ApproachesEnd, PastEnd, WillHalt, BeforeEnd
<1> QED
  BY <1>1, <1>2, <1>3, <1>4, <1>5 DEF Next, Caller

\* A call that returns in a step has seen a tick that is not below its end.
LEMMA ReturnsPastEnd ==
  ASSUME TypeOK, Next, Returns
  PROVE  ~ BeforeEnd /\ UNCHANGED <<elapsed, asked, wraps>>
BY DEF Next, Returns, Sleep, CreateFuture, Start, Test, Hlt, Enroll, Poll, Clear, Check,
       HltAwait, Step, RtcInterrupt, UartInterrupt, Wake, TypeOK, Places, history

----------------------------------------------------------------------------
(* Calls end.  A call that is made can still miss its end, and then waits  *)
(* for the tick to come round, once for a tick that may come before it     *)
(* next halts, and once for an interrupt of the UART's that may wake it.   *)
(* Rank counts these chances, the ticks to come, and the steps to the next *)
(* halt.  Every step of a call lowers it.                                  *)

Halted == pc \in {"halted", "halted_await"}

Chances ==
  (IF ~ ticked /\ ~ Halted THEN Word + 2 ELSE 0) + (IF sending THEN Word + 3 ELSE 0)

ToGo ==
  IF BeforeEnd              THEN end - tick
  ELSE IF WillHalt \/ Halted THEN Word - tick + end
                            ELSE 0

Place ==
  CASE pc = "enroll"               -> 6
    [] pc = "check" /\ SHOULD_POLL -> 5
    [] pc = "poll"                 -> 4
    [] pc \in {"test", "clear"}    -> 3
    [] pc = "check" /\ ~ SHOULD_POLL -> 2
    [] pc \in {"hlt", "hlt_await"} -> 1
    [] OTHER                       -> 0

Rank == 8 * (Chances + ToGo) + Place

Parts == Chances \in Nat /\ ToGo \in Nat /\ Place \in 0 .. 6 /\ Rank \in Nat

LEMMA RankParts == TypeOK => Parts
<1> SUFFICES ASSUME TypeOK
             PROVE  Parts
  OBVIOUS
<1>1. /\ Word \in Nat /\ tick \in Nat /\ tick < Word /\ end \in Nat
      /\ ticked \in BOOLEAN /\ sending \in BOOLEAN
  BY WordInNat DEF TypeOK
<1>2. Chances \in Nat
  BY <1>1 DEF Chances
<1>3. ToGo \in Nat
  BY <1>1 DEF ToGo, BeforeEnd
<1>4. Place \in 0 .. 6
  BY DEF Place
<1> QED
  BY <1>2, <1>3, <1>4 DEF Rank, Parts

LEMMA RankPartsNext ==
  ASSUME TypeOK, TypeOK'
  PROVE  /\ Chances \in Nat /\ ToGo \in Nat /\ Place \in 0 .. 6
         /\ Chances' \in Nat /\ ToGo' \in Nat /\ Place' \in 0 .. 6
<1>1. Parts /\ Parts'
  <2>1. TypeOK' => Parts'
    BY RankParts, PTL
  <2> QED
    BY <2>1, RankParts
<1> QED
  BY <1>1 DEF Parts

\* What each kind of step does to the three parts is enough.
LEMMA Lower ==
  ASSUME NEW a \in Nat, NEW b \in Nat, NEW c \in 0 .. 6,
         NEW x \in Nat, NEW y \in Nat, NEW z \in 0 .. 6,
         x <= a, y <= b, x < a \/ y < b \/ z < c
  PROVE  8 * (x + y) + z < 8 * (a + b) + c
<1>1. x + y < a + b \/ (x + y <= a + b /\ z < c)
  OBVIOUS
<1> QED
  BY <1>1

LEMMA LowerByChance ==
  ASSUME NEW a \in Nat, NEW b \in Nat, NEW c \in 0 .. 6,
         NEW x \in Nat, NEW y \in Nat, NEW z \in 0 .. 6,
         NEW w \in Nat, a = w + 2 + x, y <= w
  PROVE  8 * (x + y) + z < 8 * (a + b) + c
<1>1. x + y < a + b
  OBVIOUS
<1> QED
  BY <1>1

LEMMA CallerLowers ==
  ASSUME IInv, IInv', Caller
  PROVE  pc' = "idle" \/ Rank' < Rank
<1> SUFFICES ASSUME pc' # "idle"
             PROVE  Rank' < Rank
  OBVIOUS
<1>1. TypeOK /\ TypeOK' /\ PlacesInv
  BY DEF IInv
<1>2. tick' = tick /\ end' = end /\ sending' = sending
  BY DEF Caller, Test, Hlt, Enroll, Poll, Clear, Check, HltAwait, Step
<1>3. /\ Word \in Nat /\ tick \in Nat /\ tick < Word /\ end \in Nat
      /\ ticked \in BOOLEAN /\ sending \in BOOLEAN
  BY <1>1, WordInNat DEF TypeOK
<1>4. Chances' <= Chances
  <2>1. ~ ticked' /\ ~ Halted' => ~ ticked /\ ~ Halted
    BY DEF Caller, Test, Hlt, Enroll, Poll, Clear, Check, HltAwait, Step, Halted
  <2> QED
    BY <1>2, <1>3, <2>1 DEF Chances
<1>5. WillHalt' \/ Halted' => BeforeEnd \/ WillHalt \/ Halted
  BY DEF Caller, Test, Hlt, Enroll, Poll, Clear, Check, HltAwait, Step, Halted, WillHalt
<1>6. ToGo' <= ToGo
  BY <1>2, <1>3, <1>5 DEF ToGo, BeforeEnd
<1>7. Place' < Place
  BY DEF Caller, Test, Hlt, Enroll, Poll, Clear, Check, HltAwait, Step, Place
<1>8. /\ Chances \in Nat /\ ToGo \in Nat /\ Place \in 0 .. 6
      /\ Chances' \in Nat /\ ToGo' \in Nat /\ Place' \in 0 .. 6
  BY <1>1, RankPartsNext
<1> QED
  BY <1>4, <1>6, <1>7, <1>8, Lower DEF Rank

LEMMA UartLowers ==
  ASSUME IInv, IInv', UartInterrupt
  PROVE  Rank' < Rank
<1>1. TypeOK /\ TypeOK' /\ PlacesInv
  BY DEF IInv
<1>2. /\ tick' = tick /\ end' = end /\ ticked' = ticked /\ sending /\ ~ sending'
      /\ SHOULD_POLL'
  BY DEF UartInterrupt, history
<1>3. /\ Word \in Nat /\ tick \in Nat /\ tick < Word /\ end \in Nat
      /\ ticked \in BOOLEAN /\ sending \in BOOLEAN
  BY <1>1, WordInNat DEF TypeOK
<1>4. Chances' < Chances /\ Chances' <= Chances
  BY <1>2, <1>3 DEF Chances
<1>5. WillHalt' \/ Halted' => WillHalt \/ Halted
  BY <1>2 DEF UartInterrupt, Wake, Halted, WillHalt
<1>6. ToGo' <= ToGo
  BY <1>2, <1>3, <1>5 DEF ToGo, BeforeEnd
<1>7. /\ Chances \in Nat /\ ToGo \in Nat /\ Place \in 0 .. 6
      /\ Chances' \in Nat /\ ToGo' \in Nat /\ Place' \in 0 .. 6
  BY <1>1, RankPartsNext
<1> QED
  BY <1>4, <1>6, <1>7, Lower DEF Rank

\* A tick brings the end nearer, or else is the chance to miss it.
LEMMA RtcLowers ==
  ASSUME IInv, IInv', RtcInterrupt, pc # "idle"
  PROVE  Rank' < Rank
<1>1. TypeOK /\ TypeOK' /\ PlacesInv
  BY DEF IInv
<1>2. /\ sending' = sending /\ end' = end /\ ~ ticked /\ ticked' /\ pc' # "idle"
      /\ ~ Halted' /\ (Halted \/ pc' = pc)
      /\ SHOULD_POLL' = (listed /\ Due(tick'))
  BY <1>1, RtcPlaces DEF RtcInterrupt, Halted
<1>3. /\ Word \in Nat /\ tick \in Nat /\ tick < Word /\ end \in Nat /\ end < Word
      /\ ticked \in BOOLEAN /\ sending \in BOOLEAN
      /\ tick' \in Nat /\ tick' < Word
      /\ tick # Word - 1 => tick' = tick + 1
      /\ tick = Word - 1 => tick' = 0
  BY <1>1, RtcNumbers, WordInNat DEF TypeOK
<1>4. /\ Chances \in Nat /\ ToGo \in Nat /\ Place \in 0 .. 6
      /\ Chances' \in Nat /\ ToGo' \in Nat /\ Place' \in 0 .. 6
  BY <1>1, RankPartsNext
<1>5. CASE ~ Halted
  <2>1. Chances = Word + 2 + Chances'
    BY <1>2, <1>3, <1>5 DEF Chances
  <2>2. ToGo' <= Word
    <3>1. \/ tick' < end /\ ToGo' = end - tick'
          \/ ~ tick' < end /\ ToGo' = Word - tick' + end
          \/ ToGo' = 0
      BY <1>2 DEF ToGo, BeforeEnd
    <3> QED
      BY <1>3, <3>1
  <2> QED
    BY <1>3, <1>4, <2>1, <2>2, LowerByChance DEF Rank
<1>6. CASE Halted
  <2>1. Chances' <= Chances
    BY <1>2, <1>3, <1>6 DEF Chances
  <2>2. ~ BeforeEnd' => ~ WillHalt'
    <3>1. pc' = "test" \/ (pc' = "check" /\ listed)
      BY <1>1, <1>6 DEF RtcInterrupt, Wake, Halted, PlacesInv
    <3>2. ~ BeforeEnd' => Due(tick')
      <4>1. ~ tick' < end => tick' >= end
        BY <1>3
      <4> QED
        BY <1>2, <4>1 DEF BeforeEnd, Due
    <3> QED
      BY <1>2, <3>1, <3>2 DEF WillHalt
  <2>3. ToGo' < ToGo /\ ToGo' <= ToGo
    <3>1. \/ tick' < end /\ ToGo' = end - tick'
          \/ ~ tick' < end /\ ToGo' = 0
      BY <1>2, <2>2 DEF ToGo, BeforeEnd
    <3>2. \/ tick < end /\ ToGo = end - tick
          \/ ~ tick < end /\ ToGo = Word - tick + end
      BY <1>6 DEF ToGo, BeforeEnd
    <3>3. CASE tick = Word - 1
      <4>1. tick' = 0 /\ ~ tick < end /\ ToGo = end + 1
        BY <1>3, <3>2, <3>3
      <4> QED
        BY <1>3, <3>1, <4>1
    <3>4. CASE tick # Word - 1
      <4>1. tick' = tick + 1
        BY <1>3, <3>4
      <4> QED
        BY <1>3, <3>1, <3>2, <4>1
    <3> QED
      BY <3>3, <3>4
  <2> QED
    BY <1>4, <2>1, <2>3, Lower DEF Rank
<1> QED
  BY <1>5, <1>6

----------------------------------------------------------------------------

THEOREM Invariant == Spec => []IInv
<1> QED
  BY InitIInv, NextIInv, PTL DEF Spec

\* The tick, the end and the flag keep their types (monotonic_tick.h:8-10,
\* unistd.c:5-10): both sums are taken modulo the word.
THEOREM TypeCorrect == Spec => []TypeOK
<1>1. IInv => TypeOK
  BY DEF IInv
<1> QED
  BY <1>1, Invariant, PTL

\* sleep (unistd.c:5-10) and await (future.c:44-51) do not return before the time
\* asked for, unless its end wrapped.
THEOREM SleepsLongEnough == Spec => NeverEarly
<1>1. IInv /\ [Next]_vars => [Returns /\ ~ wraps => elapsed >= asked]_vars
  <2> SUFFICES ASSUME IInv, Next, Returns, ~ wraps
               PROVE  elapsed >= asked
    BY DEF vars
  <2>1. ~ BeforeEnd
    BY ReturnsPastEnd DEF IInv
  <2> QED
    BY <2>1 DEF IInv, EarlyInv, Returns
<1> QED
  BY <1>1, Invariant, PTL DEF Spec, NeverEarly

\* Nor more than a tick after it, although sleep's test and its hlt (unistd.c:9)
\* and await's poll and the clearing of its flag (future.c:44-48) are apart,
\* unless the end is the greatest word.
THEOREM SleepsNotTooLong == Spec => NeverLate
<1>1. IInv /\ [Next]_vars => [Returns /\ ~ EndsOnLastWord => elapsed <= asked + 1]_vars
  <2> SUFFICES ASSUME IInv, Next, Returns, ~ EndsOnLastWord
               PROVE  elapsed <= asked + 1
    BY DEF vars
  <2>1. ~ BeforeEnd
    BY ReturnsPastEnd DEF IInv
  <2>2. PastEnd
    BY DEF IInv, LateInv, Returns
  <2> QED
    BY <2>1, <2>2 DEF IInv, TypeOK, PastEnd
<1> QED
  BY <1>1, Invariant, PTL DEF Spec, NeverLate

\* Nor is a call that has not returned (unistd.c:7-10, future.c:44-51) ever more
\* than a tick late: with the theorem before, no call is, even one that never
\* returns; the greatest word as an end is the exception again.
THEOREM NeverOverdue ==
  Spec => [](pc # "idle" /\ ~ EndsOnLastWord => elapsed <= asked + 1)
<1>1. IInv => (pc # "idle" /\ ~ EndsOnLastWord => elapsed <= asked + 1)
  <2> SUFFICES ASSUME IInv, pc # "idle", ~ EndsOnLastWord
               PROVE  elapsed <= asked + 1
    OBVIOUS
  <2>1. /\ tick \in Nat /\ end \in Nat /\ asked \in Nat /\ elapsed \in Nat
        /\ ApproachesEnd /\ PastEnd
    BY WordInNat DEF IInv, TypeOK, LateInv
  <2>2. CASE BeforeEnd
    BY <2>1, <2>2 DEF BeforeEnd, ApproachesEnd
  <2>3. CASE ~ BeforeEnd
    BY <2>1, <2>3 DEF PastEnd
  <2> QED
    BY <2>2, <2>3
<1> QED
  BY <1>1, Invariant, PTL

\* The waiting of sleep (unistd.c:7-10) and of await (future.c:44-51) comes to an
\* end wherever interrupts fall: every step of a call, its own or an interrupt's,
\* lowers a natural number or returns, and a halted call always has a tick to
\* come.  The greatest word is no exception.
THEOREM EveryStepCounts ==
  Spec => /\ [](pc # "idle" => Rank \in Nat)
          /\ [](Halted => ~ ticked)
          /\ [][pc # "idle" => pc' = "idle" \/ Rank' < Rank]_vars
<1>1. IInv => (pc # "idle" => Rank \in Nat) /\ (Halted => ~ ticked)
  BY RankParts DEF IInv, Parts, PlacesInv, Halted
<1>2. IInv /\ IInv' /\ [Next]_vars => [pc # "idle" => pc' = "idle" \/ Rank' < Rank]_vars
  <2> SUFFICES ASSUME IInv, IInv', Next, pc # "idle"
               PROVE  pc' = "idle" \/ Rank' < Rank
    BY DEF vars
  <2>1. ~ \E s \in Seconds : Sleep(s) \/ CreateFuture(s)
    BY DEF Sleep, CreateFuture, Start
  <2> QED
    BY <2>1, CallerLowers, UartLowers, RtcLowers DEF Next, Caller
<1> QED
  BY <1>1, <1>2, Invariant, PTL DEF Spec
=============================================================================
