------------------------------ MODULE PciProofs ------------------------------
(***************************************************************************)
(* For every size of the log and every message: a flush never runs past    *)
(* the slots' memory, and where messages fit the local buffers the log     *)
(* keeps its promise.  For every machine: the probe finds the first of the *)
(* cards looked for, and the base addresses it finds are of their kind.    *)
(***************************************************************************)
EXTENDS Pci, SequenceTheorems, WellFoundedInduction, TLAPS

----------------------------------------------------------------------------
(* Least numbers.                                                          *)

Below == {p \in Nat \X Nat : p[1] < p[2]}

LEMMA BelowWellFounded == IsWellFoundedOn(Below, Nat)
BY NatLessThanWellFounded, Zenon DEF OpToRel, Below

\* A set of numbers that is not empty has a least one.  This is the induction
\* that all lemmas about a flush, slot by slot, use: a least slot where they fail.
LEMMA Least ==
  ASSUME NEW S, S \subseteq Nat, S # {}
  PROVE  \E n \in S : \A m \in S : n <= m
<1>1. PICK n \in S : \A m \in S : ~ (<<m, n>> \in Below)
  BY BelowWellFounded, WFMin
<1>2. \A m \in S : ~ (m < n)
  BY <1>1 DEF Below
<1> QED
  BY <1>2

----------------------------------------------------------------------------
(* The slots.                                                              *)

\* Every slot lies in the memory, one behind the other.
LEMMA Slots ==
  /\ Slot(0) = 0 /\ Slot(NUM_LOG_LINES) - 1 \in Cells /\ Cells \subseteq Nat
  /\ \A i \in Int : Slot(i) \in Int /\ Slot(i + 1) = Slot(i) + LINE_SIZE
  /\ \A i \in Nat : Slot(i) \in Nat
  /\ \A i, j \in Int : i < j => Slot(i) + LINE_SIZE <= Slot(j)
  /\ \A c \in Int : c \in Cells <=> 0 <= c /\ c < Slot(NUM_LOG_LINES)
<1>1. NUM_LOG_LINES \in Nat /\ NUM_LOG_LINES > 1 /\ LINE_SIZE \in Nat /\ LINE_SIZE > 0
  BY LogAssumption
<1>2. \A i \in Int : Slot(i) \in Int /\ Slot(i + 1) = Slot(i) + LINE_SIZE
  BY <1>1 DEF Slot
<1>3. \A i \in Nat : Slot(i) \in Nat
  BY <1>1 DEF Slot
<1>4. ASSUME NEW i \in Int, NEW j \in Int, i < j
      PROVE  Slot(i) + LINE_SIZE <= Slot(j)
  <2>1. PICK d \in Nat : j = i + 1 + d
    BY <1>4
  <2>2. Slot(j) = Slot(i) + LINE_SIZE + d * LINE_SIZE
    BY <2>1, <1>1 DEF Slot
  <2>3. d * LINE_SIZE \in Nat
    BY <1>1
  <2> QED
    BY <2>2, <2>3, <1>1, <1>2
<1>5. Slot(0) = 0 /\ Slot(NUM_LOG_LINES) \in Nat /\ Slot(NUM_LOG_LINES) > 0
  BY <1>1, <1>2, <1>4 DEF Slot
<1>6. \A c \in Int : c \in Cells <=> 0 <= c /\ c < Slot(NUM_LOG_LINES)
  BY <1>1, <1>5 DEF Cells, Slot
<1>7. Cells \subseteq Nat
  BY <1>1 DEF Cells
<1> QED
  BY <1>2, <1>3, <1>4, <1>5, <1>6, <1>7

LEMMA SlotInMemory ==
  ASSUME NEW i \in 0 .. NUM_LOG_LINES - 1
  PROVE  /\ Slot(i) \in Nat /\ LINE_SIZE \in Nat /\ LINE_SIZE > 0
         /\ Slot(NUM_LOG_LINES) \in Nat /\ Slot(i) + LINE_SIZE <= Slot(NUM_LOG_LINES)
         /\ Cells = 0 .. Slot(NUM_LOG_LINES) - 1
<1>1. NUM_LOG_LINES \in Nat /\ LINE_SIZE \in Nat /\ LINE_SIZE > 0 /\ i \in Nat
  BY LogAssumption
<1>2. Slot(i) \in Nat /\ Slot(NUM_LOG_LINES) \in Nat
  BY <1>1, Slots
<1>3. Slot(i) + LINE_SIZE <= Slot(NUM_LOG_LINES)
  BY <1>1, Slots
<1>4. Cells = 0 .. Slot(NUM_LOG_LINES) - 1
  BY DEF Cells, Slot
<1> QED
  BY <1>1, <1>2, <1>3, <1>4

\* A turn of the flush puts out slot i and clears it.
Turn(r, i) == [mem |-> Cleared(r.mem, i), out |-> Append(r.out, Text(r.mem, i))]

\* f is what the first n turns lead to.
Turns(f, n) ==
  f = [i \in 0 .. n |-> IF i = 0 THEN [mem |-> BUFFER, out |-> <<>>] ELSE Turn(f[i - 1], i - 1)]

LEMMA TurnsExist == \A n \in Nat : \E f : Turns(f, n)
<1> DEFINE S == {n \in Nat : ~ \E f : Turns(f, n)}
<1> SUFFICES ASSUME S # {} PROVE FALSE
  OBVIOUS
<1>1. PICK n \in S : \A m \in S : n <= m
  BY Least
<1>2. n # 0
  <2> DEFINE f == [i \in 0 .. 0 |-> [mem |-> BUFFER, out |-> <<>>]]
  <2>1. Turns(f, 0)
    BY DEF Turns
  <2> QED
    BY <2>1
<1>3. n \in Nat /\ n - 1 \in Nat /\ n - 1 \notin S
  BY <1>1, <1>2
<1>4. PICK f : Turns(f, n - 1)
  BY <1>3
<1> DEFINE g == [i \in 0 .. n |-> IF i = n THEN Turn(f[n - 1], n - 1) ELSE f[i]]
<1>5. \A i \in 0 .. n - 1 :
        f[i] = IF i = 0 THEN [mem |-> BUFFER, out |-> <<>>] ELSE Turn(f[i - 1], i - 1)
  BY <1>4 DEF Turns
<1>6. \A i \in 0 .. n :
        g[i] = IF i = 0 THEN [mem |-> BUFFER, out |-> <<>>] ELSE Turn(g[i - 1], i - 1)
  <2> TAKE i \in 0 .. n
  <2>1. CASE i = n
    <3>1. g[i - 1] = f[n - 1] /\ g[i] = Turn(f[n - 1], n - 1)
      BY <2>1, <1>3
    <3> QED
      BY <3>1, <2>1, <1>2
  <2>2. CASE i # n
    <3>1. i \in 0 .. n - 1 /\ g[i] = f[i]
      BY <2>2, <1>3
    <3>2. i # 0 => i - 1 \in 0 .. n /\ i - 1 # n
      BY <2>2, <1>3
    <3>3. i # 0 => g[i - 1] = f[i - 1]
      BY <3>2
    <3> QED
      BY <3>1, <3>3, <1>5
  <2> QED
    BY <2>1, <2>2
<1>7. Turns(g, n)
  BY <1>6 DEF Turns
<1> QED
  BY <1>7

\* Dumped is defined by its recursion.
LEMMA DumpedTurns ==
  /\ Dumped[0] = [mem |-> BUFFER, out |-> <<>>]
  /\ \A n \in 1 .. NUM_LOG_LINES : Dumped[n] = Turn(Dumped[n - 1], n - 1)
<1>1. NUM_LOG_LINES \in Nat
  BY LogAssumption
<1>2. \E f : Turns(f, NUM_LOG_LINES)
  BY <1>1, TurnsExist
<1>3. Turns(Dumped, NUM_LOG_LINES)
  BY <1>2 DEF Turns, Turn, Dumped
<1>4. ASSUME NEW f, Turns(f, NUM_LOG_LINES)
      PROVE  /\ f[0] = [mem |-> BUFFER, out |-> <<>>]
             /\ \A n \in 1 .. NUM_LOG_LINES : f[n] = Turn(f[n - 1], n - 1)
  <2>1. \A n \in 0 .. NUM_LOG_LINES :
          f[n] = IF n = 0 THEN [mem |-> BUFFER, out |-> <<>>] ELSE Turn(f[n - 1], n - 1)
    BY <1>4 DEF Turns
  <2>2. 0 \in 0 .. NUM_LOG_LINES /\ 1 .. NUM_LOG_LINES \subseteq 0 .. NUM_LOG_LINES
    BY <1>1
  <2> QED
    BY <2>1, <2>2
<1> DEFINE d == Dumped
<1>5. Turns(d, NUM_LOG_LINES)
  BY <1>3
<1> HIDE DEF d
<1>6. /\ d[0] = [mem |-> BUFFER, out |-> <<>>]
      /\ \A n \in 1 .. NUM_LOG_LINES : d[n] = Turn(d[n - 1], n - 1)
  BY <1>4, <1>5
<1> QED
  BY <1>6 DEF d

----------------------------------------------------------------------------
(* Whatever is logged, a string ends within the memory.                    *)

LastCell == Slot(NUM_LOG_LINES) - 1

\* Nothing is ever written to the last cell.
MemOK(b) == b \in [Cells -> {NUL} \cup Chars] /\ b[LastCell] = NUL

\* So strlen and printf stop in time.
LEMMA TerminatorIs ==
  ASSUME NEW b, MemOK(b), NEW i \in 0 .. NUM_LOG_LINES - 1
  PROVE  LET t == Terminator(b, i)
         IN  /\ t \in Cells /\ t >= Slot(i) /\ b[t] = NUL
             /\ \A d \in Slot(i) .. t - 1 : b[d] # NUL
<1> DEFINE S == {c \in Cells : c >= Slot(i) /\ b[c] = NUL}
<1>1. Slot(i) \in Nat /\ Cells = 0 .. Slot(NUM_LOG_LINES) - 1
  BY SlotInMemory
<1>2. Cells \subseteq Nat /\ LastCell \in Cells /\ LastCell >= Slot(i)
  BY SlotInMemory DEF LastCell
<1>3. LastCell \in S
  BY <1>2 DEF MemOK
<1>4. S \subseteq Nat
  BY <1>2
<1> HIDE DEF S
<1>5. PICK c \in S : \A d \in S : c <= d
  BY <1>3, <1>4, Least
<1>6. c \in Cells /\ c >= Slot(i) /\ b[c] = NUL
  BY <1>5 DEF S
<1>7. \A d \in Slot(i) .. c - 1 : b[d] # NUL
  <2> TAKE d \in Slot(i) .. c - 1
  <2>1. d \in Cells /\ d >= Slot(i) /\ ~ (c <= d)
    BY <1>1, <1>6, SlotInMemory
  <2> QED
    BY <2>1, <1>5 DEF S
<1> QED
  BY <1>6, <1>7 DEF Terminator

LEMMA TextType ==
  ASSUME NEW b, MemOK(b), NEW i \in 0 .. NUM_LOG_LINES - 1
  PROVE  Text(b, i) \in Seq(Chars)
<1> DEFINE t == Terminator(b, i)
<1>1. /\ t \in Cells /\ t >= Slot(i) /\ \A d \in Slot(i) .. t - 1 : b[d] # NUL
  BY TerminatorIs
<1> HIDE DEF t
<1>2. Cells = 0 .. Slot(NUM_LOG_LINES) - 1 /\ Slot(NUM_LOG_LINES) \in Nat /\ Slot(i) \in Nat
  BY SlotInMemory
<1>3. \A k \in 1 .. t - Slot(i) : b[Slot(i) + k - 1] \in Chars
  <2> TAKE k \in 1 .. t - Slot(i)
  <2>1. Slot(i) + k - 1 \in Slot(i) .. t - 1 /\ Slot(i) + k - 1 \in Cells
    BY <1>1, <1>2
  <2>2. b[Slot(i) + k - 1] # NUL
    BY <2>1, <1>1
  <2> QED
    BY <2>1, <2>2 DEF MemOK
<1>4. t - Slot(i) \in Nat
  BY <1>1, <1>2
<1>5. Text(b, i) = [k \in 1 .. t - Slot(i) |-> b[Slot(i) + k - 1]]
  BY DEF Text, t
<1>6. Text(b, i) \in [1 .. t - Slot(i) -> Chars]
  BY <1>3, <1>5
<1> QED
  BY <1>4, <1>6, SeqDef

LEMMA ClearedType ==
  ASSUME NEW b, MemOK(b), NEW i \in 0 .. NUM_LOG_LINES - 1
  PROVE  MemOK(Cleared(b, i))
<1>1. LastCell \in Cells
  BY Slots DEF LastCell
<1> QED
  BY <1>1 DEF MemOK, Cleared

LEMMA DumpedType ==
  ASSUME MemOK(BUFFER)
  PROVE  \A n \in 0 .. NUM_LOG_LINES :
           MemOK(Dumped[n].mem) /\ Dumped[n].out \in Seq(Seq(Chars))
<1> DEFINE Good(n) == MemOK(Dumped[n].mem) /\ Dumped[n].out \in Seq(Seq(Chars))
           S == {n \in 0 .. NUM_LOG_LINES : ~ Good(n)}
<1>1. NUM_LOG_LINES \in Nat
  BY LogAssumption
<1> SUFFICES ASSUME S # {} PROVE FALSE
  OBVIOUS
<1>2. S \subseteq Nat
  BY <1>1
<1>3. PICK n \in S : \A m \in S : n <= m
  BY <1>2, Least
<1>4. Good(0)
  BY DumpedTurns
<1>5. n \in 1 .. NUM_LOG_LINES /\ n - 1 \in 0 .. NUM_LOG_LINES - 1
  BY <1>1, <1>3, <1>4
<1>6. Good(n - 1)
  <2>1. n - 1 \notin S
    BY <1>2, <1>3, <1>5
  <2> QED
    BY <2>1, <1>1, <1>5
<1>7. Dumped[n] = Turn(Dumped[n - 1], n - 1)
  BY <1>5, DumpedTurns
<1>8. MemOK(Dumped[n].mem)
  BY <1>5, <1>6, <1>7, ClearedType DEF Turn
<1>9. Dumped[n].out \in Seq(Seq(Chars))
  BY <1>5, <1>6, <1>7, TextType DEF Turn
<1> QED
  BY <1>3, <1>8, <1>9

\* A line is written behind the start of slot i and before the last cell.
LEMMA WrittenType ==
  ASSUME NEW b, MemOK(b), NEW i \in 0 .. NUM_LOG_LINES - 2, NEW m \in Messages, ~ TooLong(m),
         NEW k \in 1 .. MaxCalls, NEW junk \in {NUL, JUNK}
  PROVE  MemOK(Written(b, i, m, k, junk))
<1> DEFINE text  == Slot(i) + m.prefix
           reset == text + m.size
           w     == Written(b, i, m, k, junk)
<1>1. NUM_LOG_LINES \in Nat /\ BUF_SIZE \in Nat /\ RESET_SIZE \in Nat /\ RESET_SIZE < LINE_SIZE
  BY LogAssumption
<1>2. m.prefix \in Nat /\ m.size \in Nat /\ m.size + m.prefix <= LINE_SIZE
  BY LogAssumption DEF TooLong
<1>3. /\ Slot(i) \in Nat /\ LINE_SIZE \in Nat /\ Slot(NUM_LOG_LINES) \in Nat
      /\ Slot(i) + LINE_SIZE + LINE_SIZE <= Slot(NUM_LOG_LINES)
      /\ Cells = 0 .. Slot(NUM_LOG_LINES) - 1
  <2>1. i \in 0 .. NUM_LOG_LINES - 1 /\ i + 1 \in 0 .. NUM_LOG_LINES - 1 /\ i \in Int
    BY <1>1
  <2> QED
    BY <2>1, Slots, SlotInMemory
<1>4. k \in Chars /\ junk \in {NUL} \cup Chars /\ RESET \in Chars
  BY DEF Chars
<1>5. \A c \in text .. reset - 1 : Formatted(k, m.size, junk)[c - text] \in {NUL} \cup Chars
  <2> TAKE c \in text .. reset - 1
  <2>1. text \in Nat /\ reset = text + m.size /\ m.size \in Nat
    BY <1>2, <1>3
  <2>2. c \in text .. reset - 1
    OBVIOUS
  <2> HIDE DEF text, reset
  <2>3. c - text \in 0 .. m.size - 1
    BY <2>1, <2>2
  <2> QED
    BY <2>3, <1>4 DEF Formatted
<1>6. w \in [Cells -> {NUL} \cup Chars]
  BY <1>4, <1>5 DEF Written, MemOK
<1>7. /\ LastCell \in Cells /\ LastCell > reset + RESET_SIZE - 1 /\ LastCell > reset
      /\ LastCell > text /\ LastCell \in Int /\ reset \in Nat /\ text \in Nat
  <2>1. text \in Nat /\ reset = text + m.size /\ text = Slot(i) + m.prefix
    BY <1>2, <1>3
  <2> HIDE DEF text, reset
  <2>2. reset <= Slot(i) + LINE_SIZE /\ reset \in Nat /\ text <= reset
    <3>1. \A s, l, p, z \in Nat :
            z + p <= l => (s + p) + z <= s + l /\ (s + p) + z \in Nat /\ s + p <= (s + p) + z
      OBVIOUS
    <3>2. Slot(i) \in Nat /\ LINE_SIZE \in Nat
      BY <1>3
    <3> QED
      BY <2>1, <3>1, <3>2, <1>2
  <2>3. LastCell >= Slot(i) + LINE_SIZE + LINE_SIZE - 1 /\ LastCell \in Int
    BY <1>3 DEF LastCell
  <2>4. LastCell \in Cells
    BY Slots DEF LastCell
  <2>5. /\ reset \in Nat /\ text \in Nat /\ text <= reset /\ reset <= Slot(i) + LINE_SIZE
        /\ RESET_SIZE + 1 <= LINE_SIZE
    BY <2>2, <2>1, <1>1, <1>3
  <2>6. LINE_SIZE >= 2
    BY LogAssumption
  <2>7. LastCell > reset + RESET_SIZE - 1 /\ LastCell > reset
    <3>1. \A c, r, q, l, z \in Int :
            c >= q + l + l - 1 /\ r <= q + l /\ z + 1 <= l /\ l >= 2 => c > r + z - 1 /\ c > r
      OBVIOUS
    <3> QED
      BY <3>1, <2>3, <2>5, <2>6, <1>1, <1>3
  <2> QED
    BY <2>3, <2>4, <2>5, <2>7
<1>8. w[LastCell] = b[LastCell]
  <2>1. /\ LastCell \notin Slot(i) .. text - 1 /\ LastCell \notin text .. reset - 1
        /\ LastCell \notin reset .. reset + RESET_SIZE - 1
    <3> HIDE DEF text, reset
    <3> QED
      BY <1>1, <1>3, <1>7
  <2> QED
    BY <2>1, <1>7 DEF Written
<1> QED
  BY <1>6, <1>8 DEF MemOK

TInv ==
  /\ TypeOK
  /\ MemOK(BUFFER)
  /\ printed \in Seq(Seq(Chars))

LEMMA TInvInit == Init => TInv
<1> SUFFICES ASSUME Init PROVE TInv
  OBVIOUS
<1>1. NUM_LOG_LINES \in Nat /\ NUM_LOG_LINES > 1
  BY LogAssumption
<1>2. LastCell \in Cells
  BY Slots DEF LastCell
<1>3. MemOK(BUFFER)
  BY <1>2 DEF Init, MemOK
<1>4. tail \in 0 .. FULL_IDX - 1
  BY <1>1 DEF Init, FULL_IDX
<1>5. /\ printed \in Seq(Seq(Chars))
      /\ logged \in Seq(Messages)
      /\ panicked \in BOOLEAN
  <2>1. <<>> \in Seq(Seq(Chars)) /\ <<>> \in Seq(Messages)
    BY EmptySeq
  <2> QED
    BY <2>1 DEF Init
<1>6. \A j \in DOMAIN printed : printed[j] \in Seq(Chars)
  BY DEF Init
<1> QED
  BY <1>3, <1>4, <1>5, <1>6 DEF TInv, TypeOK, MemOK

\* What the invariant says of the state a flush leaves.
LEMMA FlushType ==
  ASSUME TInv
  PROVE  MemOK(Dumped[tail].mem) /\ printed \o Dumped[tail].out \in Seq(Seq(Chars))
<1>1. tail \in 0 .. NUM_LOG_LINES
  BY LogAssumption DEF TInv, TypeOK, FULL_IDX
<1>2. MemOK(Dumped[tail].mem) /\ Dumped[tail].out \in Seq(Seq(Chars))
  BY <1>1, DumpedType DEF TInv
<1> QED
  BY <1>2 DEF TInv

LEMMA TInvStep == TInv /\ [Next]_vars => TInv'
<1> SUFFICES ASSUME TInv, [Next]_vars PROVE TInv'
  OBVIOUS
<1>1. NUM_LOG_LINES \in Nat /\ NUM_LOG_LINES > 1 /\ MaxCalls \in Nat
  BY LogAssumption
<1>2. MemOK(BUFFER)' /\ (printed \in Seq(Seq(Chars)))' /\ (tail \in 0 .. FULL_IDX - 1)'
      => TInv'
  <2>1. (logged \in Seq(Messages))'
    <3>1. logged \in Seq(Messages)
      BY DEF TInv, TypeOK
    <3>2. ASSUME NEW m \in Messages, write_to_buffer(m)
          PROVE  logged' \in Seq(Messages)
      BY <3>1, <3>2 DEF write_to_buffer
    <3>3. (\E m \in Messages : write_to_buffer(m)) \/ logged' = logged
      BY DEF Next, vars, log_size_overflow, dump_buffer, panic
    <3> QED
      BY <3>1, <3>2, <3>3
  <2>2. (panicked \in BOOLEAN)'
    BY DEF TInv, TypeOK, Next, vars, write_to_buffer, log_size_overflow, dump_buffer, panic
  <2> QED
    BY <2>1, <2>2 DEF TInv, TypeOK, MemOK
<1>3. CASE Dump
  BY <1>1, <1>2, <1>3, FlushType DEF Dump, FULL_IDX, MemOK
<1>4. ASSUME NEW m \in Messages, write_to_buffer(m)
      PROVE  TInv'
  <2> DEFINE mem == IF Full THEN Dumped[tail].mem ELSE BUFFER
             i   == IF Full THEN 0 ELSE tail
  <2>1. MemOK(mem) /\ i \in 0 .. NUM_LOG_LINES - 2
    BY <1>1, FlushType DEF TInv, TypeOK, Full, FULL_IDX
  <2>2. Len(logged) + 1 \in 1 .. MaxCalls /\ ~ TooLong(m)
    BY <1>1, <1>4 DEF TInv, TypeOK, write_to_buffer
  <2>3. PICK junk \in {NUL, JUNK} : BUFFER' = Written(mem, i, m, Len(logged) + 1, junk)
    BY <1>4 DEF write_to_buffer
  <2>4. MemOK(BUFFER)'
    BY <2>1, <2>2, <2>3, WrittenType DEF MemOK
  <2>5. (printed \in Seq(Seq(Chars)))'
    BY <1>4, FlushType DEF write_to_buffer, TInv
  <2>6. (tail \in 0 .. FULL_IDX - 1)'
    <3>1. tail' = i + 1
      BY <1>4 DEF write_to_buffer
    <3> HIDE DEF i
    <3> QED
      BY <3>1, <1>1, <2>1 DEF FULL_IDX
  <2> QED
    BY <1>2, <2>4, <2>5, <2>6
<1>5. CASE UNCHANGED vars
  BY <1>5, <1>2 DEF vars, TInv, TypeOK, MemOK
<1> QED
  BY <1>3, <1>4, <1>5 DEF Next, log_size_overflow, dump_buffer, panic

\* The log's variables keep their types, and no flush reads past the slots,
\* whatever messages are logged (circular_buffer.c:20-93): also one that leaves
\* bytes behind the end of its line never touches the memory's last cell.
THEOREM LogTypeCorrect == Spec => []TypeOK
<1>1. Spec => []TInv
  BY TInvInit, TInvStep, PTL DEF Spec
<1>2. TInv => TypeOK
  BY DEF TInv
<1> QED
  BY <1>1, <1>2, PTL

----------------------------------------------------------------------------
(* What is logged comes out, where messages fit.                           *)

\* Nothing follows the NUL that ends a message in its local buffer.
MessagesFit ==
  \A m \in Messages :
    TooLong(m) \/ m.size < BUF_SIZE \/ (m.size = BUF_SIZE /\ ~ m.colored)

\* Slot i of b holds s and nothing else.
Holds(b, i, s) ==
  \A c \in 0 .. LINE_SIZE - 1 : b[Slot(i) + c] = IF c < Len(s) THEN s[c + 1] ELSE NUL

\* A slot that holds a line is put out as that line, and cleared.
LEMMA HeldSlot ==
  ASSUME NEW b, NEW i \in 0 .. NUM_LOG_LINES - 1,
         NEW s \in Seq(Chars), Len(s) < LINE_SIZE, Holds(b, i, s)
  PROVE  /\ Text(b, i) = s
         /\ Cleared(b, i) =
              [c \in Cells |-> IF c \in Slot(i) .. Slot(i) + LINE_SIZE - 1 THEN NUL ELSE b[c]]
<1> DEFINE t == Slot(i) + Len(s)
<1>1. /\ Slot(i) \in Nat /\ LINE_SIZE \in Nat /\ Slot(NUM_LOG_LINES) \in Nat
      /\ Slot(i) + LINE_SIZE <= Slot(NUM_LOG_LINES)
  BY SlotInMemory
<1>2. Cells = 0 .. Slot(NUM_LOG_LINES) - 1
  BY SlotInMemory
<1>3. Len(s) \in Nat /\ \A j \in 1 .. Len(s) : s[j] \in Chars
  OBVIOUS
<1>4. \A c \in Chars : c # NUL
  BY LogAssumption DEF Chars, NUL, RESET, JUNK
<1>5. \A d \in Slot(i) .. t - 1 : b[d] = s[d - Slot(i) + 1] /\ b[d] # NUL
  <2> TAKE d \in Slot(i) .. t - 1
  <2>1. d - Slot(i) \in 0 .. LINE_SIZE - 1 /\ Slot(i) + (d - Slot(i)) = d
    BY <1>1, <1>3
  <2>2. d - Slot(i) < Len(s) /\ d - Slot(i) + 1 \in 1 .. Len(s)
    BY <1>1, <1>3
  <2>3. b[d] = s[d - Slot(i) + 1]
    BY <2>1, <2>2 DEF Holds
  <2> QED
    BY <2>2, <2>3, <1>3, <1>4
<1>6. \A d \in t .. Slot(i) + LINE_SIZE - 1 : b[d] = NUL
  <2> TAKE d \in t .. Slot(i) + LINE_SIZE - 1
  <2>1. d - Slot(i) \in 0 .. LINE_SIZE - 1 /\ Slot(i) + (d - Slot(i)) = d
    BY <1>1, <1>3
  <2>2. ~ (d - Slot(i) < Len(s))
    BY <1>1, <1>3
  <2> QED
    BY <2>1, <2>2 DEF Holds
<1>7. t \in Cells /\ t >= Slot(i) /\ b[t] = NUL
  BY <1>1, <1>2, <1>3, <1>6
<1>8. Terminator(b, i) = t
  <2> DEFINE Ends(c) == c >= Slot(i) /\ b[c] = NUL /\ \A d \in Slot(i) .. c - 1 : b[d] # NUL
  <2>1. Ends(t)
    BY <1>5, <1>7
  <2>2. ASSUME NEW c \in Cells, Ends(c)
        PROVE  c = t
    <3>1. ~ (c < t)
      BY <2>2, <1>1, <1>2, <1>5, <1>7
    <3>2. ~ (t < c)
      BY <2>2, <1>1, <1>2, <1>7
    <3> QED
      BY <3>1, <3>2, <1>2, <1>7
  <2>3. Terminator(b, i) = CHOOSE c \in Cells : Ends(c)
    BY DEF Terminator
  <2> HIDE DEF Ends, t
  <2> QED
    BY <2>1, <2>2, <2>3, <1>7
<1>9. Text(b, i) = s
  <2>1. Text(b, i) = [k \in 1 .. Len(s) |-> b[Slot(i) + k - 1]]
    BY <1>1, <1>3, <1>8 DEF Text
  <2>2. \A k \in 1 .. Len(s) : b[Slot(i) + k - 1] = s[k]
    <3> TAKE k \in 1 .. Len(s)
    <3>1. /\ k - 1 \in 0 .. LINE_SIZE - 1 /\ k - 1 < Len(s)
          /\ Slot(i) + (k - 1) = Slot(i) + k - 1 /\ k - 1 + 1 = k
      BY <1>1, <1>3
    <3> QED
      BY <3>1 DEF Holds
  <2>3. s = [k \in 1 .. Len(s) |-> s[k]]
    OBVIOUS
  <2> QED
    BY <2>1, <2>2, <2>3
<1>10. \A c \in Cells :
         (IF c \in Slot(i) .. Terminator(b, i) - 1 THEN NUL ELSE b[c]) =
         (IF c \in Slot(i) .. Slot(i) + LINE_SIZE - 1 THEN NUL ELSE b[c])
  BY <1>1, <1>2, <1>3, <1>6, <1>8
<1> QED
  BY <1>9, <1>10 DEF Cleared

\* A line is shorter than a slot, and reads as follows.
LEMMA LineIs ==
  ASSUME NEW m \in Messages, NEW k \in 1 .. MaxCalls
  PROVE  LET shown == m.prefix + (IF m.size < BUF_SIZE THEN m.size ELSE BUF_SIZE - 1)
             l     == Line(m, k)
         IN  /\ shown \in Nat /\ shown < LINE_SIZE
             /\ l \in Seq(Chars)
             /\ Len(l) = shown + (IF m.colored THEN RESET_SIZE ELSE 0)
             /\ Len(l) < LINE_SIZE
             /\ \A j \in 1 .. Len(l) : l[j] = IF j <= shown THEN k ELSE RESET
<1> DEFINE shown == m.prefix + (IF m.size < BUF_SIZE THEN m.size ELSE BUF_SIZE - 1)
           color == IF m.colored THEN Repeat(RESET, RESET_SIZE) ELSE <<>>
           l     == Line(m, k)
<1>1. /\ BUF_SIZE \in Nat /\ BUF_SIZE > 0 /\ RESET_SIZE \in Nat /\ RESET_SIZE > 0
      /\ LINE_SIZE \in Nat /\ 2 * BUF_SIZE + RESET_SIZE < LINE_SIZE
      /\ m.prefix \in 1 .. BUF_SIZE - 1 /\ m.size \in Nat /\ m.colored \in BOOLEAN
  BY LogAssumption
<1>2. k \in Chars /\ RESET \in Chars
  BY DEF Chars
<1>3. shown \in Nat /\ shown < 2 * BUF_SIZE
  BY <1>1
<1>4. \A x \in Chars, n \in Nat :
        Repeat(x, n) \in Seq(Chars) /\ Len(Repeat(x, n)) = n /\ \A j \in 1 .. n : Repeat(x, n)[j] = x
  <2> TAKE x \in Chars, n \in Nat
  <2>1. Repeat(x, n) \in [1 .. n -> Chars]
    BY DEF Repeat
  <2>2. Repeat(x, n) \in Seq(Chars)
    BY <2>1, SeqDef
  <2> QED
    BY <2>1, <2>2 DEF Repeat
<1>5. l = Repeat(k, shown) \o color
  BY DEF Line
<1>6. /\ color \in Seq(Chars) /\ Len(color) = IF m.colored THEN RESET_SIZE ELSE 0
      /\ \A j \in 1 .. Len(color) : color[j] = RESET
  <2>1. CASE m.colored
    <3>1. color = Repeat(RESET, RESET_SIZE) /\ RESET_SIZE \in Nat
      BY <2>1, <1>1
    <3>2. /\ Repeat(RESET, RESET_SIZE) \in Seq(Chars)
          /\ Len(Repeat(RESET, RESET_SIZE)) = RESET_SIZE
          /\ \A j \in 1 .. RESET_SIZE : Repeat(RESET, RESET_SIZE)[j] = RESET
      BY <3>1, <1>2, <1>4
    <3> HIDE DEF color
    <3> QED
      BY <2>1, <3>1, <3>2
  <2>2. CASE ~ m.colored
    BY <2>2, EmptySeq
  <2> QED
    BY <2>1, <2>2
<1> HIDE DEF shown, color, l
<1>7. /\ l \in Seq(Chars) /\ Len(l) = shown + Len(color)
      /\ \A j \in 1 .. Len(l) : l[j] = IF j <= shown THEN k ELSE RESET
  <2>1. Repeat(k, shown) \in Seq(Chars) /\ Len(Repeat(k, shown)) = shown
    BY <1>2, <1>3, <1>4
  <2>2. l \in Seq(Chars) /\ Len(l) = shown + Len(color)
    BY <1>5, <1>6, <2>1, ConcatProperties
  <2>3. ASSUME NEW j \in 1 .. Len(l)
        PROVE  l[j] = IF j <= shown THEN k ELSE RESET
    <3>1. CASE j <= shown
      BY <3>1, <1>2, <1>3, <1>4, <1>5, <1>6, <2>1, <2>2
    <3>2. CASE ~ (j <= shown)
      <4>1. j - shown \in 1 .. Len(color)
        BY <3>2, <1>3, <1>6, <2>2
      <4>2. l[j] = color[j - shown]
        BY <3>2, <4>1, <1>3, <1>5, <1>6, <2>1, <2>2
      <4> QED
        BY <3>2, <4>1, <4>2, <1>6
    <3> QED
      BY <3>1, <3>2
  <2> QED
    BY <2>2, <2>3
<1>8. shown < LINE_SIZE /\ Len(l) < LINE_SIZE
  BY <1>1, <1>3, <1>6, <1>7
<1>9. Len(l) = shown + (IF m.colored THEN RESET_SIZE ELSE 0)
  BY <1>6, <1>7
<1> QED
  BY <1>3, <1>7, <1>8, <1>9 DEF shown, l

LEMMA WrittenAt ==
  ASSUME NEW b, NEW i, NEW m, NEW k, NEW junk, NEW c \in Cells,
         NEW text, text = Slot(i) + m.prefix, NEW reset, reset = text + m.size
  PROVE  LET w == Written(b, i, m, k, junk)
         IN  /\ c \in Slot(i) .. text - 1 => w[c] = k
             /\ c \notin Slot(i) .. text - 1 /\ c \in text .. reset - 1 =>
                  w[c] = Formatted(k, m.size, junk)[c - text]
             /\ c \notin Slot(i) .. text - 1 /\ c \notin text .. reset - 1 =>
                  /\ m.colored /\ c \in reset .. reset + RESET_SIZE - 1 => w[c] = RESET
                  /\ ~ (m.colored /\ c \in reset .. reset + RESET_SIZE - 1) => w[c] = b[c]
BY DEF Written

\* A message that fits leaves its line in an empty slot, and every other slot alone.
LEMMA WrittenHolds ==
  ASSUME NEW b, NEW i \in 0 .. NUM_LOG_LINES - 2, Holds(b, i, <<>>),
         MessagesFit, NEW m \in Messages, ~ TooLong(m),
         NEW k \in 1 .. MaxCalls, NEW junk
  PROVE  LET w == Written(b, i, m, k, junk)
         IN  /\ Holds(w, i, Line(m, k))
             /\ \A j \in 0 .. NUM_LOG_LINES - 1 :
                  j # i => \A s : Holds(b, j, s) => Holds(w, j, s)
<1> DEFINE p     == m.prefix
           z     == m.size
           shown == p + (IF z < BUF_SIZE THEN z ELSE BUF_SIZE - 1)
           l     == Line(m, k)
           w     == Written(b, i, m, k, junk)
           base  == Slot(i)
           text  == base + p
           reset == text + z
<1>1. /\ NUM_LOG_LINES \in Nat /\ BUF_SIZE \in Nat /\ BUF_SIZE > 0 /\ RESET_SIZE \in Nat
      /\ LINE_SIZE \in Nat /\ 2 * BUF_SIZE + RESET_SIZE < LINE_SIZE
      /\ p \in 1 .. BUF_SIZE - 1 /\ z \in Nat /\ m.colored \in BOOLEAN
  BY LogAssumption
<1>2. z < BUF_SIZE \/ (z = BUF_SIZE /\ ~ m.colored)
  BY DEF MessagesFit
<1>3. i \in 0 .. NUM_LOG_LINES - 1
  BY <1>1
<1>4. /\ base \in Nat /\ Slot(NUM_LOG_LINES) \in Nat
      /\ base + LINE_SIZE <= Slot(NUM_LOG_LINES)
      /\ Cells = 0 .. Slot(NUM_LOG_LINES) - 1
  BY <1>3, SlotInMemory
<1>5. /\ shown \in Nat /\ Len(l) < LINE_SIZE
      /\ shown = IF z < BUF_SIZE THEN p + z ELSE p + (BUF_SIZE - 1)
      /\ Len(l) = shown + (IF m.colored THEN RESET_SIZE ELSE 0)
      /\ \A j \in 1 .. Len(l) : l[j] = IF j <= shown THEN k ELSE RESET
  BY <1>1, LineIs
<1>6. /\ text = base + p /\ reset = text + z /\ text \in Nat /\ reset \in Nat
      /\ text = Slot(i) + m.prefix /\ reset = text + m.size
  <2>1. /\ text = base + p /\ reset = text + z
        /\ text = Slot(i) + m.prefix /\ reset = text + m.size
    OBVIOUS
  <2>2. base \in Nat /\ p \in Nat /\ z \in Nat
    BY <1>1, <1>4
  <2> HIDE DEF base, p, z, reset
  <2>3. text \in Nat
    BY <2>2
  <2> HIDE DEF text
  <2>4. reset \in Nat
    BY <2>1, <2>2, <2>3
  <2> QED
    BY <2>1, <2>3, <2>4
<1> HIDE DEF text, reset
<1>7. \A c \in Cells :
        /\ c \in base .. text - 1 => w[c] = k
        /\ c \notin base .. text - 1 /\ c \in text .. reset - 1 =>
             w[c] = Formatted(k, z, junk)[c - text]
        /\ c \notin base .. text - 1 /\ c \notin text .. reset - 1 =>
             /\ m.colored /\ c \in reset .. reset + RESET_SIZE - 1 => w[c] = RESET
             /\ ~ (m.colored /\ c \in reset .. reset + RESET_SIZE - 1) => w[c] = b[c]
  BY <1>6, WrittenAt
<1>8. \A d \in 0 .. z - 1 :
        Formatted(k, z, junk)[d] = IF d < BUF_SIZE - 1 THEN k ELSE NUL
  BY <1>1, <1>2 DEF Formatted
<1> HIDE DEF p, z, shown
<1>9. Holds(w, i, l)
  <2> SUFFICES ASSUME NEW c \in 0 .. LINE_SIZE - 1
               PROVE  w[base + c] = IF c < Len(l) THEN l[c + 1] ELSE NUL
    BY DEF Holds
  <2>1. base + c \in Cells /\ c \in Nat
    <3> HIDE DEF base
    <3>1. c \in Nat /\ c < LINE_SIZE /\ LINE_SIZE \in Nat
      BY <1>1
    <3> QED
      BY <3>1, <1>4
  <2>2. b[base + c] = NUL
    <3>1. Len(<<>>) = 0 /\ ~ (c < 0)
      BY <2>1
    <3> QED
      BY <3>1 DEF Holds
  <2> HIDE DEF base, w, l
  <2>3. CASE c < p
    <3>1. w[base + c] = k
      BY <2>1, <2>3, <1>1, <1>4, <1>6, <1>7
    <3>2. c < Len(l) /\ c + 1 \in 1 .. Len(l) /\ c + 1 <= shown
      BY <2>1, <2>3, <1>1, <1>5
    <3> QED
      BY <3>1, <3>2, <1>5
  <2>4. CASE p <= c /\ c < p + z
    <3>1. /\ base + c \notin base .. text - 1
          /\ base + c \in text .. reset - 1
          /\ c - p \in 0 .. z - 1
      BY <2>1, <2>4, <1>1, <1>4, <1>6
    <3>2. w[base + c] = Formatted(k, z, junk)[c - p]
      <4> DEFINE d == base + c
                 f == Formatted(k, z, junk)
      <4>1. d \in Cells /\ d \notin base .. text - 1 /\ d \in text .. reset - 1
        BY <3>1, <2>1
      <4>2. d - text = c - p
        BY <2>1, <1>1, <1>4, <1>6
      <4> HIDE DEF d, f
      <4>3. w[d] = f[d - text]
        BY <4>1, <1>7 DEF f
      <4> QED
        BY <4>2, <4>3 DEF d, f
    <3>3. CASE c - p < BUF_SIZE - 1
      <4>1. c < Len(l) /\ c + 1 \in 1 .. Len(l) /\ c + 1 <= shown
        BY <2>1, <2>4, <3>3, <1>1, <1>5
      <4> QED
        BY <4>1, <3>1, <3>2, <3>3, <1>5, <1>8
    <3>4. CASE ~ (c - p < BUF_SIZE - 1)
      <4>1. z = BUF_SIZE /\ ~ m.colored
        BY <2>1, <2>4, <3>4, <1>1, <1>2
      <4>2. ~ (c < Len(l))
        BY <4>1, <2>1, <2>4, <3>4, <1>1, <1>5
      <4> QED
        BY <4>2, <3>1, <3>2, <3>4, <1>8
    <3> QED
      BY <3>3, <3>4
  <2>5. CASE p + z <= c
    <3>1. /\ base + c \notin base .. text - 1
          /\ base + c \notin text .. reset - 1
      BY <2>1, <2>5, <1>1, <1>4, <1>6
    <3>2. CASE m.colored /\ c < p + z + RESET_SIZE
      <4>1. base + c \in reset .. reset + RESET_SIZE - 1
        BY <2>1, <2>5, <3>2, <1>1, <1>4, <1>6
      <4>2. w[base + c] = RESET
        BY <4>1, <3>1, <3>2, <2>1, <1>6, <1>7
      <4>3. c < Len(l) /\ c + 1 \in 1 .. Len(l) /\ ~ (c + 1 <= shown)
        BY <2>1, <2>5, <3>2, <1>1, <1>2, <1>5
      <4> QED
        BY <4>2, <4>3, <1>5
    <3>3. CASE ~ (m.colored /\ c < p + z + RESET_SIZE)
      <4>1. ~ (/\ m.colored
               /\ base + c \in reset .. reset + RESET_SIZE - 1)
        BY <2>1, <3>3, <1>1, <1>4, <1>6
      <4>2. w[base + c] = NUL
        BY <4>1, <3>1, <2>1, <2>2, <1>6, <1>7
      <4>3. ~ (c < Len(l))
        BY <2>1, <2>5, <3>3, <1>1, <1>2, <1>5
      <4> QED
        BY <4>2, <4>3
    <3> QED
      BY <3>2, <3>3
  <2> QED
    BY <2>1, <2>3, <2>4, <2>5, <1>1
<1>10. ASSUME NEW j \in 0 .. NUM_LOG_LINES - 1, j # i, NEW s, Holds(b, j, s)
      PROVE  Holds(w, j, s)
  <2> SUFFICES ASSUME NEW c \in 0 .. LINE_SIZE - 1
               PROVE  w[Slot(j) + c] = b[Slot(j) + c]
    BY <1>10 DEF Holds
  <2>1. /\ Slot(j) \in Nat /\ Slot(j) + LINE_SIZE <= Slot(NUM_LOG_LINES)
        /\ Slot(j) + LINE_SIZE <= base \/ base + LINE_SIZE <= Slot(j)
    BY <1>1, <1>3, <1>10, Slots, SlotInMemory
  <2>2. p + z <= LINE_SIZE
        /\ (m.colored => p + z + RESET_SIZE <= LINE_SIZE)
    BY <1>1, <1>2
  <2> DEFINE d == Slot(j) + c
  <2>3. d \in Cells /\ d \in Nat /\ (d < base \/ base + LINE_SIZE <= d)
    BY <2>1, <1>1, <1>4
  <2> HIDE DEF base, w, d
  <2>4. /\ d \notin base .. text - 1
        /\ d \notin text .. reset - 1
        /\ ~ (m.colored /\ d \in reset .. reset + RESET_SIZE - 1)
    BY <2>2, <2>3, <1>1, <1>4, <1>6
  <2>5. w[d] = b[d]
    BY <2>3, <2>4, <1>6, <1>7
  <2> QED
    BY <2>5 DEF d
<1> QED
  BY <1>9, <1>10 DEF w, l

\* The line that waits in slot i, when t slots are used, the lines pr have been
\* put out and the messages lg were logged.
WaitingIn(t, pr, lg, i) ==
  LET k == Len(pr) + i + 1
  IN  IF i < t THEN Line(lg[k], k) ELSE <<>>

Waiting(i) == WaitingIn(tail, printed, logged, i)

\* What was logged has been put out or waits in its slot, and beyond that the
\* slots are empty: a flush may only then leave out what lies behind a NUL.
Kept(mem, t, pr, lg) ==
  /\ Len(lg) = Len(pr) + t /\ Len(lg) <= MaxCalls
  /\ \A k \in 1 .. Len(pr) : pr[k] = Line(lg[k], k)
  /\ \A i \in 0 .. NUM_LOG_LINES - 1 : Holds(mem, i, WaitingIn(t, pr, lg, i))

LInv == TInv /\ Kept(BUFFER, tail, printed, logged)

LEMMA LInvTypes ==
  ASSUME LInv
  PROVE  /\ tail \in 0 .. NUM_LOG_LINES - 1 /\ tail \in 0 .. NUM_LOG_LINES
         /\ printed \in Seq(Seq(Chars)) /\ logged \in Seq(Messages)
         /\ Len(printed) \in Nat /\ Len(logged) \in Nat
BY LogAssumption DEF LInv, TInv, TypeOK, FULL_IDX

LEMMA WaitingIs ==
  ASSUME LInv, NEW i \in 0 .. NUM_LOG_LINES - 1
  PROVE  Waiting(i) \in Seq(Chars) /\ Len(Waiting(i)) < LINE_SIZE
<1>1. CASE i < tail
  <2> DEFINE k == Len(printed) + i + 1
  <2>1. k \in 1 .. MaxCalls /\ k \in 1 .. Len(logged)
    <3>1. Len(logged) = Len(printed) + tail /\ Len(logged) <= MaxCalls
      BY DEF LInv, Kept
    <3>2. Len(logged) \in Nat /\ Len(printed) \in Nat /\ tail \in Nat /\ MaxCalls \in Nat
      BY LInvTypes, LogAssumption
    <3> QED
      BY <1>1, <3>1, <3>2
  <2> HIDE DEF k
  <2>2. logged[k] \in Messages
    BY <2>1, LInvTypes
  <2>3. Line(logged[k], k) \in Seq(Chars) /\ Len(Line(logged[k], k)) < LINE_SIZE
    BY <2>1, <2>2, LineIs
  <2> QED
    BY <1>1, <2>3 DEF Waiting, WaitingIn, k
<1>2. CASE ~ (i < tail)
  <2>1. Waiting(i) = <<>>
    BY <1>2 DEF Waiting, WaitingIn
  <2>2. <<>> \in Seq(Chars) /\ Len(<<>>) = 0
    BY EmptySeq
  <2> QED
    BY <2>1, <2>2, LogAssumption
<1> QED
  BY <1>1, <1>2

\* n turns of a flush put out the first n lines, and clear all that was written
\* to their slots.
LEMMA DumpedIs ==
  ASSUME LInv
  PROVE  \A n \in 0 .. NUM_LOG_LINES :
           /\ Dumped[n].mem = [c \in Cells |-> IF c < Slot(n) THEN NUL ELSE BUFFER[c]]
           /\ Dumped[n].out = [j \in 1 .. n |-> Waiting(j - 1)]
<1> DEFINE Mem(n)  == [c \in Cells |-> IF c < Slot(n) THEN NUL ELSE BUFFER[c]]
           Out(n)  == [j \in 1 .. n |-> Waiting(j - 1)]
           Good(n) == Dumped[n].mem = Mem(n) /\ Dumped[n].out = Out(n)
           S       == {n \in 0 .. NUM_LOG_LINES : ~ Good(n)}
<1>1. NUM_LOG_LINES \in Nat
  BY LogAssumption
<1> SUFFICES ASSUME S # {} PROVE FALSE
  OBVIOUS
<1>2. S \subseteq Nat
  BY <1>1
<1>3. PICK n \in S : \A m \in S : n <= m
  BY <1>2, Least
<1>4. Good(0)
  <2>1. \A c \in Cells : c \in Nat /\ ~ (c < Slot(0))
    BY Slots
  <2>2. Mem(0) = [c \in Cells |-> BUFFER[c]]
    BY <2>1
  <2>3. BUFFER = [c \in Cells |-> BUFFER[c]]
    BY DEF LInv, TInv, MemOK
  <2>4. Out(0) = <<>>
    OBVIOUS
  <2> QED
    BY <2>2, <2>3, <2>4, DumpedTurns
<1> DEFINE i == n - 1
<1>5. n \in 1 .. NUM_LOG_LINES /\ i \in 0 .. NUM_LOG_LINES - 1 /\ n = i + 1
  BY <1>1, <1>3, <1>4
<1>6. Good(i)
  <2>1. i \notin S
    <3> HIDE DEF S
    <3>1. n \in Nat /\ i < n
      BY <1>5
    <3> QED
      BY <1>2, <1>3, <3>1
  <2> QED
    BY <2>1, <1>1, <1>5
<1>7. Dumped[n] = Turn(Dumped[i], i)
  BY <1>5, DumpedTurns
<1>8. /\ Slot(i) \in Nat /\ LINE_SIZE \in Nat /\ Slot(n) = Slot(i) + LINE_SIZE
      /\ \A c \in Cells : c \in Nat
  BY <1>5, Slots, SlotInMemory
<1>9. Holds(Mem(i), i, Waiting(i))
  <2>1. Holds(BUFFER, i, Waiting(i))
    BY <1>5 DEF LInv, Kept, Waiting
  <2>2. \A c \in 0 .. LINE_SIZE - 1 : Mem(i)[Slot(i) + c] = BUFFER[Slot(i) + c]
    <3> TAKE c \in 0 .. LINE_SIZE - 1
    <3>1. Slot(i) + c \in Cells /\ ~ (Slot(i) + c < Slot(i))
      BY <1>5, <1>8, SlotInMemory
    <3> QED
      BY <3>1
  <2> QED
    BY <2>1, <2>2 DEF Holds
<1>10. /\ Text(Mem(i), i) = Waiting(i)
       /\ Cleared(Mem(i), i) =
            [c \in Cells |-> IF c \in Slot(i) .. Slot(i) + LINE_SIZE - 1 THEN NUL ELSE Mem(i)[c]]
  BY <1>5, <1>9, WaitingIs, HeldSlot
<1>11. Dumped[n].mem = Mem(n)
  <2>1. Dumped[n].mem = Cleared(Mem(i), i)
    BY <1>6, <1>7 DEF Turn
  <2>2. \A c \in Cells :
          (IF c \in Slot(i) .. Slot(i) + LINE_SIZE - 1 THEN NUL ELSE Mem(i)[c]) =
          (IF c < Slot(n) THEN NUL ELSE BUFFER[c])
    BY <1>8
  <2> QED
    BY <2>1, <2>2, <1>10
<1>12. Dumped[n].out = Out(n)
  <2>1. Dumped[i].mem = Mem(i) /\ Dumped[i].out = Out(i)
    BY <1>6
  <2>2. Text(Mem(i), i) = Waiting(i)
    BY <1>10
  <2> HIDE DEF Mem, Out, Good
  <2>3. Dumped[n].out = Append(Out(i), Waiting(i))
    BY <2>1, <2>2, <1>7 DEF Turn
  <2> QED
    BY <2>3, <1>5 DEF Out
<1> QED
  BY <1>3, <1>11, <1>12

\* What a flush puts out and leaves.
LEMMA FlushKeeps ==
  ASSUME LInv
  PROVE  /\ Pending \in Seq(Seq(Chars)) /\ Len(Pending) = tail
         /\ \A j \in 1 .. tail : Pending[j] = Line(logged[Len(printed) + j], Len(printed) + j)
         /\ Dumped[tail].out = Pending
         /\ Kept(Dumped[tail].mem, 0, printed \o Pending, logged)
<1>1. /\ NUM_LOG_LINES \in Nat /\ tail \in Nat /\ tail < NUM_LOG_LINES /\ Len(printed) \in Nat
      /\ tail \in 0 .. NUM_LOG_LINES
      /\ printed \in Seq(Seq(Chars)) /\ logged \in Seq(Messages)
  BY LInvTypes, LogAssumption
<1>2. \A j \in 1 .. tail : Text(BUFFER, j - 1) = Waiting(j - 1) /\ Waiting(j - 1) \in Seq(Chars)
  <2> TAKE j \in 1 .. tail
  <2>1. j - 1 \in 0 .. NUM_LOG_LINES - 1
    BY <1>1
  <2>2. Holds(BUFFER, j - 1, Waiting(j - 1))
    BY <2>1 DEF LInv, Kept, Waiting
  <2> QED
    BY <2>1, <2>2, WaitingIs, HeldSlot
<1>3. Pending = [j \in 1 .. tail |-> Waiting(j - 1)]
  BY <1>2 DEF Pending
<1>4. Dumped[tail].out = Pending
  BY <1>1, <1>3, DumpedIs
<1>5. Pending \in Seq(Seq(Chars)) /\ Len(Pending) = tail
  <2>1. Pending \in [1 .. tail -> Seq(Chars)]
    BY <1>2, <1>3
  <2> QED
    BY <2>1, <1>1, SeqDef
<1>6. \A j \in 1 .. tail : Pending[j] = Line(logged[Len(printed) + j], Len(printed) + j)
  <2> TAKE j \in 1 .. tail
  <2>1. Pending[j] = Waiting(j - 1) /\ j - 1 < tail /\ Len(printed) + (j - 1) + 1 = Len(printed) + j
    BY <1>1, <1>3
  <2> QED
    BY <2>1 DEF Waiting, WaitingIn
<1> DEFINE out == printed \o Pending
<1>7. /\ out \in Seq(Seq(Chars)) /\ Len(out) = Len(printed) + tail
      /\ \A k \in 1 .. Len(out) :
           out[k] = IF k <= Len(printed) THEN printed[k] ELSE Pending[k - Len(printed)]
  BY <1>1, <1>5, ConcatProperties
<1> HIDE DEF out
<1>8. \A k \in 1 .. Len(out) : out[k] = Line(logged[k], k)
  <2> TAKE k \in 1 .. Len(out)
  <2>1. CASE k <= Len(printed)
    <3>1. k \in 1 .. Len(printed) /\ out[k] = printed[k]
      BY <2>1, <1>1, <1>7
    <3>2. \A j \in 1 .. Len(printed) : printed[j] = Line(logged[j], j)
      BY DEF LInv, Kept
    <3> QED
      BY <3>1, <3>2
  <2>2. CASE ~ (k <= Len(printed))
    <3>1. k - Len(printed) \in 1 .. tail /\ Len(printed) + (k - Len(printed)) = k
      BY <2>2, <1>1, <1>7
    <3>2. out[k] = Pending[k - Len(printed)]
      BY <2>2, <1>7
    <3> QED
      BY <3>1, <3>2, <1>6
  <2> QED
    BY <2>1, <2>2
<1>9. \A i \in 0 .. NUM_LOG_LINES - 1 : Holds(Dumped[tail].mem, i, <<>>)
  <2> TAKE i \in 0 .. NUM_LOG_LINES - 1
  <2> SUFFICES ASSUME NEW c \in 0 .. LINE_SIZE - 1
               PROVE  Dumped[tail].mem[Slot(i) + c] = NUL
    <3>1. \A c \in 0 .. LINE_SIZE - 1 : ~ (c < 0)
      BY LogAssumption
    <3> QED
      BY <3>1 DEF Holds
  <2>1. Dumped[tail].mem = [d \in Cells |-> IF d < Slot(tail) THEN NUL ELSE BUFFER[d]]
    BY <1>1, DumpedIs
  <2>2. Slot(i) + c \in Cells /\ Slot(i) \in Nat /\ LINE_SIZE \in Nat
    BY SlotInMemory
  <2>3. CASE i < tail
    <3>1. Slot(i) + LINE_SIZE <= Slot(tail) /\ Slot(tail) \in Nat
      <4>1. i \in Int /\ tail \in Int
        BY <1>1
      <4> QED
        BY <4>1, <2>3, <1>1, Slots
    <3>2. Slot(i) + c < Slot(tail)
      BY <3>1, <2>2
    <3> QED
      BY <3>2, <2>1, <2>2
  <2>4. CASE ~ (i < tail)
    <3>1. Waiting(i) = <<>> /\ Len(<<>>) = 0 /\ ~ (c < 0)
      BY <2>4, LogAssumption DEF Waiting, WaitingIn
    <3>2. Holds(BUFFER, i, Waiting(i))
      BY DEF LInv, Kept, Waiting
    <3>3. BUFFER[Slot(i) + c] = NUL
      BY <3>1, <3>2 DEF Holds
    <3> QED
      BY <3>3, <2>1, <2>2
  <2> QED
    BY <2>3, <2>4
<1>10. \A i \in 0 .. NUM_LOG_LINES - 1 : WaitingIn(0, out, logged, i) = <<>>
  BY <1>1 DEF WaitingIn
<1>11. Len(logged) = Len(out) + 0 /\ Len(logged) <= MaxCalls
  BY <1>1, <1>7 DEF LInv, Kept
<1>12. Kept(Dumped[tail].mem, 0, out, logged)
  BY <1>8, <1>9, <1>10, <1>11 DEF Kept
<1> QED
  BY <1>4, <1>5, <1>6, <1>12 DEF out

\* Logging a message behind the lines that wait.
LEMMA WriteKeeps ==
  ASSUME NEW mem, NEW t \in 0 .. NUM_LOG_LINES - 2, NEW pr \in Seq(Seq(Chars)),
         NEW lg \in Seq(Messages), Kept(mem, t, pr, lg), Len(lg) < MaxCalls,
         MessagesFit, NEW m \in Messages, ~ TooLong(m), NEW junk
  PROVE  Kept(Written(mem, t, m, Len(lg) + 1, junk), t + 1, pr, Append(lg, m))
<1> DEFINE k == Len(lg) + 1
           w == Written(mem, t, m, k, junk)
           ll == Append(lg, m)
<1>1. /\ NUM_LOG_LINES \in Nat /\ MaxCalls \in Nat /\ Len(pr) \in Nat /\ Len(lg) \in Nat
      /\ Len(lg) = Len(pr) + t /\ k \in 1 .. MaxCalls
  BY LogAssumption DEF Kept
<1>2. /\ Len(ll) = k /\ ll[k] = m
      /\ \A j \in 1 .. Len(lg) : ll[j] = lg[j]
  OBVIOUS
<1>3. Holds(mem, t, <<>>)
  <2>1. t \in 0 .. NUM_LOG_LINES - 1 /\ ~ (t < t)
    BY <1>1
  <2> QED
    BY <2>1 DEF Kept, WaitingIn
<1>4. /\ Holds(w, t, Line(m, k))
      /\ \A j \in 0 .. NUM_LOG_LINES - 1 :
           j # t => \A s : Holds(mem, j, s) => Holds(w, j, s)
  BY <1>1, <1>3, WrittenHolds
<1> HIDE DEF k, w, ll
<1>5. ASSUME NEW i \in 0 .. NUM_LOG_LINES - 1
      PROVE  Holds(w, i, WaitingIn(t + 1, pr, ll, i))
  <2>1. CASE i = t
    <3>1. Len(pr) + i + 1 = k /\ i < t + 1
      BY <2>1, <1>1 DEF k
    <3>2. WaitingIn(t + 1, pr, ll, i) = Line(m, k)
      BY <3>1, <1>2 DEF WaitingIn
    <3> QED
      BY <3>2, <2>1, <1>4
  <2>2. CASE i # t
    <3>1. WaitingIn(t + 1, pr, ll, i) = WaitingIn(t, pr, lg, i)
      <4>1. i < t + 1 <=> i < t
        BY <2>2, <1>1
      <4>2. i < t => Len(pr) + i + 1 \in 1 .. Len(lg)
        BY <1>1
      <4> QED
        BY <4>1, <4>2, <1>2 DEF WaitingIn
    <3>2. Holds(mem, i, WaitingIn(t, pr, lg, i))
      BY DEF Kept
    <3> QED
      BY <3>1, <3>2, <2>2, <1>4
  <2> QED
    BY <2>1, <2>2
<1>6. Len(ll) = Len(pr) + (t + 1) /\ Len(ll) <= MaxCalls
  BY <1>1, <1>2 DEF k
<1>7. \A j \in 1 .. Len(pr) : pr[j] = Line(ll[j], j)
  <2>1. \A j \in 1 .. Len(pr) : j \in 1 .. Len(lg) /\ pr[j] = Line(lg[j], j)
    BY <1>1 DEF Kept
  <2> QED
    BY <2>1, <1>2
<1>8. Kept(w, t + 1, pr, ll)
  BY <1>5, <1>6, <1>7 DEF Kept
<1> QED
  BY <1>8 DEF w, ll, k

LEMMA LInvInit == Init => LInv
<1> SUFFICES ASSUME Init PROVE LInv
  OBVIOUS
<1>1. Len(printed) = 0 /\ Len(logged) = 0 /\ tail = 0
  BY DEF Init
<1>2. \A i \in 0 .. NUM_LOG_LINES - 1 : Holds(BUFFER, i, Waiting(i))
  <2> TAKE i \in 0 .. NUM_LOG_LINES - 1
  <2>1. Waiting(i) = <<>>
    BY <1>1, LogAssumption DEF Waiting, WaitingIn
  <2>2. \A c \in 0 .. LINE_SIZE - 1 : Slot(i) + c \in Cells /\ ~ (c < 0)
    BY SlotInMemory
  <2>3. \A c \in Cells : BUFFER[c] = NUL
    BY DEF Init
  <2>4. Len(<<>>) = 0
    OBVIOUS
  <2> QED
    BY <2>1, <2>2, <2>3, <2>4 DEF Holds
<1>3. Kept(BUFFER, tail, printed, logged)
  BY <1>1, <1>2, LogAssumption DEF Kept, Waiting
<1> QED
  BY <1>3, TInvInit DEF LInv

LEMMA LInvStep ==
  ASSUME MessagesFit
  PROVE  LInv /\ [Next]_vars => LInv'
<1> SUFFICES ASSUME LInv, [Next]_vars PROVE LInv'
  OBVIOUS
<1>1. TInv'
  BY TInvStep DEF LInv
<1>2. Kept(BUFFER', tail', printed', logged') => LInv'
  BY <1>1 DEF LInv
<1>3. CASE Dump /\ logged' = logged
  BY <1>2, <1>3, FlushKeeps DEF Dump
<1>4. ASSUME NEW m \in Messages, write_to_buffer(m)
      PROVE  LInv'
  <2> DEFINE mem == IF Full THEN Dumped[tail].mem ELSE BUFFER
             t   == IF Full THEN 0 ELSE tail
             pr  == IF Full THEN printed \o Dumped[tail].out ELSE printed
  <2>1. t \in 0 .. NUM_LOG_LINES - 2
    <3>1. CASE Full
      BY <3>1, LogAssumption
    <3>2. CASE ~ Full
      BY <3>2, LInvTypes, LogAssumption DEF Full, FULL_IDX
    <3> QED
      BY <3>1, <3>2
  <2>2. Kept(mem, t, pr, logged) /\ pr \in Seq(Seq(Chars)) /\ logged \in Seq(Messages)
    BY FlushKeeps, LInvTypes, ConcatProperties DEF LInv
  <2>3. Len(logged) < MaxCalls /\ ~ TooLong(m)
    BY <1>4 DEF write_to_buffer
  <2>4. PICK junk \in {NUL, JUNK} : BUFFER' = Written(mem, t, m, Len(logged) + 1, junk)
    BY <1>4 DEF write_to_buffer
  <2>5. tail' = t + 1 /\ printed' = pr /\ logged' = Append(logged, m)
    BY <1>4 DEF write_to_buffer
  <2> HIDE DEF mem, t, pr
  <2> QED
    BY <1>2, <2>1, <2>2, <2>3, <2>4, <2>5, WriteKeeps
<1>5. CASE UNCHANGED vars
  BY <1>2, <1>5 DEF vars, LInv
<1> QED
  BY <1>3, <1>4, <1>5 DEF Next, log_size_overflow, dump_buffer, panic

LEMMA LInvOrder == LInv => LinesInOrder
<1> SUFFICES ASSUME LInv PROVE LinesInOrder
  OBVIOUS
<1>1. Kept(Dumped[tail].mem, 0, printed \o Pending, logged)
  BY FlushKeeps
<1>2. printed \o Pending \in Seq(Seq(Chars)) /\ logged \in Seq(Messages)
  BY FlushKeeps, LInvTypes, ConcatProperties
<1> DEFINE out == printed \o Pending
<1> HIDE DEF out
<1>3. out \in Seq(Seq(Chars)) /\ Len(out) = Len(logged) /\ \A k \in 1 .. Len(out) : out[k] = Line(logged[k], k)
  BY <1>1, <1>2 DEF Kept, out
<1>4. out = [k \in 1 .. Len(logged) |-> Line(logged[k], k)]
  BY <1>3
<1> QED
  BY <1>2, <1>4 DEF LinesInOrder, out

----------------------------------------------------------------------------
(* The log keeps its promise.                                              *)

LEMMA PromiseInit == Init => Promise!Init
<1> SUFFICES ASSUME Init PROVE Promise!Init
  OBVIOUS
<1>1. Pending = <<>>
  BY DEF Init, Pending
<1> QED
  BY <1>1 DEF Init, Promise!Init

\* Putting out all that waits is a step of the promise, whether the kernel goes
\* on or stops.
LEMMA DumpIsFlush ==
  ASSUME LInv, Dump, ~ panicked, panicked' \in BOOLEAN
  PROVE  Promise!Next
<1>1. printed' = printed \o Pending
  BY FlushKeeps DEF Dump
<1>2. Pending' = <<>>
  <2>1. tail' = 0
    BY DEF Dump
  <2>2. Pending' = [i \in 1 .. 0 |-> Text(BUFFER', i - 1)]
    BY <2>1 DEF Pending
  <2> QED
    BY <2>2
<1> QED
  BY <1>1, <1>2 DEF Promise!Next, Promise!Flush

\* What waits is what was logged and not put out, after a step too.
PendingIs ==
  /\ Pending \in Seq(Seq(Chars)) /\ Len(Pending) = tail
  /\ \A j \in 1 .. tail : Pending[j] = Line(logged[Len(printed) + j], Len(printed) + j)

LEMMA PendingNext == (LInv => PendingIs) /\ (LInv' => PendingIs')
<1>1. LInv => PendingIs
  BY FlushKeeps DEF PendingIs
<1> QED
  BY <1>1, PTL

\* Logging a message is logging its line, behind those that wait or after a flush.
LEMMA WriteIsLog ==
  ASSUME LInv, LInv', NEW m \in Messages, write_to_buffer(m)
  PROVE  Promise!Next
<1> DEFINE k == Len(logged) + 1
           line == Line(m, k)
<1>1. /\ ~ panicked /\ panicked' = panicked
      /\ logged' = Append(logged, m) /\ Len(logged) < MaxCalls
      /\ printed' = IF Full THEN printed \o Dumped[tail].out ELSE printed
      /\ tail' = (IF Full THEN 0 ELSE tail) + 1
  BY DEF write_to_buffer
<1>2. /\ tail \in Nat /\ Len(printed) \in Nat /\ Len(logged) \in Nat
      /\ logged \in Seq(Messages) /\ Len(logged) = Len(printed) + tail
  BY LInvTypes DEF LInv, Kept
<1>3. line \in {Line(mm, kk) : mm \in Messages, kk \in 1 .. MaxCalls}
  <2>1. k \in 1 .. MaxCalls
    BY <1>1, <1>2, LogAssumption
  <2> QED
    BY <2>1
<1>4. k \in DOMAIN logged' /\ logged'[k] = m
      /\ \A j \in 1 .. Len(logged) : logged'[j] = logged[j]
  BY <1>1, <1>2
<1>5. /\ Pending \in Seq(Seq(Chars)) /\ Len(Pending) = tail
      /\ \A j \in 1 .. tail : Pending[j] = Line(logged[Len(printed) + j], Len(printed) + j)
      /\ Dumped[tail].out = Pending
  BY FlushKeeps
<1>6. /\ Pending' \in Seq(Seq(Chars)) /\ Len(Pending') = tail'
      /\ \A j \in 1 .. tail' : Pending'[j] = Line(logged'[Len(printed') + j], Len(printed') + j)
  BY PendingNext DEF PendingIs
<1> HIDE DEF line
<1>7. CASE Full
  <2>1. printed' = printed \o Pending /\ tail' = 1
    BY <1>1, <1>5, <1>7
  <2>2. Len(printed') = Len(logged)
    BY <2>1, <1>2, <1>5, LInvTypes, ConcatProperties
  <2>3. Pending'[1] = line
    BY <2>1, <2>2, <1>4, <1>6 DEF line
  <2>4. Pending' = <<line>>
    BY <2>1, <2>3, <1>6
  <2> QED
    BY <2>1, <2>4, <1>1, <1>3 DEF Promise!Next, Promise!Log
<1>8. CASE ~ Full
  <2>1. printed' = printed /\ tail' = tail + 1
    BY <1>1, <1>8
  <2>2. Pending'[tail + 1] = line
    <3>1. Len(printed') + (tail + 1) = k /\ tail + 1 \in 1 .. tail'
      BY <2>1, <1>2
    <3> QED
      BY <3>1, <1>4, <1>6 DEF line
  <2>3. \A j \in 1 .. tail : Pending'[j] = Pending[j]
    <3> TAKE j \in 1 .. tail
    <3>1. Len(printed) + j \in 1 .. Len(logged) /\ j \in 1 .. tail'
      BY <2>1, <1>2
    <3>2. logged'[Len(printed) + j] = logged[Len(printed) + j]
      BY <3>1, <1>4
    <3> QED
      BY <2>1, <3>1, <3>2, <1>5, <1>6
  <2>4. line \in Seq(Chars)
    <3>1. k \in 1 .. MaxCalls
      BY <1>1, <1>2, LogAssumption
    <3> QED
      BY <3>1, LineIs DEF line
  <2>5. Pending' = Append(Pending, line)
    <3> DEFINE p == Pending
               q == Pending'
    <3>1. /\ p \in Seq(Seq(Chars)) /\ q \in Seq(Seq(Chars)) /\ Len(p) = tail /\ Len(q) = tail + 1
          /\ q[tail + 1] = line /\ \A j \in 1 .. tail : q[j] = p[j]
      BY <2>1, <2>2, <2>3, <1>5, <1>6
    <3> HIDE DEF p, q
    <3>2. q = Append(p, line)
      BY <3>1, <2>4, <1>2
    <3> QED
      BY <3>2 DEF p, q
  <2> QED
    BY <2>1, <2>5, <1>1, <1>3 DEF Promise!Next, Promise!Log
<1> QED
  BY <1>7, <1>8

LEMMA PromiseStep ==
  ASSUME MessagesFit
  PROVE  LInv /\ [Next]_vars => [Promise!Next]_(Promise!vars)
<1> SUFFICES ASSUME LInv, [Next]_vars
             PROVE  Promise!Next \/ UNCHANGED Promise!vars
  OBVIOUS
<1>1. CASE dump_buffer
  BY <1>1, DumpIsFlush DEF dump_buffer, LInv, TInv, TypeOK
<1>2. CASE panic
  BY <1>2, DumpIsFlush DEF panic
<1>3. ASSUME NEW m \in Messages, write_to_buffer(m)
      PROVE  Promise!Next
  BY <1>3, LInvStep, WriteIsLog
<1>4. CASE UNCHANGED vars
  BY <1>4 DEF vars, Pending, Text, Terminator, Slot, Promise!vars
<1> QED
  BY <1>1, <1>2, <1>3, <1>4 DEF Next, log_size_overflow

\* The log alone, whoever calls it: a flush puts out every line that waits, once,
\* in order and as it was logged, and so does a panic (circular_buffer.c:20-93,
\* panic.c).
THEOREM LogKeepsPromise ==
  ASSUME MessagesFit
  PROVE  Spec => KeepsPromise /\ []LinesInOrder
<1>1. Spec => []LInv
  BY LInvInit, LInvStep, PTL DEF Spec
<1>2. Spec => KeepsPromise
  BY <1>1, PromiseInit, PromiseStep, PTL DEF Spec, KeepsPromise, Promise!Spec
<1>3. Spec => []LinesInOrder
  BY <1>1, LInvOrder, PTL
<1> QED
  BY <1>2, <1>3
----------------------------------------------------------------------------
(* The probe.                                                              *)

Spots == [bus: 0 .. NUM_BUSES - 1, slot: 0 .. NUM_SLOTS - 1]

Earlier(c, s) == c.bus < s.bus \/ (c.bus = s.bus /\ c.slot < s.slot)

IsAt(c, s) == c.bus = s.bus /\ c.slot = s.slot

\* What find_io_base or find_mmap_base makes of a register that reads as w.
BaseOf(which, w) ==
  CASE which = "io" /\ w % 2 = 1 /\ w > 0   -> w - (w % 4)
    [] which = "mmap" /\ w % 2 = 0 /\ w > 0 -> w - (w % 16)
    [] OTHER                                -> -1

\* No card looked for lies before the scan, and the scan stops on one.
ScanInv ==
  /\ \A c \in cards : Earlier(c, scan) => c.id # Wanted
  /\ at \notin {"boot", "find"} => \E c \in cards : IsAt(c, scan) /\ c.id = Wanted

\* No register before bar is of the kind looked for, and a base address that was
\* found is that of a register.
BaseInv ==
  /\ at \notin {"io", "mmap"} => bar = 0
  /\ at \in {"boot", "find"} => \A which \in {"io", "mmap"} : bases[which] = -1
  /\ \A c \in cards : IsAt(c, scan) =>
       /\ at \in {"io", "mmap"} =>
            \A i \in 0 .. 5 : i < bar => BaseOf(at, BarWord(c.bars[i])) = -1
       /\ \A which \in {"io", "mmap"} : bases[which] # -1 =>
            \E i \in 0 .. 5 : BaseOf(which, BarWord(c.bars[i])) = bases[which]

\* What a search that panicked has seen last.
StopInv ==
  panicked =>
    /\ at = "find" => IF IsWanted THEN HeaderType \notin {0, 2, 3} ELSE IsLast
    /\ at \in {"io", "mmap"} => HeaderType # 0 \/ (Base(at) = -1 /\ bar = 5)

PInv ==
  /\ TInv
  /\ cards \in Machines /\ at \in Places /\ scan \in Spots /\ bar \in 0 .. 5
  /\ bases \in [io: Nat \cup {-1}, mmap: Nat \cup {-1}]
  /\ ScanInv
  /\ BaseInv
  /\ StopInv

\* The probe's numbers, and what the machines are: cards at places of their own.
LEMMA ProbeNumbers == NUM_BUSES \in 1 .. 256 /\ NUM_SLOTS \in 1 .. 32
BY PciAssumption

LEMMA SpotIs ==
  ASSUME NEW s \in Spots
  PROVE  /\ s.bus \in 0 .. NUM_BUSES - 1 /\ s.slot \in 0 .. NUM_SLOTS - 1
         /\ s.bus \in 0 .. 255 /\ s.slot \in 0 .. 31
         /\ s = [bus |-> s.bus, slot |-> s.slot]
<1>1. s.bus \in 0 .. NUM_BUSES - 1 /\ s.slot \in 0 .. NUM_SLOTS - 1
  BY DEF Spots
<1>2. s = [bus |-> s.bus, slot |-> s.slot]
  BY DEF Spots
<1> QED
  BY <1>1, <1>2, ProbeNumbers

LEMMA CardsAreCards ==
  ASSUME cards \in Machines
  PROVE  \A c \in cards : c \in Cards
BY PciAssumption

LEMMA CardPlaces ==
  ASSUME cards \in Machines
  PROVE  \A c \in cards :
           /\ c.bus \in 0 .. NUM_BUSES - 1 /\ c.slot \in 0 .. NUM_SLOTS - 1
           /\ c.bus \in Nat /\ c.slot \in Nat
<1> SUFFICES ASSUME NEW c \in cards
             PROVE  /\ c.bus \in 0 .. NUM_BUSES - 1 /\ c.slot \in 0 .. NUM_SLOTS - 1
                    /\ c.bus \in Nat /\ c.slot \in Nat
  OBVIOUS
<1>1. c \in Cards
  BY CardsAreCards
<1>2. c.bus \in 0 .. NUM_BUSES - 1 /\ c.slot \in 0 .. NUM_SLOTS - 1
  BY <1>1 DEF Cards
<1> QED
  BY <1>2

LEMMA OneCard ==
  ASSUME cards \in Machines, NEW s, NEW c \in cards, NEW d \in cards, IsAt(c, s), IsAt(d, s)
  PROVE  c = d
<1>1. c.bus = d.bus /\ c.slot = d.slot
  BY DEF IsAt
<1> QED
  BY <1>1, PciAssumption

BusIn(a) == (a \div 2^16) % 256
SlotIn(a) == (a \div 2^11) % 32
RegisterIn(a) == (a % 2^8) \div 4

AddressOf(bus, slot, reg) == bus * 2^16 + slot * 2^11 + reg * 4

\* The bridge takes out of an address the bus, the slot and the register that
\* pci_config_read put in.
LEMMA Addressed ==
  ASSUME NEW bus \in 0 .. 255, NEW slot \in 0 .. 31, NEW reg \in 0 .. 9
  PROVE  /\ BusIn(AddressOf(bus, slot, reg)) = bus
         /\ SlotIn(AddressOf(bus, slot, reg)) = slot
         /\ RegisterIn(AddressOf(bus, slot, reg)) = reg
<1> DEFINE a == bus * 2^16 + slot * 2^11 + reg * 4
<1>1. 2^16 = 65536 /\ 2^11 = 2048 /\ 2^8 = 256
  OBVIOUS
<1>2. a = bus * 65536 + slot * 2048 + reg * 4
  BY <1>1
<1>3. (a \div 65536) % 256 = bus
  <2>1. a \div 65536 = bus
    BY <1>2
  <2> QED
    BY <2>1
<1>4. (a \div 2048) % 32 = slot
  <2>1. a \div 2048 = bus * 32 + slot
    BY <1>2
  <2> QED
    BY <2>1
<1>5. (a % 256) \div 4 = reg
  <2>1. a % 256 = reg * 4
    BY <1>2
  <2> QED
    BY <2>1
<1> QED
  BY <1>1, <1>3, <1>4, <1>5 DEF BusIn, SlotIn, RegisterIn, AddressOf

\* What configuration space holds at a place with a card, and without one.
LEMMA ReadsCard ==
  ASSUME cards \in Machines, NEW s \in Spots, NEW c \in cards, IsAt(c, s)
  PROVE  /\ pci_config_read(s, 0).id = c.id
         /\ pci_read_register(s, 3).header = c.header
         /\ \A i \in 0 .. 5 : pci_read_register(s, 4 + i).bar = BarWord(c.bars[i])
<1> DEFINE bus == s.bus  slot == s.slot
<1>1. bus \in 0 .. 255 /\ slot \in 0 .. 31 /\ s.bus = bus /\ s.slot = slot
  BY SpotIs
<1> HIDE DEF bus, slot
<1>2. \A d \in cards : IsAt(d, s) => d = c
  BY OneCard
<1>3. ASSUME NEW reg \in 0 .. 9
      PROVE  LET r == pci_config_read(s, reg * 4)
             IN  /\ reg = 0 => r = [id |-> c.id]
                 /\ reg = 3 => r = [header |-> c.header]
                 /\ reg \in 4 .. 9 => r = [bar |-> BarWord(c.bars[reg - 4])]
  <2> DEFINE a == AddressOf(bus, slot, reg)
             here == {d \in cards : d.bus = (a \div 2^16) % 256 /\ d.slot = (a \div 2^11) % 32}
  <2>1. BusIn(a) = bus /\ SlotIn(a) = slot /\ RegisterIn(a) = reg
    BY <1>1, Addressed
  <2>2. pci_config_read(s, reg * 4) = Answer(a)
    BY <1>1 DEF pci_config_read, AddressOf
  <2> HIDE DEF a
  <2>3. here = {c} /\ (a % 2^8) \div 4 = reg
    BY <2>1, <1>1, <1>2 DEF IsAt, BusIn, SlotIn, RegisterIn
  <2>4. here # {} /\ (CHOOSE d \in here : TRUE) = c
    BY <2>3
  <2>5. Answer(a) = CASE reg = 0       -> [id |-> c.id]
                      [] reg = 3       -> [header |-> c.header]
                      [] reg \in 4 .. 9 -> [bar |-> BarWord(c.bars[reg - 4])]
    BY <2>3, <2>4 DEF Answer
  <2>6. CASE reg = 0
    BY <2>2, <2>5, <2>6
  <2>7. CASE reg = 3
    BY <2>2, <2>5, <2>7
  <2>8. CASE reg \in 4 .. 9
    BY <2>2, <2>5, <2>8
  <2> QED
    BY <2>6, <2>7, <2>8
<1>4. pci_config_read(s, 0) = [id |-> c.id]
  <2>1. 0 * 4 = 0 /\ 0 \in 0 .. 9
    OBVIOUS
  <2> QED
    BY <2>1, <1>3
<1>5. pci_read_register(s, 3) = [header |-> c.header]
  BY <1>3 DEF pci_read_register
<1>6. ASSUME NEW i \in 0 .. 5
      PROVE  pci_read_register(s, 4 + i) = [bar |-> BarWord(c.bars[i])]
  <2>1. 4 + i \in 0 .. 9 /\ 4 + i \in 4 .. 9 /\ 4 + i # 0 /\ 4 + i # 3 /\ (4 + i) - 4 = i
    OBVIOUS
  <2> QED
    BY <2>1, <1>3 DEF pci_read_register
<1> QED
  BY <1>4, <1>5, <1>6

LEMMA ReadsNone ==
  ASSUME NEW s \in Spots, \A c \in cards : ~ IsAt(c, s)
  PROVE  pci_config_read(s, 0).id = "none"
<1> DEFINE bus == s.bus  slot == s.slot
<1>1. bus \in 0 .. 255 /\ slot \in 0 .. 31 /\ s.bus = bus /\ s.slot = slot
  BY SpotIs
<1> HIDE DEF bus, slot
<1>5. PICK reg \in 0 .. 9 : reg = 0
  OBVIOUS
<1> DEFINE a == AddressOf(bus, slot, reg)
<1>2. BusIn(a) = bus /\ SlotIn(a) = slot
  BY <1>1, Addressed
<1>3. {c \in cards : c.bus = bus /\ c.slot = slot} = {}
  BY <1>1 DEF IsAt
<1>4. pci_config_read(s, 0) = Answer(a)
  BY <1>1, <1>5 DEF pci_config_read, AddressOf
<1> HIDE DEF a
<1>6. Answer(a) = [id |-> "none"]
  BY <1>2, <1>3 DEF Answer, BusIn, SlotIn
<1> QED
  BY <1>4, <1>6

\* What a search takes a register for: only the upper half of a 64-bit address is
\* taken for what it is not.
LEMMA KindOf ==
  ASSUME NEW b \in Registers, NEW which \in {"io", "mmap"}, b.kind = "upper" => b.addr = 0
  PROVE  LET holds == /\ b.kind \in (IF which = "io" THEN {"io"} ELSE {"mem", "mem64"})
                      /\ BarWord(b) > 0
         IN  /\ holds => BaseOf(which, BarWord(b)) = b.addr
             /\ ~ holds => BaseOf(which, BarWord(b)) = -1
<1> DEFINE w == BarWord(b)
<1>1. b.addr \in Nat /\ b.kind \in Kinds
  BY DEF Registers
<1>2. CASE b.kind = "io"
  <2>1. w = b.addr + 1 /\ b.addr % 4 = 0
    BY <1>2 DEF BarWord, Registers
  <2>2. w % 2 = 1 /\ w > 0 /\ w % 4 = 1 /\ w - (w % 4) = b.addr
    BY <2>1, <1>1
  <2> HIDE DEF w
  <2> QED
    BY <2>2, <1>2 DEF BaseOf, w
<1>3. CASE b.kind = "mem64"
  <2>1. w = b.addr + 4 /\ b.addr % 16 = 0
    BY <1>3 DEF BarWord, Registers
  <2>2. w % 2 = 0 /\ w > 0 /\ w % 16 = 4 /\ w - (w % 16) = b.addr
    BY <2>1, <1>1
  <2> HIDE DEF w
  <2> QED
    BY <2>2, <1>3 DEF BaseOf, w
<1>4. CASE b.kind = "mem"
  <2>1. w = b.addr /\ b.addr % 16 = 0
    BY <1>4 DEF BarWord, Registers
  <2>2. \A x \in Nat : x % 16 = 0 => x % 2 = 0 /\ x - (x % 16) = x
    OBVIOUS
  <2> HIDE DEF w
  <2>3. w % 2 = 0 /\ w - (w % 16) = b.addr /\ w \in Nat
    BY <2>1, <2>2, <1>1
  <2>4. which = "mmap" /\ w > 0 => BaseOf(which, w) = b.addr
    BY <2>3 DEF BaseOf
  <2>5. which = "io" \/ ~ (w > 0) => BaseOf(which, w) = -1
    BY <2>3 DEF BaseOf
  <2> QED
    BY <2>3, <2>4, <2>5, <1>4 DEF w
<1>5. CASE b.kind \in {"none", "upper"}
  <2>1. w = 0
    BY <1>5 DEF BarWord, Registers
  <2> HIDE DEF w
  <2> QED
    BY <2>1, <1>5 DEF BaseOf, w
<1> QED
  BY <1>1, <1>2, <1>3, <1>4, <1>5 DEF Kinds

\* The card a search has found, and what it reads from it.
LEMMA FoundCard ==
  ASSUME PInv, at \notin {"boot", "find"}
  PROVE  \E c \in cards :
           /\ IsAt(c, scan) /\ c.id = Wanted
           /\ \A d \in cards : IsAt(d, scan) => d = c
           /\ HeaderType = c.header
           /\ \A i \in 0 .. 5 : c.bars[i] \in Registers
           /\ bar \in 0 .. 5 /\ Word = BarWord(c.bars[bar])
           /\ \A which : Base(which) = BaseOf(which, BarWord(c.bars[bar]))
<1>1. PICK c \in cards : IsAt(c, scan) /\ c.id = Wanted
  BY DEF PInv, ScanInv
<1>2. cards \in Machines /\ scan \in Spots /\ bar \in 0 .. 5
  BY DEF PInv
<1>3. \A d \in cards : IsAt(d, scan) => d = c
  BY <1>1, <1>2, OneCard
<1>4. HeaderType = c.header /\ Word = BarWord(c.bars[bar])
  BY <1>1, <1>2, ReadsCard DEF HeaderType, Word
<1>5. \A i \in 0 .. 5 : c.bars[i] \in Registers
  <2>1. c \in Cards
    BY <1>2, CardsAreCards
  <2> QED
    BY <2>1 DEF Cards
<1>6. \A which : Base(which) = BaseOf(which, BarWord(c.bars[bar]))
  BY <1>4 DEF Base, BaseOf
<1> QED
  BY <1>1, <1>2, <1>3, <1>4, <1>5, <1>6

\* The same while the search goes on: a card looked for is there if it is seen.
LEMMA SeenCard ==
  ASSUME PInv
  PROVE  /\ IsWanted => \E c \in cards : IsAt(c, scan) /\ c.id = Wanted /\ HeaderType = c.header
         /\ ~ IsWanted => \A c \in cards : IsAt(c, scan) => c.id # Wanted
<1>1. cards \in Machines /\ scan \in Spots
  BY DEF PInv
<1>2. CASE \E c \in cards : IsAt(c, scan)
  <2>1. PICK c \in cards : IsAt(c, scan)
    BY <1>2
  <2>2. \A d \in cards : IsAt(d, scan) => d = c
    BY <1>1, <2>1, OneCard
  <2>3. (IsWanted <=> c.id = Wanted) /\ HeaderType = c.header
    BY <1>1, <2>1, ReadsCard DEF IsWanted, HeaderType
  <2> QED
    BY <2>1, <2>2, <2>3
<1>3. CASE ~ \E c \in cards : IsAt(c, scan)
  <2>1. ~ IsWanted
    BY <1>1, <1>3, ReadsNone, PciAssumption DEF IsWanted
  <2> QED
    BY <2>1, <1>3
<1> QED
  BY <1>2, <1>3

\* A register reads as a number, and what is made of it is one or nothing.
LEMMA BaseType ==
  ASSUME NEW b \in Registers, NEW which
  PROVE  BaseOf(which, BarWord(b)) \in Nat \cup {-1}
<1>1. BarWord(b) \in Nat
  <2>1. b.addr \in Nat
    BY DEF Registers
  <2> QED
    BY <2>1 DEF BarWord
<1>2. \A w \in Nat : w - (w % 4) \in Nat /\ w - (w % 16) \in Nat
  OBVIOUS
<1> QED
  BY <1>1, <1>2 DEF BaseOf

\* Every step of the probe is a call of the log or leaves it alone.
LEMMA ProbeIsLog == [PciNext]_allvars => [Next]_vars
<1> SUFFICES ASSUME [PciNext]_allvars PROVE [Next]_vars
  OBVIOUS
<1>1. CASE Boot
  BY <1>1 DEF Boot, Next
<1>2. CASE FindPanic \/ \E which \in {"io", "mmap"} : BarPanic(which)
  BY <1>2 DEF FindPanic, BarPanic, Next
<1>3. CASE Log
  <2>1. ProbeLine[at] \in Messages
    BY <1>3, PciAssumption DEF Log
  <2> QED
    BY <2>1, <1>3 DEF Log, Next
<1>4. CASE FinalDump
  BY <1>4 DEF FinalDump, Next
<1>5. CASE \/ StartProbe \/ FindSkip \/ FindDone
           \/ \E which \in {"io", "mmap"} : BarSkip(which) \/ BarFound(which)
  BY <1>5 DEF StartProbe, FindSkip, FindDone, BarSkip, BarFound
<1>6. CASE UNCHANGED allvars
  BY <1>6 DEF allvars
<1> QED
  BY <1>1, <1>2, <1>3, <1>4, <1>5, <1>6 DEF PciNext

PTypes ==
  /\ cards \in Machines /\ at \in Places /\ scan \in Spots /\ bar \in 0 .. 5
  /\ bases \in [io: Nat \cup {-1}, mmap: Nat \cup {-1}]

LEMMA PInvInit == PciInit => PInv
<1> SUFFICES ASSUME PciInit PROVE PInv
  OBVIOUS
<1>1. /\ cards \in Machines /\ at = "boot" /\ scan = [bus |-> 0, slot |-> 0] /\ bar = 0
      /\ bases = [io |-> -1, mmap |-> -1] /\ Init
  BY DEF PciInit
<1>2. PTypes
  <2>1. 0 \in 0 .. NUM_BUSES - 1 /\ 0 \in 0 .. NUM_SLOTS - 1
    BY ProbeNumbers
  <2>2. scan \in Spots /\ bar \in 0 .. 5
    BY <1>1, <2>1 DEF Spots
  <2>3. bases \in [io: Nat \cup {-1}, mmap: Nat \cup {-1}] /\ at \in Places
    BY <1>1 DEF Places
  <2> QED
    BY <1>1, <2>2, <2>3 DEF PTypes
<1>3. ScanInv
  <2>1. \A c \in cards : c.bus \in Nat /\ c.slot \in Nat
    BY <1>1, CardPlaces
  <2> QED
    BY <1>1, <2>1 DEF ScanInv, Earlier
<1>4. BaseInv /\ StopInv
  BY <1>1 DEF BaseInv, StopInv, Init
<1> QED
  BY <1>1, <1>2, <1>3, <1>4, TInvInit DEF PInv, PTypes

\* A step that stays where it is keeps all of it but for the panic.
LEMMA PInvFrame ==
  ASSUME PInv, UNCHANGED pci_vars
  PROVE  PTypes' /\ ScanInv' /\ BaseInv'
<1>1. /\ cards' = cards /\ at' = at /\ scan' = scan /\ bar' = bar /\ bases' = bases
  BY DEF pci_vars
<1>2. PTypes'
  BY <1>1 DEF PInv, PTypes
<1>3. ScanInv'
  BY <1>1 DEF PInv, ScanInv
<1>4. BaseInv'
  BY <1>1 DEF PInv, BaseInv
<1> QED
  BY <1>2, <1>3, <1>4

\* The scan goes on behind a place that holds no card looked for.
LEMMA FindSkipStep ==
  ASSUME PInv, FindSkip
  PROVE  PTypes' /\ ScanInv' /\ BaseInv' /\ StopInv'
<1>1. /\ ~ panicked' /\ at = "find" /\ at' = "find" /\ cards' = cards /\ bar' = bar /\ bases' = bases
      /\ ~ IsWanted /\ ~ IsLast
      /\ scan' = IF scan.slot < NUM_SLOTS - 1
                 THEN [scan EXCEPT !.slot = @ + 1]
                 ELSE [bus |-> scan.bus + 1, slot |-> 0]
  BY DEF FindSkip, vars
<1>2. /\ scan \in Spots /\ NUM_BUSES \in Nat /\ NUM_SLOTS \in Nat /\ NUM_SLOTS > 0
      /\ scan.bus \in 0 .. NUM_BUSES - 1 /\ scan.slot \in 0 .. NUM_SLOTS - 1
  <2>1. scan \in Spots
    BY DEF PInv
  <2> QED
    BY <2>1, ProbeNumbers, SpotIs
<1>3. \A c \in cards : c.bus \in Nat /\ c.slot \in 0 .. NUM_SLOTS - 1
  <2>1. cards \in Machines
    BY DEF PInv
  <2> QED
    BY <2>1, CardPlaces
<1>4. CASE scan.slot < NUM_SLOTS - 1
  <2>1. scan'.bus = scan.bus /\ scan'.slot = scan.slot + 1 /\ scan' \in Spots
    <3>1. scan' = [bus |-> scan.bus, slot |-> scan.slot + 1]
      BY <1>1, <1>2, <1>4, SpotIs
    <3>2. scan.slot + 1 \in 0 .. NUM_SLOTS - 1
      BY <1>2, <1>4
    <3> QED
      BY <3>1, <3>2, <1>2 DEF Spots
  <2>2. \A c \in cards : Earlier(c, scan') => Earlier(c, scan) \/ IsAt(c, scan)
    BY <1>3, <2>1, <1>2 DEF Earlier, IsAt
  <2> QED
    BY <2>1, <2>2, <1>1, SeenCard DEF PInv, PTypes, ScanInv, BaseInv, StopInv
<1>5. CASE ~ (scan.slot < NUM_SLOTS - 1)
  <2>1. scan.slot = NUM_SLOTS - 1 /\ scan.bus # NUM_BUSES - 1
    BY <1>1, <1>2, <1>5 DEF IsLast, Spots
  <2>2. scan'.bus = scan.bus + 1 /\ scan'.slot = 0 /\ scan' \in Spots
    BY <2>1, <1>1, <1>2, <1>5 DEF Spots
  <2>3. \A c \in cards : Earlier(c, scan') => Earlier(c, scan) \/ IsAt(c, scan)
    BY <1>3, <2>1, <2>2, <1>2 DEF Earlier, IsAt
  <2> QED
    BY <2>2, <2>3, <1>1, SeenCard DEF PInv, PTypes, ScanInv, BaseInv, StopInv
<1> QED
  BY <1>4, <1>5

\* Where the scan ends, a card looked for lies at it and none before it.
LEMMA FindDoneStep ==
  ASSUME PInv, FindDone
  PROVE  PTypes' /\ ScanInv' /\ BaseInv' /\ StopInv'
<1>1. /\ ~ panicked' /\ at = "find" /\ at' = "log_found" /\ IsWanted
      /\ cards' = cards /\ scan' = scan /\ bar' = bar /\ bases' = bases
  BY DEF FindDone, vars
<1>2. PTypes'
  BY <1>1 DEF PInv, PTypes, Places
<1>3. ScanInv'
  BY <1>1, SeenCard DEF PInv, ScanInv
<1>4. BaseInv'
  <2>1. bar = 0 /\ \A which \in {"io", "mmap"} : bases[which] = -1
    BY <1>1 DEF PInv, BaseInv
  <2> QED
    BY <1>1, <2>1 DEF BaseInv
<1>5. StopInv'
  BY <1>1 DEF StopInv
<1> QED
  BY <1>2, <1>3, <1>4, <1>5

\* What the probe reads depends on its own variables only.
LEMMA ReadsAlike ==
  ASSUME UNCHANGED pci_vars
  PROVE  /\ (IsWanted' <=> IsWanted)
         /\ HeaderType' = HeaderType /\ (IsLast' <=> IsLast)
         /\ Base(at)' = Base(at) /\ at' = at /\ bar' = bar
BY DEF pci_vars, IsWanted, HeaderType, IsLast, Base, Word, pci_read_register, pci_config_read, Answer

\* A card looked for at the scan is a first one, and there is only one.
LEMMA FirstIs ==
  ASSUME PInv, NEW c \in cards, IsAt(c, scan), c.id = Wanted
  PROVE  c \in First
<1>1. \A d \in cards : d.bus \in Nat /\ d.slot \in Nat
  BY CardPlaces DEF PInv
<1>2. \A d \in cards : d.id = Wanted => ~ Earlier(d, scan)
  BY DEF PInv, ScanInv
<1>3. ASSUME NEW d \in cards, d.id = Wanted
      PROVE  c.bus < d.bus \/ (c.bus = d.bus /\ c.slot <= d.slot)
  <2>1. ~ (d.bus < c.bus \/ (d.bus = c.bus /\ d.slot < c.slot))
    BY <1>2, <1>3 DEF Earlier, IsAt
  <2> QED
    BY <1>1, <2>1
<1> QED
  BY <1>3 DEF First

LEMMA OneFirst ==
  ASSUME cards \in Machines, NEW c \in First, NEW d \in First
  PROVE  c = d
<1>1. \A b \in cards : b.bus \in Nat /\ b.slot \in Nat
  BY CardPlaces
<1>2. c.bus = d.bus /\ c.slot = d.slot
  BY <1>1 DEF First
<1>3. c \in cards /\ d \in cards /\ IsAt(c, c) /\ IsAt(d, c)
  BY <1>2 DEF First, IsAt
<1> QED
  BY <1>3, OneCard

\* A search panics on what it has read.
LEMMA StopStep ==
  ASSUME PInv, FindPanic \/ \E which \in {"io", "mmap"} : BarPanic(which)
  PROVE  PTypes' /\ ScanInv' /\ BaseInv' /\ StopInv'
<1>1. UNCHANGED pci_vars
  BY DEF FindPanic, BarPanic
<1>2. /\ IsWanted' <=> IsWanted
      /\ HeaderType' = HeaderType /\ (IsLast' <=> IsLast)
      /\ Base(at)' = Base(at) /\ at' = at /\ bar' = bar
  BY <1>1, ReadsAlike
<1>3. ASSUME FindPanic
      PROVE  StopInv'
  BY <1>2, <1>3 DEF FindPanic, StopInv
<1>4. ASSUME NEW which \in {"io", "mmap"}, BarPanic(which)
      PROVE  StopInv'
  BY <1>2, <1>4 DEF BarPanic, StopInv
<1> QED
  BY <1>1, <1>3, <1>4, PInvFrame

\* The next register is tried when this one is not of the kind.
LEMMA BarSkipStep ==
  ASSUME PInv, NEW which \in {"io", "mmap"}, BarSkip(which)
  PROVE  PTypes' /\ ScanInv' /\ BaseInv' /\ StopInv'
<1>1. /\ ~ panicked' /\ at = which /\ at' = at /\ bar < 5 /\ bar' = bar + 1 /\ Base(which) = -1
      /\ cards' = cards /\ scan' = scan /\ bases' = bases
  BY DEF BarSkip, vars
<1>2. bar \in 0 .. 5
  BY DEF PInv
<1>3. PTypes'
  BY <1>1, <1>2 DEF PInv, PTypes
<1>4. ScanInv'
  BY <1>1 DEF PInv, ScanInv
<1>5. BaseInv'
  <2>1. ASSUME NEW c \in cards, IsAt(c, scan), NEW i \in 0 .. 5, i < bar + 1
        PROVE  BaseOf(which, BarWord(c.bars[i])) = -1
    <3>1. CASE i = bar
      <4>1. Base(which) = BaseOf(which, BarWord(c.bars[bar]))
        BY <1>1, <2>1, FoundCard
      <4> QED
        BY <1>1, <3>1, <4>1
    <3>2. CASE i < bar
      BY <1>1, <2>1, <3>2 DEF PInv, BaseInv
    <3> QED
      BY <1>2, <2>1, <3>1, <3>2
  <2> QED
    BY <1>1, <2>1 DEF PInv, BaseInv
<1>6. StopInv'
  BY <1>1 DEF StopInv
<1> QED
  BY <1>3, <1>4, <1>5, <1>6

\* A base address is kept of the register it was read from.
LEMMA BarFoundStep ==
  ASSUME PInv, NEW which \in {"io", "mmap"}, BarFound(which)
  PROVE  PTypes' /\ ScanInv' /\ BaseInv' /\ StopInv'
<1>1. /\ ~ panicked' /\ at = which /\ at' \in {"log_io", "log_mmap"} /\ bar' = 0
      /\ Base(which) # -1 /\ bases' = [bases EXCEPT ![which] = Base(which)]
      /\ cards' = cards /\ scan' = scan
  BY DEF BarFound, vars
<1>2. PICK c \in cards :
        /\ IsAt(c, scan) /\ c.id = Wanted
        /\ \A d \in cards : IsAt(d, scan) => d = c
        /\ \A i \in 0 .. 5 : c.bars[i] \in Registers
        /\ bar \in 0 .. 5
        /\ \A any : Base(any) = BaseOf(any, BarWord(c.bars[bar]))
  BY <1>1, FoundCard
<1>3. Base(which) = BaseOf(which, BarWord(c.bars[bar])) /\ Base(which) \in Nat \cup {-1}
  BY <1>2, BaseType
<1>4. bases \in [io: Nat \cup {-1}, mmap: Nat \cup {-1}]
  BY DEF PInv
<1>5. /\ bases' \in [io: Nat \cup {-1}, mmap: Nat \cup {-1}]
      /\ bases'[which] = Base(which)
      /\ \A other \in {"io", "mmap"} : other # which => bases'[other] = bases[other]
  BY <1>1, <1>3, <1>4
<1>6. PTypes'
  BY <1>1, <1>5 DEF PInv, PTypes, Places
<1>7. ScanInv'
  BY <1>1 DEF PInv, ScanInv
<1>8. BaseInv'
  <2>1. ASSUME NEW d \in cards, IsAt(d, scan), NEW other \in {"io", "mmap"}, bases'[other] # -1
        PROVE  \E i \in 0 .. 5 : BaseOf(other, BarWord(d.bars[i])) = bases'[other]
    <3>1. CASE other = which
      BY <1>2, <1>3, <1>5, <2>1, <3>1
    <3>2. CASE other # which
      BY <1>5, <2>1, <3>2 DEF PInv, BaseInv
    <3> QED
      BY <3>1, <3>2
  <2> QED
    BY <1>1, <2>1 DEF BaseInv
<1>9. StopInv'
  BY <1>1 DEF StopInv
<1> QED
  BY <1>6, <1>7, <1>8, <1>9

\* The rest of kernel_main moves on and leaves what was found alone.
LEMMA MoveOnStep ==
  ASSUME PInv, StartProbe \/ Log \/ FinalDump
  PROVE  PTypes' /\ ScanInv' /\ BaseInv' /\ StopInv'
<1>1. /\ ~ panicked' /\ cards' = cards /\ scan' = scan /\ bar' = bar /\ bases' = bases
  BY DEF StartProbe, Log, FinalDump, vars, write_to_buffer, dump_buffer
<1>2. \/ at = "boot" /\ at' = "find"
      \/ at \notin {"boot", "find", "io", "mmap"} /\ at' \in Places \ {"boot", "find"}
  <2>1. CASE StartProbe
    BY <2>1 DEF StartProbe
  <2>2. CASE Log
    <3>1. at \in {"log_found", "log_io", "log_mac", "log_mac2", "log_mmap", "log_mmio"}
      BY <2>2, PciAssumption DEF Log
    <3> QED
      BY <2>2, <3>1 DEF Log, After, Places
  <2>3. CASE FinalDump
    BY <2>3 DEF FinalDump, Places
  <2> QED
    BY <2>1, <2>2, <2>3
<1>3. PTypes'
  BY <1>1, <1>2 DEF PInv, PTypes, Places
<1>4. ScanInv'
  BY <1>1, <1>2 DEF PInv, ScanInv
<1>5. BaseInv'
  <2>1. bar = 0
    BY <1>2 DEF PInv, BaseInv
  <2> QED
    BY <1>1, <1>2, <2>1 DEF PInv, BaseInv
<1>6. StopInv'
  BY <1>1 DEF StopInv
<1> QED
  BY <1>3, <1>4, <1>5, <1>6

LEMMA PInvStep == PInv /\ [PciNext]_allvars => PInv'
<1> SUFFICES ASSUME PInv, [PciNext]_allvars PROVE PInv'
  OBVIOUS
<1>1. TInv'
  BY ProbeIsLog, TInvStep DEF PInv
<1>2. PTypes' /\ ScanInv' /\ BaseInv' /\ StopInv' => PInv'
  BY <1>1 DEF PInv, PTypes
<1>3. CASE Boot
  <2>1. UNCHANGED pci_vars /\ at = "boot"
    BY <1>3 DEF Boot
  <2>2. StopInv'
    BY <2>1 DEF StopInv, pci_vars
  <2> QED
    BY <1>2, <2>1, <2>2, PInvFrame
<1>4. CASE UNCHANGED allvars
  <2>1. UNCHANGED pci_vars /\ panicked' = panicked
    BY <1>4 DEF allvars, vars
  <2>2. /\ IsWanted' <=> IsWanted
        /\ HeaderType' = HeaderType /\ (IsLast' <=> IsLast)
        /\ Base(at)' = Base(at) /\ at' = at /\ bar' = bar
    BY <2>1, ReadsAlike
  <2>3. StopInv'
    BY <2>1, <2>2 DEF PInv, StopInv
  <2> QED
    BY <1>2, <2>1, <2>3, PInvFrame
<1>5. CASE FindSkip
  BY <1>2, <1>5, FindSkipStep
<1>6. CASE FindDone
  BY <1>2, <1>6, FindDoneStep
<1>7. CASE FindPanic \/ \E which \in {"io", "mmap"} : BarPanic(which)
  BY <1>2, <1>7, StopStep
<1>8. ASSUME NEW which \in {"io", "mmap"}, BarSkip(which) \/ BarFound(which)
      PROVE  PInv'
  BY <1>2, <1>8, BarSkipStep, BarFoundStep
<1>9. CASE StartProbe \/ Log \/ FinalDump
  BY <1>2, <1>9, MoveOnStep
<1> QED
  BY <1>3, <1>4, <1>5, <1>6, <1>7, <1>8, <1>9 DEF PciNext

\* What the scan stands on is the first of the cards looked for.
LEMMA PInvEndsRight == PInv => ProbeEndsRight
<1> SUFFICES ASSUME PInv PROVE ProbeEndsRight
  OBVIOUS
<1>1. \A c \in cards : c.bus \in 0 .. NUM_BUSES - 1 /\ c.slot \in 0 .. NUM_SLOTS - 1
  BY CardPlaces DEF PInv
<1>2. \A c \in cards : IsAt(c, scan) /\ c.id = Wanted => c \in First
  BY <1>1, FirstIs
<1>3. ASSUME at \notin {"boot", "find"}
      PROVE  \E c \in First : scan = [bus |-> c.bus, slot |-> c.slot]
  <2>1. PICK c \in cards : IsAt(c, scan) /\ c.id = Wanted
    BY <1>3 DEF PInv, ScanInv
  <2>2. scan = [bus |-> c.bus, slot |-> c.slot]
    BY <2>1 DEF PInv, Spots, IsAt
  <2> QED
    BY <1>2, <2>1, <2>2
<1>4. ASSUME at = "find", panicked, NEW c \in First
      PROVE  c.header \notin {0, 2, 3}
  <2>1. CASE IsWanted
    <3>1. PICK d \in cards : IsAt(d, scan) /\ d.id = Wanted /\ HeaderType = d.header
      BY <2>1, SeenCard
    <3>2. c = d
      BY <1>4, <3>1, <1>2, OneFirst DEF PInv
    <3> QED
      BY <1>4, <2>1, <3>1, <3>2 DEF PInv, StopInv
  <2>2. CASE ~ IsWanted
    <3>1. IsLast
      BY <1>4, <2>2 DEF PInv, StopInv
    <3>2. c \in cards /\ c.id = Wanted
      BY <1>4 DEF First
    <3>3. Earlier(c, scan) \/ IsAt(c, scan)
      BY <1>1, <3>1, <3>2, ProbeNumbers DEF IsLast, Earlier, IsAt
    <3> QED
      BY <2>2, <3>2, <3>3, SeenCard DEF PInv, ScanInv
  <2> QED
    BY <2>1, <2>2
<1> QED
  BY <1>3, <1>4 DEF ProbeEndsRight

\* The base addresses found are those the first card holds.
LEMMA PInvBases == PInv => BasesAreOfTheirKind
<1> SUFFICES ASSUME PInv, NEW which \in {"io", "mmap"}, NEW f \in First,
                    ~ HasUpperHalf(f), at \notin {"boot", "find"}
             PROVE  /\ bases[which] # -1 => \E b \in Holding(f, which) : b.addr = bases[which]
                    /\ at = which /\ panicked => f.header # 0 \/ Holding(f, which) = {}
  BY DEF BasesAreOfTheirKind
<1>1. PICK c \in cards :
        /\ IsAt(c, scan) /\ c.id = Wanted
        /\ HeaderType = c.header
        /\ \A i \in 0 .. 5 : c.bars[i] \in Registers
        /\ bar \in 0 .. 5
        /\ \A any : Base(any) = BaseOf(any, BarWord(c.bars[bar]))
  BY FoundCard
<1>2. f = c
  BY <1>1, FirstIs, OneFirst DEF PInv
<1>3. ASSUME NEW i \in 0 .. 5
      PROVE  LET holds == /\ c.bars[i].kind \in (IF which = "io" THEN {"io"} ELSE {"mem", "mem64"})
                          /\ BarWord(c.bars[i]) > 0
             IN  /\ holds => BaseOf(which, BarWord(c.bars[i])) = c.bars[i].addr
                 /\ ~ holds => BaseOf(which, BarWord(c.bars[i])) = -1
  <2>1. c.bars[i] \in Registers /\ (c.bars[i].kind = "upper" => c.bars[i].addr = 0)
    <3>1. c.bars[i] \in Registers
      BY <1>1
    <3>2. c.bars[i].addr \in Nat
      BY <3>1 DEF Registers
    <3> QED
      BY <3>1, <3>2, <1>2 DEF HasUpperHalf
  <2> QED
    BY <2>1, KindOf
<1>4. ASSUME bases[which] # -1
      PROVE  \E b \in Holding(c, which) : b.addr = bases[which]
  <2>1. PICK i \in 0 .. 5 : BaseOf(which, BarWord(c.bars[i])) = bases[which]
    BY <1>1, <1>4 DEF PInv, BaseInv
  <2> QED
    BY <2>1, <1>3, <1>4 DEF Holding
<1>5. ASSUME at = which, panicked, c.header = 0
      PROVE  Holding(c, which) = {}
  <2>1. Base(which) = -1 /\ bar = 5
    BY <1>1, <1>5 DEF PInv, StopInv
  <2>2. \A i \in 0 .. 5 : BaseOf(which, BarWord(c.bars[i])) = -1
    <3>1. \A i \in 0 .. 5 : i < bar => BaseOf(which, BarWord(c.bars[i])) = -1
      BY <1>1, <1>5 DEF PInv, BaseInv
    <3>2. BaseOf(which, BarWord(c.bars[5])) = -1
      BY <1>1, <2>1
    <3> QED
      BY <3>1, <3>2, <2>1
  <2>3. \A i \in 0 .. 5 : c.bars[i].addr # -1
    BY <1>1 DEF Registers
  <2> QED
    BY <1>3, <2>2, <2>3 DEF Holding
<1> QED
  BY <1>2, <1>4, <1>5

\* The variables of the probe keep to their types, the log's too.
THEOREM ProbeTypeCorrect == PciSpec => []PciTypeOK
<1>1. PInv => PciTypeOK
  BY DEF PInv, PciTypeOK, TInv, Spots
<1> QED
  BY <1>1, PInvInit, PInvStep, PTL DEF PciSpec

\* find_pci_address ends at the first of the cards looked for, in the order of
\* buses and slots, and panics only if there is none it can use (pci.c:19-56).
THEOREM ProbeFindsFirst == PciSpec => []ProbeEndsRight
BY PInvInit, PInvStep, PInvEndsRight, PTL DEF PciSpec

\* find_io_base and find_mmap_base return an address that the card has at their
\* kind of register, and panic only if it has none (pci.c:58-78).
THEOREM ProbeFindsBases == PciSpec => []BasesAreOfTheirKind
BY PInvInit, PInvStep, PInvBases, PTL DEF PciSpec

\* kernel_main uses the log as anyone does, its panics included: the promise of
\* the log and the order of its lines are kept to the end of the boot.
THEOREM BootKeepsPromise ==
  ASSUME MessagesFit
  PROVE  PciSpec => KeepsPromise /\ []LinesInOrder
<1>1. PciSpec => Spec
  BY ProbeIsLog, PTL DEF PciSpec, PciInit, Spec
<1> QED
  BY <1>1, LogKeepsPromise
=============================================================================
