-------------------------- MODULE InterruptsProofs --------------------------
(***************************************************************************)
(* First, for all words: what gdt.c and interrupts.c pack into a           *)
(* descriptor or a gate is what gdt_parse_base, gdt_parse_limit or the     *)
(* processor take out, and where it is not.                                *)
(*                                                                         *)
(* Then, for any depth of nesting and any place of the stubs: the gates    *)
(* lead to the stubs, no interrupt is taken before its handler is stored,  *)
(* the RTC handler is interrupted by no other one, each chip is set up     *)
(* when its handler is stored, every end of interrupt ends the line it is  *)
(* meant for, and a raised flag of the RTC's always reaches its handler.   *)
(***************************************************************************)
EXTENDS Interrupts, SequenceTheorems, TLAPS

----------------------------------------------------------------------------
(* Descriptors and gates.                                                  *)

\* A word is known by its bits.
LEMMA SameWord ==
  ASSUME NEW v, NEW w, NEW n \in Nat, v \in Word(n), w \in Word(n),
         \A i \in 0 .. n - 1 : i \in v <=> i \in w
  PROVE  v = w
BY DEF Word, Bits

\* The bits of a field, and of a shifted word.
LEMMA FieldBits ==
  ASSUME NEW w, NEW k \in Nat, NEW n \in Nat
  PROVE  /\ Field(w, k, n) \in Word(n)
         /\ \A i \in Int : i \in Field(w, k, n) <=> 0 <= i /\ i < n /\ i + k \in w
BY DEF Field, Word, Bits

LEMMA ShlBits ==
  ASSUME NEW w, NEW k \in Nat, NEW n \in Nat
  PROVE  /\ Shl(w, k, n) \in Word(n)
         /\ \A i \in Int : i \in Shl(w, k, n) <=> 0 <= i /\ i < n /\ i - k \in w
BY DEF Shl, Word, Bits

\* The bits of a segment's descriptor, place by place.
LEMMA DescriptorBits ==
  ASSUME NEW base \in Word(32), NEW limit \in Word(32), NEW attributes \in Word(16)
  PROVE  \A i \in Int :
           i \in create_descriptor(base, limit, attributes) <=>
             \/ 0 <= i /\ i < 16 /\ i \in limit
             \/ 16 <= i /\ i < 40 /\ i - 16 \in base
             \/ 40 <= i /\ i < 48 /\ i - 40 \in attributes
             \/ 48 <= i /\ i < 52 /\ i - 32 \in limit
             \/ 52 <= i /\ i < 56 /\ i - 44 \in attributes
             \/ 56 <= i /\ i < 64 /\ i - 32 \in base
BY SMT DEF create_descriptor, Shl, Field, Bits

\* The base that gdt_parse_base (gdt.c:10-20) reads from a descriptor is the one
\* create_descriptor (gdt.c:105-130) put into it, for every base.
THEOREM BaseSurvives ==
  ASSUME NEW base \in Word(32), NEW limit \in Word(32), NEW attributes \in Word(16)
  PROVE  gdt_parse_base(create_descriptor(base, limit, attributes)) = base
<1> DEFINE d == create_descriptor(base, limit, attributes)
<1>1. \A i \in 0 .. 31 : i \in gdt_parse_base(d) <=> i \in base
  <2> TAKE i \in 0 .. 31
  <2>1. CASE i < 24
    <3>1. i + 16 \in d <=> i \in base
      BY <2>1, DescriptorBits
    <3> HIDE DEF d
    <3> QED
      BY <3>1, <2>1 DEF gdt_parse_base, Shl, Field, Bits
  <2>2. CASE i >= 24
    <3>1. i + 32 \in d <=> i \in base
      BY <2>2, DescriptorBits
    <3> HIDE DEF d
    <3> QED
      BY <3>1, <2>2 DEF gdt_parse_base, Shl, Field, Bits
  <2> QED
    BY <2>1, <2>2
<1>2. gdt_parse_base(d) \in Word(32)
  BY DEF gdt_parse_base, Shl, Field, Bits, Word
<1> QED
  BY <1>1, <1>2, SameWord

\* Of a limit gdt_parse_limit (gdt.c:22-34) reads back the lower 20 bits: the
\* 0xffffffff of fill_gdt_vals comes back as 0xfffff.
THEOREM LimitSurvives ==
  ASSUME NEW base \in Word(32), NEW limit \in Word(32), NEW attributes \in Word(16)
  PROVE  gdt_parse_limit(create_descriptor(base, limit, attributes)) = Field(limit, 0, 20)
<1> DEFINE d == create_descriptor(base, limit, attributes)
           l == Field(limit, 0, 20)
<1>1. \A i \in 0 .. 31 : i \in gdt_parse_limit(d) <=> i \in l
  <2> TAKE i \in 0 .. 31
  <2>1. CASE i < 16
    <3>1. (i \in d <=> i \in limit) /\ (i \in l <=> i \in limit)
      BY <2>1, DescriptorBits, FieldBits
    <3> HIDE DEF d, l
    <3> QED
      BY <3>1, <2>1 DEF gdt_parse_limit, Shl, Field, Bits
  <2>2. CASE 16 <= i /\ i < 20
    <3>1. (i + 32 \in d <=> i \in limit) /\ (i \in l <=> i \in limit)
      BY <2>2, DescriptorBits, FieldBits
    <3> HIDE DEF d, l
    <3> QED
      BY <3>1, <2>2 DEF gdt_parse_limit, Shl, Field, Bits
  <2>3. CASE 20 <= i
    <3>1. i \notin l
      BY <2>3, FieldBits
    <3> HIDE DEF d, l
    <3> QED
      BY <3>1, <2>3 DEF gdt_parse_limit, Shl, Field, Bits
  <2> QED
    BY <2>1, <2>2, <2>3
<1>2. gdt_parse_limit(d) \in Word(32) /\ l \in Word(32)
  BY DEF gdt_parse_limit, Shl, Field, Bits, Word
<1> QED
  BY <1>1, <1>2, SameWord

\* Of 0x1101 << 8 (gdt.c:142, 157), meant for the granularity and the size, the
\* 16 bits of flags keep bit 8 alone: a segment computed from it ends within one
\* megabyte, in bytes and not in pages, and is one of 16 bits.
THEOREM GranularityLost ==
  ASSUME NEW access \in Word(8), NEW base \in Word(32), NEW limit \in Word(32)
  PROVE  LET d == create_descriptor(base, limit, Shl({0, 8, 12}, 8, 16) \cup access)
         IN  /\ 55 \notin d /\ 54 \notin d
             /\ SegmentLimit(d) = Field(limit, 0, 20)
<1> DEFINE attributes == Shl({0, 8, 12}, 8, 16) \cup access
           d          == create_descriptor(base, limit, attributes)
           l          == Field(limit, 0, 20)
<1>1. attributes \in Word(16) /\ 11 \notin attributes /\ 10 \notin attributes
  <2>1. \A i \in Int : i \in Shl({0, 8, 12}, 8, 16) <=> i = 8
    BY DEF Shl, Bits
  <2>2. \A i \in access : i \in Int /\ 0 <= i /\ i < 8
    BY DEF Word, Bits
  <2>3. Shl({0, 8, 12}, 8, 16) \subseteq 0 .. 15
    BY DEF Shl, Bits
  <2> DEFINE s == Shl({0, 8, 12}, 8, 16)
  <2> HIDE DEF s
  <2>4. s \cup access \subseteq 0 .. 15
    BY <2>2, <2>3 DEF s
  <2> QED
    BY <2>1, <2>2, <2>4 DEF Word, Bits, s
<1>2. /\ 55 \notin d /\ 54 \notin d
      /\ \A i \in 0 .. 15 : i \in d <=> i \in limit
      /\ \A i \in 16 .. 19 : i + 32 \in d <=> i \in limit
  <2> HIDE DEF attributes
  <2> QED
    BY <1>1, DescriptorBits
<1>3. \A i \in Int : i \in l <=> 0 <= i /\ i < 20 /\ i \in limit
  BY FieldBits
<1> HIDE DEF d, l
<1>4. \A i \in 0 .. 19 : i \in SegmentLimit(d) <=> i \in l
  BY <1>2, <1>3 DEF SegmentLimit, Shl, Field, Bits
<1>5. SegmentLimit(d) \in Word(20)
  BY <1>2 DEF SegmentLimit, Shl, Field, Bits, Word
<1>6. l \in Word(20)
  BY FieldBits DEF l
<1>7. SegmentLimit(d) = l
  BY <1>4, <1>5, <1>6, SameWord
<1> QED
  BY <1>2, <1>7 DEF d, l

\* insert_base (gdt.c:85-92) shifts the lower 24 bits by 16 as a word of 32, so
\* bits 16 to 23 of a base are lost; its test inserts 0.
THEOREM InsertBaseLoses ==
  ASSUME NEW base \in Word(32)
  PROVE  gdt_parse_base(insert_base(base)) = base \ (16 .. 23)
<1>1. \A i \in Int :
        i \in insert_base(base) <=>
          \/ 16 <= i /\ i < 32 /\ i - 16 \in base
          \/ 56 <= i /\ i < 64 /\ i - 32 \in base
  BY DEF insert_base, Shl, Field, Bits
<1> DEFINE d == insert_base(base)
<1> HIDE DEF d
<1>2. \A i \in 0 .. 31 : i \in gdt_parse_base(d) <=> i \in base \ (16 .. 23)
  <2> TAKE i \in 0 .. 31
  <2>1. i + 16 \in d <=> (i < 16 /\ i \in base) \/ 40 <= i
    <3>1. i + 16 \in d <=> (i < 16 /\ i \in base) \/ (40 <= i /\ i - 16 \in base)
      BY <1>1 DEF d
    <3> QED
      BY <3>1
  <2>2. i >= 24 => (i + 32 \in d <=> i \in base)
    BY <1>1 DEF d
  <2> QED
    BY <2>1, <2>2 DEF gdt_parse_base, Shl, Field, Bits
<1>3. gdt_parse_base(d) \in Word(32) /\ base \ (16 .. 23) \in Word(32)
  BY DEF gdt_parse_base, Shl, Field, Bits, Word
<1> QED
  BY <1>2, <1>3, SameWord DEF d

\* insert_limit (gdt.c:94-103) keeps every limit its assert lets pass.
THEOREM InsertLimitKeeps ==
  ASSUME NEW limit \in Word(20)
  PROVE  gdt_parse_limit(insert_limit(limit)) = limit
<1> DEFINE d == insert_limit(limit)
<1>1. \A i \in Int :
        i \in d <=> \/ 0 <= i /\ i < 16 /\ i \in limit
                    \/ 48 <= i /\ i < 52 /\ i - 32 \in limit
  BY DEF insert_limit, Shl, Field, Bits
<1> HIDE DEF d
<1>2. \A i \in 0 .. 31 : i \in gdt_parse_limit(d) <=> i \in limit
  <2> TAKE i \in 0 .. 31
  <2>1. /\ i < 16 => (i \in d <=> i \in limit)
        /\ 16 <= i /\ i < 20 => (i + 32 \in d <=> i \in limit)
        /\ 20 <= i => i \notin limit
    BY <1>1 DEF Word, Bits
  <2> QED
    BY <2>1 DEF gdt_parse_limit, Shl, Field, Bits
<1>3. gdt_parse_limit(d) \in Word(32) /\ limit \in Word(32)
  BY DEF gdt_parse_limit, Shl, Field, Bits, Word
<1> QED
  BY <1>2, <1>3, SameWord DEF d

Arguments ==
  [offset: Word(32), segment_selector: Word(16), gate: Word(8), dpl: Word(8), p: Word(1)]

\* The bits of a gate; a selector's upper bit would set the upper half.
LEMMA GateBits ==
  ASSUME NEW arg \in Arguments, 15 \notin arg.segment_selector
  PROVE  \A i \in Int :
           i \in generate_gd_entry(arg) <=>
             \/ 0 <= i /\ i < 16 /\ i \in arg.offset
             \/ 16 <= i /\ i < 32 /\ i - 16 \in arg.segment_selector
             \/ 40 <= i /\ i < 64 /\ i - 40 \in arg.gate
             \/ 45 <= i /\ i < 64 /\ i - 45 \in arg.dpl
             \/ 47 <= i /\ i < 64 /\ i - 47 \in arg.p
             \/ 48 <= i /\ i < 64 /\ i - 32 \in arg.offset
<1> DEFINE s == Shl(arg.segment_selector, 16, 32)
<1>1. /\ \A i \in Int : i \in s <=> 16 <= i /\ i < 32 /\ i - 16 \in arg.segment_selector
      /\ arg.segment_selector \in Word(16)
  BY ShlBits DEF Arguments, Word, Bits
<1>2. SignExtended(s) = s
  BY <1>1 DEF SignExtended
<1> HIDE DEF s
<1>3. generate_gd_entry(arg) =
        Field(arg.offset, 0, 16) \cup s \cup Shl(arg.gate, 40, 64) \cup Shl(arg.dpl, 45, 64)
          \cup Shl(arg.p, 47, 64) \cup Shl(Field(arg.offset, 16, 16), 48, 64)
  BY <1>2 DEF generate_gd_entry, s
<1>4. \A w \in {arg.offset, arg.gate, arg.dpl, arg.p} : \A i \in w : i \in Nat
  BY DEF Arguments, Word, Bits
<1> QED
  BY <1>1, <1>3, <1>4 DEF Shl, Field, Bits

\* A gate of generate_gd_entry (interrupts.c:76-90) is taken apart by the
\* processor into what it was made of, when gate and dpl have the four and two
\* bits its asserts mean and the selector is below 0x8000.
THEOREM GateDecodes ==
  ASSUME NEW arg \in Arguments, 15 \notin arg.segment_selector,
         arg.gate \in Word(4), arg.dpl \in Word(2)
  PROVE  LET g == generate_gd_entry(arg)
         IN  /\ GateOffset(g) = arg.offset
             /\ GateSelector(g) = arg.segment_selector
             /\ GateType(g) = arg.gate
             /\ GateDpl(g) = arg.dpl
             /\ GatePresent(g) <=> 0 \in arg.p
<1> DEFINE g == generate_gd_entry(arg)
<1>1. /\ arg.offset \in Word(32) /\ arg.segment_selector \in Word(16) /\ arg.p \in Word(1)
  BY DEF Arguments
<1>2. /\ \A i \in 0 .. 15 : i \in g <=> i \in arg.offset
      /\ \A i \in 0 .. 15 : i + 16 \in g <=> i \in arg.segment_selector
      /\ \A i \in 0 .. 3 : i + 40 \in g <=> i \in arg.gate
      /\ 44 \notin g
      /\ \A i \in 0 .. 1 : i + 45 \in g <=> i \in arg.dpl
      /\ 47 \in g <=> 0 \in arg.p
      /\ \A i \in 16 .. 31 : i + 32 \in g <=> i \in arg.offset
  BY <1>1, GateBits DEF Word, Bits
<1> HIDE DEF g
<1>3. GateOffset(g) = arg.offset
  <2>1. \A i \in 0 .. 31 : i \in GateOffset(g) <=> i \in arg.offset
    BY <1>2 DEF GateOffset, Shl, Field, Bits
  <2>2. GateOffset(g) \in Word(32)
    BY DEF GateOffset, Shl, Field, Bits, Word
  <2> QED
    BY <2>1, <2>2, <1>1, SameWord
<1>4. GateSelector(g) = arg.segment_selector
  BY <1>2, <1>1, FieldBits, SameWord DEF GateSelector
<1>5. GateType(g) = arg.gate
  <2>1. GateType(g) \in Word(5)
    BY FieldBits DEF GateType
  <2>2. arg.gate \in Word(5)
    BY DEF Word, Bits
  <2>3. \A i \in 0 .. 4 : i \in GateType(g) <=> i \in arg.gate
    BY <1>2 DEF GateType, Field, Word, Bits
  <2> QED
    BY <2>1, <2>2, <2>3, SameWord
<1>6. GateDpl(g) = arg.dpl
  BY <1>2, FieldBits, SameWord DEF GateDpl
<1>7. GatePresent(g) <=> 0 \in arg.p
  BY <1>2 DEF GatePresent
<1> QED
  BY <1>3, <1>4, <1>5, <1>6, <1>7 DEF g

\* The asserts (interrupts.c:77-78) let one value too many through: a dpl of 4
\* makes a gate present that is not to be.
THEOREM AcceptedTooMuch ==
  \E arg \in Arguments :
    Accepted(arg) /\ 0 \notin arg.p /\ GatePresent(generate_gd_entry(arg))
<1> DEFINE arg == [offset |-> {}, segment_selector |-> {}, gate |-> {}, dpl |-> {2}, p |-> {}]
<1>1. arg \in Arguments /\ Accepted(arg) /\ 0 \notin arg.p /\ 15 \notin arg.segment_selector
  BY DEF Arguments, Accepted, Word, Bits
<1>2. 47 \in generate_gd_entry(arg)
  <2>1. 2 \in arg.dpl
    OBVIOUS
  <2> HIDE DEF arg
  <2> QED
    BY <1>1, <2>1, GateBits
<1> QED
  BY <1>1, <1>2 DEF GatePresent

----------------------------------------------------------------------------
(* The interrupt system.                                                   *)

\* register_interrupt's stores run with interrupts disabled, no handler in
\* progress, and an unmasked interrupt without a handler is about to get it.
Registration ==
  /\ main.at \in {"init_gdt", "init_idt", "unmask", "unmask_slave", "store"} =>
       ~ enabled /\ stack = <<>>
  /\ \A q \in Irqs :
       q \notin imr /\ q \notin handlers =>
         main.at \in {"init_gdt", "init_idt"} \/ (main.at = "store" /\ main.irq = q)

\* Until its end of interrupt, the RTC handler keeps the master's cascade line
\* in service, which keeps both interrupts out.
CascadeBusy ==
  \A i \in DOMAIN stack : stack[i].irq = RTC /\ stack[i].at # "iret" => CASCADE \in isr

\* What init_gdt and init_idt have stored; nothing else stores to the tables.
TablesLoaded ==
  /\ main.at # "init_gdt" => gdt = fill_gdt_vals
  /\ main.at \notin {"init_gdt", "init_idt"} =>
       idt = [v \in Vectors |-> StubGate(INTERRUPT_MEM[v])]

Frames == [irq: Irqs, at: Places]

IInv ==
  /\ stack \in Seq(Frames)
  /\ main.irq \in Irqs
  /\ Registration
  /\ TablesLoaded
  /\ NoUnhandled
  /\ CascadeBusy
  /\ RtcHandlerRunsAlone

\* The vectors of the two interrupts, and the numbers their stubs push.
LEMMA Numbers ==
  /\ Vector(UART) = 36 /\ Vector(RTC) = 40
  /\ Vectors = {36, 40}
  /\ \A q \in Irqs : Vector(q) \in Vectors /\ PIC_remove_offset(StubNumber(Vector(q))) = q
<1>1. Vector(UART) = 36 /\ Vector(RTC) = 40
  BY DEF Vector, UART, RTC, PIC_1_OFFSET, PIC_2_OFFSET
<1>2. Vectors = {36, 40}
  BY <1>1 DEF Vectors, Irqs
<1>3. /\ PIC_remove_offset(StubNumber(36)) = UART
      /\ PIC_remove_offset(StubNumber(40)) = RTC
  BY DEF PIC_remove_offset, StubNumber, UART, RTC, PIC_1_OFFSET, PIC_2_OFFSET
<1> QED
  BY <1>1, <1>2, <1>3 DEF Irqs

\* The gate that init_idt makes, taken apart.
LEMMA StubGateDecodes ==
  ASSUME NEW offset \in Word(32)
  PROVE  LET g == StubGate(offset)
         IN  /\ GatePresent(g) /\ GateType(g) = TRAP_GATE /\ GateDpl(g) = Zero
             /\ GateSegment(g, 1) /\ GateOffset(g) = offset
<1> DEFINE arg == [offset |-> offset, segment_selector |-> {3}, gate |-> Bits(4),
                   dpl |-> Zero, p |-> One]
           g == generate_gd_entry(arg)
<1>1. /\ arg \in Arguments /\ 15 \notin arg.segment_selector
      /\ arg.gate \in Word(4) /\ arg.dpl \in Word(2) /\ 0 \in arg.p
  BY DEF Arguments, Word, Bits, Zero, One
<1>2. /\ GateOffset(g) = offset /\ GateSelector(g) = {3} /\ GateType(g) = Bits(4)
      /\ GateDpl(g) = Zero /\ GatePresent(g)
  BY <1>1, GateDecodes
<1>3. Field({3}, 3, 13) = {0}
  BY DEF Field, Bits
<1>4. StubGate(offset) = g
  BY DEF StubGate
<1> HIDE DEF g
<1>5. GateSegment(g, 1)
  BY <1>2, <1>3 DEF GateSegment
<1> QED
  BY <1>2, <1>4, <1>5 DEF TRAP_GATE

\* The segments that fill_gdt_vals loads.
LEMMA SegmentsAreFlat == IsFlatCode(fill_gdt_vals[1]) /\ IsFlatData(fill_gdt_vals[2])
<1> DEFINE base == 0 .. 15 \cup {41, 44, 47} \cup 48 .. 51 \cup {54, 55}
<1>1. fill_gdt_vals[1] = base \cup {43} /\ fill_gdt_vals[2] = base
  BY DEF fill_gdt_vals
<1>2. ASSUME NEW d, d = base \cup {43} \/ d = base
      PROVE  SegmentBase(d) = Zero /\ SegmentLimit(d) = Bits(32)
  <2>1. /\ \A i \in 0 .. 15 : i \in d
        /\ \A i \in 16 .. 39 : i \notin d
        /\ \A i \in 48 .. 51 : i \in d
        /\ 55 \in d /\ \A i \in 56 .. 63 : i \notin d
    BY <1>2
  <2> HIDE <1>2
  <2>2. SegmentBase(d) = Zero
    BY <2>1 DEF SegmentBase, Shl, Field, Bits, Zero
  <2>3. \A i \in 0 .. 31 : i \in SegmentLimit(d)
    BY <2>1 DEF SegmentLimit, Shl, Field, Bits
  <2>4. SegmentLimit(d) \subseteq 0 .. 31
    BY <2>1 DEF SegmentLimit, Shl, Field, Bits
  <2> QED
    BY <2>2, <2>3, <2>4 DEF Bits
<1> QED
  BY <1>1, <1>2 DEF IsFlatCode, IsFlatData

LEMMA GatesFromTables == TablesLoaded => GatesReachStubs
<1> SUFFICES ASSUME TablesLoaded, main.at \notin {"init_gdt", "init_idt"}
             PROVE  /\ IsFlatCode(gdt[1]) /\ IsFlatData(gdt[2])
                    /\ \A q \in Irqs :
                         LET gate == idt[Vector(q)] IN
                           /\ GatePresent(gate) /\ GateType(gate) = TRAP_GATE
                           /\ GateDpl(gate) = Zero
                           /\ GateSegment(gate, 1)
                           /\ \A v \in Vectors :
                                GateOffset(gate) = INTERRUPT_MEM[v] <=>
                                  PIC_remove_offset(StubNumber(v)) = q
  BY DEF GatesReachStubs
<1>1. IsFlatCode(gdt[1]) /\ IsFlatData(gdt[2])
  BY SegmentsAreFlat DEF TablesLoaded
<1>2. ASSUME NEW q \in Irqs
      PROVE  LET gate == idt[Vector(q)] IN
               /\ GatePresent(gate) /\ GateType(gate) = TRAP_GATE /\ GateDpl(gate) = Zero
               /\ GateSegment(gate, 1)
               /\ \A v \in Vectors : GateOffset(gate) = INTERRUPT_MEM[v] <=>
                                       PIC_remove_offset(StubNumber(v)) = q
  <2> DEFINE gate == idt[Vector(q)]
  <2>1. Vector(q) \in Vectors /\ INTERRUPT_MEM[Vector(q)] \in Word(32)
    BY Numbers, StubAssumption
  <2>2. gate = StubGate(INTERRUPT_MEM[Vector(q)])
    BY <2>1 DEF TablesLoaded
  <2>3. /\ GatePresent(gate) /\ GateType(gate) = TRAP_GATE /\ GateDpl(gate) = Zero
        /\ GateSegment(gate, 1) /\ GateOffset(gate) = INTERRUPT_MEM[Vector(q)]
    BY <2>1, <2>2, StubGateDecodes
  <2>4. \A v \in Vectors : PIC_remove_offset(StubNumber(v)) = q <=> v = Vector(q)
    BY Numbers DEF Irqs, UART, RTC
  <2> HIDE DEF gate
  <2>5. \A v \in Vectors : GateOffset(gate) = INTERRUPT_MEM[v] <=> v = Vector(q)
    BY <2>1, <2>3, StubAssumption
  <2> QED
    BY <2>3, <2>4, <2>5 DEF gate
<1> QED
  BY <1>1, <1>2

LEMMA InvInit == Init => IInv
<1> SUFFICES ASSUME Init
             PROVE  IInv
  OBVIOUS
<1>1. stack = <<>> /\ stack \in Seq(Frames)
  BY DEF Init
<1>2. main.irq \in Irqs /\ main.at = "init_gdt" /\ ~ enabled
  BY DEF Init, Irqs
<1>3. DOMAIN stack = {} /\ Len(stack) = 0
  BY <1>1
<1>4. Registration
  BY <1>1, <1>2 DEF Registration
<1>5. NoUnhandled /\ CascadeBusy /\ TablesLoaded
  BY <1>2, <1>3 DEF TablesLoaded, NoUnhandled, CascadeBusy
<1>6. RtcHandlerRunsAlone
  BY <1>3 DEF RtcHandlerRunsAlone
<1> QED
  BY <1>1, <1>2, <1>4, <1>5, <1>6 DEF IInv

\* Nothing changes but the innermost handler's place.
Moved(to) ==
  /\ stack' \in Seq(Frames)
  /\ stack # <<>> /\ stack' # <<>>
  /\ Len(stack) \in Nat \ {0}
  /\ Len(stack') = Len(stack)
  /\ \A i \in 1 .. Len(stack) : stack'[i].irq = stack[i].irq
  /\ \A i \in 1 .. Len(stack) - 1 : stack'[i].at = stack[i].at
  /\ stack'[Len(stack)].at = to

LEMMA HandlerMoves ==
  ASSUME stack \in Seq(Frames), NEW from, NEW to \in Places, Handler(from, to)
  PROVE  Moved(to)
<1> DEFINE n == Len(stack)
           f == [Top EXCEPT !.at = to]
<1>1. stack # <<>> /\ n \in Nat \ {0} /\ stack[n] \in Frames /\ Top = stack[n]
  BY DEF Handler, Top
<1>2. f \in Frames /\ f.irq = Top.irq /\ f.at = to
  BY <1>1 DEF Frames
<1>3. stack' = [stack EXCEPT ![n] = f]
  BY <1>1 DEF Handler
<1>4. stack' \in Seq(Frames) /\ Len(stack') = n /\ \A i \in 1 .. n : stack'[i] = IF i = n THEN f ELSE stack[i]
  BY <1>1, <1>2, <1>3
<1>5. stack' # <<>>
  BY <1>1, <1>4
<1> HIDE DEF f
<1>6. \A i \in 1 .. n : stack'[i].irq = stack[i].irq
  BY <1>1, <1>2, <1>4
<1>7. (\A i \in 1 .. n - 1 : stack'[i].at = stack[i].at) /\ stack'[n].at = to
  BY <1>1, <1>2, <1>4
<1> QED
  BY <1>1, <1>4, <1>5, <1>6, <1>7 DEF Moved

\* A handler's step that ends no interrupt of the master's.
LEMMA HandlerStep ==
  ASSUME IInv, NEW from, NEW to \in Places, Handler(from, to),
         from # "iret", CASCADE \in isr => CASCADE \in isr'
  PROVE  IInv'
<1>1. Moved(to)
  BY HandlerMoves DEF IInv
<1>2. UNCHANGED <<tables, imr, handlers, main>> /\ stack[Len(stack)].at = from
  BY DEF Handler, Top, tables
<1>3. DOMAIN stack = 1 .. Len(stack) /\ DOMAIN stack' = 1 .. Len(stack)
  BY <1>1 DEF Moved, IInv
<1>4. Registration' /\ TablesLoaded'
  BY <1>1, <1>2 DEF IInv, Registration, Moved, TablesLoaded, tables
<1>5. NoUnhandled'
  BY <1>1, <1>2, <1>3 DEF IInv, NoUnhandled, Moved
<1>6. RtcHandlerRunsAlone'
  BY <1>1 DEF IInv, RtcHandlerRunsAlone, Moved
<1>7. CascadeBusy'
  <2> SUFFICES ASSUME NEW i \in 1 .. Len(stack), stack'[i].irq = RTC, stack'[i].at # "iret"
               PROVE  CASCADE \in isr'
    BY <1>3 DEF CascadeBusy
  <2>1. stack[i].irq = RTC /\ stack[i].at # "iret"
    BY <1>1, <1>2 DEF Moved
  <2> QED
    BY <2>1, <1>3 DEF IInv, CascadeBusy
<1> QED
  BY <1>1, <1>2, <1>4, <1>5, <1>6, <1>7 DEF IInv, Moved

\* The end of the master's interrupt: every RTC handler is then past its own.
LEMMA MasterEOIStep == IInv /\ MasterEOI => IInv'
<1> SUFFICES ASSUME IInv, MasterEOI
             PROVE  IInv'
  OBVIOUS
<1>1. Handler("master_eoi", "iret")
  BY DEF MasterEOI
<1>2. Moved("iret")
  BY <1>1, HandlerMoves DEF IInv, Places
<1>3. UNCHANGED <<tables, imr, handlers, main>>
  BY <1>1 DEF Handler
<1>4. DOMAIN stack = 1 .. Len(stack) /\ DOMAIN stack' = 1 .. Len(stack)
  BY <1>2 DEF Moved, IInv
<1>5. Registration' /\ TablesLoaded'
  BY <1>2, <1>3 DEF IInv, Registration, Moved, TablesLoaded, tables
<1>6. NoUnhandled'
  BY <1>2, <1>3, <1>4 DEF IInv, NoUnhandled, Moved
<1>7. RtcHandlerRunsAlone'
  BY <1>2 DEF IInv, RtcHandlerRunsAlone, Moved
<1>8. CascadeBusy'
  BY <1>2, <1>4 DEF IInv, RtcHandlerRunsAlone, CascadeBusy, Moved
<1> QED
  BY <1>2, <1>3, <1>5, <1>6, <1>7, <1>8 DEF IInv, Moved

\* A step of kernel_main: no handler is in progress.
LEMMA MainStep ==
  ASSUME IInv, stack = <<>>, UNCHANGED stack, main'.irq \in Irqs, Registration', TablesLoaded'
  PROVE  IInv'
BY DEF IInv, NoUnhandled, CascadeBusy, RtcHandlerRunsAlone

\* The stub that the gate leads to pushes the number of the interrupt itself.
LEMMA TakenFrame ==
  ASSUME IInv, NEW q \in Irqs, Take(q)
  PROVE  stack' = Append(stack, [irq |-> q, at |-> "enter"])
<1>1. PICK v \in Vectors :
        /\ Reaches(q, v)
        /\ stack' = Append(stack, [irq |-> PIC_remove_offset(StubNumber(v)), at |-> "enter"])
  BY DEF Take
<1>2. GateOffset(idt[Vector(q)]) = INTERRUPT_MEM[v]
  BY <1>1 DEF Reaches
<1>3. main.at \notin {"init_gdt", "init_idt"}
  BY DEF IInv, Registration, Take, CanTake
<1>4. PIC_remove_offset(StubNumber(v)) = q
  BY <1>2, <1>3, GatesFromTables DEF IInv, GatesReachStubs
<1> QED
  BY <1>1, <1>4

LEMMA TakeStep == ASSUME IInv, NEW q \in Irqs, Take(q) PROVE IInv'
<1> DEFINE n == Len(stack)
<1>1. /\ enabled
      /\ q \notin imr
      /\ HasPriority(q)
  BY DEF Take, CanTake
<1>2. stack' = Append(stack, [irq |-> q, at |-> "enter"])
  BY TakenFrame
<1>3. [irq |-> q, at |-> "enter"] \in Frames
  BY DEF Frames, Places
<1>4. /\ stack' \in Seq(Frames)
      /\ DOMAIN stack = 1 .. n /\ DOMAIN stack' = 1 .. n + 1 /\ Len(stack') = n + 1 /\ n \in Nat
      /\ \A i \in 1 .. n : stack'[i] = stack[i]
      /\ stack'[n + 1] = [irq |-> q, at |-> "enter"]
  BY <1>2, <1>3 DEF IInv
<1>5. isr' = isr \cup {q, MasterLine(q)} /\ UNCHANGED <<tables, imr, handlers, main>>
  BY DEF Take, tables
<1>6. Registration' /\ TablesLoaded'
  <2>1. main.at \notin {"init_gdt", "init_idt", "unmask", "unmask_slave", "store"}
    BY <1>1 DEF IInv, Registration
  <2> QED
    BY <2>1, <1>5 DEF IInv, Registration, TablesLoaded, tables
<1>7. q \in handlers
  BY <1>1 DEF IInv, Registration
<1>8. NoUnhandled'
  BY <1>4, <1>5, <1>7 DEF IInv, NoUnhandled
<1>9. CascadeBusy'
  BY <1>4, <1>5 DEF IInv, CascadeBusy, MasterLine, CASCADE, RTC
<1>10. RtcHandlerRunsAlone'
  <2>1. CASCADE \notin isr
    BY <1>1 DEF HasPriority, MasterLine, CASCADE, RTC, UART, Irqs
  <2>2. \A i \in 1 .. n : stack[i].irq = RTC => stack[i].at = "iret"
    BY <2>1, <1>4 DEF IInv, CascadeBusy
  <2> QED
    BY <2>2, <1>4 DEF RtcHandlerRunsAlone
<1> QED
  BY <1>4, <1>5, <1>6, <1>8, <1>9, <1>10 DEF IInv

LEMMA IretStep == IInv /\ Iret => IInv'
<1> SUFFICES ASSUME IInv, Iret
             PROVE  IInv'
  OBVIOUS
<1> DEFINE n == Len(stack)
<1>1. stack # <<>> /\ stack' = SubSeq(stack, 1, n - 1) /\ UNCHANGED <<tables, isr, imr, handlers, main>>
  BY DEF Iret, pics, tables
<1>2. /\ stack' \in Seq(Frames)
      /\ n \in Nat \ {0}
      /\ DOMAIN stack = 1 .. n /\ DOMAIN stack' = 1 .. n - 1 /\ Len(stack') = n - 1
      /\ \A i \in 1 .. n - 1 : stack'[i] = stack[i]
  <2>1. n \in Nat \ {0} /\ DOMAIN stack = 1 .. n /\ \A i \in 1 .. n - 1 : stack[i] \in Frames
    BY <1>1 DEF IInv
  <2>2. /\ stack' \in Seq(Frames)
        /\ Len(stack') = n - 1
        /\ \A i \in 1 .. n - 1 : stack'[i] = stack[i]
    BY <1>1, <2>1, SubSeqProperties
  <2> QED
    BY <2>1, <2>2
<1>3. Registration' /\ TablesLoaded'
  BY <1>1 DEF IInv, Registration, TablesLoaded, tables
<1>4. NoUnhandled' /\ CascadeBusy' /\ RtcHandlerRunsAlone'
  BY <1>1, <1>2 DEF IInv, NoUnhandled, CascadeBusy, RtcHandlerRunsAlone
<1> QED
  BY <1>1, <1>2, <1>3, <1>4 DEF IInv

\* A write to the UART changes nothing else that an invariant is about.
LEMMA OutbChanges ==
  ASSUME NEW reg, NEW val, Outb(reg, val)
  PROVE  UNCHANGED <<imr, isr, regB>>
BY DEF Outb

LEMMA BootStep ==
  ASSUME IInv, Boot
  PROVE  IInv'
<1> USE DEF Registration, TablesLoaded, Main, Irqs, Lines, UART, RTC, CASCADE, MasterLine, pics, tables
<1>1. CASE InitIdt
  BY <1>1, MainStep DEF InitIdt, IInv
<1>2. CASE Register
  BY <1>2, MainStep DEF Register, IInv
<1>3. CASE UnmaskMaster
  BY <1>3, MainStep DEF UnmaskMaster, IInv
<1>4. CASE UnmaskSlave
  BY <1>4, MainStep DEF UnmaskSlave, IInv
<1>5. CASE StoreHandler
  BY <1>5, MainStep DEF StoreHandler, IInv
<1>6. CASE Unguard
  BY <1>6, MainStep DEF Unguard, IInv
<1>7. CASE InitGdt
  BY <1>7, MainStep DEF InitGdt, IInv
<1>8. CASE InitSerialWrite
  <2>1. UNCHANGED <<imr, enabled, gdt, idt, handlers, stack>> /\ main' = [main EXCEPT !.n = @ + 1]
    BY <1>8, OutbChanges DEF InitSerialWrite
  <2>2. stack = <<>> /\ main.at = "init_serial"
    BY <1>8 DEF InitSerialWrite
  <2>3. main'.irq = main.irq /\ main'.at = "init_serial"
    BY <2>1, <2>2, <1>8 DEF IInv
  <2> QED
    BY <2>1, <2>2, <2>3, MainStep DEF IInv
<1>9. CASE InitSerialDone
  BY <1>9, OutbChanges, MainStep DEF InitSerialDone, IInv
<1>10. CASE InitSerialFails
  BY <1>10, MainStep DEF InitSerialFails, IInv
<1>11. CASE ConfigureRtc
  BY <1>11, MainStep DEF ConfigureRtc, IInv
<1> QED
  BY <1>1, <1>2, <1>3, <1>4, <1>5, <1>6, <1>7, <1>8, <1>9, <1>10, <1>11 DEF Boot

LEMMA InvStep == IInv /\ [Next]_vars => IInv'
<1> SUFFICES ASSUME IInv, [Next]_vars
             PROVE  IInv'
  OBVIOUS
<1>1. ASSUME NEW q \in Irqs, Take(q)
      PROVE  IInv'
  BY <1>1, TakeStep
<1>2. CASE RtcPeriod \/ UartEmpty \/ UNCHANGED vars
  BY <1>2 DEF RtcPeriod, UartEmpty, vars, IInv, Registration, TablesLoaded, tables, NoUnhandled,
              CascadeBusy, RtcHandlerRunsAlone
<1>3. \A q : EOI(q) \in Places
  BY DEF EOI, Places
<1>4. CASE Enter
  BY <1>4, <1>3, HandlerStep DEF Enter, Places
<1>5. CASE GetTick
  BY <1>5, HandlerStep DEF GetTick, Places
<1>6. CASE Ack
  BY <1>6, <1>3, HandlerStep DEF Ack
<1>7. CASE SlaveEOI
  BY <1>7, HandlerStep DEF SlaveEOI, Places, CASCADE, RTC
<1>8. CASE MasterEOI
  BY <1>8, MasterEOIStep
<1>9. CASE Iret
  BY <1>9, IretStep
<1>10. CASE Boot
  BY <1>10, BootStep
<1>11. CASE Guard
  BY <1>11, MainStep DEF Guard, Main, IInv, Registration, TablesLoaded, tables, pics
<1>12. CASE Putchar
  BY <1>12, OutbChanges, MainStep DEF Putchar, Main, IInv, Registration, TablesLoaded, tables
<1> QED
  BY <1>1, <1>2, <1>4, <1>5, <1>6, <1>7, <1>8, <1>9, <1>10, <1>11, <1>12 DEF Next, Boot

----------------------------------------------------------------------------
(* The drivers' chips, and the types.                                      *)

Early == {"init_gdt", "init_idt", "init_serial"}

MainPlaces ==
  Early \cup {"configure_rtc", "register", "unmask", "unmask_slave", "store", "unguard", "run",
              "panic"}

Chips ==
  [dlab: BOOLEAN, wasOpen: BOOLEAN, lo: 0 .. 255, hi: 0 .. 255, ier: 0 .. 255, mcr: 0 .. 255]

SerialReady ==
  /\ ~ chip.dlab /\ chip.lo = 3 /\ chip.hi = 0 /\ chip.mcr = 15
  /\ ~ chip.wasOpen => chip.ier = 2

\* After n of init_serial's writes: the latch is open from the second to the
\* fifth, and so the 0 of the fourth is the divisor's, as is the 2 of the first
\* if firmware had opened it before.
ChipAfter(n) ==
  /\ chip.dlab <=> n \in 2 .. 4 \/ (n < 2 /\ chip.wasOpen)
  /\ (n \in 1 .. 3 /\ chip.wasOpen) \/ chip.hi = 0
  /\ n >= 1 => chip.wasOpen \/ chip.ier = 2
  /\ n >= 3 => chip.lo = 3

\* How far kernel_main has come with each chip.
DriversInv ==
  /\ main.at \in Early => main.irq = UART /\ ChipAfter(main.n)
  /\ main.at \in {"init_gdt", "init_idt"} => main.n = 0
  /\ main.at \in Early \cup {"panic"} => handlers = {}
  /\ main.at \notin Early \cup {"panic"} => SerialReady
  /\ main.irq = UART => RTC \notin handlers
  /\ main.at = "configure_rtc" => main.irq = RTC
  /\ main.at \in {"configure_rtc", "register"} => RTC \notin handlers
  /\ main.irq = RTC /\ main.at = "register" => regB = {"24h", "binary"}
  /\ main.irq = RTC /\ main.at \in {"unmask", "unmask_slave", "store", "unguard", "run"} =>
       regB = {"periodic", "24h", "binary"}

DInv == TypeOK /\ DriversInv

LEMMA TableTypes ==
  /\ fill_gdt_vals \in [0 .. 2 -> Word(64)]
  /\ [v \in Vectors |-> StubGate(INTERRUPT_MEM[v])] \in [Vectors -> Word(64)]
<1>1. fill_gdt_vals \in [0 .. 2 -> Word(64)]
  BY DEF fill_gdt_vals, Word, Bits, Zero
<1>2. ASSUME NEW offset
      PROVE  StubGate(offset) \in Word(64)
  BY DEF StubGate, generate_gd_entry, SignExtended, Shl, Field, Bits, Word, One, Zero
<1> QED
  BY <1>1, <1>2

LEMMA RaisedFlags == Raised \subseteq flags
BY DEF Raised

LEMMA LatchType ==
  ASSUME irr \subseteq Irqs, flags' \subseteq Irqs, Latch
  PROVE  irr' \subseteq Irqs
<1>1. Raised' \subseteq flags'
  BY DEF Raised
<1> QED
  BY <1>1 DEF Latch

LEMMA OutbTypes ==
  ASSUME TypeOK, NEW reg, NEW val \in 0 .. 255, Outb(reg, val)
  PROVE  chip' \in Chips /\ flags' \subseteq Irqs /\ irr' \subseteq Irqs
<1>1. chip \in Chips /\ flags \subseteq Irqs /\ irr \subseteq Irqs
  BY DEF TypeOK, Chips
<1>2. Bit(val, 7) \in BOOLEAN
  BY DEF Bit
<1>3. chip' \in Chips
  <2>1. chip' \in {[chip EXCEPT !.hi = val], [chip EXCEPT !.ier = val], [chip EXCEPT !.lo = val],
                   [chip EXCEPT !.dlab = Bit(val, 7)], [chip EXCEPT !.mcr = val], chip}
    BY DEF Outb
  <2>2. [chip EXCEPT !.hi = val] \in Chips /\ [chip EXCEPT !.ier = val] \in Chips
    BY <1>1 DEF Chips
  <2>3. [chip EXCEPT !.lo = val] \in Chips /\ [chip EXCEPT !.mcr = val] \in Chips
    BY <1>1 DEF Chips
  <2>4. [chip EXCEPT !.dlab = Bit(val, 7)] \in Chips
    BY <1>1, <1>2 DEF Chips
  <2> QED
    BY <1>1, <2>1, <2>2, <2>3, <2>4
<1>4. flags' \subseteq Irqs
  BY <1>1 DEF Outb
<1> QED
  BY <1>1, <1>3, <1>4, LatchType DEF Outb

\* What each write of init_serial's does.
LEMMA WriteEffect ==
  ASSUME NEW k \in 0 .. 8, chip \in Chips, ChipAfter(k),
         Outb(SerialWrites[k + 1][1], SerialWrites[k + 1][2])
  PROVE  ChipAfter(k + 1)'
<1> USE DEF Outb, SerialWrites, ChipAfter, Chips
<1>1. Bit(128, 7) = TRUE /\ Bit(3, 7) = FALSE
  BY DEF Bit
<1>2. CASE k = 0
  BY <1>2
<1>3. CASE k = 1
  BY <1>1, <1>3
<1>4. CASE k = 2
  BY <1>4
<1>5. CASE k = 3
  BY <1>5
<1>6. CASE k = 4
  BY <1>1, <1>6
<1>7. CASE k = 5
  BY <1>7
<1>8. CASE k = 6
  BY <1>8
<1>9. CASE k = 7
  BY <1>9
<1>10. CASE k = 8
  BY <1>10
<1> HIDE DEF Outb, SerialWrites, ChipAfter, Chips
<1>11. k \in {0, 1, 2, 3, 4, 5, 6, 7, 8}
  OBVIOUS
<1> QED
  BY <1>2, <1>3, <1>4, <1>5, <1>6, <1>7, <1>8, <1>9, <1>10, <1>11

LEMMA NineWrites == Len(SerialWrites) = 9
BY DEF SerialWrites

LEMMA WritesAreBytes == \A k \in 0 .. 8 : SerialWrites[k + 1][2] \in 0 .. 255
BY DEF SerialWrites

LEMMA DriversInit == Init => DInv
<1> SUFFICES ASSUME Init
             PROVE  DInv
  OBVIOUS
<1>1. /\ gdt \in [0 .. 2 -> Word(64)]
      /\ idt \in [Vectors -> Word(64)]
  <2>1. Zero \in Word(64)
    BY DEF Word, Zero
  <2> QED
    BY <2>1 DEF Init
<1>2. /\ chip \in Chips
      /\ chip.dlab = chip.wasOpen /\ chip.hi = 0
  <2>1. /\ chip \in [dlab: BOOLEAN, wasOpen: BOOLEAN,
                     lo: {12}, hi: {0}, ier: {0, 2}, mcr: {0, 11}]
        /\ chip.dlab = chip.wasOpen
    BY DEF Init
  <2>2. PICK d \in BOOLEAN, o \in BOOLEAN, e \in {0, 2}, m \in {0, 11} :
          chip = [dlab |-> d, wasOpen |-> o, lo |-> 12, hi |-> 0, ier |-> e, mcr |-> m]
    BY <2>1
  <2>3. e \in 0 .. 255 /\ m \in 0 .. 255 /\ 12 \in 0 .. 255 /\ 0 \in 0 .. 255
    OBVIOUS
  <2> QED
    BY <2>1, <2>2, <2>3 DEF Chips
<1>3. /\ main = [at |-> "init_gdt", irq |-> UART, n |-> 0]
      /\ main.n \in 0 .. Len(SerialWrites)
  BY NineWrites DEF Init
<1>4. stack \in Seq([irq: Irqs, at: Places]) /\ Len(stack) <= MaxDepth
  BY DepthAssumption DEF Init
<1>5. main \in [at: MainPlaces, irq: Irqs, n: 0 .. Len(SerialWrites)]
  BY <1>3 DEF MainPlaces, Early, Irqs
<1>6. /\ enabled \in BOOLEAN /\ imr \subseteq Lines /\ irr \subseteq Irqs /\ isr \subseteq Lines
      /\ flags \subseteq Irqs /\ regB \subseteq {"periodic", "24h", "binary"}
      /\ handlers = {}
  BY DEF Init
<1>7. TypeOK
  BY <1>1, <1>2, <1>4, <1>5, <1>6 DEF TypeOK, Chips, MainPlaces, Early
<1>8. DriversInv
  <2>1. main.at = "init_gdt" /\ main.irq = UART /\ main.n = 0
    BY <1>3
  <2> QED
    BY <1>2, <1>6, <2>1 DEF DriversInv, ChipAfter, Early, UART, RTC
<1> QED
  BY <1>7, <1>8 DEF DInv

LEMMA DriversUntouched ==
  ASSUME DInv, UNCHANGED <<chip, regB, handlers, main>>
  PROVE  DriversInv'
BY DEF DInv, DriversInv, SerialReady, ChipAfter

LEMMA TakeTypes ==
  ASSUME DInv, IInv', NEW q \in Irqs, Take(q)
  PROVE  DInv'
<1>1. UNCHANGED <<gdt, idt, imr, flags, regB, chip, handlers, main>>
  BY DEF Take, tables, devices
<1>2. enabled' \in BOOLEAN /\ irr' \subseteq Irqs /\ isr' \subseteq Lines
  BY DEF Take, DInv, TypeOK, MasterLine, Lines, Irqs
<1>3. stack' \in Seq([irq: Irqs, at: Places])
  BY DEF IInv, Frames
<1>4. Len(stack') <= MaxDepth
  <2>1. PICK f : stack' = Append(stack, f)
    BY DEF Take
  <2>2. Len(stack') = Len(stack) + 1
    BY <2>1 DEF DInv, TypeOK
  <2>3. Len(stack) < MaxDepth /\ Len(stack) \in Nat
    BY DEF Take, CanTake, DInv, TypeOK
  <2> QED
    BY <2>2, <2>3, DepthAssumption
<1>5. TypeOK'
  BY <1>1, <1>2, <1>3, <1>4 DEF DInv, TypeOK
<1> QED
  BY <1>1, <1>5, DriversUntouched DEF DInv

LEMMA DeviceTypes ==
  ASSUME DInv, RtcPeriod \/ UartEmpty
  PROVE  DInv'
<1>1. UNCHANGED <<enabled, tables, imr, isr, regB, chip, handlers, main, stack>> /\ Latch
  BY DEF RtcPeriod, UartEmpty
<1>2. flags' \subseteq Irqs
  BY DEF RtcPeriod, UartEmpty, DInv, TypeOK, Irqs
<1>3. irr' \subseteq Irqs
  BY <1>1, <1>2, LatchType DEF DInv, TypeOK
<1>4. TypeOK'
  BY <1>1, <1>2, <1>3 DEF DInv, TypeOK, tables
<1> QED
  BY <1>1, <1>4, DriversUntouched DEF DInv

LEMMA HandleTypes ==
  ASSUME DInv, IInv, IInv', Handle
  PROVE  DInv'
<1>1. UNCHANGED <<gdt, idt, imr, irr, regB, chip, handlers, main>>
  BY DEF Handle, Enter, GetTick, Ack, SlaveEOI, MasterEOI, Iret, Handler, tables, devices, pics
<1>2. flags' \subseteq Irqs /\ isr' \subseteq Lines
  BY DEF Handle, Enter, GetTick, Ack, SlaveEOI, MasterEOI, Iret, devices, pics, DInv, TypeOK
<1>3. enabled' \in BOOLEAN
  <2>1. enabled \in BOOLEAN
    BY DEF DInv, TypeOK
  <2> QED
    BY <2>1 DEF Handle, Enter, GetTick, Ack, SlaveEOI, MasterEOI, Iret
<1>4. stack' \in Seq([irq: Irqs, at: Places])
  BY DEF IInv, Frames
<1>5. Len(stack') <= Len(stack)
  <2>1. CASE Iret
    <3>1. stack' = SubSeq(stack, 1, Len(stack) - 1) /\ stack # <<>>
      BY <2>1 DEF Iret
    <3>2. Len(stack) \in Nat \ {0}
      BY <3>1 DEF DInv, TypeOK
    <3> QED
      BY <3>1, <3>2, SubSeqProperties DEF DInv, TypeOK
  <2>2. CASE ~ Iret
    <3>1. PICK to : stack' = [stack EXCEPT ![Len(stack)].at = to]
      BY <2>2 DEF Handle, Enter, GetTick, Ack, SlaveEOI, MasterEOI, Handler
    <3> QED
      BY <3>1 DEF DInv, TypeOK
  <2> QED
    BY <2>1, <2>2
<1>6. Len(stack') <= MaxDepth
  BY <1>4, <1>5, DepthAssumption DEF DInv, TypeOK
<1>7. TypeOK'
  BY <1>1, <1>2, <1>3, <1>4, <1>6 DEF DInv, TypeOK
<1> QED
  BY <1>1, <1>7, DriversUntouched DEF DInv

\* kernel_main goes from one place to another.
LEMMA MainMoves ==
  ASSUME TypeOK, NEW from, NEW to \in MainPlaces, Main(from, to)
  PROVE  /\ main.at = from /\ main'.at = to /\ main'.irq = main.irq /\ main'.n = main.n
         /\ main' \in [at: MainPlaces, irq: Irqs, n: 0 .. Len(SerialWrites)]
         /\ stack = <<>> /\ stack' = stack
BY DEF Main, TypeOK, MainPlaces, Early

LEMMA MainTypes ==
  ASSUME DInv, Boot \/ Guard \/ Putchar
  PROVE  DInv'
<1> USE DEF DInv
<1>1. CASE InitGdt
  <2>1. main.at = "init_gdt" /\ main'.at = "init_idt" /\ main'.irq = main.irq /\ main'.n = main.n
    BY <1>1, MainMoves DEF InitGdt, MainPlaces, Early
  <2>2. TypeOK'
    BY <1>1, MainMoves, TableTypes
    DEF InitGdt, TypeOK, MainPlaces, Early, pics, devices
  <2> QED
    BY <1>1, <2>1, <2>2 DEF InitGdt, DriversInv, ChipAfter, Early, devices
<1>2. CASE InitIdt
  <2>1. main.at = "init_idt" /\ main'.at = "init_serial" /\ main'.irq = main.irq /\ main'.n = main.n
    BY <1>2, MainMoves DEF InitIdt, MainPlaces, Early
  <2>2. TypeOK'
    BY <1>2, MainMoves, TableTypes DEF InitIdt, TypeOK, MainPlaces, Early, devices
  <2> QED
    BY <1>2, <2>1, <2>2 DEF InitIdt, DriversInv, ChipAfter, Early, devices
<1>3. CASE InitSerialWrite
  <2> DEFINE w == SerialWrites[main.n + 1]
  <2>1. /\ main.at = "init_serial" /\ main.n \in 0 .. 8 /\ Outb(w[1], w[2])
        /\ main' = [main EXCEPT !.n = @ + 1]
        /\ UNCHANGED <<enabled, gdt, idt, handlers, stack>>
    <3>1. main.n \in 0 .. Len(SerialWrites)
      BY DEF TypeOK
    <3>2. /\ main.at = "init_serial" /\ main.n < Len(SerialWrites) /\ Outb(w[1], w[2])
          /\ main' = [main EXCEPT !.n = @ + 1]
          /\ UNCHANGED <<enabled, gdt, idt, handlers, stack>>
      BY <1>3 DEF InitSerialWrite, tables
    <3>3. main.n \in 0 .. 8
      BY <3>1, <3>2, NineWrites
    <3> QED
      BY <3>2, <3>3
  <2>2. main'.at = "init_serial" /\ main'.irq = main.irq /\ main'.n = main.n + 1
    BY <2>1 DEF TypeOK
  <2>3. chip' \in Chips /\ flags' \subseteq Irqs /\ irr' \subseteq Irqs
    BY <2>1, WritesAreBytes, OutbTypes
  <2>4. main' \in [at: MainPlaces, irq: Irqs, n: 0 .. Len(SerialWrites)]
    <3>1. main \in [at: MainPlaces, irq: Irqs, n: 0 .. Len(SerialWrites)]
      BY DEF TypeOK, MainPlaces, Early
    <3>2. main.n + 1 \in 0 .. Len(SerialWrites)
      BY <2>1, NineWrites
    <3> QED
      BY <2>1, <3>1, <3>2
  <2>5. TypeOK'
    BY <2>1, <2>3, <2>4, OutbChanges DEF TypeOK, Chips, MainPlaces, Early
  <2>6. ASSUME NEW k \in 0 .. 8, k = main.n
        PROVE  ChipAfter(k + 1)'
    <3>1. ChipAfter(k) /\ chip \in Chips
      BY <2>1, <2>6 DEF DriversInv, TypeOK, Chips, Early
    <3> QED
      BY <2>1, <2>6, <3>1, WriteEffect
  <2>7. ChipAfter(main.n)'
    BY <2>1, <2>2, <2>6 DEF ChipAfter
  <2> QED
    BY <2>1, <2>2, <2>5, <2>7 DEF DriversInv, Outb, Early
<1>4. CASE InitSerialDone
  <2>1. /\ main.at = "init_serial" /\ main.n = 9 /\ Outb("MCR", 15)
        /\ main'.at = "register" /\ main'.irq = main.irq
        /\ main' \in [at: MainPlaces, irq: Irqs, n: 0 .. Len(SerialWrites)]
        /\ UNCHANGED <<enabled, gdt, idt, handlers, stack>>
    BY <1>4, MainMoves, NineWrites DEF InitSerialDone, tables, MainPlaces
  <2>2. chip' \in Chips /\ flags' \subseteq Irqs /\ irr' \subseteq Irqs
    BY <2>1, OutbTypes
  <2>3. TypeOK'
    BY <2>1, <2>2, OutbChanges DEF TypeOK, Chips, MainPlaces, Early
  <2>4. SerialReady'
    <3>1. /\ chip \in Chips /\ ~ chip.dlab /\ chip.hi = 0 /\ chip.lo = 3
          /\ chip.wasOpen \/ chip.ier = 2
      BY <2>1 DEF DriversInv, ChipAfter, TypeOK, Chips, Early
    <3>2. chip' = [chip EXCEPT !.mcr = 15]
      BY <2>1 DEF Outb
    <3>3. /\ chip'.dlab = chip.dlab /\ chip'.wasOpen = chip.wasOpen
          /\ chip'.lo = 3 /\ chip'.hi = 0 /\ chip'.ier = chip.ier /\ chip'.mcr = 15
      BY <3>1, <3>2 DEF Chips
    <3> QED
      BY <3>1, <3>3 DEF SerialReady
  <2>5. main.irq = UART /\ handlers = {}
    BY <2>1 DEF DriversInv, Early
  <2> QED
    BY <2>1, <2>3, <2>4, <2>5 DEF DriversInv, Early, UART, RTC
<1>5. CASE InitSerialFails
  <2>1. main.at = "init_serial" /\ main'.at = "panic" /\ main'.irq = main.irq
    BY <1>5, MainMoves DEF InitSerialFails, MainPlaces
  <2>2. /\ main' \in [at: MainPlaces, irq: Irqs, n: 0 .. Len(SerialWrites)]
        /\ UNCHANGED <<enabled, gdt, idt, imr, irr, isr, flags, regB, chip, handlers, stack>>
    BY <1>5, MainMoves DEF InitSerialFails, MainPlaces, tables, pics, devices
  <2>3. TypeOK'
    BY <2>2 DEF TypeOK, MainPlaces, Early
  <2> QED
    BY <2>1, <2>2, <2>3 DEF DriversInv, Early
<1>6. CASE ConfigureRtc
  <2>1. /\ main.at = "configure_rtc" /\ main'.at = "register" /\ main'.irq = main.irq
        /\ main' \in [at: MainPlaces, irq: Irqs, n: 0 .. Len(SerialWrites)]
        /\ UNCHANGED <<enabled, gdt, idt, imr, isr, flags, chip, handlers, stack>>
        /\ Latch /\ regB' = {"24h", "binary"}
    BY <1>6, MainMoves DEF ConfigureRtc, MainPlaces, tables
  <2>2. irr' \subseteq Irqs
    BY <2>1, LatchType DEF TypeOK
  <2>3. TypeOK'
    BY <2>1, <2>2 DEF TypeOK, MainPlaces, Early
  <2> QED
    BY <2>1, <2>3 DEF DriversInv, SerialReady, Early
<1>7. CASE Register
  <2>1. /\ main.at = "register" /\ main'.at = "unmask" /\ main'.irq = main.irq
        /\ main' \in [at: MainPlaces, irq: Irqs, n: 0 .. Len(SerialWrites)]
        /\ UNCHANGED <<gdt, idt, imr, isr, flags, chip, handlers, stack>>
        /\ Latch /\ enabled' = FALSE
        /\ regB' = IF main.irq = RTC THEN regB \cup {"periodic"} ELSE regB
    BY <1>7, MainMoves DEF Register, MainPlaces, tables
  <2>2. irr' \subseteq Irqs
    BY <2>1, LatchType DEF TypeOK
  <2>3. TypeOK'
    BY <2>1, <2>2 DEF TypeOK, MainPlaces, Early
  <2> QED
    BY <2>1, <2>3 DEF DriversInv, SerialReady, Early
<1>8. CASE UnmaskMaster \/ UnmaskSlave \/ StoreHandler \/ Guard
  <2>1. /\ main.at \in {"unmask", "unmask_slave", "store", "run"}
        /\ main'.at \in {"unmask_slave", "store", "unguard"} /\ main'.irq = main.irq
        /\ main' \in [at: MainPlaces, irq: Irqs, n: 0 .. Len(SerialWrites)]
        /\ UNCHANGED <<gdt, idt, irr, isr, flags, regB, chip, stack>>
    BY <1>8, MainMoves
    DEF UnmaskMaster, UnmaskSlave, StoreHandler, Guard, MainPlaces, tables, pics, devices
  <2>2. enabled' \in BOOLEAN /\ imr' \subseteq Lines
    BY <1>8 DEF UnmaskMaster, UnmaskSlave, StoreHandler, Guard, TypeOK, pics
  <2>3. handlers' = handlers \/ handlers' = handlers \cup {main.irq}
    BY <1>8 DEF UnmaskMaster, UnmaskSlave, StoreHandler, Guard
  <2>4. TypeOK'
    BY <2>1, <2>2, <2>3 DEF TypeOK, MainPlaces, Early
  <2> QED
    BY <2>1, <2>3, <2>4 DEF DriversInv, SerialReady, Early, UART, RTC
<1>9. CASE Unguard
  <2>1. /\ main.at = "unguard" /\ enabled' = TRUE
        /\ main' = IF main.irq = UART /\ RTC \notin handlers
                   THEN [main EXCEPT !.at = "configure_rtc", !.irq = RTC]
                   ELSE [main EXCEPT !.at = "run"]
        /\ UNCHANGED <<gdt, idt, imr, irr, isr, flags, regB, chip, handlers, stack>>
    BY <1>9 DEF Unguard, tables, pics, devices
  <2>2. \/ main.irq = UART /\ main'.at = "configure_rtc" /\ main'.irq = RTC /\ RTC \notin handlers
        \/ main.irq = RTC /\ main'.at = "run" /\ main'.irq = RTC
    BY <2>1 DEF TypeOK, DriversInv, Irqs
  <2>3. main' \in [at: MainPlaces, irq: Irqs, n: 0 .. Len(SerialWrites)]
    BY <2>1 DEF TypeOK, MainPlaces, Early, Irqs
  <2>4. TypeOK'
    BY <2>1, <2>3 DEF TypeOK, MainPlaces, Early
  <2> QED
    BY <2>1, <2>2, <2>4 DEF DriversInv, SerialReady, Early, UART, RTC
<1>10. CASE Putchar
  <2>1. /\ main.at = "run" /\ main'.at = "run" /\ main'.irq = main.irq /\ Outb("DATA", 0)
        /\ main' \in [at: MainPlaces, irq: Irqs, n: 0 .. Len(SerialWrites)]
        /\ UNCHANGED <<enabled, gdt, idt, handlers, stack>>
    BY <1>10, MainMoves DEF Putchar, tables, MainPlaces
  <2>2. chip' \in Chips /\ flags' \subseteq Irqs /\ irr' \subseteq Irqs
    BY <2>1, OutbTypes
  <2>3. TypeOK'
    BY <2>1, <2>2, OutbChanges DEF TypeOK, Chips, MainPlaces, Early
  <2>4. SerialReady /\ chip' = chip
    BY <2>1 DEF DriversInv, SerialReady, Outb, Early
  <2> QED
    BY <2>1, <2>3, <2>4 DEF DriversInv, SerialReady, Early, Outb
<1> QED
  BY <1>1, <1>2, <1>3, <1>4, <1>5, <1>6, <1>7, <1>8, <1>9, <1>10 DEF Boot

LEMMA DriversStep == DInv /\ IInv /\ IInv' /\ [Next]_vars => DInv'
<1> SUFFICES ASSUME DInv, IInv, IInv', [Next]_vars
             PROVE  DInv'
  OBVIOUS
<1>1. CASE \E q \in Irqs : Take(q)
  BY <1>1, TakeTypes
<1>2. CASE RtcPeriod \/ UartEmpty
  BY <1>2, DeviceTypes
<1>3. CASE Handle
  BY <1>3, HandleTypes
<1>4. CASE Boot \/ Guard \/ Putchar
  BY <1>4, MainTypes
<1>5. CASE UNCHANGED vars
  BY <1>5 DEF vars, DInv, TypeOK, DriversInv, SerialReady, ChipAfter
<1> QED
  BY <1>1, <1>2, <1>3, <1>4, <1>5 DEF Next, Handle, Boot

----------------------------------------------------------------------------
(* Ends of interrupt.                                                      *)

\* A handler whose end of interrupt is not over is the only one of its kind.
OneOfEach ==
  \A i, j \in 1 .. Len(stack) : i < j /\ stack[i].irq = stack[j].irq => stack[i].at = "iret"

\* Only the RTC handler goes through its own places.
OwnPlaces ==
  \A i \in 1 .. Len(stack) :
    stack[i].at \in {"guarded", "ack", "slave_eoi"} => stack[i].irq = RTC

\* EOIEndsItsOwn, a line at a time.
ServiceInv ==
  /\ isr \subseteq Lines
  /\ UART \in isr <=>
       \E i \in 1 .. Len(stack) : stack[i].irq = UART /\ stack[i].at # "iret"
  /\ CASCADE \in isr <=>
       \E i \in 1 .. Len(stack) : stack[i].irq = RTC /\ stack[i].at # "iret"
  /\ RTC \in isr <=>
       \E i \in 1 .. Len(stack) :
         stack[i].irq = RTC /\ stack[i].at \notin {"iret", "master_eoi"}

EInv == OneOfEach /\ OwnPlaces /\ ServiceInv

LEMMA ServiceEnds ==
  ASSUME ServiceInv, stack \in Seq(Frames)
  PROVE  EOIEndsItsOwn
<1>1. DOMAIN stack = 1 .. Len(stack) /\ \A i \in 1 .. Len(stack) : stack[i] \in Frames
  OBVIOUS
<1>2. ASSUME NEW f \in Frames
      PROVE  /\ InService(f) \subseteq Lines
             /\ UART \in InService(f) <=> f.irq = UART /\ f.at # "iret"
             /\ CASCADE \in InService(f) <=> f.irq = RTC /\ f.at # "iret"
             /\ RTC \in InService(f) <=> f.irq = RTC /\ f.at \notin {"iret", "master_eoi"}
  <2>1. f.irq = UART \/ f.irq = RTC
    BY DEF Frames, Irqs
  <2> QED
    BY <2>1 DEF InService, MasterLine, Lines, UART, RTC, CASCADE
<1>3. ASSUME NEW x \in Lines
      PROVE  x \in isr <=> \E i \in DOMAIN stack : x \in InService(stack[i])
  BY <1>1, <1>2, <1>3 DEF ServiceInv, Lines
<1>4. \A i \in DOMAIN stack : InService(stack[i]) \subseteq Lines
  BY <1>1, <1>2
<1> QED
  BY <1>3, <1>4 DEF ServiceInv, EOIEndsItsOwn

LEMMA EndsInit == Init => EInv
<1> SUFFICES ASSUME Init
             PROVE  EInv
  OBVIOUS
<1>1. Len(stack) = 0 /\ isr = {}
  BY DEF Init
<1>2. 1 .. Len(stack) = {}
  BY <1>1
<1> QED
  BY <1>1, <1>2 DEF EInv, OneOfEach, OwnPlaces, ServiceInv

\* A handler moves on without an end of interrupt.
LEMMA EndsKept ==
  ASSUME EInv, NEW to, Moved(to), UNCHANGED isr,
         to # "iret" /\ stack[Len(stack)].at # "iret",
         stack[Len(stack)].irq = RTC =>
           to # "master_eoi" /\ stack[Len(stack)].at # "master_eoi",
         to \in {"guarded", "ack", "slave_eoi"} => stack[Len(stack)].irq = RTC
  PROVE  EInv'
<1> DEFINE n == Len(stack)
<1>1. /\ n \in Nat \ {0} /\ Len(stack') = n
      /\ \A i \in 1 .. n : stack'[i].irq = stack[i].irq
      /\ \A i \in 1 .. n : i = n \/ stack'[i].at = stack[i].at
      /\ stack'[n].at = to
  BY DEF Moved
<1>2. \A i \in 1 .. n : stack'[i].at = "iret" <=> stack[i].at = "iret"
  BY <1>1
<1>3. \A i \in 1 .. n : stack[i].irq = RTC =>
        (stack'[i].at \in {"iret", "master_eoi"} <=> stack[i].at \in {"iret", "master_eoi"})
  BY <1>1
<1>4. OneOfEach'
  BY <1>1, <1>2 DEF EInv, OneOfEach
<1>5. OwnPlaces'
  BY <1>1 DEF EInv, OwnPlaces
<1>6. ServiceInv'
  BY <1>1, <1>2, <1>3 DEF EInv, ServiceInv
<1> QED
  BY <1>4, <1>5, <1>6 DEF EInv

LEMMA SlaveEOIEnds ==
  ASSUME IInv, EInv, SlaveEOI
  PROVE  EInv'
<1> DEFINE n == Len(stack)
<1>1. Moved("master_eoi") /\ stack[n].at = "slave_eoi" /\ isr' = isr \ {RTC}
  BY HandlerMoves DEF SlaveEOI, Handler, Top, IInv, Places
<1>2. /\ n \in Nat \ {0} /\ Len(stack') = n
      /\ \A i \in 1 .. n : stack'[i].irq = stack[i].irq
      /\ \A i \in 1 .. n : i = n \/ stack'[i].at = stack[i].at
      /\ stack'[n].at = "master_eoi"
  BY <1>1 DEF Moved
<1>3. stack[n].irq = RTC
  BY <1>1, <1>2 DEF EInv, OwnPlaces
<1>4. \A i \in 1 .. n : i # n /\ stack[i].irq = RTC => stack[i].at = "iret"
  BY <1>2, <1>3 DEF EInv, OneOfEach
<1>5. \A i \in 1 .. n : stack'[i].at = "iret" <=> stack[i].at = "iret"
  BY <1>1, <1>2
<1>6. OneOfEach' /\ OwnPlaces'
  BY <1>2, <1>5 DEF EInv, OneOfEach, OwnPlaces
<1>7. ServiceInv'
  <2>1. isr' \subseteq Lines /\ RTC \notin isr' /\ (UART \in isr' <=> UART \in isr)
                             /\ (CASCADE \in isr' <=> CASCADE \in isr)
    BY <1>1 DEF EInv, ServiceInv, RTC, UART, CASCADE
  <2>2. \A i \in 1 .. n : stack'[i].irq = RTC => stack'[i].at \in {"iret", "master_eoi"}
    BY <1>2, <1>4
  <2> QED
    BY <1>2, <1>5, <2>1, <2>2 DEF EInv, ServiceInv
<1> QED
  BY <1>6, <1>7 DEF EInv

\* The end of interrupt takes out the line of the highest priority, and that is
\* the sender's.
LEMMA MasterEOIEnds ==
  ASSUME IInv, EInv, MasterEOI
  PROVE  EInv'
<1> DEFINE n == Len(stack)
<1>1. /\ Moved("iret") /\ stack[n].at = "master_eoi"
      /\ isr' = isr \ {i \in isr \ {RTC} : \A j \in isr \ {RTC} : i <= j}
  BY HandlerMoves DEF MasterEOI, Handler, Top, IInv, Places
<1>2. /\ n \in Nat \ {0} /\ Len(stack') = n
      /\ \A i \in 1 .. n : stack'[i].irq = stack[i].irq
      /\ \A i \in 1 .. n : i = n \/ stack'[i].at = stack[i].at
      /\ stack'[n].at = "iret"
      /\ \A i \in 1 .. n : stack[i] \in Frames
  BY <1>1 DEF Moved, IInv
<1>3. \A i \in 1 .. n : i # n /\ stack[i].irq = RTC => stack[i].at = "iret"
  BY <1>2 DEF IInv, RtcHandlerRunsAlone
<1>4. OneOfEach'
  BY <1>2 DEF EInv, OneOfEach
<1>5. OwnPlaces'
  BY <1>2 DEF EInv, OwnPlaces
<1>6. RTC \notin isr
  BY <1>1, <1>2, <1>3 DEF EInv, ServiceInv
<1>7. isr \subseteq {CASCADE, UART}
  BY <1>6 DEF EInv, ServiceInv, Lines
<1>8. CASE stack[n].irq = RTC
  <2>1. CASCADE \in isr
    BY <1>1, <1>2, <1>8 DEF EInv, ServiceInv
  <2>2. isr' = isr \ {CASCADE}
    <3>1. isr \ {RTC} = isr
      BY <1>6
    <3>2. CASCADE <= CASCADE /\ CASCADE <= UART /\ ~ (UART <= CASCADE)
      BY DEF CASCADE, UART
    <3>3. \A i \in isr : (\A j \in isr : i <= j) <=> i = CASCADE
      BY <1>7, <2>1, <3>2
    <3> QED
      BY <1>1, <3>1, <3>3
  <2>3. \A i \in 1 .. n : stack'[i].irq = RTC => stack'[i].at = "iret"
    BY <1>2, <1>3
  <2>4. \A i \in 1 .. n : stack[i].irq = UART => stack'[i].at = stack[i].at
    BY <1>2, <1>8 DEF UART, RTC
  <2>5. /\ isr' \subseteq Lines /\ CASCADE \notin isr' /\ RTC \notin isr'
        /\ UART \in isr' <=> UART \in isr
    BY <1>6, <1>7, <2>2 DEF Lines, CASCADE, UART, RTC
  <2>6. ServiceInv'
    BY <1>2, <2>3, <2>4, <2>5 DEF EInv, ServiceInv
  <2> QED
    BY <1>4, <1>5, <2>6 DEF EInv
<1>9. CASE stack[n].irq = UART
  <2>1. CASCADE \notin isr
    BY <1>2, <1>3, <1>9 DEF EInv, ServiceInv, UART, RTC
  <2>2. isr' = {}
    <3>1. isr \ {RTC} = isr /\ isr \subseteq {UART}
      BY <1>6, <1>7, <2>1
    <3>2. UART <= UART
      BY DEF UART
    <3>3. \A i \in isr : \A j \in isr : i <= j
      BY <3>1, <3>2
    <3> QED
      BY <1>1, <3>1, <3>3
  <2>3. \A i \in 1 .. n : stack'[i].at = "iret"
    <3>1. \A i \in 1 .. n : stack[i].irq \in {UART, RTC}
      BY <1>2 DEF Frames, Irqs
    <3>2. \A i \in 1 .. n : i # n /\ stack[i].irq = UART => stack[i].at = "iret"
      BY <1>2, <1>9 DEF EInv, OneOfEach
    <3> QED
      BY <1>2, <1>3, <3>1, <3>2
  <2>4. ServiceInv'
    BY <1>2, <2>2, <2>3 DEF ServiceInv
  <2> QED
    BY <1>4, <1>5, <2>4 DEF EInv
<1> QED
  BY <1>2, <1>8, <1>9 DEF Frames, Irqs

LEMMA IretEnds ==
  ASSUME IInv, EInv, Iret
  PROVE  EInv'
<1> DEFINE n == Len(stack)
<1>1. /\ stack # <<>> /\ stack[n].at = "iret" /\ stack' = SubSeq(stack, 1, n - 1)
      /\ isr' = isr
  BY DEF Iret, Top, pics
<1>2. n \in Nat \ {0} /\ DOMAIN stack = 1 .. n /\ \A i \in 1 .. n - 1 : stack[i] \in Frames
  BY <1>1 DEF IInv
<1>3. Len(stack') = n - 1 /\ \A i \in 1 .. n - 1 : stack'[i] = stack[i]
  BY <1>1, <1>2, SubSeqProperties
<1>4. OneOfEach' /\ OwnPlaces'
  BY <1>2, <1>3 DEF EInv, OneOfEach, OwnPlaces
<1>5. \A i \in 1 .. n : stack[i].at # "iret" => i \in 1 .. n - 1
  BY <1>1, <1>2
<1>6. ServiceInv'
  BY <1>1, <1>2, <1>3, <1>5 DEF EInv, ServiceInv
<1> QED
  BY <1>4, <1>6 DEF EInv

\* An interrupt that is taken finds its like past its end of interrupt.
LEMMA TakeEnds ==
  ASSUME IInv, IInv', EInv, NEW q \in Irqs, Take(q)
  PROVE  EInv'
<1> DEFINE n == Len(stack)
           f == [irq |-> q, at |-> "enter"]
<1>1. /\ q \notin isr /\ HasPriority(q)
      /\ isr' = isr \cup {q, MasterLine(q)}
  BY DEF Take, CanTake
<1>2. stack' = Append(stack, f) /\ f.at = "enter" /\ f.irq = q
  BY TakenFrame
<1>3. /\ n \in Nat /\ Len(stack') = n + 1
      /\ \A i \in 1 .. n : stack'[i] = stack[i]
      /\ stack'[n + 1] = f
  BY <1>2 DEF IInv
<1> HIDE DEF f
<1>4. \A i \in 1 .. n : stack[i].irq = q => stack[i].at = "iret"
  <2>1. CASE q = UART
    BY <1>1, <1>3, <2>1 DEF EInv, ServiceInv
  <2>2. CASE q = RTC
    <3>1. CASCADE \notin isr
      BY <1>1, <2>2 DEF HasPriority, MasterLine, CASCADE, RTC
    <3> QED
      BY <1>3, <2>2, <3>1 DEF EInv, ServiceInv
  <2> QED
    BY <2>1, <2>2 DEF Irqs
<1>5. OneOfEach'
  BY <1>2, <1>3, <1>4 DEF EInv, OneOfEach
<1>6. OwnPlaces'
  BY <1>2, <1>3 DEF EInv, OwnPlaces
<1>7. ServiceInv'
  <2>1. CASE q = UART
    <3>1. isr' = isr \cup {UART}
      BY <1>1, <2>1 DEF MasterLine, UART
    <3> QED
      BY <1>2, <1>3, <2>1, <3>1 DEF EInv, ServiceInv, Lines, UART, RTC, CASCADE
  <2>2. CASE q = RTC
    <3>1. isr' = isr \cup {RTC, CASCADE}
      BY <1>1, <2>2 DEF MasterLine, RTC
    <3> QED
      BY <1>2, <1>3, <2>2, <3>1 DEF EInv, ServiceInv, Lines, UART, RTC, CASCADE
  <2> QED
    BY <2>1, <2>2 DEF Irqs
<1> QED
  BY <1>5, <1>6, <1>7 DEF EInv

LEMMA HandleEnds ==
  ASSUME IInv, EInv, Handle
  PROVE  EInv'
<1> DEFINE f == stack[Len(stack)]
<1>1. CASE Enter
  <2>1. PICK to \in {"guarded", "slave_eoi", "master_eoi"} :
          /\ Handler("enter", to)
          /\ f.irq = RTC => to # "master_eoi"
          /\ f.irq = UART => to = "master_eoi"
    BY <1>1 DEF Enter, EOI, Top, UART, RTC
  <2>2. Moved(to) /\ f.at = "enter" /\ isr' = isr /\ f.irq \in {UART, RTC}
    <3>1. Moved(to)
      BY <2>1, HandlerMoves DEF IInv, Places
    <3>2. f \in Frames
      BY <3>1 DEF Moved, IInv
    <3> QED
      BY <1>1, <2>1, <3>1, <3>2 DEF Enter, Handler, Top, Frames, Irqs
  <2> QED
    BY <2>1, <2>2, EndsKept
<1>2. CASE GetTick
  <2>1. Moved("ack") /\ f.at = "guarded" /\ isr' = isr
    BY <1>2, HandlerMoves DEF GetTick, Handler, Top, IInv, Places
  <2>2. f.irq = RTC
    BY <2>1 DEF EInv, OwnPlaces, Moved
  <2> QED
    BY <2>1, <2>2, EndsKept
<1>3. CASE Ack
  <2>1. Len(stack) \in Nat \ {0} /\ f.at = "ack" /\ isr' = isr
    BY <1>3 DEF Ack, Handler, Top, IInv
  <2>2. f.irq = RTC
    BY <2>1 DEF EInv, OwnPlaces
  <2>3. Handler("ack", "slave_eoi")
    BY <1>3, <2>2 DEF Ack, EOI, Top, RTC
  <2>4. Moved("slave_eoi")
    BY <2>3, HandlerMoves DEF IInv, Places
  <2> QED
    BY <2>1, <2>2, <2>4, EndsKept
<1> QED
  BY <1>1, <1>2, <1>3, SlaveEOIEnds, MasterEOIEnds, IretEnds DEF Handle

\* kernel_main's steps: no handler is in progress, and init_idt's reset of the
\* PICs finds no line in service.
LEMMA MainEnds ==
  ASSUME EInv, RtcPeriod \/ UartEmpty \/ Boot \/ Guard \/ Putchar
  PROVE  EInv'
<1>1. \/ stack' = stack /\ isr' = isr
      \/ stack = <<>> /\ stack' = <<>> /\ isr' = {}
  BY OutbChanges
  DEF RtcPeriod, UartEmpty, Boot, Guard, Putchar, Main, InitGdt, InitIdt, InitSerialWrite,
      InitSerialDone, InitSerialFails, ConfigureRtc, Register, UnmaskMaster, UnmaskSlave,
      StoreHandler, Unguard, pics
<1>2. CASE stack' = stack /\ isr' = isr
  BY <1>2 DEF EInv, OneOfEach, OwnPlaces, ServiceInv
<1>3. CASE stack = <<>> /\ stack' = <<>> /\ isr' = {}
  <2>1. 1 .. Len(stack) = {} /\ 1 .. Len(stack') = {}
    BY <1>3
  <2> QED
    BY <1>3, <2>1 DEF EInv, OneOfEach, OwnPlaces, ServiceInv
<1> QED
  BY <1>1, <1>2, <1>3

LEMMA EndsStep == IInv /\ IInv' /\ EInv /\ [Next]_vars => EInv'
<1> SUFFICES ASSUME IInv, IInv', EInv, [Next]_vars
             PROVE  EInv'
  OBVIOUS
<1>1. CASE \E q \in Irqs : Take(q)
  BY <1>1, TakeEnds
<1>2. CASE Handle
  BY <1>2, HandleEnds
<1>3. CASE RtcPeriod \/ UartEmpty \/ Boot \/ Guard \/ Putchar
  BY <1>3, MainEnds
<1>4. CASE UNCHANGED vars
  BY <1>4 DEF vars, EInv, OneOfEach, OwnPlaces, ServiceInv
<1> QED
  BY <1>1, <1>2, <1>3, <1>4 DEF Next, Handle, Boot

----------------------------------------------------------------------------
(* The tick: the argument behind TicksForever, whose fairness stays with   *)
(* TLC.                                                                    *)

\* register_rtc_driver has turned the periodic interrupt on.
Armed ==
  main.irq = RTC /\ main.at \in {"unmask", "unmask_slave", "store", "unguard", "run"}

\* Places of the RTC handler before it has read register C.
Unread == {"enter", "guarded", "ack"}

\* The RTC's interrupt is latched, or a handler has yet to read register C.
Pending ==
  RTC \in irr \/ \E i \in 1 .. Len(stack) : stack[i].irq = RTC /\ stack[i].at \in Unread

FlagInv == Armed /\ RTC \in flags => Pending

\* What of the way to the handler is open.
OpenInv ==
  /\ main.at = "run" => main.irq = RTC
  /\ main.irq = RTC /\ main.at = "unmask_slave" => CASCADE \notin imr
  /\ main.irq = RTC /\ main.at \in {"store", "unguard", "run"} =>
       RTC \notin imr /\ CASCADE \notin imr
  /\ main.at = "run" /\ stack = <<>> => enabled

TInv == FlagInv /\ OpenInv

\* The flag is not raised, nothing latched is lost, and no handler passes the read
\* of register C.
LEMMA StillPending ==
  ASSUME FlagInv, Armed' => Armed, flags' \subseteq flags \cup {UART}, irr \subseteq irr',
         \A i \in 1 .. Len(stack) :
           stack[i].irq = RTC /\ stack[i].at \in Unread =>
             \E j \in 1 .. Len(stack') : stack'[j].irq = RTC /\ stack'[j].at \in Unread
  PROVE  FlagInv'
BY DEF FlagInv, Pending, UART, RTC

LEMMA TakePending ==
  ASSUME IInv, FlagInv, NEW q \in Irqs, Take(q)
  PROVE  FlagInv'
<1> DEFINE n == Len(stack)
<1>1. stack' = Append(stack, [irq |-> q, at |-> "enter"])
  BY TakenFrame
<1>2. /\ n \in Nat /\ Len(stack') = n + 1
      /\ \A i \in 1 .. n : stack'[i] = stack[i]
      /\ stack'[n + 1] = [irq |-> q, at |-> "enter"]
  BY <1>1 DEF IInv
<1>3. irr' = irr \ {q} /\ flags' = flags /\ main' = main
  BY DEF Take, devices
<1>4. CASE q = RTC
  <2>1. n + 1 \in 1 .. Len(stack') /\ stack'[n + 1].irq = RTC /\ stack'[n + 1].at = "enter"
    BY <1>2, <1>4
  <2> QED
    BY <2>1 DEF FlagInv, Pending, Unread
<1>5. CASE q # RTC
  <2>1. 1 .. n \subseteq 1 .. Len(stack')
    BY <1>2
  <2> QED
    BY <1>2, <1>3, <1>5, <2>1 DEF FlagInv, Pending, Armed
<1> QED
  BY <1>4, <1>5

\* A period whose flag was down raises the line, and the PIC latches it.
LEMMA PeriodPending ==
  ASSUME DInv, FlagInv, RtcPeriod
  PROVE  FlagInv'
<1>1. /\ flags' = flags \cup {RTC} /\ irr' = irr \cup (Raised' \ Raised)
      /\ UNCHANGED <<regB, main, stack>>
  BY DEF RtcPeriod, Latch
<1>2. CASE RTC \in flags
  BY <1>1, <1>2 DEF FlagInv, Pending, Armed
<1>3. CASE RTC \notin flags /\ Armed
  <2>1. "periodic" \in regB
    BY <1>3 DEF DInv, DriversInv, Armed
  <2>2. RTC \in Raised' /\ RTC \notin Raised
    BY <1>1, <1>3, <2>1 DEF Raised, UART, RTC
  <2> QED
    BY <1>1, <2>2 DEF FlagInv, Pending
<1>4. CASE ~ Armed
  BY <1>1, <1>4 DEF FlagInv, Armed
<1> QED
  BY <1>2, <1>3, <1>4

LEMMA HandlePending ==
  ASSUME IInv, EInv, FlagInv, Handle
  PROVE  FlagInv'
<1> DEFINE n == Len(stack)
<1>1. UNCHANGED <<main, irr>>
  BY DEF Handle, Enter, GetTick, Ack, SlaveEOI, MasterEOI, Iret, Handler, pics
<1>2. ASSUME NEW to, Moved(to), flags' \subseteq flags,
             stack[n].irq = RTC /\ stack[n].at \in Unread => to \in Unread
      PROVE  FlagInv'
  <2>1. ASSUME NEW i \in 1 .. n, stack[i].irq = RTC, stack[i].at \in Unread
        PROVE  i \in 1 .. Len(stack') /\ stack'[i].irq = RTC /\ stack'[i].at \in Unread
    BY <1>2, <2>1 DEF Moved
  <2> QED
    BY <1>1, <1>2, <2>1, StillPending DEF Armed
<1>3. CASE Enter
  <2>1. n \in DOMAIN stack /\ flags' = flags /\ stack[n].irq \in handlers
    BY <1>3 DEF Enter, Handler, devices, IInv, NoUnhandled
  <2>2. PICK to \in Places : /\ Handler("enter", to)
                             /\ stack[n].irq = RTC => to = "guarded"
    BY <1>3, <2>1 DEF Enter, Top, EOI, Places
  <2> QED
    BY <1>2, <2>1, <2>2, HandlerMoves DEF IInv, Unread
<1>4. CASE GetTick
  <2>1. Moved("ack") /\ flags' = flags
    BY <1>4, HandlerMoves DEF GetTick, devices, IInv, Places
  <2> QED
    BY <1>2, <2>1 DEF Unread
<1>5. CASE Ack
  BY <1>5 DEF Ack, FlagInv
<1>6. CASE SlaveEOI
  <2>1. Moved("master_eoi") /\ stack[n].at = "slave_eoi" /\ flags' = flags
    BY <1>6, HandlerMoves DEF SlaveEOI, Handler, Top, devices, IInv, Places
  <2> QED
    BY <1>2, <2>1 DEF Unread
<1>7. CASE MasterEOI
  <2>1. Moved("iret") /\ stack[n].at = "master_eoi" /\ flags' = flags
    BY <1>7, HandlerMoves DEF MasterEOI, Handler, Top, devices, IInv, Places
  <2> QED
    BY <1>2, <2>1 DEF Unread
<1>8. CASE Iret
  <2>1. stack # <<>> /\ stack[n].at = "iret" /\ stack' = SubSeq(stack, 1, n - 1) /\ flags' = flags
    BY <1>8 DEF Iret, Top, devices
  <2>2. n \in Nat \ {0} /\ DOMAIN stack = 1 .. n /\ \A i \in 1 .. n - 1 : stack[i] \in Frames
    BY <2>1 DEF IInv
  <2>3. Len(stack') = n - 1 /\ \A i \in 1 .. n - 1 : stack'[i] = stack[i]
    BY <2>1, <2>2, SubSeqProperties
  <2>4. \A i \in 1 .. n : stack[i].at \in Unread => i \in 1 .. Len(stack')
    BY <2>1, <2>2, <2>3 DEF Unread
  <2> QED
    BY <1>1, <2>1, <2>3, <2>4, StillPending DEF Armed
<1> QED
  BY <1>3, <1>4, <1>5, <1>6, <1>7, <1>8 DEF Handle

\* kernel_main: when the periodic interrupt is turned on with the flag up, the
\* line rises and is latched; register B held no periodic flag before.
LEMMA MainPending ==
  ASSUME DInv, FlagInv, UartEmpty \/ Boot \/ Guard \/ Putchar
  PROVE  FlagInv'
<1> USE DEF DInv
<1>1. CASE UartEmpty
  <2>1. flags' = flags \cup {UART} /\ irr \subseteq irr' /\ UNCHANGED <<main, stack>>
    BY <1>1 DEF UartEmpty, Latch
  <2> QED
    BY <2>1, StillPending DEF Armed
<1>2. CASE InitGdt \/ InitIdt \/ InitSerialWrite \/ InitSerialDone \/ InitSerialFails
  <2>1. main.irq = UART
    BY <1>2
    DEF InitGdt, InitIdt, InitSerialWrite, InitSerialDone, InitSerialFails, Main, DriversInv, Early
  <2>2. main'.irq = main.irq
    BY <1>2
    DEF InitGdt, InitIdt, InitSerialWrite, InitSerialDone, InitSerialFails, Main, TypeOK
  <2> QED
    BY <2>1, <2>2 DEF FlagInv, Armed, UART, RTC
<1>3. CASE ConfigureRtc
  <2>1. main'.at = "register"
    BY <1>3, MainMoves DEF ConfigureRtc, MainPlaces
  <2> QED
    BY <2>1 DEF FlagInv, Armed
<1>4. CASE Register
  <2>1. /\ main.at = "register" /\ main'.irq = main.irq /\ flags' = flags
        /\ irr' = irr \cup (Raised' \ Raised)
        /\ regB' = IF main.irq = RTC THEN regB \cup {"periodic"} ELSE regB
    BY <1>4, MainMoves DEF Register, MainPlaces, Latch
  <2> SUFFICES ASSUME main.irq = RTC, RTC \in flags
               PROVE  Pending'
    BY <2>1 DEF FlagInv, Armed
  <2>2. "periodic" \notin regB /\ "periodic" \in regB'
    BY <2>1 DEF DriversInv
  <2>3. RTC \in Raised' /\ RTC \notin Raised
    BY <2>1, <2>2 DEF Raised, UART, RTC
  <2> QED
    BY <2>1, <2>3 DEF Pending
<1>5. CASE UnmaskMaster \/ UnmaskSlave \/ StoreHandler \/ Guard
  <2>1. /\ main.at \in {"unmask", "unmask_slave", "store", "run"} /\ main'.irq = main.irq
        /\ UNCHANGED <<irr, flags, stack>>
    BY <1>5, MainMoves
    DEF UnmaskMaster, UnmaskSlave, StoreHandler, Guard, MainPlaces, pics, devices
  <2> QED
    BY <2>1, StillPending DEF Armed
<1>6. CASE Unguard
  <2>1. /\ main.at = "unguard" /\ UNCHANGED <<irr, flags, stack>>
        /\ main'.at = "configure_rtc" \/ main'.irq = main.irq
    BY <1>6 DEF Unguard, pics, devices, TypeOK
  <2> QED
    BY <2>1, StillPending DEF Armed
<1>7. CASE Putchar
  <2>1. /\ main.at = "run" /\ main'.irq = main.irq /\ stack' = stack
        /\ flags' \subseteq flags /\ irr \subseteq irr'
    BY <1>7, MainMoves DEF Putchar, Outb, Latch, MainPlaces
  <2> QED
    BY <2>1, StillPending DEF Armed
<1> QED
  BY <1>1, <1>2, <1>3, <1>4, <1>5, <1>6, <1>7 DEF Boot

LEMMA OpenStep ==
  ASSUME DInv, OpenInv, [Next]_vars
  PROVE  OpenInv'
<1> USE DEF DInv
<1>1. CASE \E q \in Irqs : Take(q)
  <2>1. PICK q \in Irqs : Take(q)
    BY <1>1
  <2>2. stack' # <<>> /\ UNCHANGED <<main, imr>>
    BY <2>1 DEF Take, TypeOK
  <2> QED
    BY <2>2 DEF OpenInv
<1>2. CASE RtcPeriod \/ UartEmpty \/ UNCHANGED vars
  BY <1>2 DEF RtcPeriod, UartEmpty, vars, OpenInv
<1>3. CASE Iret
  BY <1>3 DEF Iret, pics, OpenInv
<1>4. CASE Enter \/ GetTick \/ Ack \/ SlaveEOI \/ MasterEOI
  <2>1. PICK from, to : Handler(from, to)
    BY <1>4 DEF Enter, GetTick, Ack, SlaveEOI, MasterEOI
  <2>2. /\ UNCHANGED <<main, imr>> /\ stack # <<>>
        /\ stack' = [stack EXCEPT ![Len(stack)].at = to]
    BY <2>1 DEF Handler
  <2>3. Len(stack') = Len(stack) /\ Len(stack) # 0
    BY <2>2 DEF TypeOK
  <2>4. stack' # <<>>
    BY <2>3
  <2> QED
    BY <2>2, <2>4 DEF OpenInv
<1>5. CASE InitGdt \/ InitIdt \/ InitSerialWrite \/ InitSerialDone \/ InitSerialFails \/ Register
  <2>1. main'.at \in {"init_idt", "init_serial", "register", "panic", "unmask"}
    <3>1. CASE InitSerialWrite
      BY <3>1 DEF InitSerialWrite, TypeOK
    <3> QED
      BY <1>5, <3>1, MainMoves
      DEF InitGdt, InitIdt, InitSerialDone, InitSerialFails, Register, MainPlaces, Early
  <2> QED
    BY <2>1 DEF OpenInv
<1>6. CASE ConfigureRtc
  <2>1. main'.at = "register"
    BY <1>6, MainMoves DEF ConfigureRtc, MainPlaces
  <2> QED
    BY <2>1 DEF OpenInv
<1>7. CASE UnmaskMaster
  <2>1. /\ main'.irq = main.irq
        /\ main'.at = (IF main.irq >= 8 THEN "unmask_slave" ELSE "store")
        /\ imr' = imr \ {MasterLine(main.irq)}
    BY <1>7, MainMoves DEF UnmaskMaster, MainPlaces
  <2>2. main.irq = RTC => main.irq >= 8 /\ MasterLine(main.irq) = CASCADE
    BY DEF RTC, MasterLine
  <2> QED
    BY <2>1, <2>2 DEF OpenInv
<1>8. CASE UnmaskSlave
  <2>1. main'.irq = main.irq /\ main.at = "unmask_slave" /\ main'.at = "store"
        /\ imr' = imr \ {main.irq}
    BY <1>8, MainMoves DEF UnmaskSlave, MainPlaces
  <2> QED
    BY <2>1 DEF OpenInv
<1>9. CASE StoreHandler \/ Guard
  <2>1. /\ main'.irq = main.irq /\ main.at \in {"store", "run"} /\ main'.at = "unguard"
        /\ imr' = imr
    BY <1>9, MainMoves DEF StoreHandler, Guard, MainPlaces, pics
  <2> QED
    BY <2>1 DEF OpenInv
<1>10. CASE Unguard
  <2>1. /\ main.at = "unguard" /\ imr' = imr /\ enabled' = TRUE
        /\ \/ main'.at = "configure_rtc"
           \/ main'.at = "run" /\ main'.irq = main.irq
    BY <1>10 DEF Unguard, pics, TypeOK
  <2>2. main'.at = "run" => main'.irq = RTC
    BY <1>10 DEF Unguard, TypeOK, DriversInv, Irqs
  <2> QED
    BY <2>1, <2>2 DEF OpenInv
<1>11. CASE Putchar
  <2>1. /\ main'.irq = main.irq /\ main.at = "run" /\ main'.at = "run"
        /\ UNCHANGED <<imr, enabled, stack>>
    BY <1>11, MainMoves, OutbChanges DEF Putchar, MainPlaces
  <2> QED
    BY <2>1 DEF OpenInv
<1> QED
  BY <1>1, <1>2, <1>3, <1>4, <1>5, <1>6, <1>7, <1>8, <1>9, <1>10, <1>11 DEF Next

LEMMA TickInit == Init => TInv
<1> SUFFICES ASSUME Init
             PROVE  TInv
  OBVIOUS
<1>1. main.at = "init_gdt"
  BY DEF Init
<1> QED
  BY <1>1 DEF TInv, FlagInv, OpenInv, Armed

LEMMA TickStep == IInv /\ DInv /\ EInv /\ TInv /\ [Next]_vars => TInv'
<1> SUFFICES ASSUME IInv, DInv, EInv, TInv, [Next]_vars
             PROVE  TInv'
  OBVIOUS
<1> USE DEF TInv
<1>1. OpenInv'
  BY OpenStep
<1>2. CASE \E q \in Irqs : Take(q)
  BY <1>1, <1>2, TakePending
<1>3. CASE RtcPeriod
  BY <1>1, <1>3, PeriodPending
<1>4. CASE Handle
  BY <1>1, <1>4, HandlePending
<1>5. CASE UartEmpty \/ Boot \/ Guard \/ Putchar
  BY <1>1, <1>5, MainPending
<1>6. CASE UNCHANGED vars
  BY <1>1, <1>6 DEF vars, FlagInv, Pending, Armed
<1> QED
  BY <1>2, <1>3, <1>4, <1>5, <1>6 DEF Next, Handle, Boot

\* In the kernel's own code a latched RTC interrupt has nothing in its way.
LEMMA NothingInTheWay ==
  ASSUME EInv, OpenInv, main.at = "run", stack = <<>>, RTC \in irr
  PROVE  CanTake(RTC)
<1>1. Len(stack) = 0 /\ 1 .. Len(stack) = {}
  OBVIOUS
<1>2. UART \notin isr /\ CASCADE \notin isr /\ RTC \notin isr
  BY <1>1 DEF EInv, ServiceInv
<1>3. isr = {}
  BY <1>2 DEF EInv, ServiceInv, Lines
<1>4. main.irq = RTC
  BY DEF OpenInv
<1>5. enabled /\ RTC \notin imr /\ CASCADE \notin imr
  BY <1>4 DEF OpenInv
<1>6. MasterLine(RTC) = CASCADE
  BY DEF MasterLine, RTC
<1>7. Len(stack) < MaxDepth
  BY <1>1, DepthAssumption
<1> QED
  BY <1>3, <1>5, <1>6, <1>7 DEF CanTake, HasPriority

----------------------------------------------------------------------------

THEOREM Invariant == Spec => []IInv
<1>1. Init => IInv
  BY InvInit
<1>2. IInv /\ [Next]_vars => IInv'
  BY InvStep
<1> QED
  BY <1>1, <1>2, PTL DEF Spec

\* From init_idt on (interrupts.c:168-179), each gate leads to the stub of its
\* own interrupt, wherever the stubs are.
THEOREM GatesReach == Spec => []GatesReachStubs
<1>1. IInv => GatesReachStubs
  BY GatesFromTables DEF IInv
<1> QED
  BY <1>1, Invariant, PTL

\* register_interrupt (interrupts.c:199-219) unmasks before it stores, and no
\* interrupt is taken in between: the sections around it are enough.
THEOREM NeverUnhandled == Spec => []NoUnhandled
<1>1. IInv => NoUnhandled
  BY DEF IInv
<1> QED
  BY <1>1, Invariant, PTL

\* No handler interrupts the RTC handler (rtc.c:128-132) before its end of
\* interrupt, although it runs half of its way with interrupts enabled.
THEOREM RtcHandlerAlone == Spec => []RtcHandlerRunsAlone
<1>1. IInv => RtcHandlerRunsAlone
  BY DEF IInv
<1> QED
  BY <1>1, Invariant, PTL

LEMMA DriversAndEnds == Spec => [](DInv /\ EInv)
<1>1. Init => DInv /\ EInv
  BY DriversInit, EndsInit
<1>2. IInv /\ IInv' /\ DInv /\ EInv /\ [Next]_vars => DInv' /\ EInv'
  BY DriversStep, EndsStep
<1> QED
  BY <1>1, <1>2, Invariant, PTL DEF Spec

\* The PICs' lines, the chips' registers and the tables keep their types, and
\* handlers nest no deeper than they may (interrupts.c:159-197, kernel.c:27-60).
THEOREM TypeCorrect == Spec => []TypeOK
<1>1. DInv => TypeOK
  BY DEF DInv
<1> QED
  BY <1>1, DriversAndEnds, PTL

\* When a driver's handler is stored its chip is as the driver means it: the nine
\* writes (uart.c:31-49) reach their registers, register B is set as a whole
\* (rtc.c:88-95) before its periodic flag is added (rtc.c:79-86).
THEOREM ChipsReady == Spec => []DriversSetUp
<1>1. DInv => DriversSetUp
  <2> SUFFICES ASSUME DInv
               PROVE  DriversSetUp
    OBVIOUS
  <2>1. UART \in handlers => SerialReady
    BY DEF DInv, DriversInv
  <2>2. RTC \in handlers => regB = {"periodic", "24h", "binary"}
    BY DEF DInv, DriversInv, TypeOK, Irqs, Early
  <2> QED
    BY <2>1, <2>2 DEF DriversSetUp, SerialReady
<1> QED
  BY <1>1, DriversAndEnds, PTL

\* Every end of interrupt (interrupts.c:42-47) takes out the line of the handler
\* that sends it, however handlers nest.
THEOREM EndsTheRightOne == Spec => []EOIEndsItsOwn
<1>1. IInv /\ EInv => EOIEndsItsOwn
  BY ServiceEnds DEF IInv, EInv
<1> QED
  BY <1>1, Invariant, DriversAndEnds, PTL

\* register_rtc_driver (rtc.c:79-86) on: no tick is lost between the RTC's flag
\* and its handler.  A raised flag, which keeps the RTC silent until register C is
\* read, always has its interrupt latched or a handler before that read, even when
\* it was up before the periodic interrupt was turned on or a line was unmasked;
\* and the kernel's own code never executes an instruction with it raised.
THEOREM TickIsNeverLost ==
  Spec => [](/\ Armed /\ RTC \in flags => Pending
             /\ main.at = "run" /\ stack = <<>> /\ Executes => RTC \notin flags)
<1>1. Init => TInv
  BY TickInit
<1>2. IInv /\ DInv /\ EInv /\ TInv /\ [Next]_vars => TInv'
  BY TickStep
<1>3. EInv /\ TInv =>
        /\ Armed /\ RTC \in flags => Pending
        /\ main.at = "run" /\ stack = <<>> /\ Executes => RTC \notin flags
  <2> SUFFICES ASSUME EInv, TInv, main.at = "run", stack = <<>>, RTC \in flags
               PROVE  ~ Executes
    BY DEF TInv, FlagInv
  <2>1. Armed /\ 1 .. Len(stack) = {}
    BY DEF TInv, OpenInv, Armed
  <2>2. RTC \in irr
    BY <2>1 DEF TInv, FlagInv, Pending
  <2>3. CanTake(RTC)
    BY <2>2, NothingInTheWay DEF TInv
  <2> QED
    BY <2>3 DEF Executes, Irqs
<1> QED
  BY <1>1, <1>2, <1>3, Invariant, DriversAndEnds, PTL DEF Spec
=============================================================================
