----------------------------- MODULE Descriptors -----------------------------
(***************************************************************************)
(* Segment descriptors (kernel/kernel/gdt.c) and gates (interrupts.c): how *)
(* the kernel packs their fields into 64 bits, and how an x86 takes them   *)
(* apart.  A word is the set of its bits that are one.                     *)
(***************************************************************************)
EXTENDS Integers

Bits(n) == 0 .. n - 1
Word(n) == SUBSET Bits(n)

\* w << k in a word of n bits, and the n bits of w from bit k on.
Shl(w, k, n)   == {i \in Bits(n) : i - k \in w}
Field(w, k, n) == {i \in Bits(n) : i + k \in w}

----------------------------------------------------------------------------
(* Segment descriptors.                                                    *)

create_descriptor(base, limit, flags) ==
  Field(limit, 0, 16) \cup Shl(Field(base, 0, 16), 16, 64) \cup Shl(Field(base, 16, 8), 32, 64)
    \cup Shl(Field(flags, 0, 8), 40, 64) \cup Shl(Field(limit, 16, 4), 48, 64)
    \cup Shl(Field(flags, 8, 4), 52, 64) \cup Shl(Field(base, 24, 8), 56, 64)

gdt_parse_base(segment)  == Field(segment, 16, 24) \cup Shl(Field(segment, 56, 8), 24, 32)
gdt_parse_limit(segment) == Field(segment, 0, 16) \cup Shl(Field(segment, 48, 4), 16, 32)

\* The first shift is one of 32 bits.
insert_base(base) ==
  Shl(Field(base, 0, 24), 16, 32) \cup Shl(Field(base, 24, 8), 56, 64)

\* limit has at most 20 bits, or the kernel panics.
insert_limit(limit) == Field(limit, 0, 16) \cup Shl(Field(limit, 16, 4), 48, 64)

\* struct AccessByte: a field is a word of a bit, and dpl of two.
get_binary_from_access_byte(b) ==
  b.a \cup Shl(b.rw, 1, 8) \cup Shl(b.dc, 2, 8) \cup Shl(b.e, 3, 8) \cup Shl(b.s, 4, 8)
    \cup Shl(Field(b.dpl, 0, 2), 5, 8) \cup Shl(b.p, 7, 8)

One  == {0}
Zero == {}

code_access_byte ==
  [p |-> One, dpl |-> Zero, s |-> One, e |-> One, dc |-> Zero, rw |-> Zero, a |-> One]
data_access_byte == [code_access_byte EXCEPT !.e = Zero, !.rw = One]

\* 0x1101 << 8 in the 16 bits of flags.
SegmentFlags(access) == Shl({0, 8, 12}, 8, 16) \cup get_binary_from_access_byte(access)

\* The code and data segments that fill_gdt_vals computes, and logs.
ComputedSegments ==
  [i \in 1 .. 2 |->
     create_descriptor(Zero, Bits(32),
                       SegmentFlags(IF i = 1 THEN code_access_byte ELSE data_access_byte))]

\* Mutant: the computed segments are loaded.
fill_gdt_vals_computed ==
  [i \in 0 .. 2 |-> IF i = 0 THEN Zero ELSE ComputedSegments[i]]

\* The constants that it loads: 0, 0x00CF9A000000FFFF and 0x00CF92000000FFFF.
fill_gdt_vals ==
  LET segment == 0 .. 15 \cup {41, 44, 47} \cup 48 .. 51 \cup {54, 55}
  IN  [i \in 0 .. 2 |->
         CASE i = 0 -> Zero
           [] i = 1 -> segment \cup {43}
           [] i = 2 -> segment]

----------------------------------------------------------------------------
(* Gates.                                                                  *)

\* The conversion of an int to a word of 64 bits.
SignExtended(w) == w \cup (IF 31 \in w THEN 32 .. 63 ELSE {})

\* What the asserts let through: one value more than two or four bits hold.
Accepted(arg) ==
  /\ arg.dpl \in Word(2) \cup {{2}}
  /\ arg.gate \in Word(4) \cup {{4}}

\* Mutant: the offset's upper half is put behind its lower half.
generate_gd_entry_contiguous(arg) ==
  arg.offset \cup SignExtended(Shl(arg.segment_selector, 16, 32))
    \cup Shl(arg.gate, 40, 64) \cup Shl(arg.dpl, 45, 64) \cup Shl(arg.p, 47, 64)

\* The selector, two bytes long, is shifted as an int.
generate_gd_entry(arg) ==
  Field(arg.offset, 0, 16) \cup SignExtended(Shl(arg.segment_selector, 16, 32))
    \cup Shl(arg.gate, 40, 64) \cup Shl(arg.dpl, 45, 64) \cup Shl(arg.p, 47, 64)
    \cup Shl(Field(arg.offset, 16, 16), 48, 64)

\* The gate init_idt makes for a stub: selector 8, type 15, present.
StubGate(offset) ==
  generate_gd_entry([offset |-> offset, segment_selector |-> {3}, gate |-> Bits(4),
                     dpl |-> Zero, p |-> One])

\* The stub of a vector pushes its number as one signed byte.
StubNumber(num) == IF num < 128 THEN num ELSE num - 256

----------------------------------------------------------------------------
(* The processor.                                                          *)

SegmentBase(d) == Field(d, 16, 24) \cup Shl(Field(d, 56, 8), 24, 32)

\* In pages, with the granularity bit.
SegmentLimit(d) ==
  LET limit == Field(d, 0, 16) \cup Shl(Field(d, 48, 4), 16, 20)
  IN  IF 55 \in d THEN Shl(limit, 12, 32) \cup Bits(12) ELSE limit

\* A present, executable segment of 32-bit code that covers all addresses.
IsFlatCode(d) ==
  /\ {43, 44, 47, 54} \subseteq d
  /\ SegmentBase(d) = Zero /\ SegmentLimit(d) = Bits(32)

\* A present segment of writable data that covers all addresses.
IsFlatData(d) ==
  /\ {41, 44, 47, 54} \subseteq d /\ 43 \notin d
  /\ SegmentBase(d) = Zero /\ SegmentLimit(d) = Bits(32)

GateOffset(g)   == Field(g, 0, 16) \cup Shl(Field(g, 48, 16), 16, 32)
GateSelector(g) == Field(g, 16, 16)
GateType(g)     == Field(g, 40, 5)
GateDpl(g)      == Field(g, 45, 2)
GatePresent(g)  == 47 \in g

\* The gate's selector names a segment of the table.
GateSegment(g, i) == Field(GateSelector(g), 3, 13) = IF i = 0 THEN {} ELSE {i - 1}

TRAP_GATE == Bits(4)
=============================================================================
