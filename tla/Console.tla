------------------------------ MODULE Console ------------------------------
(***************************************************************************)
(* printf on the VGA terminal (libc/stdio/printf.c, kernel/kernel/utils.c, *)
(* kernel/arch/i386/tty.c): a format is turned into text in a buffer, one  *)
(* of its items after the other, and the text is put on the screen, one    *)
(* character after the other.                                              *)
(*                                                                         *)
(* Characters are their codes.  An int holds -INT_MAX-1 .. INT_MAX.        *)
(***************************************************************************)
EXTENDS Integers, SequencesExt

CONSTANTS BUFSZ,      \* the size of printf's buffer, 1024
          INT_MAX,
          VGA_WIDTH, VGA_HEIGHT,
          Formats,    \* the formats printed: sequences of items, with arguments
          MaxCalls    \* bound: how many calls of printf are made

UINT == 2 * (INT_MAX + 1)   \* how many values an int has

\* The items of a format, each with what it finds in the argument list.  A string
\* has no NUL in it.
Strings == Seq(1 .. 255)
Items ==
  [spec: {"text", "s", "?"}, arg: Strings] \cup [spec: {"c"}, arg: [1 .. 1 -> 0 .. 255]]
    \cup [spec: {"%"}, arg: {<<>>}]
    \cup [spec: {"d"}, arg: -INT_MAX - 1 .. INT_MAX]
    \cup [spec: {"u", "x"}, arg: 0 .. UINT - 1]
    \cup [spec: {"llu", "llx"}, arg: 0 .. UINT * UINT - 1]

ASSUME ConsoleAssumption ==
  /\ BUFSZ \in Nat \ {0}
  /\ INT_MAX \in Nat \ {0} /\ INT_MAX <= 2147483647
  /\ VGA_WIDTH \in Nat \ {0} /\ VGA_HEIGHT \in Nat \ {0}
  /\ Formats \subseteq Seq(Items)
  /\ MaxCalls \in Nat

NUL     == 0
JUNK    == 1    \* a byte behind printf's buffer, if it is not a newline
NEWLINE == 10
SPACE   == 32
PERCENT == 37
MINUS   == 45
ZERO    == 48

VARIABLES
  pc,        \* "idle", "format" in vsnprintf, "print" in print
  items,     \* what is left of the format
  buf,       \* printf's buffer
  written,   \* what vsnprintf has counted
  printed,   \* how many characters print has put out
  terminal_row, terminal_column,
  screen,    \* the characters in video memory
  asked,     \* history: the formats of all calls
  fell       \* history: a newline was put on the last row

format   == <<items, buf, written>>
terminal == <<terminal_row, terminal_column, screen, fell>>
vars     == <<pc, format, printed, terminal, asked>>

Cells == 0 .. VGA_WIDTH * VGA_HEIGHT - 1

Init ==
  /\ pc = "idle" /\ items = <<>>
  /\ buf = [i \in 0 .. BUFSZ - 1 |-> JUNK]
  /\ written = 0 /\ printed = 0
  /\ terminal_row = 0 /\ terminal_column = 0
  /\ screen = [i \in Cells |-> SPACE]
  /\ asked = <<>> /\ fell = FALSE

----------------------------------------------------------------------------
(* Conversions.                                                            *)

\* A number in the bits of an int.
AsInt(v) ==
  LET bits == v % UINT
  IN  IF bits > INT_MAX THEN bits - UINT ELSE bits

\* The digits of m, the last one first, and the sign C's % gives each of them.
Digits(m, sign) ==
  LET f[v \in 0 .. m] == IF v = 0 THEN <<>> ELSE <<ZERO + sign * (v % 10)>> \o f[v \div 10]
  IN  f[m]

\* Mutant: the digits are not reversed.
to_str_backwards(val) ==
  IF val = 0 THEN <<ZERO>>
  ELSE IF val < 0 THEN Append(Digits(-val, 1), MINUS) ELSE Digits(val, 1)

\* to_str.  The least int has no negation: its digits come out negative.
to_str(val) ==
  LET neg == AsInt(-val)
      abs == IF val < 0 THEN neg ELSE val
      rev == IF abs < 0 THEN Digits(-abs, -1) ELSE Digits(abs, 1)
  IN  IF val = 0 THEN <<ZERO>>
      ELSE Reverse(IF val < 0 THEN Append(rev, MINUS) ELSE rev)

HexDigit(d) == IF d < 10 THEN ZERO + d ELSE 87 + d

\* int_to_hex: the last digit is taken first.
int_to_hex(val, n) ==
  LET rest[k \in 0 .. n] == IF k = 0 THEN val ELSE rest[k - 1] \div 16
  IN  [i \in 1 .. n |-> HexDigit(rest[n - i] % 16)]

\* An int in hexadecimal takes as many digits as this.
HexWidth == CHOOSE n \in 1 .. 8 : 16 ^ n >= UINT /\ 16 ^ (n - 1) < UINT

\* The text of an item: a character of the format or a conversion.  %u, %lu and
\* %llu go through to_str, which takes an int.  An unknown conversion stays.
Text(i) ==
  CASE i.spec \in {"text", "s", "c"} -> i.arg
    [] i.spec = "%"                  -> <<PERCENT>>
    [] i.spec \in {"d", "u", "llu"}  -> to_str(AsInt(i.arg))
    [] i.spec = "x"                  -> int_to_hex(i.arg % UINT, HexWidth)
    [] i.spec = "llx"                -> int_to_hex(i.arg, 2 * HexWidth)
    [] i.spec = "?"                  -> <<PERCENT>> \o i.arg

----------------------------------------------------------------------------
(* vsnprintf.                                                              *)

\* The buffer with text behind what was written, as far as it has room.
Copied(text) ==
  [i \in DOMAIN buf |-> IF i - written \in 0 .. Len(text) - 1 /\ i + 1 < BUFSZ
                        THEN text[i - written + 1] ELSE buf[i]]

\* One turn of the loop.
FormatItem ==
  /\ pc = "format" /\ items # <<>>
  /\ buf' = Copied(Text(Head(items)))
  /\ written' = written + Len(Text(Head(items)))
  /\ items' = Tail(items)
  /\ UNCHANGED <<pc, printed, terminal, asked>>

Terminate ==
  /\ pc = "format" /\ items = <<>>
  /\ buf' = [buf EXCEPT ![IF written >= BUFSZ THEN BUFSZ - 1 ELSE written] = NUL]
  /\ pc' = "print"
  /\ printed' = 0
  /\ UNCHANGED <<items, written, terminal, asked>>

----------------------------------------------------------------------------
(* printf and the terminal.                                                *)

Printf(f) ==
  /\ pc = "idle" /\ Len(asked) < MaxCalls
  /\ pc' = "format"
  /\ items' = f
  /\ buf' = [i \in DOMAIN buf |-> JUNK]
  /\ written' = 0
  /\ asked' = Append(asked, f)
  /\ UNCHANGED <<printed, terminal>>

\* Mutants: the row after the last is not the first; a newline keeps the column.
RowNotWrapped(row) == row + 1
ColumnKept         == terminal_column

RowAfter(row) == IF row + 1 = VGA_HEIGHT THEN 0 ELSE row + 1

ColumnAfterNewline == 0

\* terminal_putchar: a newline does not look where the screen ends.
terminal_putchar(c) ==
  IF c = NEWLINE
  THEN /\ terminal_row' = terminal_row + 1
       /\ terminal_column' = ColumnAfterNewline
       /\ fell' = (fell \/ terminal_row + 1 = VGA_HEIGHT)
       /\ UNCHANGED screen
  ELSE LET at == terminal_row * VGA_WIDTH + terminal_column
           full == terminal_column + 1 = VGA_WIDTH
       IN  /\ screen' = [i \in Cells |-> IF i = at THEN c ELSE screen[i]]
           /\ terminal_column' = IF full THEN 0 ELSE terminal_column + 1
           /\ terminal_row' = IF full THEN RowAfter(terminal_row) ELSE terminal_row
           /\ UNCHANGED fell

\* print puts out what vsnprintf has counted, buffer or not.
PrintChar ==
  /\ pc = "print" /\ printed < written
  /\ \E c \in IF printed < BUFSZ THEN {buf[printed]} ELSE {JUNK, NEWLINE} : terminal_putchar(c)
  /\ printed' = printed + 1
  /\ UNCHANGED <<pc, format, asked>>

Return ==
  /\ pc = "print" /\ printed = written
  /\ pc' = "idle"
  /\ UNCHANGED <<format, printed, terminal, asked>>

Next ==
  \/ \E f \in Formats : Printf(f)
  \/ FormatItem \/ Terminate \/ PrintChar \/ Return

Spec == Init /\ [][Next]_vars

----------------------------------------------------------------------------
(* Properties.                                                             *)

TypeOK ==
  /\ pc \in {"idle", "format", "print"}
  /\ buf \in [0 .. BUFSZ - 1 -> Nat]
  /\ written \in Nat /\ printed \in Nat
  /\ terminal_row \in Nat /\ (fell \/ terminal_row < VGA_HEIGHT)
  /\ terminal_column \in 0 .. VGA_WIDTH - 1
  /\ screen \in [Cells -> Nat]
  /\ asked \in Seq(Formats) /\ Len(asked) <= MaxCalls
  /\ fell \in BOOLEAN

\* The decimal notation of an int: as many digits as it takes, by position.
Numeral(v) ==
  LET abs == IF v < 0 THEN -v ELSE v
      n   == CHOOSE k \in 1 .. 10 : 10 ^ k > abs /\ (k = 1 \/ 10 ^ (k - 1) <= abs)
  IN  (IF v < 0 THEN <<MINUS>> ELSE <<>>)
        \o [i \in 1 .. n |-> ZERO + ((abs \div 10 ^ (n - i)) % 10)]

IsDecimal(i) == i.spec \in {"d", "u", "llu"}

\* The text a format asks for.
Wanted(f) ==
  FlattenSeq([k \in DOMAIN f |-> IF IsDecimal(f[k]) THEN Numeral(f[k].arg) ELSE Text(f[k])])

\* Its decimal numbers have an int's magnitude, which is all that to_str can tell.
Tellable(f) == \A k \in DOMAIN f : IsDecimal(f[k]) => f[k].arg \in -INT_MAX .. INT_MAX

Least(a, b) == IF a < b THEN a ELSE b

\* vsnprintf (printf.c:40-160) leaves the text in the buffer, cut off to what
\* fits and ended by a NUL, and returns the length of all of it.
FormatsAsAsked ==
  LET text == Wanted(Last(asked))
      fits == Least(Len(text), BUFSZ - 1)
  IN  pc = "print" /\ Tellable(Last(asked)) =>
        /\ written = Len(text)
        /\ \A i \in 0 .. fits - 1 : buf[i] = text[i + 1]
        /\ buf[fits] = NUL

\* Where the k-th character of a text belongs on the screen: lines end at a
\* newline or at the screen's edge, and the screen is used from its top again.
LineStart(text, k) == Max({0} \cup {j \in 1 .. k - 1 : text[j] = NEWLINE})
Column(text, k)    == (k - 1 - LineStart(text, k)) % VGA_WIDTH
EndsRow(text, k)   == text[k] = NEWLINE \/ Column(text, k) = VGA_WIDTH - 1
Row(text, k)       == Cardinality({j \in 1 .. k - 1 : EndsRow(text, j)}) % VGA_HEIGHT
Place(text, k)     == Row(text, k) * VGA_WIDTH + Column(text, k)

Shown(text, i) ==
  LET here == {k \in DOMAIN text : text[k] # NEWLINE /\ Place(text, k) = i}
  IN  IF here = {} THEN SPACE ELSE text[Max(here)]

\* What is printed (printf.c:26-34) is what the screen shows (tty.c:41-53), also
\* after it was filled, unless a newline was put on the last row, a text did not
\* fit printf's buffer, or a number is none that to_str can tell.
ScreenShowsText ==
  LET text == FlattenSeq([k \in DOMAIN asked |-> Wanted(asked[k])])
  IN  /\ pc = "idle" /\ ~ fell
      /\ \A k \in DOMAIN asked : Tellable(asked[k]) /\ Len(Wanted(asked[k])) < BUFSZ
      => \A i \in Cells : screen[i] = Shown(text, i)
=============================================================================
