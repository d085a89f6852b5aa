----------------------------- MODULE LogBuffer ------------------------------
(***************************************************************************)
(* The log (kernel/kernel/circular_buffer.c): lines are formatted into     *)
(* slots of BUFFER and put out by dump_buffer when the slots run out, when *)
(* the kernel asks for it, and on panic (panic.c).  It is used from        *)
(* kernel_main's context only, so a call is one step.                      *)
(*                                                                         *)
(* The memory is kept cell by cell where a line may run past its end: a    *)
(* message longer than the local buffer is cut off, but its full length is *)
(* copied.  A character is only the number of the call it belongs to.      *)
(***************************************************************************)
EXTENDS Integers, Sequences

CONSTANTS NUM_LOG_LINES, LINE_SIZE,  \* 50 and 900 in circular_buffer.h
          BUF_SIZE,   \* the local buffers of a call, 100
          RESET_SIZE, \* strlen(RESET)
          Messages,   \* [prefix, size, colored]: the lengths a call formats
          MaxCalls    \* bound: how many lines are logged

ASSUME LogAssumption ==
  /\ NUM_LOG_LINES \in Nat /\ NUM_LOG_LINES > 1
  /\ BUF_SIZE \in Nat \ {0} /\ RESET_SIZE \in Nat \ {0}
  /\ LINE_SIZE \in Nat /\ 2 * BUF_SIZE + RESET_SIZE < LINE_SIZE
  /\ Messages \subseteq [prefix: 1 .. BUF_SIZE - 1, size: Nat, colored: BOOLEAN]
  /\ MaxCalls \in Nat

NUL   == 0
RESET == -1   \* a character of the escape sequence that ends a color
JUNK  == -2   \* a byte of the stack behind a call's local buffer

Cells    == 0 .. NUM_LOG_LINES * LINE_SIZE - 1
FULL_IDX == NUM_LOG_LINES

VARIABLES
  BUFFER,   \* the cells of all slots, one after the other
  tail,     \* the slot to be written next
  panicked,
  printed,  \* history: what dump_buffer has put out
  logged    \* history: the messages that were logged

vars == <<BUFFER, tail, panicked, printed, logged>>

Init ==
  /\ BUFFER = [c \in Cells |-> NUL]
  /\ tail = 0
  /\ panicked = FALSE
  /\ printed = <<>>
  /\ logged = <<>>

----------------------------------------------------------------------------
(* Slots.                                                                  *)

Slot(i) == i * LINE_SIZE

\* The first cell at or behind the start of slot i that ends a string.
Terminator(b, i) ==
  CHOOSE c \in Cells : c >= Slot(i) /\ b[c] = NUL /\ \A d \in Slot(i) .. c - 1 : b[d] # NUL

\* What printf("%s\n", BUFFER[i]) puts out.
Text(b, i) == [k \in 1 .. Terminator(b, i) - Slot(i) |-> b[Slot(i) + k - 1]]

\* memset(BUFFER[i], 0, strlen(BUFFER[i])).
Cleared(b, i) ==
  [c \in Cells |-> IF c \in Slot(i) .. Terminator(b, i) - 1 THEN NUL ELSE b[c]]

\* The buffer after the first n slots were put out and cleared in turn, and
\* what was put out.
Dumped[n \in 0 .. NUM_LOG_LINES] ==
  IF n = 0 THEN [mem |-> BUFFER, out |-> <<>>]
  ELSE LET before == Dumped[n - 1]
       IN  [mem |-> Cleared(before.mem, n - 1),
            out |-> Append(before.out, Text(before.mem, n - 1))]

----------------------------------------------------------------------------
(* The operations.                                                         *)

\* Mutant: tail is not reset.
DumpKeepsTail ==
  /\ BUFFER' = Dumped[tail].mem
  /\ printed' = printed \o Dumped[tail].out
  /\ UNCHANGED tail

Dump ==
  /\ BUFFER' = Dumped[tail].mem
  /\ printed' = printed \o Dumped[tail].out
  /\ tail' = 0

\* dump_buffer, called by kernel_main.
dump_buffer ==
  /\ ~ panicked
  /\ Dump
  /\ UNCHANGED <<panicked, logged>>

\* panic, called by anyone, puts out what is there and halts.
panic ==
  /\ ~ panicked
  /\ Dump
  /\ panicked' = TRUE
  /\ UNCHANGED logged

\* What the k-th call finds in its local buffer of the size its message has:
\* the characters, the NUL where the message ends or was cut off, and then
\* whatever lies behind the buffer.
Formatted(k, size, junk) ==
  [c \in 0 .. size - 1 |->
     IF c < BUF_SIZE - 1 THEN k ELSE IF c = BUF_SIZE - 1 THEN NUL ELSE junk]

\* Mutant: the color is never reset.
WrittenWithoutReset(b, i, m, k, junk) ==
  LET text  == Slot(i) + m.prefix
      reset == text + m.size
  IN  [c \in Cells |->
         IF c \in Slot(i) .. text - 1 THEN k
         ELSE IF c \in text .. reset - 1 THEN Formatted(k, m.size, junk)[c - text]
         ELSE b[c]]

\* b with a message in slot i: prefix, message and, in color, RESET.
Written(b, i, m, k, junk) ==
  LET text  == Slot(i) + m.prefix
      reset == text + m.size
  IN  [c \in Cells |->
         IF c \in Slot(i) .. text - 1 THEN k
         ELSE IF c \in text .. reset - 1 THEN Formatted(k, m.size, junk)[c - text]
         ELSE IF m.colored /\ c \in reset .. reset + RESET_SIZE - 1 THEN RESET
         ELSE b[c]]

\* Mutant: a full buffer is noticed one slot too late.
FullOneLate == tail = FULL_IDX

Full == tail = FULL_IDX - 1

TooLong(m) == m.size + m.prefix > LINE_SIZE

\* write_to_buffer and write_to_buffer_colored: a full buffer is dumped first.
write_to_buffer(m) ==
  LET flush == Full
      mem   == IF flush THEN Dumped[tail].mem ELSE BUFFER
      at    == IF flush THEN 0 ELSE tail
  IN  /\ ~ panicked /\ ~ TooLong(m)
      /\ Len(logged) < MaxCalls
      /\ \E junk \in {NUL, JUNK} :
           BUFFER' = Written(mem, at, m, Len(logged) + 1, junk)
      /\ printed' = IF flush THEN printed \o Dumped[tail].out ELSE printed
      /\ tail' = at + 1
      /\ logged' = Append(logged, m)
      /\ UNCHANGED panicked

\* panic("LOG_SIZE_OVERFLOW"): the line is not logged.
log_size_overflow(m) ==
  /\ TooLong(m)
  /\ panic

Next ==
  \/ \E m \in Messages : write_to_buffer(m) \/ log_size_overflow(m)
  \/ dump_buffer \/ panic

Spec == Init /\ [][Next]_vars

----------------------------------------------------------------------------
(* Properties.                                                             *)

Chars == {RESET, JUNK} \cup 1 .. MaxCalls

TypeOK ==
  /\ BUFFER \in [Cells -> {NUL} \cup Chars]
  /\ tail \in 0 .. FULL_IDX - 1
  /\ panicked \in BOOLEAN
  /\ \A i \in DOMAIN printed : printed[i] \in Seq(Chars)
  /\ logged \in Seq(Messages)

Pending == [i \in 1 .. tail |-> Text(BUFFER, i - 1)]

Repeat(x, n) == [i \in 1 .. n |-> x]

\* How the k-th message should read: cut off where the local buffer ends.
Line(m, k) ==
  Repeat(k, m.prefix + (IF m.size < BUF_SIZE THEN m.size ELSE BUF_SIZE - 1))
    \o (IF m.colored THEN Repeat(RESET, RESET_SIZE) ELSE <<>>)

\* write_to_buffer and dump_buffer (circular_buffer.c:20-93) keep LogPromise for
\* messages that fit the local buffer: no reuse of a slot, no flush and no panic
\* loses, repeats, reorders or alters a line.
Promise == INSTANCE LogPromise WITH
  Lines   <- {Line(m, k) : m \in Messages, k \in 1 .. MaxCalls},
  pending <- Pending,
  output  <- printed,
  stopped <- panicked

KeepsPromise == Promise!Spec

\* Every line reads as it was logged, at the place it was logged in, whether it
\* waits in its slot or has been put out (circular_buffer.c:44-46, 80-81).
LinesInOrder ==
  printed \o Pending = [k \in DOMAIN logged |-> Line(logged[k], k)]

\* circular_buffer.c:52-53, "we will write till buffer completes and then clear
\* it entirely": an empty buffer holds no trace of earlier lines.
ClearedEntirely == tail = 0 => \A c \in Cells : BUFFER[c] = NUL
=============================================================================
