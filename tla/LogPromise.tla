----------------------------- MODULE LogPromise -----------------------------
(***************************************************************************)
(* What a log promises: what was logged comes out later, in the order it   *)
(* was logged, unchanged, no line lost and none twice; and a kernel that   *)
(* has stopped keeps nothing back.                                         *)
(***************************************************************************)
EXTENDS Sequences

CONSTANT Lines   \* the lines that can be logged

VARIABLES pending,  \* the lines logged and not yet put out, oldest first
          output,   \* the lines put out
          stopped   \* the kernel has panicked

vars == <<pending, output, stopped>>

Init == pending = <<>> /\ output = <<>> /\ stopped = FALSE

\* A line is logged; everything before it may be put out first.
Log ==
  \E line \in Lines :
    \/ pending' = Append(pending, line) /\ UNCHANGED <<output, stopped>>
    \/ /\ output' = output \o pending
       /\ pending' = <<line>>
       /\ UNCHANGED stopped

Flush ==
  /\ output' = output \o pending
  /\ pending' = <<>>
  /\ stopped' \in BOOLEAN

Next == ~ stopped /\ (Log \/ Flush)

Spec == Init /\ [][Next]_vars
=============================================================================
