---------------------------- MODULE MCLogBuffer -----------------------------
(* Three slots, of which two are used before a flush, and local buffers of *)
(* four bytes.  Five lines use the first slot up to five times.            *)
EXTENDS LogBuffer

\* A message that is longer than the local buffer, and one behind which it shows.
Overlong ==
  { [prefix |-> 1, size |-> 7, colored |-> FALSE],
    [prefix |-> 3, size |-> 3, colored |-> FALSE] }
=============================================================================
