------------------------------ MODULE MCSleep -------------------------------
(* A word of four bits: sleeps that end before it wraps, on its greatest   *)
(* value, after it, and one whose product with the frequency wraps.        *)
EXTENDS Sleep
Lengths == {0, 1, 3, 4, 7, 9}
=============================================================================
