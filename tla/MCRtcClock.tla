----------------------------- MODULE MCRtcClock -----------------------------
(* Two registers, so that a date can be torn, and no more time before an   *)
(* update than a call needs.                                               *)
EXTENDS RtcClock
=============================================================================
