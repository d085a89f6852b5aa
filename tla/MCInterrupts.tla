---------------------------- MODULE MCInterrupts ----------------------------
(* Three handlers deep: a UART handler, the RTC handler that interrupts it *)
(* and a further one between that handler's end of interrupt and its iret. *)
(* The stubs are 21 bytes long, from an address in the kernel's image on.  *)
EXTENDS Interrupts

Stubs ==
  [v \in Vectors |-> {i \in Bits(24) : ((1089536 + 21 * v) \div 2^i) % 2 = 1}]
=============================================================================
