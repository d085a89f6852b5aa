----------------------------- MODULE Interrupts -----------------------------
(***************************************************************************)
(* The interrupt system: the two cascaded PICs, interrupts.c, the RTC and  *)
(* UART handlers and the boot code that loads the descriptor tables, sets  *)
(* up the chips and registers the handlers (kernel.c, gdt.c, io/rtc.c,     *)
(* io/uart.c).  An interrupt goes through its gate to a stub.  The gates   *)
(* are trap gates, which leave interrupts enabled, so handlers can nest;   *)
(* an interrupt that can be taken is taken before the next instruction.    *)
(*                                                                         *)
(* A PIC latches the rising edge of a request line (irr), also of a masked *)
(* one, and serves it by priority: the slave's lines come in on the        *)
(* master's IRQ2, before IRQ4.  An end of interrupt names no line: it ends *)
(* the service of the highest priority.                                    *)
(***************************************************************************)
EXTENDS Integers, Sequences, Descriptors

CONSTANTS
  MaxDepth,        \* bound: how deep handlers nest
  INTERRUPT_MEM    \* where the stub of a vector is

CASCADE == 2   \* the master's line for the slave
UART    == 4   \* PIC_1_OFFSET + 4
RTC     == 8   \* PIC_2_OFFSET, the slave's first line

Irqs  == {UART, RTC}
Lines == {CASCADE, UART, RTC}

PIC_1_OFFSET == 32
PIC_2_OFFSET == 40

\* The vector of an interrupt, as PIC_remap tells the PICs.
Vector(q) == IF q >= 8 THEN q - 8 + PIC_2_OFFSET ELSE q + PIC_1_OFFSET

Vectors == {Vector(q) : q \in Irqs}

PIC_remove_offset(num) ==
  IF num >= PIC_2_OFFSET THEN num - PIC_2_OFFSET + 8 ELSE num - PIC_1_OFFSET

ASSUME DepthAssumption == MaxDepth \in Nat \ {0}

\* The stubs are words of memory of their own.
ASSUME StubAssumption ==
  /\ INTERRUPT_MEM \in [Vectors -> Word(32)]
  /\ \A v, w \in Vectors : INTERRUPT_MEM[v] = INTERRUPT_MEM[w] => v = w

VARIABLES
  enabled,    \* the processor's interrupt flag
  gdt, idt,   \* the descriptor tables
  imr,        \* masked lines
  irr, isr,   \* lines latched, and in service
  flags,      \* devices with a reason: register C's flag, an empty transmitter
  regB,       \* flags of the RTC's status register B
  chip,       \* the UART's registers; wasOpen is history, see Init
  handlers,   \* the interrupts with an entry in interruptList
  main,       \* where kernel_main is, the interrupt it registers, writes done
  stack       \* the handlers in progress, innermost last

vars == <<enabled, gdt, idt, imr, irr, isr, flags, regB, chip, handlers, main, stack>>

tables  == <<gdt, idt>>
pics    == <<imr, irr, isr>>
devices == <<flags, regB, chip>>

\* What firmware may leave in the chips.  chip.wasOpen remembers whether it left
\* the UART's divisor latch open, and is never changed.  The bootloader has
\* disabled interrupts.
Init ==
  /\ enabled = FALSE
  /\ gdt = [i \in 0 .. 2 |-> Zero] /\ idt = [v \in Vectors |-> Zero]
  /\ imr = {}
  /\ irr \in SUBSET Irqs /\ isr = {}
  /\ flags \in SUBSET Irqs
  /\ regB \in SUBSET {"periodic", "24h", "binary"}
  /\ chip \in [dlab: BOOLEAN, wasOpen: BOOLEAN, lo: {12}, hi: {0}, ier: {0, 2}, mcr: {0, 11}]
  /\ chip.wasOpen = chip.dlab
  /\ handlers = {}
  /\ main = [at |-> "init_gdt", irq |-> UART, n |-> 0]
  /\ stack = <<>>

----------------------------------------------------------------------------
(* The PICs.                                                               *)

\* Mutant: the bit of the slave's mask is used for the master's too.
MasterLineOffset(q) == IF q >= 8 THEN q - 8 ELSE q

\* Through which of its lines the master sees an interrupt.
MasterLine(q) == IF q >= 8 THEN CASCADE ELSE q

\* The master serves no line of the same or a higher priority.
HasPriority(q) == \A i \in isr \ {RTC} : MasterLine(q) < i

CanTake(q) ==
  /\ enabled /\ Len(stack) < MaxDepth
  /\ q \in irr \ (imr \cup isr)
  /\ MasterLine(q) \notin imr
  /\ HasPriority(q)

\* The gate of an interrupt leads into flat code, to a vector's stub.
Reaches(q, v) ==
  LET gate == idt[Vector(q)] IN
    /\ GatePresent(gate)
    /\ \E i \in DOMAIN gdt : GateSegment(gate, i) /\ IsFlatCode(gdt[i])
    /\ GateOffset(gate) = INTERRUPT_MEM[v]

Take(q) ==
  /\ CanTake(q)
  /\ irr' = irr \ {q}
  /\ isr' = isr \cup {q, MasterLine(q)}
  /\ \E v \in Vectors :
       /\ Reaches(q, v)
       /\ stack' = Append(stack, [irq |-> PIC_remove_offset(StubNumber(v)), at |-> "enter"])
  /\ enabled' = (GateType(idt[Vector(q)]) = TRAP_GATE)
  /\ UNCHANGED <<tables, imr, devices, handlers, main>>

\* The processor gets to execute an instruction of its current code.
Executes == \A q \in Irqs : ~ CanTake(q)

----------------------------------------------------------------------------
(* The devices.                                                            *)

Bit(w, k) == (w \div 2^k) % 2 = 1

\* The request lines that are high.  The UART's needs its interrupt enabled
\* and the pin OUT2, which loopback cuts off.
Raised ==
  flags \ ((IF "periodic" \in regB THEN {} ELSE {RTC})
           \cup (IF Bit(chip.ier, 1) /\ Bit(chip.mcr, 3) /\ ~ Bit(chip.mcr, 4) THEN {} ELSE {UART}))

\* The PICs latch what rises.
Latch == irr' = irr \cup (Raised' \ Raised)

\* The RTC's period is over; its flag stays up until register C is read.
RtcPeriod ==
  /\ flags' = flags \cup {RTC}
  /\ UNCHANGED <<enabled, tables, imr, isr, regB, chip, handlers, main, stack>>
  /\ Latch

\* The UART's transmitter runs empty, until it is written.
UartEmpty ==
  /\ UART \notin flags
  /\ flags' = flags \cup {UART}
  /\ UNCHANGED <<enabled, tables, imr, isr, regB, chip, handlers, main, stack>>
  /\ Latch

\* A write to the UART.  With the divisor latch open, two of its ports are
\* the divisor.
Outb(reg, val) ==
  /\ chip' = CASE reg = "IER" /\ chip.dlab   -> [chip EXCEPT !.hi = val]
               [] reg = "IER" /\ ~ chip.dlab -> [chip EXCEPT !.ier = val]
               [] reg = "DATA" /\ chip.dlab  -> [chip EXCEPT !.lo = val]
               [] reg = "LCR"                -> [chip EXCEPT !.dlab = Bit(val, 7)]
               [] reg = "MCR"                -> [chip EXCEPT !.mcr = val]
               [] OTHER                      -> chip
  /\ flags' = IF reg = "DATA" /\ ~ chip.dlab THEN flags \ {UART} ELSE flags
  /\ UNCHANGED <<imr, isr, regB>>
  /\ Latch

----------------------------------------------------------------------------
(* Handlers: the stub calls generic_interrupt_handler.                     *)

Top == stack[Len(stack)]

\* The innermost handler's instruction at a place, and the next place.
Handler(from, to) ==
  /\ stack # <<>> /\ Executes
  /\ Top.at = from
  /\ stack' = [stack EXCEPT ![Len(stack)].at = to]
  /\ UNCHANGED <<tables, imr, handlers, main>>

\* Mutant: IRQ8 is taken for one of the master's.
EOIOffByOne(q) == IF q > 8 THEN "slave_eoi" ELSE "master_eoi"

\* PIC_sendEOI first tells the slave of an interrupt of the slave's.
EOI(q) == IF q >= 8 THEN "slave_eoi" ELSE "master_eoi"

\* Mutant: the interrupt is ended before its handler is called.
EnterAfterEOI ==
  /\ Handler("enter", IF Top.irq \in handlers /\ Top.irq = RTC THEN "guarded" ELSE EOI(Top.irq))
  /\ enabled' = (enabled /\ Top.irq \notin handlers \cap {RTC})
  /\ isr' = isr \ {Top.irq, MasterLine(Top.irq)}
  /\ UNCHANGED <<irr, devices>>

\* interruptList[num] is called, if there is one.  uart_irq is one store;
\* process_rtc_interrupt counts the tick, clears SHOULD_POLL and disables
\* interrupts.
Enter ==
  /\ Handler("enter", IF Top.irq \in handlers /\ Top.irq = RTC THEN "guarded" ELSE EOI(Top.irq))
  /\ enabled' = (enabled /\ Top.irq \notin handlers \cap {RTC})
  /\ UNCHANGED <<irr, isr, devices>>

\* get_tick inside the guarded section enables interrupts again, or else the
\* end of the section does.
GetTick ==
  /\ Handler("guarded", "ack")
  /\ enabled' = TRUE
  /\ UNCHANGED <<irr, isr, devices>>

\* Mutant: register C is not read.
NoAck ==
  /\ Handler("ack", EOI(Top.irq))
  /\ UNCHANGED <<enabled, irr, isr, devices>>

\* Reading register C takes its flag back.
Ack ==
  /\ Handler("ack", EOI(Top.irq))
  /\ flags' = flags \ {RTC}
  /\ UNCHANGED <<enabled, irr, isr, regB, chip>>

SlaveEOI ==
  /\ Handler("slave_eoi", "master_eoi")
  /\ isr' = isr \ {RTC}
  /\ UNCHANGED <<enabled, irr, devices>>

MasterEOI ==
  /\ Handler("master_eoi", "iret")
  /\ isr' = isr \ {i \in isr \ {RTC} : \A j \in isr \ {RTC} : i <= j}
  /\ UNCHANGED <<enabled, irr, devices>>

\* iret restores the flags, and interrupts were enabled when it was taken.
Iret ==
  /\ stack # <<>> /\ Executes
  /\ Top.at = "iret"
  /\ stack' = SubSeq(stack, 1, Len(stack) - 1)
  /\ enabled' = TRUE
  /\ UNCHANGED <<tables, pics, devices, handlers, main>>

----------------------------------------------------------------------------
(* kernel_main.                                                            *)

Main(from, to) ==
  /\ stack = <<>> /\ Executes
  /\ main.at = from
  /\ main' = [main EXCEPT !.at = to]
  /\ UNCHANGED stack

InitGdt ==
  /\ Main("init_gdt", "init_idt")
  /\ gdt' = fill_gdt_vals
  /\ enabled' = FALSE
  /\ UNCHANGED <<idt, pics, devices, handlers>>

\* PIC_remap resets both PICs and masks every line; the gates; sti.
InitIdt ==
  /\ Main("init_idt", "init_serial")
  /\ imr' = Lines /\ irr' = {} /\ isr' = {}
  /\ idt' = [v \in Vectors |-> StubGate(INTERRUPT_MEM[v])]
  /\ enabled' = TRUE
  /\ UNCHANGED <<gdt, devices, handlers>>

\* Mutant: the latch is closed before the divisor's second byte.
SerialWritesEarly ==
  << <<"IER", 2>>, <<"LCR", 128>>, <<"DATA", 3>>, <<"LCR", 3>>, <<"IER", 0>>, <<"FCR", 199>>,
     <<"MCR", 11>>, <<"MCR", 30>>, <<"DATA", 174>> >>

\* The writes of init_serial up to the byte it sends to itself.
SerialWrites ==
  << <<"IER", 2>>, <<"LCR", 128>>, <<"DATA", 3>>, <<"IER", 0>>, <<"LCR", 3>>, <<"FCR", 199>>,
     <<"MCR", 11>>, <<"MCR", 30>>, <<"DATA", 174>> >>

InitSerialWrite ==
  /\ stack = <<>> /\ Executes
  /\ main.at = "init_serial" /\ main.n < Len(SerialWrites)
  /\ LET w == SerialWrites[main.n + 1] IN Outb(w[1], w[2])
  /\ main' = [main EXCEPT !.n = @ + 1]
  /\ UNCHANGED <<enabled, tables, handlers, stack>>

\* The byte has come back: loopback is over.
InitSerialDone ==
  /\ Main("init_serial", "register")
  /\ main.n = Len(SerialWrites)
  /\ Outb("MCR", 15)
  /\ UNCHANGED <<enabled, tables, handlers>>

\* It has not, or not yet: kernel_main's assert panics.
InitSerialFails ==
  /\ Main("init_serial", "panic")
  /\ main.n = Len(SerialWrites)
  /\ UNCHANGED <<enabled, tables, pics, devices, handlers>>

\* Mutant: the flags are added to those in register B.
ConfigureRtcAdds ==
  /\ Main("configure_rtc", "register")
  /\ regB' = regB \cup {"24h", "binary"}
  /\ UNCHANGED <<enabled, tables, imr, isr, flags, chip, handlers>>
  /\ Latch

\* The write of register B, before register_rtc_driver.
ConfigureRtc ==
  /\ Main("configure_rtc", "register")
  /\ regB' = {"24h", "binary"}
  /\ UNCHANGED <<enabled, tables, imr, isr, flags, chip, handlers>>
  /\ Latch

\* Mutant: interrupts stay enabled while a handler is registered.
RegisterUnguarded ==
  /\ Main("register", "unmask")
  /\ regB' = IF main.irq = RTC THEN regB \cup {"periodic"} ELSE regB
  /\ UNCHANGED <<enabled, tables, imr, isr, flags, chip, handlers>>
  /\ Latch

\* The guarded calls of register_interrupt by init_serial and, after enabling
\* the periodic interrupt, by register_rtc_driver.
Register ==
  /\ Main("register", "unmask")
  /\ enabled' = FALSE
  /\ regB' = IF main.irq = RTC THEN regB \cup {"periodic"} ELSE regB
  /\ UNCHANGED <<tables, imr, isr, flags, chip, handlers>>
  /\ Latch

UnmaskMaster ==
  /\ Main("unmask", IF main.irq >= 8 THEN "unmask_slave" ELSE "store")
  /\ imr' = imr \ {MasterLine(main.irq)}
  /\ UNCHANGED <<enabled, tables, irr, isr, devices, handlers>>

UnmaskSlave ==
  /\ Main("unmask_slave", "store")
  /\ imr' = imr \ {main.irq}
  /\ UNCHANGED <<enabled, tables, irr, isr, devices, handlers>>

StoreHandler ==
  /\ Main("store", "unguard")
  /\ handlers' = handlers \cup {main.irq}
  /\ UNCHANGED <<enabled, tables, pics, devices>>

\* The end of a guarded section; the UART is registered first, then the RTC.
Unguard ==
  /\ stack = <<>> /\ Executes
  /\ main.at = "unguard"
  /\ main' = IF main.irq = UART /\ RTC \notin handlers
             THEN [main EXCEPT !.at = "configure_rtc", !.irq = RTC]
             ELSE [main EXCEPT !.at = "run"]
  /\ enabled' = TRUE
  /\ UNCHANGED <<tables, pics, devices, handlers, stack>>

\* A guarded section of the running kernel: get_tick, the head of await.
Guard ==
  /\ Main("run", "unguard")
  /\ enabled' = FALSE
  /\ UNCHANGED <<tables, pics, devices, handlers>>

\* serial_putchar writes a byte, once the transmitter is empty.
Putchar ==
  /\ Main("run", "run")
  /\ UART \in flags
  /\ Outb("DATA", 0)
  /\ UNCHANGED <<enabled, tables, handlers>>

----------------------------------------------------------------------------
(* The specification.  The processor executes, the RTC's periods pass.     *)

Boot ==
  \/ InitGdt \/ InitIdt
  \/ InitSerialWrite \/ InitSerialDone \/ InitSerialFails \/ ConfigureRtc
  \/ Register \/ UnmaskMaster \/ UnmaskSlave \/ StoreHandler \/ Unguard

Handle == Enter \/ GetTick \/ Ack \/ SlaveEOI \/ MasterEOI \/ Iret

Next ==
  \/ \E q \in Irqs : Take(q)
  \/ RtcPeriod \/ UartEmpty
  \/ Enter \/ GetTick \/ Ack \/ SlaveEOI \/ MasterEOI \/ Iret
  \/ InitGdt \/ InitIdt
  \/ InitSerialWrite \/ InitSerialDone \/ InitSerialFails \/ ConfigureRtc
  \/ Register \/ UnmaskMaster \/ UnmaskSlave \/ StoreHandler \/ Unguard
  \/ Guard \/ Putchar

Spec == Init /\ [][Next]_vars

FairSpec ==
  /\ Spec
  /\ WF_vars(\E q \in Irqs : Take(q)) /\ WF_vars(Handle) /\ WF_vars(Boot)
  /\ WF_vars(RtcPeriod)

----------------------------------------------------------------------------
(* Properties.                                                             *)

Places == {"enter", "guarded", "ack", "slave_eoi", "master_eoi", "iret"}

TypeOK ==
  /\ enabled \in BOOLEAN
  /\ gdt \in [0 .. 2 -> Word(64)] /\ idt \in [Vectors -> Word(64)]
  /\ imr \subseteq Lines /\ irr \subseteq Irqs /\ isr \subseteq Lines
  /\ flags \subseteq Irqs
  /\ regB \subseteq {"periodic", "24h", "binary"}
  /\ chip \in [dlab: BOOLEAN, wasOpen: BOOLEAN,
               lo: 0 .. 255, hi: 0 .. 255, ier: 0 .. 255, mcr: 0 .. 255]
  /\ handlers \subseteq Irqs
  /\ main \in [at: {"init_gdt", "init_idt", "init_serial", "configure_rtc", "register", "unmask",
                    "unmask_slave", "store", "unguard", "run", "panic"},
               irq: Irqs, n: 0 .. Len(SerialWrites)]
  /\ stack \in Seq([irq: Irqs, at: Places]) /\ Len(stack) <= MaxDepth

\* From init_idt on (interrupts.c:168-179), the gate of each interrupt, taken
\* apart as the processor does, is a present trap gate of the kernel's into flat
\* code (gdt.c:166-168), at the stub that calls its own handler.
GatesReachStubs ==
  main.at \notin {"init_gdt", "init_idt"} =>
    /\ IsFlatCode(gdt[1]) /\ IsFlatData(gdt[2])
    /\ \A q \in Irqs :
         LET gate == idt[Vector(q)] IN
           /\ GatePresent(gate) /\ GateType(gate) = TRAP_GATE /\ GateDpl(gate) = Zero
           /\ GateSegment(gate, 1)
           /\ \A v \in Vectors :
                GateOffset(gate) = INTERRUPT_MEM[v] <=> PIC_remove_offset(StubNumber(v)) = q

\* A driver's handler is stored only when its chip is set up as the driver
\* means it: init_serial's nine writes (uart.c:31-49) reach the registers they
\* are for, and nothing of register B is left from before (rtc.c:88-95).  If firmware
\* left the divisor latch open, the first write (uart.c:31) goes to the divisor
\* and is never repeated: everything else still holds.
DriversSetUp ==
  /\ UART \in handlers =>
       /\ ~ chip.dlab /\ chip.lo = 3 /\ chip.hi = 0 /\ chip.mcr = 15
       /\ ~ chip.wasOpen => chip.ier = 2
  /\ RTC \in handlers => regB = {"periodic", "24h", "binary"}

\* No interrupt is taken before its handler is stored (interrupts.c:94-98),
\* although register_interrupt unmasks it first (interrupts.c:211-218).
NoUnhandled == \A i \in DOMAIN stack : stack[i].irq \in handlers

\* The RTC handler (rtc.c:128-132, future.c:72-81) is interrupted by no other
\* one until its end of interrupt, though it enables interrupts half way.
RtcHandlerRunsAlone ==
  \A i \in 1 .. Len(stack) - 1 : stack[i].irq = RTC => stack[i].at = "iret"

\* The lines a handler's ends of interrupt have yet to take out of service.
InService(f) ==
  CASE f.at = "iret"       -> {}
    [] f.at = "master_eoi" -> {MasterLine(f.irq)}
    [] OTHER               -> {f.irq, MasterLine(f.irq)}

\* PIC_sendEOI (interrupts.c:42-47) names no interrupt, yet with handlers nested
\* it ends the one whose handler sends it.
EOIEndsItsOwn == isr = UNION {InService(stack[i]) : i \in DOMAIN stack}

\* Once the kernel runs, the tick is counted for ever: no masking, nesting,
\* flag left in register C or coincidence of that flag with its read stops the
\* RTC for good.  Only the UART's test can stop the boot (kernel.c:43).
TicksForever ==
  []<>(main.at = "panic" \/ (stack # <<>> /\ Top = [irq |-> RTC, at |-> "ack"]))
=============================================================================
