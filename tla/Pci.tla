--------------------------------- MODULE Pci ---------------------------------
(***************************************************************************)
(* The end of kernel_main (kernel.c): it looks for its network card on the *)
(* PCI buses (kernel/kernel/pci.c), reads the card's base addresses and    *)
(* logs what it finds; a search that fails panics, which flushes the log.  *)
(* What the boot has logged before is free.                                *)
(***************************************************************************)
EXTENDS LogBuffer

CONSTANTS
  NUM_BUSES, NUM_SLOTS,  \* 256 and 32
  Wanted,     \* the vendor and device looked for
  Machines,   \* sets of cards: [bus, slot, id, header, bars]
  ProbeLine,  \* the messages that the probe logs, by place
  BootLines   \* bound: how many lines are logged before

Places == {"boot", "find", "log_found", "io", "log_io", "log_mac", "log_mac2",
           "mmap", "log_mmap", "log_mmio", "dump", "end"}

\* A base address register: I/O space, memory below 4 GiB, the two halves of a
\* 64-bit address, or none.
Kinds == {"io", "mem", "mem64", "upper", "none"}

\* An address is aligned: its low bits are where the register has its flags.
Registers ==
  {b \in [kind: Kinds, addr: Nat] :
     /\ b.kind = "io" => b.addr % 4 = 0
     /\ b.kind \in {"mem", "mem64"} => b.addr % 16 = 0
     /\ b.kind = "none" => b.addr = 0}

Cards == [bus: 0 .. NUM_BUSES - 1, slot: 0 .. NUM_SLOTS - 1, id: {Wanted} \cup STRING,
          header: 0 .. 2^16 - 1, bars: [0 .. 5 -> Registers]]

ASSUME PciAssumption ==
  /\ NUM_BUSES \in 1 .. 256 /\ NUM_SLOTS \in 1 .. 32
  /\ Wanted # "none"  \* nobody's vendor is 0xffff
  /\ BootLines \in Nat
  /\ ProbeLine \in [{"log_found", "log_io", "log_mac", "log_mac2", "log_mmap", "log_mmio"} ->
                      Messages]
  /\ \A place \in DOMAIN ProbeLine : ~ TooLong(ProbeLine[place])  \* short formats
  /\ \A cards \in Machines :
       /\ cards \subseteq Cards
       /\ \A c, d \in cards : c.bus = d.bus /\ c.slot = d.slot => c = d

VARIABLES
  cards,  \* the cards of this machine
  at,     \* where kernel_main is
  scan,   \* find_pci_address's bus and slot, and then pci.address
  bar,    \* find_io_base's or find_mmap_base's i
  bases   \* base_addr and memory_addr, once they are found

pci_vars == <<cards, at, scan, bar, bases>>
allvars  == <<vars, pci_vars>>

PciInit ==
  /\ Init
  /\ cards \in Machines
  /\ at = "boot"
  /\ scan = [bus |-> 0, slot |-> 0]
  /\ bar = 0
  /\ bases = [io |-> -1, mmap |-> -1]

----------------------------------------------------------------------------
(* Configuration space.                                                    *)

\* What a base address register reads as.
BarWord(b) ==
  CASE b.kind = "io"    -> b.addr + 1
    [] b.kind = "mem64" -> b.addr + 4
    [] OTHER            -> b.addr

\* The bridge takes the address apart; where no card answers, all bits are one.
Answer(address) ==
  LET bus  == (address \div 2^16) % 256
      slot == (address \div 2^11) % 32
      reg  == (address % 2^8) \div 4
      here == {c \in cards : c.bus = bus /\ c.slot = slot}
  IN  IF here = {} THEN [id |-> "none"]
      ELSE LET c == CHOOSE c \in here : TRUE
           IN  CASE reg = 0       -> [id |-> c.id]
                 [] reg = 3       -> [header |-> c.header]
                 [] reg \in 4 .. 9 -> [bar |-> BarWord(c.bars[reg - 4])]

\* Mutant: the slot is shifted by one too few.
pci_config_read_shifted(a, offset) == Answer(a.bus * 2^16 + a.slot * 2^10 + offset)

\* The enable bit is left out.
pci_config_read(a, offset) == Answer(a.bus * 2^16 + a.slot * 2^11 + offset)

pci_read_register(a, reg) == pci_config_read(a, reg * 4)

----------------------------------------------------------------------------
(* find_pci_address.                                                       *)

IsWanted == pci_config_read(scan, 0).id = Wanted

HeaderType == pci_read_register(scan, 3).header

IsLast == scan = [bus |-> NUM_BUSES - 1, slot |-> NUM_SLOTS - 1]

FindSkip ==
  /\ ~ panicked /\ at = "find"
  /\ ~ IsWanted /\ ~ IsLast
  /\ scan' = IF scan.slot < NUM_SLOTS - 1
             THEN [scan EXCEPT !.slot = @ + 1]
             ELSE [bus |-> scan.bus + 1, slot |-> 0]
  /\ UNCHANGED <<vars, cards, at, bar, bases>>

FindDone ==
  /\ ~ panicked /\ at = "find"
  /\ IsWanted /\ HeaderType \in {0, 2, 3}
  /\ at' = "log_found"
  /\ UNCHANGED <<vars, cards, scan, bar, bases>>

FindPanic ==
  /\ at = "find"
  /\ IF IsWanted THEN HeaderType \notin {0, 2, 3} ELSE IsLast
  /\ panic
  /\ UNCHANGED pci_vars

----------------------------------------------------------------------------
(* find_io_base and find_mmap_base.                                        *)

Word == pci_read_register(scan, 4 + bar).bar

\* Mutant: the I/O base is masked like one of memory.
BaseMaskedAlike(which) == Word - (Word % 16)

\* The register without its flags, or -1 if it is not of the kind looked for.
Base(which) ==
  CASE which = "io" /\ Word % 2 = 1 /\ Word > 0   -> Word - (Word % 4)
    [] which = "mmap" /\ Word % 2 = 0 /\ Word > 0 -> Word - (Word % 16)
    [] OTHER                                      -> -1

BarSkip(which) ==
  /\ ~ panicked /\ at = which
  /\ HeaderType = 0
  /\ Base(which) = -1 /\ bar < 5
  /\ bar' = bar + 1
  /\ UNCHANGED <<vars, cards, at, scan, bases>>

BarFound(which) ==
  /\ ~ panicked /\ at = which
  /\ HeaderType = 0
  /\ Base(which) # -1
  /\ bases' = [bases EXCEPT ![which] = Base(which)]
  /\ bar' = 0
  /\ at' = IF which = "io" THEN "log_io" ELSE "log_mmap"
  /\ UNCHANGED <<vars, cards, scan>>

\* The assert of the header type, or no register of the kind.
BarPanic(which) ==
  /\ at = which
  /\ HeaderType # 0 \/ (Base(which) = -1 /\ bar = 5)
  /\ panic
  /\ UNCHANGED pci_vars

----------------------------------------------------------------------------
(* kernel_main.                                                            *)

\* The boot logs lines and may flush or panic.
Boot ==
  /\ at = "boot"
  /\ \/ /\ Len(logged) < BootLines
        /\ \E m \in Messages : write_to_buffer(m) \/ log_size_overflow(m)
     \/ dump_buffer \/ panic
  /\ UNCHANGED pci_vars

StartProbe ==
  /\ ~ panicked /\ at = "boot"
  /\ at' = "find"
  /\ UNCHANGED <<vars, cards, scan, bar, bases>>

\* Where kernel_main goes on after a line.
After(place) ==
  CASE place = "log_found" -> "io"
    [] place = "log_io"    -> "log_mac"
    [] place = "log_mac"   -> "log_mac2"
    [] place = "log_mac2"  -> "mmap"
    [] place = "log_mmap"  -> "log_mmio"
    [] place = "log_mmio"  -> "dump"

Log ==
  /\ at \in DOMAIN ProbeLine
  /\ write_to_buffer(ProbeLine[at])
  /\ at' = After(at)
  /\ UNCHANGED <<cards, scan, bar, bases>>

FinalDump ==
  /\ at = "dump"
  /\ dump_buffer
  /\ at' = "end"
  /\ UNCHANGED <<cards, scan, bar, bases>>

PciNext ==
  \/ Boot \/ StartProbe
  \/ FindSkip \/ FindDone \/ FindPanic
  \/ \E which \in {"io", "mmap"} : BarSkip(which) \/ BarFound(which) \/ BarPanic(which)
  \/ Log \/ FinalDump

PciSpec == PciInit /\ [][PciNext]_allvars

----------------------------------------------------------------------------
(* Properties.                                                             *)

PciTypeOK ==
  /\ TypeOK
  /\ cards \in Machines
  /\ at \in Places
  /\ scan \in [bus: 0 .. NUM_BUSES - 1, slot: 0 .. NUM_SLOTS - 1]
  /\ bar \in 0 .. 5
  /\ bases \in [io: Nat \cup {-1}, mmap: Nat \cup {-1}]

\* The cards looked for that no other one comes before in the order of the scan.
First ==
  {c \in cards :
     /\ c.id = Wanted
     /\ \A d \in cards : d.id = Wanted =>
          c.bus < d.bus \/ (c.bus = d.bus /\ c.slot <= d.slot)}

\* find_pci_address (pci.c:19-56) ends at the first of the cards looked for, and
\* panics only if there is none or its header word is not one of three: with
\* the multi-function or a self-test bit set it never is (pci.c:35-45).
ProbeEndsRight ==
  /\ at \notin {"boot", "find"} => \E c \in First : scan = [bus |-> c.bus, slot |-> c.slot]
  /\ at = "find" /\ panicked => \A c \in First : c.header \notin {0, 2, 3}

\* The registers of a card that hold a base address of a kind; one that is not
\* there reads as zero.
Holding(c, which) ==
  {b \in {c.bars[i] : i \in 0 .. 5} :
     b.kind \in (IF which = "io" THEN {"io"} ELSE {"mem", "mem64"}) /\ BarWord(b) > 0}

\* The upper half of a 64-bit address is taken for a register of its own.
HasUpperHalf(c) == \E i \in 0 .. 5 : c.bars[i].kind = "upper" /\ c.bars[i].addr > 0

\* What find_io_base and find_mmap_base (pci.c:58-78) return is the address of
\* such a resource of the card, and they panic only if it has none or is no
\* general device; unless it has a 64-bit address above 4 GiB.
BasesAreOfTheirKind ==
  \A which \in {"io", "mmap"}, c \in First :
    ~ HasUpperHalf(c) /\ at \notin {"boot", "find"} =>
      /\ bases[which] # -1 => \E b \in Holding(c, which) : b.addr = bases[which]
      /\ at = which /\ panicked => c.header # 0 \/ Holding(c, which) = {}
=============================================================================
