-------------------------------- MODULE MCPci --------------------------------
(* Three slots, of which two are used before a flush, and local buffers of *)
(* four bytes: the boot's lines and the probe's six use a slot up to five  *)
(* times.  Two buses of two slots.                                         *)
EXTENDS Pci

\* An empty message, one that just fits the local buffer, one whose last
\* character is cut off, and short ones in color.
Fitting ==
  { [prefix |-> 1, size |-> 0, colored |-> FALSE],
    [prefix |-> 3, size |-> 3, colored |-> FALSE],
    [prefix |-> 2, size |-> 4, colored |-> FALSE],
    [prefix |-> 2, size |-> 1, colored |-> TRUE],
    [prefix |-> 3, size |-> 20, colored |-> FALSE] }

Short(place) ==
  IF place \in {"log_io", "log_mmap"}
  THEN [prefix |-> 2, size |-> 1, colored |-> TRUE]
  ELSE IF place = "log_mmio" THEN [prefix |-> 2, size |-> 4, colored |-> FALSE]
  ELSE [prefix |-> 1, size |-> 0, colored |-> FALSE]

Lines == [place \in {"log_found", "log_io", "log_mac", "log_mac2", "log_mmap", "log_mmio"} |->
            Short(place)]

None == [kind |-> "none", addr |-> 0]
Io(a) == [kind |-> "io", addr |-> a]
Mem(a) == [kind |-> "mem", addr |-> a]

\* Six registers, of which the given ones are not empty.
Bars(f) == [i \in 0 .. 5 |-> IF i \in DOMAIN f THEN f[i] ELSE None]

Card(bus, slot, id, header, f) ==
  [bus |-> bus, slot |-> slot, id |-> id, header |-> header, bars |-> Bars(f)]

Usual == [i \in 0 .. 1 |-> IF i = 0 THEN Io(36) ELSE Mem(64)]

\* Registers that come last, the other way round, or on their own.
Late  == [i \in 4 .. 5 |-> IF i = 4 THEN Mem(32) ELSE Io(8)]
NoIo  == [i \in 2 .. 2 |-> Mem(96)]
NoMem == [i \in 0 .. 0 |-> Io(0)]

\* A 64-bit register that has got no address yet.
Unassigned == [i \in 3 .. 4 |-> IF i = 3 THEN [kind |-> "mem64", addr |-> 0] ELSE Io(12)]

\* A 64-bit address below and above 4 GiB, and an I/O base behind it.
Wide(upper) ==
  [i \in 0 .. 2 |-> CASE i = 0 -> [kind |-> "mem64", addr |-> 16]
                      [] i = 1 -> [kind |-> "upper", addr |-> upper]
                      [] i = 2 -> Io(20)]

\* The card may be missing, anywhere, twice, of a kind the probe refuses
\* (several functions, a self test, another header), or have other registers.
Hardware ==
  { {},
    {Card(0, 0, "other", 0, Late), Card(1, 1, "rtl8139", 0, Usual)},
    {Card(0, 1, "rtl8139", 0, Late), Card(1, 0, "rtl8139", 0, Usual)},
    {Card(0, 0, "rtl8139", 128, Usual), Card(0, 1, "rtl8139", 0, Late)},
    {Card(1, 0, "rtl8139", 32768, Usual)},
    {Card(0, 1, "rtl8139", 2, Usual)},
    {Card(1, 1, "rtl8139", 0, NoIo)},
    {Card(1, 1, "rtl8139", 0, Unassigned)},
    {Card(0, 0, "rtl8139", 0, NoMem)},
    {Card(0, 0, "rtl8139", 0, Wide(0))},
    {Card(0, 0, "rtl8139", 0, Wide(1))} }
=============================================================================
