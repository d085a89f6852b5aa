# A verification of c-kernel in TLA+

`c-kernel` is a 32-bit x86 kernel in C: it boots by multiboot, sets up
segments, interrupts, a heap, a serial port and the real-time clock, awaits
futures from its one context, and logs to a VGA terminal and the serial port.
This directory holds TLA+ models of its parts, the configurations that TLC
checks them with, and theorems that TLAPS proves about them.
`PROJECT.json` says for every definition which lines of the source it models,
lists the runs, the mutants that each property is tried on, the findings, the
hazards and the theorems.

## 1. The system

| Component | Source | State | Operations | Interacts with |
|---|---|---|---|---|
| Heap | `kernel/kernel/allocator.c` | the free list `freeSegment`, headers in memory | `initialize_free_segments`, `malloc`, `free`; `deep_copy`, `FreeSegment_delete` | reads the multiboot memory map; called by `create_future`, `delete_future` |
| Futures | `kernel/kernel/future.c` | `futureList`, `SHOULD_POLL` | `init_futures`, `create_future`, `await`, `delete_future`, `process_time_futures`, `wakeup_executor` | the RTC and UART handlers set the flag that `await` waits for |
| Tick | `kernel/kernel/monotonic_tick.c` | `monotonicTick` | `process_tick`, `get_tick` | called by the RTC handler, read by `sleep` and futures |
| `sleep` | `libc/stdlib/unistd.c` | locals | `sleep` | reads the tick, halts until an interrupt |
| UART | `kernel/kernel/io/uart.c` | the chip | `init_serial`, `uart_irq`, `serial_write`, `serial_putchar` | its handler wakes the executor |
| RTC | `kernel/kernel/io/rtc.c` | the chip | `get_date_time`, `set_date_time`, `configure_rtc`, `process_rtc_interrupt` | shares the CMOS index port with its own handler; drives the tick |
| Interrupts | `kernel/kernel/interrupts.c` | both PICs, `interruptTable`, `interruptList` | `init_idt`, `register_interrupt`, `generic_interrupt_handler`, `PIC_sendEOI` | calls the drivers' handlers |
| Guarded sections | `include/utils.h` | the interrupt flag | `INTERRUPT_GUARDED` | used everywhere; does not nest |
| Spinlock | `kernel/kernel/spinlock.c` | `locked` | `spin_lock`, `spin_trylock`, `spin_unlock` | asserts panic |
| Log | `kernel/kernel/circular_buffer.c` | `BUFFER`, `tail` | `write_to_buffer`, `write_to_buffer_colored`, `dump_buffer` | formats with `vsnprintf`, flushed by `panic` |
| Panic | `kernel/kernel/panic.c` | – | `panic`, `assert` | flushes the log, stops |
| Formatting | `libc/stdio/printf.c`, `kernel/kernel/utils.c` | a buffer | `vsnprintf`, `to_str`, `int_to_hex`, `printf` | writes to the terminal |
| Terminal | `kernel/arch/i386/tty.c` | row, column, video memory | `terminal_initialize`, `terminal_putchar`, `terminal_write` | also writes to the serial port |
| Segments | `kernel/kernel/gdt.c` | `gdt` | `init_gdt` and the functions that pack and parse descriptors | every gate leads into a segment of `gdt` |
| PCI | `kernel/kernel/pci.c` | – | `find_pci_address`, `find_io_base`, `find_mmap_base` | called by `kernel_main`, which logs what they return; their panics flush the log |
| Multiboot, string functions, boot assembly | `multiboot.c`, `libc/string`, `arch/i386/*.S` | – | logging, byte loops | – |

What is hard in it, and what makes each part correct:

* **Interleaving with interrupts.** One context runs, and handlers run between
  any two of its instructions. `await` clears a flag that handlers set, tests
  it and halts; `sleep` reads a tick and halts. Correct: an awaited sleep ends,
  a due sleeper is woken, a byte is put out; a sleep is neither early nor late.
* **Nested interrupts.** The gates are trap gates and guarded sections do not
  nest, so handlers may interrupt handlers. Correct: only registered handlers
  run, the one that shares state is not interrupted, every end of interrupt ends
  the right line, and the tick never stops.
* **Shared ports.** The RTC's handler selects register C under a date that is
  being read. Correct: a date is read and written as a whole.
* **A data structure in raw memory.** Correct: no byte of the heap is lost or
  given twice, the list is sorted and coalesced, panics have a reason.
* **Bit layouts.** Descriptors, gates and configuration addresses are packed by
  shifts of words of different widths. Correct: the processor and the bridge take
  out what the kernel meant to put in.
* **Chips that keep state.** The UART's ports change their meaning with the
  divisor latch, firmware leaves flags in the RTC. Correct: a driver's chip is set
  up as the driver means it when its handler is stored.
* **Limits.** A full list of futures, a full log, a full screen, a tick that
  wraps, a message longer than its buffer.
* **Real parallelism** in the spinlock only, which is meant for it.

The hazards of `PROJECT.json` name each of these at its line.

## 2. Modules

| Module | Models | Composition |
|---|---|---|
| `HeapPromise` | what a heap promises: aligned, disjoint regions that nothing moves | abstract |
| `Allocator` | the heap, a turn of a walk at a time | implements `HeapPromise` (`KeepsPromise`) |
| `HeapCopy` | `deep_copy` and `FreeSegment_delete`, and the other callers | extends `Allocator`; proved to implement it |
| `Executor` | futures, the tick and the UART handler against `await` | composes `future.c`, `monotonic_tick.c`, `uart.c`; heap slots abstracted to `IsNext` |
| `Descriptors` | the bits of segment descriptors and gates, and how an x86 reads them | pure operators of `gdt.c` and `interrupts.c` |
| `Interrupts` | tables, PICs, chips, dispatch, handlers, registration, boot | extends `Descriptors`; composes `interrupts.c`, `gdt.c`, `rtc.c`, `uart.c`, `kernel.c` |
| `Spinlock` | the lock, an access at a time | – |
| `LogPromise` | what a log promises: lines come out once, in order, unaltered | abstract |
| `LogBuffer` | the log's memory cell by cell | implements `LogPromise` (`KeepsPromise`) |
| `Pci` | the probe of the network card at the end of `kernel_main` | extends `LogBuffer`; composes `pci.c`, `kernel.c` and the log |
| `RtcClock` | reading and setting the date beside the clock and its interrupt | composes `rtc.c`'s calls and its handler |
| `Sleep` | `sleep`, and `await` of a lone future, on a tick of a word's width | composes `unistd.c`, `future.c`, `monotonic_tick.c` |
| `Console` | `printf`: formatting, then the terminal | composes `printf.c`, `utils.c`, `tty.c` |
| `MC…` | constants for TLC | extend the module they check |
| `ExecutorProofs`, `SpinlockProofs`, `RtcClockProofs`, `SleepProofs`, `ConsoleProofs` | theorems | extend the module of that name and `TLAPS` |
| `AllocatorProofs`, `InterruptsProofs`, `PciProofs` | theorems about `Allocator` and `HeapCopy`; `Descriptors` and `Interrupts`; `LogBuffer` and `Pci` | extend the last-named module and `TLAPS` |

### How state and actions correspond to the code

* **Allocator.** `heap` maps the address of a live header to its fields; a
  header disappears when its segment is merged. `Malloc` and `Free` are the
  calls; `MallocSkip`, `MallocCarve`, `FreeSkip` and `FreeInsert` are one turn
  of their loops, with `cursor` for `free_segment_ptr` and `free_list_ptr`.
  `FreeInsert` does all that a turn does: link, merge with the upper and with
  the lower neighbour. `allocated` and `heapEnd` are history variables. No two
  calls overlap: only the one context allocates. Addresses do not wrap, because
  `RequestAssumption` and `MapAssumption` bound the sizes as the code's callers
  and a 32-bit machine do. A map entry's address has 64 bits and is cast to a
  pointer before it is compared (`Narrowed`), so boot also takes a block above 4 GiB
  with the kernel's lower bits for the kernel's; `MapAssumption` bounds the length of
  the entry it takes, whichever that is.
* **HeapCopy.** The caller's recursion is a phase: `CopyMalloc` calls `malloc`
  for a node, the turns of that call are `Allocator`'s, `CopyFill` stores the size
  and goes on to the next segment, and the recursion of `FreeSegment_delete` frees
  the last node first. The size is read when `malloc` has returned, as the code's
  comment says. While it copies or deletes nobody else calls; in between everybody
  does, with any segment but the nodes. `copy` holds each node's segment and size.
* **Executor.** `pc` is where the one context is in `await` or `serial_write`.
  `ticksLeft[c]` is a context's `target_tick` minus the tick and is kept when
  the context is freed, as the memory is. `RtcInterrupt` and `UartInterrupt` are
  whole handlers, enabled between any two steps. `Store` past the array hits
  `lastIdx`, which follows it in `struct FutureList`, and possibly
  `SHOULD_POLL`, which the linker may put next. Contexts alive together take
  slots as `malloc` would hand them out when only contexts are allocated
  (`IsNext`); when all are taken, `create_future` panics in `malloc`
  (`CreateFuturePanics`).
* **Descriptors.** A word is the set of its bits that are one, so a shift or a
  mask is a set comprehension and width is part of it (`Shl(w, k, n)`). The
  functions have the code's names; `SignExtended` is the conversion of
  `segment_selector << 16`, an `int`. The last part is the processor's reading.
* **Interrupts.** `InitGdt` and `InitIdt` store the tables and an interrupt is
  taken through its gate (`Reaches`) to whichever stub the gate's offset names.
  `InitSerialWrite` is one of `init_serial`'s nine port writes, which `Outb` sends
  to the register that the divisor latch selects; a request line is high when
  flag, enable bits, OUT2 and loopback say so (`Raised`), and the PICs latch its
  rise. `Init` admits what firmware may leave in flags, enables, register B and the
  divisor latch. If that latch is open, `init_serial`'s first write (`uart.c:31`),
  meant for the interrupt-enable register, goes to the divisor; the divisor is
  written again, the register is not and keeps firmware's value. `chip.wasOpen` is a
  history field that remembers this case.
  `main` is `kernel_main`'s place, `stack` the handlers in
  progress with their places; `imr`, `irr`, `isr` are the PICs' registers. An
  interrupt that can be taken is taken before the next instruction (`Executes`).
  The external definitions are the 8259A's, the MC146818's and the 16550's
  behaviour as far as the code relies on it. Handlers of other lines do not
  exist: all lines but the two registered ones stay masked.
* **Spinlock.** `Exchange` is the `xchg`; `AssertSet` the second read of the
  lock in `set_val_atomic`; `VerifyLocked` and `UnlockTest` the further reads.
  `beside` says whether the three bytes behind the lock, which a 32-bit exchange
  on an 8-bit lock covers, hold anything.
* **LogBuffer.** `BUFFER` is one array of cells, so that what a copy leaves in
  a slot is kept; a call is one step, as only `kernel_main` logs. A character is
  the number of the call it belongs to.
* **Pci.** `scan` is `bus` and `slot` of the two loops, `bar` the `i` of the
  others; a turn of a loop is a step. `Answer` takes the address word apart as the
  bridge does. A line is logged by `LogBuffer`'s `write_to_buffer`, a failed search
  is its `panic`. The probe's own lines fit the log's slots, as their formats are
  short (`PciAssumption`), so none of them takes the overflow panic of
  `write_to_buffer`; the lines before the probe may. What `kernel_main` logs, flushes or panics with before the probe
  is `Boot`. `Registers`, the addresses a card's registers may hold, are those that a
  PCI device can: aligned to the bits the kernel masks off. Functions other than 0
  are not addressed by the code; the card's MAC is data that the log's text
  abstracts.
* **RtcClock.** Every port access is a step. `phase` and `grace` model the chip:
  the update flag is raised `Grace` accesses before an update. `hit` records
  that the handler came between index and data of the call in progress.
* **Sleep.** `Test` is `get_tick() < end`, `Hlt` the `hlt`; `Enroll`, `Poll`,
  `Clear`, `Check` and `HltAwait` are `await`'s steps on a future whose
  `target_tick` is `end`. `ticked` keeps ticks one turn of the loop apart. `listed`
  says that `timeFutures[0]` is set: with one future at a time, every context is
  the same memory, so an old entry has the new one's target. The UART interrupts at
  most once in a call, as the caller writes no byte while it waits.
* **Console.** `FormatItem` is a turn of `vsnprintf`'s loop on one item of the
  format; `PrintChar` is one `terminal_putchar`. `to_str` works on an int's
  bits, with the least int's negation that stays negative. `Items` are the items a
  format may have with what each finds in the argument list. A `%` that ends a format
  is none of them: `vsnprintf` then reads on behind the format's NUL
  (`printf.c:132-138`), whatever is there, and no caller has one. `Strings` are the
  strings without a NUL; `Formats` is any set of sequences of items, and an int has at most
  32 bits (`ConsoleAssumption`).

## 3. Runs

| Run | Bounds | What it shows |
|---|---|---|
| `allocator` | heaps of 8 to 92 bytes, four sizes, copies of lists of up to four segments | tiling, order, coalescing, justified panics, restored heap, `HeapPromise`, calls return, all while the list is copied into itself; the copy equals the list when the same segments are held, but for sizes its own nodes have taken from |
| `executor` | 2 list entries, 3 contexts, sleeps of 0 to 2 ticks | a lone sleeper is woken when due; an awaited sleep ends; a byte is put out unless its interrupt was lost |
| `executor_overlapping` | 3 entries, 2 contexts | **violated:** a due future may not be looked at (finding) |
| `executor_full` | 3 entries, 2 contexts | **violated:** the full list is not noticed (finding) |
| `spinlock` | 3 contexts | exclusion, no lost lock, progress |
| `spinlock_assert` | 2 contexts | **violated:** the assert behind the exchange may fail (finding) |
| `interrupts` | handlers 3 deep, one place for the stubs, every leftover of firmware | gates, the chips' set-up, registration, nesting, ends of interrupt, the tick |
| `log_buffer` | 3 slots of 12 cells; 11 machines with 2 buses of 2 slots; 3 lines before the probe and 6 in it | the probe ends right, base addresses are of their kind, lines in order and unaltered, `LogPromise` |
| `log_buffer_cleared` | the same, with a message longer than its buffer | **violated:** a flush leaves bytes behind (finding) |
| `rtc_clock` | 2 registers of 3 values | whole dates, calls return |
| `sleep` | a tick of 4 bits, from every start, for `sleep` and `await` | not early, at most a tick late, ends |
| `console` | an 8-bit int, a buffer of 6, a screen of 3 × 4, 3 calls | formats and the screen |

Why the bounds are enough:

* A free list is disturbed only around one insertion or one carve, and four
  segments give a freed one every kind of neighbour; heap ends lie on and off
  an 8-byte boundary.
* `await` involves one awaited context, the stale first entry and at most one
  more; two entries are filled by two sleeps and overfilled by three.
* A third context can come between any two of a spinlock's two.
* Two lines are unmasked, so no more than two handlers are before their end of
  interrupt, and a third shows what comes between that and `iret`.
* The stubs' place is a constant of the kernel's image; `GatesReach` proves the
  property for every other. The chips' registers and firmware's leftovers are all
  there are.
* The log's slots are reused and flushed up to five times in the nine lines. The
  machines have the card missing, first, last, twice, with a header the search
  refuses, and base addresses in either order, missing, of 64 bits, and of 64 bits
  with no address assigned yet.
* Two registers suffice to tear a date, three values to see an update lost
  and another. Four accesses of grace are what two registers need.
* A word of four bits has all relations of start, end and wrap.
* A screen of twelve cells is filled and reused by three calls of up to seven
  characters.

Deadlock is checked except where the system may really stop: in a panic
(allocator, spinlock, log and probe) and where the bound on calls is used up (log,
console).

**Findings.** (1) `process_time_futures` looks at the first, never removed
entry only, while its comment speaks of the set. (2) The panic for a full list
of futures is one too late, and the store before it resets `lastIdx`. (3) The
assert in `set_val_atomic` reads the lock a second time and can fail for a
correct use. (4) A log line whose message was cut off leaves bytes in its slot
that a flush does not clear. Each is the counterexample of a run.

Some properties are stated with an exception because the code has one:
`SerialEndsUnlessStalled` (a UART interrupt wiped out between poll and clear, with
no sleep ever awaited), `ReadIsSnapshot` and `WriteIsWhole` (the handler's use of
the index port), `NeverEarly` and `NeverLate` (the wrap of the tick),
`BasesAreOfTheirKind` (a 64-bit base address above 4 GiB, whose upper half is
taken for a register), `CopyMatches` (sizes of all but the last copied segment may
be larger than the list's), `TicksForever` (the UART's echo is not there at once
and the boot panics), `FormatsAsAsked` (numbers that `to_str` cannot hold), `ScreenShowsText` (those, a
newline on the last row, a text longer than `printf`'s buffer), `ProbeEndsRight` (a
header type with the self-test or multi-function bit), `NoLostLock` and
`SpinnersProgress` (data beside the lock was cleared), `DriversSetUp` (the
interrupt-enable register, if firmware left the divisor latch open). What is excepted
is in the models, as a step or a history variable, and does happen: where it is the
bad case of a hazard, the note of that hazard in `PROJECT.json` says so.
The exceptions are narrow, and the properties without them fail.

## 4. Fairness

| Specification | Fair | Why |
|---|---|---|
| Allocator, HeapCopy | the turns of a walk | the one context executes its call |
| Executor | the steps of a call, both interrupts | nothing else runs on the processor; the devices run by themselves |
| Spinlock | each context's steps in a call | contexts run at once; nobody is obliged to call |
| Interrupts | taking, handling, booting, the RTC's period | the processor executes and the clock runs; nothing else is assumed of the UART |
| RtcClock | the update and the call's steps; strong for a poll that may read low | the handler has just cleared register C when a poll reads it by mistake, so that poll does not read high for ever |
| Sleep | the loop and the tick | the same |

Calling an operation is never fair. `LogBuffer`, `Pci` and `Console` state no liveness.

## 5. Theorems

All proofs are for every value of the constants that the named assumptions
admit, from `Spec` without fairness.

* **Allocator.** `IInv` joins the types, `WellFormed` of heap and free list
  (tiling, order and separation of the list's segments), the place of `cursor`
  in the list, and for `malloc` that no segment the walk has passed can serve the
  request. The listed invariants are not inductive alone: a merge keeps the list
  sorted only if touching segments are neighbours in it, which needs the tiling,
  and a panic is justified only by the segments already passed. The lemmas
  `CarveWellFormed`, `LinkShaped`, `MergeShaped`, `OnlySuccessorTouches` and
  `InsertWellFormed` say what each operator does to a well-formed heap;
  `CarvePointFacts` and `CarvePointComplete` hold the arithmetic. From `IInv`
  follow all seven invariants and the refinement of `HeapPromise`, and that the two
  walks end: each turn leaves less of the heap ahead (`WalksEnd`).
* **HeapCopy.** `CopyInv` adds to the allocator's invariant that the nodes of the
  copy are distinct held segments, that the copier stands on a member of the list,
  and that what `malloc` gave it last is not yet a node. From it every step of the
  copier is one of `Allocator` or a stutter (`CopyIsCalls`), so all of the above
  holds during a copy (`CopyKeepsHeap`), and no node is freed twice (`CopyIsHeld`).
* **Executor.** Type correctness, which includes that `lastIdx` stays below
  `FUTURE_COUNT`; and `LoneSleeperWakes`: as long as contexts are made one at a
  time, all of them are slot 1, so the first entry is the awaited one
  (`AwaitedInv`, `SequentialInv`). With any number of overlapping sleeps, `Rank`
  measures how far an await is from its return: the ticks its future still needs,
  the entries a tick examines before the awaited one, the byte not yet sent, the
  place in the loop. `AwaitGoesOn`: no step raises it unless the await is stalled,
  and the steps listed in `Helps` lower it.
* **Descriptors.** Facts about all words, each by comparing two words bit by bit
  (`SameWord`, `FieldBits`, `ShlBits`). What `create_descriptor` packs is parsed
  back (`BaseSurvives`, `LimitSurvives`), but every segment computed with
  `fill_gdt_vals`' flags has lost its granularity (`GranularityLost`): the constants
  that the code loads instead, marked "TODO buggy", are needed. `insert_base` loses
  eight bits of every base (`InsertBaseLoses`). A gate decodes to its arguments
  (`GateDecodes`), for exactly the widths that the asserts mean and by one value
  miss (`AcceptedTooMuch`).
* **Spinlock.** `IInv` adds to exclusion that the owner finds the lock taken:
  an exchange that finds 0 then has no rival. The lock is never lost unless an
  exchange has cleared data beside it. `LockGoesOn`: while nobody is in, the lock is
  free or its owner is on the way in, and at most two steps are missing.
* **Interrupts.** `TablesLoaded` says what the tables hold; with `GateDecodes` it
  gives `GatesReach` for every place of the stubs. The rest of `IInv` ties the PICs'
  service to the handlers' places and the mask to the registration: a line that is
  unmasked has its handler stored, or interrupts are disabled; an RTC handler before
  its end of interrupt keeps the cascade line in service, and with it everything
  else out. `DriversInv` follows the chips through the boot, for every leftover of
  firmware: `ChipAfter(n)` says what `init_serial`'s first n writes have set, and
  when the divisor latch has sent a write elsewhere (`ChipsReady`).
  With a latch that firmware left open this is the first write too. `EInv` says that
  a line is in service exactly while a handler of it has not ended it, and that
  there is one such handler of each line, so that the end that a PIC gives to its
  highest line goes to the sender's (`EndsTheRightOne`). `TInv` follows the RTC's
  flag: a PIC latches only what rises, so a flag that stays up with nothing latched
  would silence the tick for good. From the moment the periodic interrupt is on, a
  raised flag is latched, or a handler of it has yet to read register C, and in the
  kernel's own code nothing keeps a latched one out (`TickIsNeverLost`).
* **Sleep.** For every width of the word, start and length. As long as the tick is
  below the end, the ticks counted and those to come add up to what was asked
  (`EarlyInv`, `ApproachesEnd`). Past the end the caller is on its way out: wherever
  it may still halt, the tick is at the end and the call is not late yet, so the
  next tick both wakes it and, in `await`, sets the flag (`PastEnd`). A call whose
  end wraps may be early but is never late; one whose end is the last word may be
  late. Of a call in progress, `NeverOverdue` says that it is never more than one tick
  late, whether it returns or not, and `EveryStepCounts` that every step of it, also
  an interrupt's, lowers a rank unless it returns, whatever wraps: so
  it ends if only steps go on. `SleepAssumption` keeps the bound on counted ticks above every length by
  more than a late return needs, so the bound hides nothing.
* **RTC.** `NoUpdateInv`: since the flag was last seen down, the time left before
  an update is at least the port accesses that the call still makes, if the call
  has selected each register itself. `hit` says when it has not. With it a date is
  read or set as a whole, for every number of registers that fit in the grace time,
  which is the assumption the code makes when it waits for the flag.
* **Log.** `TInv` holds for every message, those that are cut off included: no copy
  ever writes the memory's last cell, so every line ends before it, whatever a flush
  has left behind. For the promise, `Kept` says of each slot whether it holds the
  next line that waits, or nothing; a flush is followed turn by turn
  (`FlushKeeps`). This needs `MessagesFit`, the hypothesis that a message leaves
  nothing behind the NUL in its local buffer. Finding (4) is what happens without it,
  and the messages of the passing run satisfy it.
* **PCI.** Every step of the probe is a step of the log or none (`ProbeIsLog`), so
  the boot keeps the log's promise, its panics included. `ScanInv` says that no card
  looked for lies before the scan, `BaseInv` that no register before `bar` is of the
  kind and that a base found is some register's, `StopInv` what a search that
  panicked has seen last. `Addressed` does the arithmetic of the address word, for
  256 buses of 32 slots.
* **Console.** Conversions first: for every int but the least, `to_str` computes the
  decimal notation that `Numeral` defines by position (`ToStrIsNumeral`, which goes
  through uniqueness of quotient and rest, the digits' weights and `reverse`). `FInv`:
  after k items the buffer holds the text of the first k, as far as it fits, and
  `written` is its whole length. `SInv`: the cursor is where the text so far ends,
  and each cell shows the last character whose place it is; `ColumnNext`, `RowNext`
  and `ShownNext` say how one more character moves what these are defined by. What the
  exception of `ScreenShowsText` amounts to: after a newline on the last row the
  cursor is below the screen for good, and the screen never changes again
  (`NothingShownBelow`).
* **The copy.** `CopyMatches` compares a copy with a later list. `MatchInv` says that
  there is a well-formed heap which the copy is of, in which the segments held were
  held; `HeapIsDetermined` says that two well-formed heaps of one arena agree on what
  is free if they agree on what is held, so that heap's list is today's. Ranks in the
  list are cardinalities (`RankIs`), which a carve of the list shrinks one by one
  (`CarveShrinks`).

Recursive functions (`Dumped`, `Terminator`, the digits, the flattened text) are
reasoned about by their least counterexample: that a non-empty set of numbers has
a least member follows from the library's `NatLessThanWellFounded` and `WFMin`,
which take sets and relations, not operators. That the recursion defines a function
at all is proved the same way, by its first n values.

Every invariant and action property that a passing run checks is stated by a
theorem. Fairness and `ENABLED` are beyond the prover, so the liveness properties
themselves (`CallsReturn` of heap and clock, `SleepAwaitEnds`,
`SerialEndsUnlessStalled`, `SpinnersProgress`, `TicksForever`, `SleepEnds`) are only
model-checked, as are the counterexamples of the findings. What is proved of them is
the part without fairness, for every value of the constants:

| Property | Proved | Left to TLC |
| --- | --- | --- |
| `CallsReturn` (heap) | `WalksEnd`: every turn of a walk ends it or lowers a rank | that turns are taken |
| `SleepEnds` | `EveryStepCounts`: every step ends the call or lowers a rank | that steps are taken: a halted caller is woken |
| `SleepAwaitEnds`, `SerialEndsUnlessStalled` | `AwaitGoesOn`: no step raises a rank unless the await is stalled, and certain steps lower it | that such a step is taken, under the fairness of caller and interrupts |
| `SpinnersProgress` | `LockGoesOn`: the same, and that an owner is there if the lock is taken | the same, under the fairness of the contexts |
| `TicksForever` | `TickIsNeverLost`: a raised flag keeps its interrupt | that handlers which nest come to their end |
| `CallsReturn` (clock) | nothing: its polls end by the chip's fairness alone | all |

## 6. Not modelled

* Test functions, but for the sequence of `test_1` that `HeapCopy` generalizes.
* Functions that only log or format what another returns: `FreeSegment_print`,
  `read_gdt`, `read_idt`, `print_date_time`, `get_timestamp`,
  `parse_multiboot_info` (`multiboot.c`). `Pci`'s `Boot` stands for their lines.
* `exit_`, which ends the emulator.
* The string functions, byte loops without state, and the assembly of
  `arch/i386`, which sets the stack up and calls `kernel_main`.
* Vectors outside the PICs' 32 to 47: the processor's exceptions, which the kernel
  treats as hardware interrupts and panics for (`interrupts.c:55-56`), and software
  interrupts, whose stub pushes numbers from 128 on as negative ones.
* Functions of a PCI device other than 0, which the code does not address.
* Colors of the terminal, which nothing changes.

## 7. Plan

Done, in this order: the heap with its proofs; futures; interrupts; spinlock;
log; clock; sleep; console; descriptors and gates, in the interrupt system; the
chips' set-up; `await`'s arithmetic in `Sleep`; the copy of the free list; the PCI
probe on top of the log; then the proofs of sleep, clock, interrupts, log, probe,
console and copy; then what can be proved of the liveness properties. To do:

1. A refinement of `Executor`'s relative ticks by words that wrap. `Sleep` already
   has the arithmetic of one awaited future at every word width.
2. A rank for nested handlers: that the handlers in progress come to an end although
   interrupts fall into them, the missing half of `TicksForever`.
