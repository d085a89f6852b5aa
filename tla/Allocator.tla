----------------------------- MODULE Allocator -----------------------------
(***************************************************************************)
(* The kernel heap (kernel/kernel/allocator.c): one first-fit free list,   *)
(* threaded through 8-byte headers in the managed memory, sorted by        *)
(* address, coalesced on free.  malloc carves from the top of a segment,   *)
(* so the list's first header never moves.                                 *)
(*                                                                         *)
(* Both operations walk the list; a step is one turn of the walk.  Nothing *)
(* runs in between: no interrupt handler allocates.                        *)
(***************************************************************************)
EXTENDS Integers, Sequences

CONSTANTS KERNEL_START, KERNEL_END,  \* linker.ld: the kernel image
          MaxAddress,                \* the last address, 2^32 - 1
          MemoryMaps,                \* the memory maps a boot loader may pass
          Requests                   \* the sizes the kernel's callers ask for

NULL  == 0
ALIGN == 8
HDR   == 8   \* sizeof(struct FreeSegment) = sizeof(struct AllocatedSegment)

ASSUME LinkAssumption ==
  /\ KERNEL_START \in Nat
  /\ KERNEL_END \in Nat
  /\ MaxAddress \in Nat
  /\ KERNEL_START < KERNEL_END /\ KERNEL_END <= MaxAddress

\* No request is so long that "end_ptr - size" wraps below zero.
ASSUME RequestAssumption ==
  \A n \in Requests : n \in Nat /\ n + ALIGN + HDR <= KERNEL_END

\* The cast to uintptr_t of an address in the map, which has 64 bits.
Narrowed(addr) == addr % (MaxAddress + 1)

\* i is the first entry whose address is, after the cast, the kernel's.
IsBigBlock(map, i) ==
  /\ Narrowed(map[i].addr) = KERNEL_START
  /\ \A j \in 1 .. i - 1 : Narrowed(map[j].addr) # KERNEL_START

\* The block that boot takes for the kernel's holds the image and one header, as
\* if it began at KERNEL_START, and does not reach past the address space.
ASSUME MapAssumption ==
  \A map \in MemoryMaps :
    \A i \in DOMAIN map :
      /\ map[i] \in [addr: Nat, len: Nat]
      /\ IsBigBlock(map, i) =>
           /\ KERNEL_END + HDR <= KERNEL_START + map[i].len
           /\ KERNEL_START + map[i].len <= MaxAddress

VARIABLES
  mbd,          \* the memory map in the multiboot information
  freeSegment,  \* the head of the free list
  heap,         \* the live headers: address -> size and next_segment
  pc,           \* the call in progress, or the panic it ended in
  cursor,       \* free_segment_ptr of malloc, free_list_ptr of free
  arg,          \* malloc: the size asked for; free: the header to free
  allocated,    \* history: the headers of the segments callers hold
  heapEnd       \* history: the first byte after the heap

vars == <<mbd, freeSegment, heap, pc, cursor, arg, allocated, heapEnd>>

Panics == {"panic_boot", "panic_malloc", "panic_free"}

----------------------------------------------------------------------------
(* Segments.                                                               *)

End(h, s) == s + HDR + h[s].size

\* Mutant: the padding for alignment is forgotten.
CarvePointUnaligned(h, s, n) == End(h, s) - n - HDR

\* Where malloc would put the header of an n-byte segment cut off the end of s.
CarvePoint(h, s, n) ==
  LET top == End(h, s) - n
  IN  top - (top % ALIGN) - HDR

\* Mutants: no room is kept for the free header; one byte too much is asked.
FitsOverHeader(h, s, n) == CarvePoint(h, s, n) >= s
FitsStrictly(h, s, n)   == CarvePoint(h, s, n) > s + HDR

Fits(h, s, n) == CarvePoint(h, s, n) >= s + HDR

\* Mutants: the merged segment keeps its own link; b's header is not counted.
MergeKeepsLink(h, a, b) ==
  IF End(h, a) = b
  THEN [s \in DOMAIN h \ {b} |->
          IF s = a THEN [h[a] EXCEPT !.size = @ + HDR + h[b].size] ELSE h[s]]
  ELSE h

MergeLosesHeader(h, a, b) ==
  IF End(h, a) = b
  THEN [s \in DOMAIN h \ {b} |->
          IF s = a THEN [size |-> h[a].size + h[b].size, next |-> h[b].next] ELSE h[s]]
  ELSE h

\* merge_segments(a, b): b may be NULL, which no segment ends at.
Merge(h, a, b) ==
  IF End(h, a) = b
  THEN [s \in DOMAIN h \ {b} |->
          IF s = a THEN [size |-> h[a].size + HDR + h[b].size, next |-> h[b].next]
                   ELSE h[s]]
  ELSE h

\* The segment being freed belongs to no caller and is not yet in the list.
Detached == IF pc \in {"free", "panic_free"} THEN {arg} ELSE {}

\* The segments of the free list.
Listed == DOMAIN heap \ (allocated \cup Detached)

----------------------------------------------------------------------------
(* Boot.                                                                   *)

Init ==
  /\ mbd \in MemoryMaps
  /\ freeSegment = NULL
  /\ heap = <<>>
  /\ pc = "boot"
  /\ cursor = NULL
  /\ arg = 0
  /\ allocated = {}
  /\ heapEnd = 0

\* The free list that is a single segment.
OneSegment(size) == [s \in {KERNEL_END} |-> [size |-> size, next |-> NULL]]

InitializeFreeSegments ==
  /\ pc = "boot"
  /\ \E i \in DOMAIN mbd :
       /\ IsBigBlock(mbd, i)
       /\ LET reserved == KERNEL_END - KERNEL_START
              size     == mbd[i].len - reserved - HDR
          IN  /\ heap' = OneSegment(size)
              /\ heapEnd' = KERNEL_END + HDR + size
  /\ freeSegment' = KERNEL_END
  /\ pc' = "idle"
  /\ UNCHANGED <<mbd, cursor, arg, allocated>>

BootPanic ==
  /\ pc = "boot"
  /\ ~ \E i \in DOMAIN mbd : IsBigBlock(mbd, i)
  /\ pc' = "panic_boot"
  /\ UNCHANGED <<mbd, freeSegment, heap, cursor, arg, allocated, heapEnd>>

----------------------------------------------------------------------------
(* malloc.                                                                 *)

Malloc(n) ==
  /\ pc = "idle"
  /\ pc' = "malloc"
  /\ arg' = n
  /\ cursor' = freeSegment
  /\ UNCHANGED <<mbd, freeSegment, heap, allocated, heapEnd>>

\* Mutant: the walk starts over at the head.
MallocSkipRestarts ==
  /\ pc = "malloc" /\ cursor # NULL /\ ~ Fits(heap, cursor, arg)
  /\ cursor' = freeSegment
  /\ UNCHANGED <<mbd, freeSegment, heap, pc, arg, allocated, heapEnd>>

MallocSkip ==
  /\ pc = "malloc"
  /\ cursor # NULL
  /\ ~ Fits(heap, cursor, arg)
  /\ cursor' = heap[cursor].next
  /\ UNCHANGED <<mbd, freeSegment, heap, pc, arg, allocated, heapEnd>>

\* Mutant: the free segment's size is not reduced.
CarveKeepsSize(h, s, n) ==
  [t \in DOMAIN h \cup {CarvePoint(h, s, n)} |->
     IF t \in DOMAIN h THEN h[t]
     ELSE [size |-> End(h, s) - CarvePoint(h, s, n) - HDR, next |-> NULL]]

\* The heap after an n-byte segment is cut off the end of s.
Carve(h, s, n) ==
  LET ptr == CarvePoint(h, s, n)
      end == End(h, s)
  IN  [t \in DOMAIN h \cup {ptr} |->
         IF t = ptr    THEN [size |-> end - ptr - HDR, next |-> NULL]
         ELSE IF t = s THEN [size |-> h[s].size - (end - ptr), next |-> h[s].next]
                       ELSE h[t]]

MallocCarve ==
  /\ pc = "malloc"
  /\ cursor # NULL
  /\ Fits(heap, cursor, arg)
  /\ heap' = Carve(heap, cursor, arg)
  /\ allocated' = allocated \cup {CarvePoint(heap, cursor, arg)}
  /\ pc' = "idle"
  /\ UNCHANGED <<mbd, freeSegment, cursor, arg, heapEnd>>

MallocPanic ==
  /\ pc = "malloc"
  /\ cursor = NULL
  /\ pc' = "panic_malloc"
  /\ UNCHANGED <<mbd, freeSegment, heap, cursor, arg, allocated, heapEnd>>

----------------------------------------------------------------------------
(* free, with insert_segment_into_free_list.                               *)

\* A caller gives back the segment whose header is s.
Free(s) ==
  /\ pc = "idle"
  /\ pc' = "free"
  /\ arg' = s
  /\ heap' = [heap EXCEPT ![s].next = NULL]
  /\ allocated' = allocated \ {s}
  /\ cursor' = freeSegment
  /\ UNCHANGED <<mbd, freeSegment, heapEnd>>

\* The new segment goes right after s in the list.
GoesAfter(h, s, new) == h[s].next > new \/ h[s].next = NULL

FreeSkip ==
  /\ pc = "free"
  /\ ~ GoesAfter(heap, cursor, arg)
  /\ cursor' = heap[cursor].next
  /\ pc' = IF cursor' = NULL THEN "panic_free" ELSE "free"
  /\ UNCHANGED <<mbd, freeSegment, heap, arg, allocated, heapEnd>>

Link(h, s, new) ==
  [h EXCEPT ![s].next = new, ![new].next = h[s].next]

\* Mutant: only the upper neighbour is merged.
InsertMergesUp(h, s, new) == Merge(Link(h, s, new), new, h[s].next)

Insert(h, s, new) ==
  Merge(Merge(Link(h, s, new), new, h[s].next), s, new)

FreeInsert ==
  /\ pc = "free"
  /\ GoesAfter(heap, cursor, arg)
  /\ heap' = Insert(heap, cursor, arg)
  /\ pc' = "idle"
  /\ UNCHANGED <<mbd, freeSegment, cursor, arg, allocated, heapEnd>>

----------------------------------------------------------------------------
(* The specification.  Callers may call or not; a call that was made runs  *)
(* on, so the turns of the two walks are weakly fair.                      *)

Walk == MallocSkip \/ MallocCarve \/ MallocPanic \/ FreeSkip \/ FreeInsert

Next ==
  \/ InitializeFreeSegments \/ BootPanic
  \/ \E n \in Requests : Malloc(n)
  \/ MallocSkip \/ MallocCarve \/ MallocPanic
  \/ \E s \in allocated : Free(s)
  \/ FreeSkip \/ FreeInsert

Spec == Init /\ [][Next]_vars

FairSpec == Spec /\ WF_vars(Walk)

----------------------------------------------------------------------------
(* Properties.                                                             *)

Running == pc \notin {"boot", "panic_boot"}

Typed(h) ==
  /\ h \in [DOMAIN h -> [size: Nat, next: Nat]]
  /\ \A s \in DOMAIN h : s \in Nat /\ s >= KERNEL_END

\* Every variable has its type; headers are addresses at or above KERNEL_END,
\* and the segments callers hold have a header.
TypeOK ==
  /\ mbd \in MemoryMaps
  /\ pc \in {"boot", "idle", "malloc", "free"} \cup Panics
  /\ freeSegment \in {NULL, KERNEL_END}
  /\ Typed(heap)
  /\ allocated \subseteq DOMAIN heap
  /\ cursor \in Nat
  /\ arg \in Nat
  /\ heapEnd \in Nat

\* No two segments overlap, and each ends exactly where another starts or at
\* the end of the heap.
Tiled(h, hi) ==
  \A s \in DOMAIN h :
    /\ End(h, s) = hi \/ End(h, s) \in DOMAIN h
    /\ End(h, s) <= hi
    /\ \A t \in DOMAIN h : s < t => End(h, s) <= t

\* malloc and free (allocator.c:61-144) lose no byte of the heap and give none
\* to two segments: headers and segments tile it from KERNEL_END to its end.
Tiling == Running => KERNEL_END \in DOMAIN heap /\ Tiled(heap, heapEnd)

\* next_segment of a member of L is the next higher member, NULL on the last.
Sorted(h, L) ==
  \A s \in L :
    \/ h[s].next = NULL /\ \A t \in L : t <= s
    \/ h[s].next \in L /\ s < h[s].next /\ \A t \in L : t <= s \/ h[s].next <= t

\* The free list (allocator.c:118-137) starts at KERNEL_END, is sorted by
\* address, and holds exactly the segments that nobody holds.
ListSorted ==
  Running => freeSegment = KERNEL_END /\ KERNEL_END \in Listed /\ Sorted(heap, Listed)

Apart(h, L) == \A s \in L : End(h, s) \notin L

\* free merges with both neighbours (merge_segments, allocator.c:139-144): the
\* list never holds two segments that touch.
Coalesced == Apart(heap, Listed)

\* Above s there is an aligned address with n bytes after it in the segment and
\* room for a header before it.
CanServe(s, n) == \E a \in s + 2 * HDR .. End(heap, s) - n : a % ALIGN = 0

\* malloc panics (allocator.c:92) only when no placement in any free segment
\* could have served the request: neither the walk nor the carve misses one.
ExhaustionIsReal ==
  pc = "panic_malloc" => \A s \in Listed : ~ CanServe(s, arg)

\* What test_1 (allocator.c:182-200) asserts of one call sequence holds of all:
\* when everything is freed the heap is the one segment boot made.
Restored ==
  (pc = "idle" /\ allocated = {}) =>
    heap = OneSegment(heapEnd - KERNEL_END - HDR)

\* Every call comes back, or malloc panics: no walk goes round for ever.
CallsReturn ==
  /\ pc = "malloc" ~> pc \in {"idle", "panic_malloc"}
  /\ pc = "free" ~> pc = "idle"

\* Seen through the payloads callers hold, the heap keeps HeapPromise.
Promise == INSTANCE HeapPromise WITH
  Alignment <- ALIGN,
  arena     <- IF Running THEN [lo |-> KERNEL_END, hi |-> heapEnd]
                          ELSE [lo |-> 0, hi |-> 0],
  regions   <- {<<s + HDR, heap[s].size>> : s \in allocated},
  request   <- IF pc \in {"malloc", "panic_malloc"} THEN arg ELSE -1

\* The heap implements HeapPromise: granted regions are aligned, long enough,
\* disjoint, and no call for one region ever moves or resizes another.
KeepsPromise == Promise!Spec
=============================================================================
