---------------------------- MODULE MCAllocator ----------------------------
(* A heap of under a hundred bytes: enough for four segments, so that a    *)
(* freed segment meets every kind of neighbour on either side.             *)
EXTENDS HeapCopy

\* The kernel image is 20 bytes long and ends, as the real one does, 4 bytes
\* past a multiple of 8.
Start == 16
KEnd  == 36

Low == [addr |-> 0, len |-> 12]
Big(heapBytes) == [addr |-> Start, len |-> KEnd - Start + heapBytes]

\* A block past the address space, with the same lower bits.
Past(heapBytes) == [Big(heapBytes) EXCEPT !.addr = Start + 256]

\* Heaps that end on and off an 8-byte boundary, one that holds only a header,
\* one that boot takes for the kernel's block, with that block behind it, and a
\* map without the kernel's block.
Maps == { <<Low, Big(92)>>, <<Low, Big(87)>>, <<Big(8)>>,
          <<Past(60), Big(92)>>, <<Low>> }

Sizes == {4, 8, 11, 16}   \* SleepContext, FreeSegment, and test_1's two
=============================================================================
