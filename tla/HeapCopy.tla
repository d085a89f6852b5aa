------------------------------ MODULE HeapCopy ------------------------------
(***************************************************************************)
(* deep_copy and FreeSegment_delete (kernel/kernel/allocator.c): a caller  *)
(* that copies the free list, node by node, into segments that it takes    *)
(* from the same list, and later gives them back.  Its calls of malloc and *)
(* free are the Allocator's; nobody else calls while it copies or deletes. *)
(***************************************************************************)
EXTENDS Allocator, FiniteSets

\* The kernel asks malloc for nodes of the free list itself.
ASSUME CopyAssumption == HDR \in Requests

VARIABLES
  phase,   \* what the caller does: "none", "copy", "fill", "delete"
  source,  \* deep_copy's a
  copy,    \* the nodes of the copy: the segment of each and the size in it
  taken,   \* history: the segments held when the copy was made, with sizes
  result   \* the segment malloc returned last

copier  == <<phase, source, copy, taken, result>>
allvars == <<vars, copier>>

CopyInit ==
  /\ Init
  /\ phase = "none"
  /\ source = NULL
  /\ copy = <<>>
  /\ taken = {}
  /\ result = NULL

Held == {<<s, heap[s].size>> : s \in allocated}

Nodes == {copy[i].segment : i \in DOMAIN copy}

\* The other callers, when this one is at rest; they know nothing of its nodes.
OtherCall ==
  /\ phase = "none"
  /\ \/ \E n \in Requests : Malloc(n)
     \/ \E s \in allocated \ Nodes : Free(s)
  /\ UNCHANGED copier

\* The turns of a call's walk.
Turn ==
  /\ \/ MallocSkip \/ MallocPanic \/ FreeSkip \/ FreeInsert
     \/ InitializeFreeSegments \/ BootPanic
  /\ UNCHANGED copier

TurnCarve ==
  /\ MallocCarve
  /\ result' = CarvePoint(heap, cursor, arg)
  /\ UNCHANGED <<phase, source, copy, taken>>

CopyStart ==
  /\ phase = "none" /\ pc = "idle" /\ copy = <<>>
  /\ phase' = "copy"
  /\ source' = freeSegment
  /\ UNCHANGED <<vars, copy, taken, result>>

CopyMalloc ==
  /\ phase = "copy" /\ source # NULL
  /\ Malloc(HDR)
  /\ phase' = "fill"
  /\ UNCHANGED <<source, copy, taken, result>>

\* Mutant: the size is read before malloc has taken its part of it.
SizeBeforeMalloc == heap[source].size + HDR + heap[result].size

\* "RHS size is modified by above malloc".
SizeAfterMalloc == heap[source].size

CopyFill ==
  /\ phase = "fill" /\ pc = "idle"
  /\ phase' = "copy"
  /\ copy' = Append(copy, [segment |-> result, size |-> SizeAfterMalloc])
  /\ source' = heap[source].next
  /\ UNCHANGED <<vars, taken, result>>

CopyDone ==
  /\ phase = "copy" /\ source = NULL
  /\ phase' = "none"
  /\ taken' = Held
  /\ UNCHANGED <<vars, source, copy, result>>

DeleteStart ==
  /\ phase = "none" /\ pc = "idle" /\ copy # <<>>
  /\ phase' = "delete"
  /\ UNCHANGED <<vars, source, copy, taken, result>>

\* The recursion comes first: the last node is freed first.
DeleteFree ==
  /\ phase = "delete" /\ copy # <<>>
  /\ Free(copy[Len(copy)].segment)
  /\ copy' = SubSeq(copy, 1, Len(copy) - 1)
  /\ UNCHANGED <<phase, source, taken, result>>

DeleteDone ==
  /\ phase = "delete" /\ copy = <<>> /\ pc = "idle"
  /\ phase' = "none"
  /\ taken' = {}
  /\ UNCHANGED <<vars, source, copy, result>>

CopyNext ==
  \/ OtherCall \/ Turn \/ TurnCarve
  \/ CopyStart \/ CopyMalloc \/ CopyFill \/ CopyDone
  \/ DeleteStart \/ DeleteFree \/ DeleteDone

CopySpec == CopyInit /\ [][CopyNext]_allvars

CopyFairSpec == CopySpec /\ WF_vars(Walk)

----------------------------------------------------------------------------
(* Properties.                                                             *)

\* The i-th segment of the free list.
IsNth(s, i) == s \in Listed /\ i = 1 + Cardinality({t \in Listed : t < s})

\* What test_1 (allocator.c:182-200) asserts of one sequence of calls: the copy
\* equals the list whenever the same segments are held as when it was made.  It
\* does of a list of one segment; of a longer one, nodes may have taken their
\* room from segments already copied (allocator.c:169-170), all but the last.
CopyMatches ==
  phase = "none" /\ pc = "idle" /\ copy # <<>> /\ Held = taken =>
    /\ Len(copy) = Cardinality(Listed)
    /\ \A i \in DOMAIN copy, s \in Listed : IsNth(s, i) =>
         /\ copy[i].size >= heap[s].size
         /\ i = Len(copy) => copy[i].size = heap[s].size
=============================================================================
