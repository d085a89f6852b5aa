---------------------------- MODULE HeapPromise ----------------------------
(***************************************************************************)
(* What malloc and free promise their callers, with no free list: a region *)
(* granted to a caller is aligned, at least as long as asked for, inside   *)
(* the arena and disjoint from every other region still held, and nothing  *)
(* but its own release ever changes it.  A request that cannot be served   *)
(* stays pending for ever: malloc panics, it never returns NULL.           *)
(***************************************************************************)
EXTENDS Integers

CONSTANTS Requests,  \* the sizes callers ask for
          Alignment  \* every granted address is a multiple of this

VARIABLES arena,     \* the bytes lo .. hi-1 the heap manages
          regions,   \* the regions held by callers, as <<first byte, length>>
          request    \* the size being served, or None

vars == <<arena, regions, request>>

None == -1

Closed == [lo |-> 0, hi |-> 0]   \* before boot hands over any memory

Disjoint(r, s) == r[1] + r[2] <= s[1] \/ s[1] + s[2] <= r[1]

Init ==
  /\ arena = Closed
  /\ regions = {}
  /\ request = None

\* Boot hands the heap its arena, once.
Open ==
  /\ arena = Closed
  /\ arena' \in [lo: Nat, hi: Nat]
  /\ arena'.lo < arena'.hi
  /\ UNCHANGED <<regions, request>>

Ask ==
  /\ request = None
  /\ request' \in Requests
  /\ UNCHANGED <<arena, regions>>

\* r is fit to be granted for a request of n bytes.
Grantable(r, n) ==
  /\ r[1] % Alignment = 0
  /\ arena.lo <= r[1] /\ r[1] + r[2] <= arena.hi
  /\ n <= r[2]
  /\ \A s \in regions : Disjoint(r, s)

Grant ==
  /\ request # None
  /\ request' = None
  /\ \E r \in regions' : /\ r \notin regions
                         /\ Grantable(r, request)
                         /\ regions' = regions \cup {r}
  /\ UNCHANGED arena

Release ==
  /\ request = None
  /\ \E r \in regions : regions' = regions \ {r}
  /\ UNCHANGED <<arena, request>>

Next == Open \/ Ask \/ Grant \/ Release

Spec == Init /\ [][Next]_vars
=============================================================================
