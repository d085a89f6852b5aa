-------------------------- MODULE AllocatorProofs --------------------------
(***************************************************************************)
(* Proofs about Allocator and HeapCopy, for every kernel image, memory map *)
(* and set of request sizes their assumptions allow.                       *)
(*                                                                         *)
(* The inductive invariant says that the heap is well formed with respect  *)
(* to its free list at every step, and where the cursor of a walk may be.  *)
(* The lemmas are about the three operators that change the heap: Carve,   *)
(* Link and Merge.  That walks end follows from where their cursor may be. *)
(*                                                                         *)
(* Copying the list adds what deep_copy has reached; that the copy is of   *)
(* the list again when the same segments are held rests on                 *)
(* HeapIsDetermined: what is held determines what is free.                 *)
(***************************************************************************)
EXTENDS HeapCopy, SequenceTheorems, FiniteSetTheorems, WellFoundedInduction, TLAPS

----------------------------------------------------------------------------
(* Operators on heaps.                                                     *)

\* h is a tiled heap whose free list is the set L of headers.
Shaped(h, L, hi) ==
  /\ Typed(h)
  /\ L \subseteq DOMAIN h
  /\ KERNEL_END \in L
  /\ Tiled(h, hi)
  /\ Sorted(h, L)

WellFormed(h, L, hi) == Shaped(h, L, hi) /\ Apart(h, L)

\* Rounding down to ALIGN.
LEMMA Rounding ==
  ASSUME NEW x \in Nat
  PROVE  /\ x - (x % ALIGN) \in Nat
         /\ x - (x % ALIGN) <= x
         /\ x - ALIGN < x - (x % ALIGN)
         /\ (x - (x % ALIGN)) % ALIGN = 0
  BY DEF ALIGN

\* The end of a segment is an address above its header.
LEMMA EndType ==
  ASSUME NEW h, Typed(h), NEW s \in DOMAIN h
  PROVE  /\ s \in Nat
         /\ KERNEL_END <= s
         /\ h[s] \in [size: Nat, next: Nat]
         /\ h[s] = [size |-> h[s].size, next |-> h[s].next]
         /\ End(h, s) \in Nat
         /\ s + HDR <= End(h, s)
  BY DEF Typed, End, HDR

\* A request that fits leaves the free header and a segment that is aligned
\* and long enough.
LEMMA CarvePointFacts ==
  ASSUME NEW h, Typed(h), NEW s \in DOMAIN h, NEW n \in Requests, Fits(h, s, n)
  PROVE  /\ CarvePoint(h, s, n) \in Nat
         /\ s + HDR <= CarvePoint(h, s, n)
         /\ CarvePoint(h, s, n) + HDR + n <= End(h, s)
         /\ (CarvePoint(h, s, n) + HDR) % ALIGN = 0
<1> DEFINE x == End(h, s) - n
<1>1. x \in Nat /\ n \in Nat /\ End(h, s) \in Nat
  BY EndType, LinkAssumption, RequestAssumption DEF HDR, ALIGN
<1>2. CarvePoint(h, s, n) = x - (x % ALIGN) - HDR
  BY DEF CarvePoint
<1> HIDE DEF x
<1>3. /\ x - (x % ALIGN) \in Nat
      /\ x - (x % ALIGN) <= x
      /\ (x - (x % ALIGN)) % ALIGN = 0
  BY <1>1, Rounding
<1>4. s \in Nat
  BY EndType
<1>5. CarvePoint(h, s, n) \in Nat /\ s + HDR <= CarvePoint(h, s, n)
  BY <1>2, <1>3, <1>4 DEF Fits, HDR
<1>6. CarvePoint(h, s, n) + HDR = x - (x % ALIGN)
  BY <1>2, <1>3, <1>5 DEF HDR
<1> QED
  BY <1>1, <1>3, <1>5, <1>6 DEF x, HDR

\* A request that some placement in the segment could serve, fits.
LEMMA CarvePointComplete ==
  ASSUME Typed(heap), NEW s \in DOMAIN heap, NEW n \in Requests, CanServe(s, n)
  PROVE  Fits(heap, s, n)
<1> DEFINE x == End(heap, s) - n
<1>1. x \in Nat /\ n \in Nat /\ End(heap, s) \in Nat /\ s \in Nat
  BY EndType, LinkAssumption, RequestAssumption DEF HDR, ALIGN
<1>2. PICK a \in s + 2 * HDR .. x : a % ALIGN = 0
  BY DEF CanServe
<1> HIDE DEF x
<1>3. a \in Nat /\ s + 2 * HDR <= a /\ a <= x
  BY <1>1, <1>2 DEF HDR
<1>4. a <= x - (x % ALIGN)
  BY <1>1, <1>2, <1>3 DEF ALIGN
<1>5. x - (x % ALIGN) \in Nat
  BY <1>1, Rounding
<1>6. CarvePoint(heap, s, n) = x - (x % ALIGN) - HDR
  BY DEF CarvePoint, x
<1> QED
  BY <1>1, <1>3, <1>4, <1>5, <1>6 DEF Fits, HDR

----------------------------------------------------------------------------
(* Carve.                                                                  *)

\* g is h with a segment p of at least n bytes cut off the listed segment s.
CarvedFrom(h, L, hi, s, n, p, g) ==
  /\ p \notin DOMAIN h
  /\ DOMAIN g = DOMAIN h \cup {p}
  /\ \A t \in DOMAIN h \ {s} : g[t] = h[t]
  /\ g[p].size >= n
  /\ WellFormed(g, L, hi)

\* Carving off the end of a free segment makes one new header, outside the
\* list, and keeps the heap well formed; no other segment changes.
LEMMA CarveWellFormed ==
  ASSUME NEW h, NEW L, NEW hi \in Nat, WellFormed(h, L, hi),
         NEW s \in L, NEW n \in Requests, Fits(h, s, n),
         NEW p, p = CarvePoint(h, s, n)
  PROVE  CarvedFrom(h, L, hi, s, n, p, Carve(h, s, n))
<1> DEFINE g == Carve(h, s, n)
           e == End(h, s)
<1>1. Typed(h) /\ s \in DOMAIN h /\ L \subseteq DOMAIN h
  BY DEF WellFormed, Shaped
<1>2. /\ p \in Nat /\ s + HDR <= p /\ p + HDR + n <= e
      /\ n \in Nat /\ s \in Nat /\ e \in Nat
  BY <1>1, CarvePointFacts, EndType, RequestAssumption
<1>3. h[s] = [size |-> h[s].size, next |-> h[s].next]
      /\ h[s] \in [size: Nat, next: Nat] /\ e = s + HDR + h[s].size
  BY <1>1, EndType DEF End
<1>4. p \notin DOMAIN h
  <2>1. \A t \in DOMAIN h : s < t => e <= t
    BY <1>1 DEF WellFormed, Shaped, Tiled
  <2> QED
    BY <2>1, <1>2 DEF HDR
<1>5. DOMAIN g = DOMAIN h \cup {p}
  BY DEF Carve
<1>6. \A t \in DOMAIN h \ {s} : g[t] = h[t]
  BY <1>4 DEF Carve
<1>7. g[p] = [size |-> e - p - HDR, next |-> NULL]
  BY DEF Carve
<1>8. g[s] = [size |-> h[s].size - (e - p), next |-> h[s].next]
  <2>1. s # p
    BY <1>1, <1>4
  <2> QED
    BY <1>1, <2>1 DEF Carve
<1> HIDE DEF g, e
<1>9. /\ g[p] \in [size: Nat, next: Nat] /\ g[p].size >= n
      /\ g[p].size = e - p - HDR
  BY <1>2, <1>7 DEF HDR, NULL
<1>10. g[s] \in [size: Nat, next: Nat] /\ g[s].next = h[s].next
       /\ g[s].size = h[s].size - (e - p)
  BY <1>2, <1>3, <1>8 DEF HDR
<1>11. \A t \in DOMAIN h \ {s} : End(g, t) = End(h, t)
  BY <1>6 DEF End
<1>12. End(g, p) = e /\ End(g, s) = p
  <2>1. h[s].size \in Nat
    BY <1>3
  <2>2. p + HDR + (e - p - HDR) = e /\ s + HDR + (h[s].size - (e - p)) = p
    BY <1>2, <1>3, <2>1 DEF HDR
  <2>3. End(g, p) = p + HDR + g[p].size /\ End(g, s) = s + HDR + g[s].size
    BY DEF End
  <2> QED
    BY <1>9, <1>10, <2>2, <2>3
<1>13. Typed(g)
  <2>1. \A t \in DOMAIN g : g[t] \in [size: Nat, next: Nat]
    BY <1>1, <1>5, <1>6, <1>9, <1>10 DEF Typed
  <2>2. g = [t \in DOMAIN g |-> g[t]]
    BY DEF g, Carve
  <2>3. \A t \in DOMAIN g : t \in Nat /\ t >= KERNEL_END
    BY <1>1, <1>2, <1>5, LinkAssumption DEF Typed, HDR
  <2> QED
    BY <2>1, <2>2, <2>3 DEF Typed
<1>14. Tiled(g, hi)
  <2>0. \A t \in DOMAIN h : t \in Nat
    BY <1>1 DEF Typed
  <2>1. \A t \in DOMAIN h : /\ End(h, t) = hi \/ End(h, t) \in DOMAIN h
                            /\ End(h, t) <= hi
                            /\ \A u \in DOMAIN h : t < u => End(h, t) <= u
    BY DEF WellFormed, Shaped, Tiled
  <2>2. \A t \in DOMAIN h : End(h, t) \in Nat /\ t + HDR <= End(h, t)
    BY <1>1, EndType
  <2>3. \A t \in DOMAIN g : End(g, t) = hi \/ End(g, t) \in DOMAIN g
    BY <1>1, <1>5, <1>11, <1>12, <2>1 DEF e
  <2>4. e <= hi
    BY <1>1, <2>1 DEF e
  <2>5. \A t \in DOMAIN g : End(g, t) <= hi
    BY <1>1, <1>2, <1>5, <1>11, <1>12, <2>1, <2>4 DEF HDR
  <2>6. \A t, u \in DOMAIN g : t < u => End(g, t) <= u
    <3> SUFFICES ASSUME NEW t \in DOMAIN g, NEW u \in DOMAIN g, t < u
                 PROVE  End(g, t) <= u
      OBVIOUS
    <3>1. CASE t \in DOMAIN h \ {s} /\ u = p
      <4>1. t < s \/ s < t
        BY <1>1, <1>2, <2>0, <3>1
      <4>2. CASE t < s
        BY <1>1, <1>2, <1>11, <2>0, <2>1, <2>2, <3>1, <4>2 DEF HDR
      <4>3. CASE s < t
        BY <1>1, <1>2, <2>0, <2>1, <3>1, <4>3 DEF e, HDR
      <4> QED
        BY <4>1, <4>2, <4>3
    <3>2. CASE t \in DOMAIN h \ {s} /\ u \in DOMAIN h
      BY <1>11, <2>1, <3>2
    <3>3. CASE t = p /\ u \in DOMAIN h
      BY <1>1, <1>2, <1>12, <2>0, <2>1, <3>3 DEF e, HDR
    <3>4. CASE t = p /\ u = p
      BY <1>2, <3>4
    <3>5. CASE t = s /\ u = p
      BY <1>2, <1>12, <3>5
    <3>6. CASE t = s /\ u \in DOMAIN h
      BY <1>1, <1>2, <1>12, <2>0, <2>1, <3>6 DEF e, HDR
    <3> QED
      BY <1>1, <1>5, <3>1, <3>2, <3>3, <3>4, <3>5, <3>6
  <2> QED
    BY <2>3, <2>5, <2>6 DEF Tiled
<1>15. Sorted(g, L)
  <2>1. \A t \in L : g[t].next = h[t].next
    BY <1>1, <1>6, <1>10
  <2> QED
    BY <2>1 DEF Sorted, WellFormed, Shaped
<1>16. Apart(g, L)
  BY <1>1, <1>4, <1>11, <1>12 DEF Apart, WellFormed
<1>17. L \subseteq DOMAIN g /\ KERNEL_END \in L
  BY <1>1, <1>5 DEF WellFormed, Shaped
<1>18. WellFormed(g, L, hi)
  BY <1>13, <1>14, <1>15, <1>16, <1>17 DEF WellFormed, Shaped
<1> QED
  BY <1>4, <1>5, <1>6, <1>9, <1>18 DEF g, CarvedFrom

----------------------------------------------------------------------------
(* Link and Merge, of which Insert is made.                                *)

\* Where a walk that keeps below x stops, x's place in the list is found:
\* no listed segment lies between c and x.
LEMMA NothingBetween ==
  ASSUME NEW h, NEW L, NEW hi \in Nat, Shaped(h, L, hi),
         NEW x \in DOMAIN h \ L, NEW c \in L, c < x, GoesAfter(h, c, x)
  PROVE  \A t \in L : t <= c \/ x < t
<1>1. /\ \A t \in L : t \in Nat
      /\ x \in Nat /\ x # NULL /\ x \notin L
  BY LinkAssumption DEF Shaped, Typed, NULL
<1>2. CASE h[c].next = NULL
  <2>1. \A t \in L : t <= c \/ h[c].next \in L
    BY DEF Shaped, Sorted
  <2>2. NULL \notin L
    BY LinkAssumption DEF Shaped, Typed, NULL
  <2> QED
    BY <1>2, <2>1, <2>2
<1>3. CASE h[c].next > x
  <2>1. h[c].next # NULL
    BY <1>1, <1>3 DEF NULL
  <2>2. h[c].next \in L /\ \A t \in L : t <= c \/ h[c].next <= t
    BY <2>1 DEF Shaped, Sorted
  <2> QED
    BY <1>1, <1>3, <2>2
<1> QED
  BY <1>2, <1>3 DEF GoesAfter

\* Linking the header x in after c gives a sorted list that holds x.
LEMMA LinkShaped ==
  ASSUME NEW h, NEW L, NEW hi \in Nat, Shaped(h, L, hi),
         NEW x \in DOMAIN h \ L, NEW c \in L, c < x, GoesAfter(h, c, x)
  PROVE  /\ Shaped(Link(h, c, x), L \cup {x}, hi)
         /\ DOMAIN Link(h, c, x) = DOMAIN h
         /\ \A t \in DOMAIN h : End(Link(h, c, x), t) = End(h, t)
         /\ \A t \in DOMAIN h \ (L \cup {x}) : Link(h, c, x)[t] = h[t]
         /\ Link(h, c, x)[c].next = x
         /\ Link(h, c, x)[x].next = h[c].next
<1> DEFINE g == Link(h, c, x)
           M == L \cup {x}
<1>1. /\ Typed(h) /\ L \subseteq DOMAIN h /\ KERNEL_END \in L
      /\ Tiled(h, hi) /\ Sorted(h, L)
  BY DEF Shaped
<1>2. c \in DOMAIN h /\ x \in DOMAIN h /\ c # x
      /\ \A t \in DOMAIN h : t \in Nat /\ h[t] \in [size: Nat, next: Nat]
  BY <1>1 DEF Typed
<1>3. DOMAIN g = DOMAIN h
  BY DEF Link
<1>4. g = [t \in DOMAIN h |-> g[t]]
  BY DEF Link
<1>5. \A t \in DOMAIN h \ {c, x} : g[t] = h[t]
  BY DEF Link
<1>6. g[c].next = x /\ g[c].size = h[c].size /\ g[c] \in [size: Nat, next: Nat]
  BY <1>2 DEF Link
<1>7. g[x].next = h[c].next /\ g[x].size = h[x].size
      /\ g[x] \in [size: Nat, next: Nat]
  BY <1>2 DEF Link
<1> HIDE DEF g
<1>8. \A t \in DOMAIN h : End(g, t) = End(h, t)
  BY <1>5, <1>6, <1>7 DEF End
<1>9. Typed(g)
  BY <1>1, <1>2, <1>3, <1>4, <1>5, <1>6, <1>7 DEF Typed
<1>10. Tiled(g, hi)
  BY <1>1, <1>3, <1>8 DEF Tiled
<1>11. Sorted(g, M)
  <2>1. \A t \in L : t <= c \/ x < t
    BY NothingBetween
  <2>2. SUFFICES ASSUME NEW s \in M
                 PROVE  \/ g[s].next = NULL /\ \A t \in M : t <= s
                        \/ /\ g[s].next \in M /\ s < g[s].next
                           /\ \A t \in M : t <= s \/ g[s].next <= t
    BY DEF Sorted
  <2>3. CASE s = c
    BY <1>1, <1>2, <1>6, <2>1, <2>3
  <2>4. CASE s = x
    <3>1. CASE h[c].next = NULL
      <4>1. \A t \in L : t <= c \/ h[c].next \in L
        BY <1>1 DEF Sorted
      <4>2. NULL \notin L
        BY <1>1, LinkAssumption DEF Typed, NULL
      <4> QED
        BY <1>1, <1>2, <1>7, <2>4, <3>1, <4>1, <4>2
    <3>2. CASE h[c].next # NULL
      <4>1. h[c].next \in L /\ \A t \in L : t <= c \/ h[c].next <= t
        BY <1>1, <3>2 DEF Sorted
      <4>2. h[c].next > x
        BY <3>2 DEF GoesAfter
      <4> QED
        BY <1>1, <1>2, <1>7, <2>1, <2>4, <4>1, <4>2
    <3> QED
      BY <3>1, <3>2
  <2>5. CASE s \in L \ {c}
    <3>1. g[s].next = h[s].next
      BY <1>1, <1>5, <2>5
    <3>2. CASE h[s].next = NULL /\ \A t \in L : t <= s
      \* c is below s, so x is as well
      <4>1. x < s \/ s <= c
        BY <2>1, <2>5
      <4>2. c <= s
        BY <3>2
      <4>3. x <= s
        BY <1>1, <1>2, <2>5, <4>1, <4>2
      <4> QED
        BY <3>1, <3>2, <4>3
    <3>3. CASE /\ h[s].next \in L /\ s < h[s].next
               /\ \A t \in L : t <= s \/ h[s].next <= t
      <4>1. x <= s \/ h[s].next <= x
        <5>1. CASE c <= s
          BY <1>1, <1>2, <2>1, <2>5, <5>1
        <5>2. CASE h[s].next <= c
          BY <1>1, <1>2, <3>3, <5>2
        <5> QED
          BY <3>3, <5>1, <5>2
      <4> QED
        BY <3>1, <3>3, <4>1
    <3> QED
      BY <1>1, <2>5, <3>2, <3>3 DEF Sorted
  <2> QED
    BY <2>3, <2>4, <2>5
<1>12. M \subseteq DOMAIN g /\ KERNEL_END \in M
  BY <1>1, <1>2, <1>3
<1>13. Shaped(g, M, hi)
  BY <1>9, <1>10, <1>11, <1>12 DEF Shaped
<1> QED
  BY <1>1, <1>3, <1>5, <1>6, <1>7, <1>8, <1>13 DEF g

\* The list after a merge of a with b.
Remaining(h, L, a, b) == IF End(h, a) = b THEN L \ {b} ELSE L

\* Merging a listed segment with its successor, if they touch, takes the
\* successor out of the heap and the list; the merged segment ends where the
\* successor did.
LEMMA MergeShaped ==
  ASSUME NEW h, NEW L, NEW hi \in Nat, Shaped(h, L, hi), NEW a \in L,
         NEW b, b = h[a].next,
         NEW g, g = Merge(h, a, b),
         NEW M, M = Remaining(h, L, a, b)
  PROVE  /\ Shaped(g, M, hi)
         /\ DOMAIN g = DOMAIN h \ (L \ M)
         /\ \A t \in DOMAIN g \ {a} : g[t] = h[t]
         /\ End(h, a) = b => /\ b \in L
                             /\ a \in M
                             /\ End(g, a) = End(h, b)
                             /\ g[a].next = h[b].next
         /\ End(h, a) # b => g = h
<1>1. /\ Typed(h) /\ L \subseteq DOMAIN h /\ KERNEL_END \in L
      /\ Tiled(h, hi) /\ Sorted(h, L)
  BY DEF Shaped
<1>2. CASE End(h, a) # b
  BY <1>2 DEF Merge, Remaining
<1>3. CASE End(h, a) = b
  <2>1. /\ \A t \in DOMAIN h : t \in Nat /\ t >= KERNEL_END
        /\ \A t \in DOMAIN h : h[t] \in [size: Nat, next: Nat]
        /\ a \in DOMAIN h
    BY <1>1 DEF Typed
  <2>2. b \in Nat /\ a + HDR <= b
    BY <1>1, <1>3, <2>1, EndType
  <2>3. /\ b \in L /\ a < b
        /\ \A t \in L : t <= a \/ b <= t
    <3>1. b # NULL
      BY <2>1, <2>2 DEF HDR, NULL
    <3> QED
      BY <1>1, <3>1 DEF Sorted
  <2>4. DOMAIN g = DOMAIN h \ {b}
    BY <1>3 DEF Merge
  <2>5. \A t \in DOMAIN g \ {a} : g[t] = h[t]
    BY <1>3, <2>4 DEF Merge
  <2>6. /\ g[a] = [size |-> h[a].size + HDR + h[b].size, next |-> h[b].next]
        /\ a \in DOMAIN g
    BY <1>3, <2>1, <2>3, <2>4 DEF Merge
  <2>7. g = [t \in DOMAIN g |-> g[t]]
    BY <1>3 DEF Merge
  <2>8. h[a].size \in Nat /\ h[b].size \in Nat /\ h[b].next \in Nat
    BY <1>1, <2>1, <2>3
  <2>9. /\ g[a] \in [size: Nat, next: Nat] /\ g[a].next = h[b].next
        /\ g[a].size = h[a].size + HDR + h[b].size
    BY <2>6, <2>8 DEF HDR
  <2>10. End(g, a) = End(h, b)
    BY <1>3, <2>1, <2>2, <2>8, <2>9 DEF End, HDR
  <2>11. \A t \in DOMAIN g \ {a} : End(g, t) = End(h, t)
    BY <2>5 DEF End
  <2>12. Typed(g)
    BY <1>1, <2>1, <2>4, <2>5, <2>7, <2>9 DEF Typed
  <2>13. Tiled(g, hi)
    <3>1. \A t \in DOMAIN h : /\ End(h, t) = hi \/ End(h, t) \in DOMAIN h
                              /\ End(h, t) <= hi
                              /\ \A u \in DOMAIN h : t < u => End(h, t) <= u
      BY <1>1 DEF Tiled
    <3>2. \A t \in DOMAIN h : End(h, t) \in Nat /\ t + HDR <= End(h, t)
      BY <1>1, EndType
    <3>3. \A t \in DOMAIN h \ {a} : End(h, t) # b
      \* t ends at b only if a does not lie between them, nor t above a
      <4> SUFFICES ASSUME NEW t \in DOMAIN h \ {a}, End(h, t) = b
                   PROVE  FALSE
        OBVIOUS
      <4>1. t < a \/ a < t
        BY <2>1
      <4>2. CASE t < a
        BY <2>1, <2>2, <3>1, <4>2 DEF HDR
      <4>3. CASE a < t
        BY <1>3, <2>1, <2>2, <3>1, <3>2, <4>3 DEF HDR
      <4> QED
        BY <4>1, <4>2, <4>3
    <3>4. b \in DOMAIN h
      BY <1>1, <2>3
    <3>5. End(h, b) # b
      BY <2>2, <3>2, <3>4 DEF HDR
    <3>6. SUFFICES ASSUME NEW t \in DOMAIN g
                   PROVE  /\ End(g, t) = hi \/ End(g, t) \in DOMAIN g
                          /\ End(g, t) <= hi
                          /\ \A u \in DOMAIN g : t < u => End(g, t) <= u
      BY DEF Tiled
    <3>7. CASE t = a
      <4>1. End(g, t) = End(h, b)
        BY <2>10, <3>7
      <4>2. End(h, b) = hi \/ End(h, b) \in DOMAIN g
        BY <2>4, <3>1, <3>4, <3>5
      <4>3. ASSUME NEW u \in DOMAIN g, t < u
            PROVE  End(h, b) <= u
        <5>1. u \in DOMAIN h /\ u # b /\ b <= u
          BY <1>3, <2>1, <2>4, <3>1, <3>7, <4>3
        <5> QED
          BY <2>1, <2>2, <3>1, <3>4, <5>1
      <4> QED
        BY <3>1, <3>4, <4>1, <4>2, <4>3
    <3>8. CASE t # a
      <4>1. End(g, t) = End(h, t) /\ t \in DOMAIN h \ {a}
        BY <2>4, <2>11, <3>8
      <4> QED
        BY <2>4, <3>1, <3>3, <4>1
    <3> QED
      BY <3>7, <3>8
  <2>14. Sorted(g, L \ {b})
    <3>1. SUFFICES ASSUME NEW s \in L \ {b}
                   PROVE  \/ g[s].next = NULL /\ \A t \in L \ {b} : t <= s
                          \/ /\ g[s].next \in L \ {b} /\ s < g[s].next
                             /\ \A t \in L \ {b} : t <= s \/ g[s].next <= t
      BY DEF Sorted
    <3>2. \A t \in L : t \in Nat
      BY <1>1, <2>1
    <3>3. CASE s = a
      <4>1. \/ h[b].next = NULL /\ \A t \in L : t <= b
            \/ /\ h[b].next \in L /\ b < h[b].next
               /\ \A t \in L : t <= b \/ h[b].next <= t
        BY <1>1, <2>3 DEF Sorted
      <4>2. g[s].next = h[b].next
        BY <2>9, <3>3
      <4>3. \A t \in L \ {b} : t <= b => t <= s
        BY <2>3, <3>2, <3>3
      <4>4. CASE h[b].next = NULL /\ \A t \in L : t <= b
        BY <4>2, <4>3, <4>4
      <4>5. CASE /\ h[b].next \in L /\ b < h[b].next
                 /\ \A t \in L : t <= b \/ h[b].next <= t
        <5>1. h[b].next # b /\ s < h[b].next
          BY <2>3, <3>2, <3>3, <4>5
        <5> QED
          BY <4>2, <4>3, <4>5, <5>1
      <4> QED
        BY <4>1, <4>4, <4>5
    <3>4. CASE s # a
      <4>1. g[s].next = h[s].next
        BY <1>1, <2>4, <2>5, <3>4
      <4>2. \/ h[s].next = NULL /\ \A t \in L : t <= s
            \/ /\ h[s].next \in L /\ s < h[s].next
               /\ \A t \in L : t <= s \/ h[s].next <= t
        BY <1>1 DEF Sorted
      <4>3. ASSUME h[s].next = b, s < b, \A t \in L : t <= s \/ b <= t
            PROVE  FALSE
        BY <2>3, <3>2, <3>4, <4>3
      <4> QED
        BY <4>1, <4>2, <4>3
    <3> QED
      BY <3>3, <3>4
  <2>15. L \ {b} \subseteq DOMAIN g /\ KERNEL_END \in L \ {b} /\ a \in L \ {b}
    BY <1>1, <2>1, <2>3, <2>4, LinkAssumption
  <2>16. Shaped(g, L \ {b}, hi)
    BY <2>12, <2>13, <2>14, <2>15 DEF Shaped
  <2>17. M = L \ {b} /\ L \ M = {b}
    BY <1>3, <2>3 DEF Remaining
  <2> QED
    BY <1>3, <2>3, <2>4, <2>5, <2>9, <2>10, <2>15, <2>16, <2>17
<1> QED
  BY <1>2, <1>3

\* A listed segment touches no listed segment but its successor.
LEMMA OnlySuccessorTouches ==
  ASSUME NEW h, NEW L, NEW hi \in Nat, Shaped(h, L, hi),
         NEW a \in L, End(h, a) \in L
  PROVE  h[a].next = End(h, a)
<1>1. /\ a \in DOMAIN h /\ Typed(h) /\ \A t \in L : t \in DOMAIN h /\ t \in Nat
      /\ a < End(h, a) /\ End(h, a) \in Nat
  BY EndType DEF Shaped, Typed, HDR
<1>2. /\ h[a].next \in L /\ a < h[a].next
      /\ \A t \in L : t <= a \/ h[a].next <= t
  <2>1. ~ \A t \in L : t <= a
    BY <1>1
  <2> QED
    BY <2>1 DEF Shaped, Sorted
<1>3. End(h, a) <= h[a].next
  BY <1>1, <1>2 DEF Shaped, Tiled
<1> QED
  BY <1>1, <1>2, <1>3

\* g is h with the segment x inserted into the list L: the new list M lacks only
\* headers that were merged away, and no segment outside the list changes.
InsertedInto(h, L, hi, x, g) ==
  \E M \in SUBSET (L \cup {x}) :
    /\ WellFormed(g, M, hi)
    /\ DOMAIN g = DOMAIN h \ ((L \cup {x}) \ M)
    /\ \A t \in DOMAIN h \ (L \cup {x}) : g[t] = h[t]

\* Inserting a detached segment in its place keeps the heap well formed.
LEMMA InsertWellFormed ==
  ASSUME NEW h, NEW L, NEW hi \in Nat, WellFormed(h, L, hi),
         NEW x \in DOMAIN h \ L, NEW c \in L, c < x, GoesAfter(h, c, x)
  PROVE  InsertedInto(h, L, hi, x, Insert(h, c, x))
<1> DEFINE n  == h[c].next
           g1 == Link(h, c, x)
           M1 == L \cup {x}
           g2 == Merge(g1, x, n)
           M2 == Remaining(g1, M1, x, n)
           g3 == Merge(g2, c, x)
           M3 == Remaining(g2, M2, c, x)
<1>1. /\ Shaped(h, L, hi) /\ Typed(h) /\ L \subseteq DOMAIN h
      /\ Tiled(h, hi) /\ Apart(h, L)
      /\ \A t \in DOMAIN h : t \in Nat
      /\ x \in DOMAIN h /\ c \in DOMAIN h /\ c # x
  BY DEF WellFormed, Shaped, Typed
<1>2. /\ Shaped(g1, M1, hi)
      /\ DOMAIN g1 = DOMAIN h
      /\ \A t \in DOMAIN h : End(g1, t) = End(h, t)
      /\ \A t \in DOMAIN h \ M1 : g1[t] = h[t]
      /\ g1[c].next = x /\ g1[x].next = n
  BY <1>1, LinkShaped
<1>3. \A t \in L \ {c} : End(h, t) \notin M1
  <2> SUFFICES ASSUME NEW t \in L \ {c}
               PROVE  End(h, t) # x
    BY <1>1 DEF Apart
  <2>1. t <= c \/ x < t
    BY <1>1, NothingBetween
  <2>2. CASE t <= c
    BY <1>1, <2>2 DEF Tiled
  <2>3. CASE x < t
    <3>1. t + HDR <= End(h, t) /\ End(h, t) \in Nat
      BY <1>1, EndType
    <3> QED
      BY <1>1, <2>3, <3>1 DEF HDR
  <2> QED
    BY <2>1, <2>2, <2>3
<1> HIDE DEF g1
<1>4. /\ Shaped(g2, M2, hi)
      /\ DOMAIN g2 = DOMAIN g1 \ (M1 \ M2)
      /\ \A t \in DOMAIN g2 \ {x} : g2[t] = g1[t]
      /\ End(g1, x) = n => /\ n \in M1
                           /\ x \in M2
                           /\ End(g2, x) = End(g1, n)
      /\ End(g1, x) # n => g2 = g1
  <2>1. x \in M1
    OBVIOUS
  <2>2. g2 = Merge(g1, x, n) /\ M2 = Remaining(g1, M1, x, n)
    OBVIOUS
  <2> HIDE DEF n, M1, g2, M2
  <2> QED
    BY <1>2, <2>1, <2>2, MergeShaped
<1>5. End(g1, x) = n => n > x
  <2>1. x + HDR <= End(g1, x) /\ End(g1, x) \in Nat
    BY <1>1, <1>2, EndType DEF Shaped
  <2> QED
    BY <1>1, <2>1 DEF HDR
<1>6. c \in M2 /\ x \in M2 /\ M2 \subseteq M1
  BY <1>1, <1>5 DEF Remaining
<1>7. \A t \in M2 \ {c} : End(g2, t) \notin M2
  <2> SUFFICES ASSUME NEW t \in M2 \ {c}, End(g2, t) \in M2
               PROVE  FALSE
    OBVIOUS
  <2>1. t \in DOMAIN g2 /\ t \in M1 /\ t \in DOMAIN h
    BY <1>1, <1>4, <1>6 DEF Shaped
  <2>2. CASE t # x
    <3>1. End(g2, t) = End(h, t)
      BY <1>2, <1>4, <2>1, <2>2 DEF End
    <3> QED
      BY <1>3, <1>6, <2>1, <2>2, <3>1
  <2>3. CASE t = x /\ End(g1, x) = n
    <3>1. n \in L \ {c}
      BY <1>1, <1>4, <1>5, <2>3
    <3>2. End(g2, x) = End(h, n)
      BY <1>1, <1>2, <1>4, <2>3, <3>1
    <3> QED
      BY <1>3, <1>6, <2>3, <3>1, <3>2
  <2>4. CASE t = x /\ End(g1, x) # n
    <3>1. End(g1, x) \in M1
      BY <1>4, <1>6, <2>4
    <3>2. x \in M1
      OBVIOUS
    <3> HIDE DEF M1, n
    <3>3. g1[x].next = End(g1, x)
      BY <1>2, <3>1, <3>2, OnlySuccessorTouches
    <3> QED
      BY <1>2, <2>4, <3>3
  <2> QED
    BY <2>2, <2>3, <2>4
<1>8. g2[c].next = x
  <2>1. c \in DOMAIN g2 \ {x}
    BY <1>1, <1>4, <1>6 DEF Shaped
  <2> QED
    BY <1>2, <1>4, <2>1
<1> HIDE DEF g2, M2
<1>9. /\ Shaped(g3, M3, hi)
      /\ DOMAIN g3 = DOMAIN g2 \ (M2 \ M3)
      /\ \A t \in DOMAIN g3 \ {c} : g3[t] = g2[t]
      /\ End(g2, c) = x => End(g3, c) = End(g2, x)
      /\ End(g2, c) # x => g3 = g2
  <2>1. g3 = Merge(g2, c, x) /\ M3 = Remaining(g2, M2, c, x)
    OBVIOUS
  <2>2. Shaped(g2, M2, hi) /\ c \in M2 /\ x = g2[c].next
    BY <1>4, <1>6, <1>8
  <2> HIDE DEF g3, M3, M1, n
  <2> QED
    BY <2>1, <2>2, MergeShaped
<1>10. M3 \subseteq M2
  BY DEF Remaining
<1>11. Apart(g3, M3)
  <2> SUFFICES ASSUME NEW t \in M3, End(g3, t) \in M3
               PROVE  FALSE
    BY DEF Apart
  <2>1. t \in DOMAIN g3
    BY <1>9 DEF Shaped
  <2>2. CASE t # c
    <3>1. End(g3, t) = End(g2, t)
      BY <1>9, <2>1, <2>2 DEF End
    <3> QED
      BY <1>7, <1>10, <2>2, <3>1
  <2>3. CASE t = c /\ End(g2, c) = x
    BY <1>1, <1>6, <1>7, <1>9, <1>10, <2>3
  <2>4. CASE t = c /\ End(g2, c) # x
    <3>1. g2[c].next = End(g2, c)
      BY <1>4, <1>6, <1>9, <1>10, <2>4, OnlySuccessorTouches
    <3> QED
      BY <1>8, <2>4, <3>1
  <2> QED
    BY <2>2, <2>3, <2>4
<1> HIDE DEF g3, M3
<1>12. DOMAIN g3 = DOMAIN h \ (M1 \ M3)
  <2>1. M1 \subseteq DOMAIN h
    BY <1>1
  <2> QED
    BY <1>2, <1>4, <1>6, <1>9, <1>10, <2>1
<1>13. \A t \in DOMAIN h \ M1 : g3[t] = h[t]
  <2> SUFFICES ASSUME NEW t \in DOMAIN h \ M1
               PROVE  g3[t] = h[t]
    OBVIOUS
  <2>1. t # x /\ t # c
    OBVIOUS
  <2>2. g1[t] = h[t] /\ t \in DOMAIN g1
    BY <1>2
  <2>3. t \in DOMAIN g3 /\ t \in DOMAIN g2
    BY <1>9, <1>12
  <2>4. g2[t] = g1[t]
    BY <1>4, <2>1, <2>3
  <2> QED
    BY <1>9, <2>1, <2>2, <2>3, <2>4
<1>14. WellFormed(g3, M3, hi)
  BY <1>9, <1>11 DEF WellFormed
<1>15. Insert(h, c, x) = g3
  BY DEF Insert, g1, g2, g3
<1>16. M3 \in SUBSET (L \cup {x})
  BY <1>6, <1>10
<1> QED
  BY <1>12, <1>13, <1>14, <1>15, <1>16 DEF InsertedInto

----------------------------------------------------------------------------
(* The inductive invariant.                                                *)

\* Before boot is done, and for ever if it fails, there is no heap.
BootInv ==
  /\ ~ Running => DOMAIN heap = {} /\ allocated = {}
  /\ pc = "boot" => freeSegment = NULL

HeapInv ==
  Running => freeSegment = KERNEL_END /\ WellFormed(heap, Listed, heapEnd)

AlignedInv == \A s \in allocated : (s + HDR) % ALIGN = 0

\* The walk of malloc has passed only segments that cannot serve the request;
\* the walk of free is below the segment it frees.
CursorInv ==
  /\ pc \in {"malloc", "panic_malloc"} =>
       /\ arg \in Requests
       /\ cursor \in Listed \cup {NULL}
       /\ \A s \in Listed : cursor = NULL \/ s < cursor => ~ Fits(heap, s, arg)
  /\ pc = "panic_malloc" => cursor = NULL
  /\ pc = "free" => /\ arg \in DOMAIN heap \ allocated
                    /\ cursor \in Listed
                    /\ cursor < arg

\* free never reaches panic("Could not deallocate!") (allocator.c:136).
FreeNeverPanics == pc # "panic_free"

IInv ==
  /\ TypeOK
  /\ BootInv
  /\ HeapInv
  /\ AlignedInv
  /\ CursorInv
  /\ FreeNeverPanics

LEMMA InitIInv == Init => IInv
<1> SUFFICES ASSUME Init
             PROVE  IInv
  OBVIOUS
<1> USE DEF Init
<1>1. DOMAIN heap = {} /\ heap = [s \in {} |-> 0]
  OBVIOUS
<1>2. TypeOK
  <2>1. Typed(heap)
    BY <1>1 DEF Typed
  <2> QED
    BY <1>1, <2>1 DEF TypeOK, NULL
<1>3. BootInv /\ HeapInv /\ AlignedInv /\ CursorInv /\ FreeNeverPanics
  BY <1>1 DEF BootInv, HeapInv, AlignedInv, CursorInv, FreeNeverPanics, Running
<1> QED
  BY <1>2, <1>3 DEF IInv

\* Boot makes a heap of one segment.
LEMMA BootIInv ==
  ASSUME IInv, InitializeFreeSegments
  PROVE  IInv'
<1> USE DEF InitializeFreeSegments
<1>1. PICK i \in DOMAIN mbd :
        /\ IsBigBlock(mbd, i)
        /\ heap' = OneSegment(mbd[i].len - (KERNEL_END - KERNEL_START) - HDR)
        /\ heapEnd' = KERNEL_END + HDR + (mbd[i].len - (KERNEL_END - KERNEL_START) - HDR)
  OBVIOUS
<1> DEFINE size == mbd[i].len - (KERNEL_END - KERNEL_START) - HDR
<1>2. size \in Nat
  <2>1. mbd[i] \in [addr: Nat, len: Nat]
    BY <1>1, MapAssumption DEF IInv, TypeOK
  <2>2. mbd[i].len \in Nat
    BY <2>1
  <2>3. KERNEL_END + HDR <= KERNEL_START + mbd[i].len
    BY <1>1, MapAssumption DEF IInv, TypeOK
  <2> QED
    BY <2>2, <2>3, LinkAssumption DEF HDR
<1> HIDE DEF size
<1>3. heap' = OneSegment(size) /\ heapEnd' = KERNEL_END + HDR + size
  BY <1>1 DEF size
<1>4. allocated' = {} /\ allocated = {} /\ pc = "boot" /\ pc' = "idle"
  BY DEF IInv, BootInv, Running
<1>5. DOMAIN heap' = {KERNEL_END} /\ Listed' = {KERNEL_END}
  BY <1>3, <1>4 DEF OneSegment, Listed, Detached
<1>6. /\ heap'[KERNEL_END] = [size |-> size, next |-> NULL]
      /\ heap'[KERNEL_END].size = size /\ heap'[KERNEL_END].next = NULL
      /\ End(heap', KERNEL_END) = heapEnd'
  BY <1>3 DEF OneSegment, End
<1>7. KERNEL_END \in Nat /\ heapEnd' \in Nat /\ KERNEL_END < heapEnd'
  BY <1>2, <1>3, LinkAssumption DEF HDR
<1>8. Typed(heap')
  BY <1>2, <1>3, <1>5, <1>7 DEF Typed, OneSegment, NULL
<1>9. WellFormed(heap', Listed', heapEnd')
  <2>1. Tiled(heap', heapEnd')
    BY <1>5, <1>6, <1>7 DEF Tiled
  <2>2. Sorted(heap', Listed') /\ Apart(heap', Listed')
    BY <1>5, <1>6, <1>7 DEF Sorted, Apart
  <2> QED
    BY <1>5, <1>8, <2>1, <2>2 DEF WellFormed, Shaped
<1>10. TypeOK'
  BY <1>4, <1>7, <1>8 DEF IInv, TypeOK
<1> QED
  BY <1>4, <1>9, <1>10
  DEF IInv, BootInv, HeapInv, AlignedInv, CursorInv, FreeNeverPanics, Running

\* A step that leaves the heap and its owners alone leaves it well formed.
LEMMA FrameHeap ==
  ASSUME IInv, UNCHANGED <<mbd, freeSegment, heap, allocated, heapEnd, Detached>>,
         pc \notin {"boot", "panic_boot"}, pc' \notin {"boot", "panic_boot"}
  PROVE  /\ Listed' = Listed
         /\ BootInv' /\ HeapInv' /\ AlignedInv'
<1>1. Listed' = Listed
  BY DEF Listed
<1> QED
  BY <1>1 DEF IInv, BootInv, HeapInv, AlignedInv, Running, WellFormed, Shaped,
              Typed, Tiled, Sorted, Apart, End

LEMMA MallocIInv ==
  ASSUME IInv, NEW n \in Requests, Malloc(n)
  PROVE  IInv'
<1> USE DEF Malloc
<1>1. UNCHANGED Detached
  BY DEF Detached
<1>2. Listed' = Listed /\ BootInv' /\ HeapInv' /\ AlignedInv'
  BY <1>1, FrameHeap
<1>3. KERNEL_END \in Listed /\ freeSegment = KERNEL_END /\ Typed(heap)
      /\ Listed \subseteq DOMAIN heap
  BY DEF IInv, HeapInv, Running, WellFormed, Shaped
<1>4. TypeOK'
  BY LinkAssumption, RequestAssumption, <1>3 DEF IInv, TypeOK, Typed
<1>5. \A s \in Listed : ~ (s < KERNEL_END) /\ KERNEL_END # NULL
  BY <1>3, LinkAssumption DEF Typed, NULL
<1>6. CursorInv'
  BY <1>2, <1>3, <1>5 DEF CursorInv
<1> QED
  BY <1>2, <1>4, <1>6 DEF IInv, FreeNeverPanics

LEMMA MallocSkipIInv ==
  ASSUME IInv, MallocSkip
  PROVE  IInv'
<1> USE DEF MallocSkip
<1>1. UNCHANGED Detached
  BY DEF Detached
<1>2. Listed' = Listed /\ BootInv' /\ HeapInv' /\ AlignedInv'
  BY <1>1, FrameHeap
<1>3. /\ cursor \in Listed
      /\ Typed(heap) /\ Listed \subseteq DOMAIN heap /\ Sorted(heap, Listed)
      /\ \A s \in Listed : s < cursor => ~ Fits(heap, s, arg)
  BY DEF IInv, HeapInv, Running, WellFormed, Shaped, CursorInv
<1>4. heap[cursor].next \in Nat /\ \A s \in Listed : s \in Nat
  BY <1>3 DEF Typed
<1>5. TypeOK'
  BY <1>4 DEF IInv, TypeOK, Typed
<1>6. cursor' \in Listed \cup {NULL}
  BY <1>3 DEF Sorted
<1>7. \A s \in Listed : cursor' = NULL \/ s < cursor' => s <= cursor
  <2>1. NULL \notin Listed
    BY <1>3, LinkAssumption DEF Typed, NULL
  <2> QED
    BY <1>3, <1>4, <2>1 DEF Sorted
<1>8. \A s \in Listed : cursor' = NULL \/ s < cursor' => ~ Fits(heap, s, arg)
  BY <1>3, <1>4, <1>7
<1>9. CursorInv'
  <2>1. \A s : Fits(heap, s, arg)' <=> Fits(heap, s, arg)
    BY DEF Fits, CarvePoint, End
  <2> QED
    BY <1>2, <1>6, <1>8, <2>1 DEF IInv, CursorInv
<1> QED
  BY <1>2, <1>5, <1>9 DEF IInv, FreeNeverPanics

LEMMA MallocCarveIInv ==
  ASSUME IInv, MallocCarve
  PROVE  IInv'
<1> USE DEF MallocCarve
<1> DEFINE p == CarvePoint(heap, cursor, arg)
<1>1. /\ WellFormed(heap, Listed, heapEnd) /\ heapEnd \in Nat
      /\ cursor \in Listed /\ arg \in Requests
      /\ DOMAIN heap = Listed \cup allocated /\ Listed \cap allocated = {}
      /\ Listed \subseteq DOMAIN heap /\ Typed(heap)
  BY DEF IInv, TypeOK, HeapInv, Running, CursorInv, Listed, Detached, WellFormed, Shaped
<1>2. /\ p \notin DOMAIN heap
      /\ DOMAIN heap' = DOMAIN heap \cup {p}
      /\ WellFormed(heap', Listed, heapEnd)
  <2>1. CarvedFrom(heap, Listed, heapEnd, cursor, arg, p, Carve(heap, cursor, arg))
    BY <1>1, CarveWellFormed
  <2> QED
    BY <2>1 DEF CarvedFrom
<1>3. p \in Nat /\ (p + HDR) % ALIGN = 0
  BY <1>1, CarvePointFacts
<1>4. Listed' = Listed
  <2>1. Detached' = {} /\ Detached = {}
    BY DEF Detached
  <2> QED
    BY <1>1, <1>2, <2>1 DEF Listed
<1>5. TypeOK'
  BY <1>2 DEF IInv, TypeOK, WellFormed, Shaped
<1>6. HeapInv'
  BY <1>2, <1>4 DEF IInv, HeapInv, Running
<1>7. AlignedInv'
  BY <1>3 DEF IInv, AlignedInv
<1> QED
  BY <1>5, <1>6, <1>7 DEF IInv, BootInv, Running, CursorInv, FreeNeverPanics

\* free takes its segment away from the caller; the list is as it was.
LEMMA FreeIInv ==
  ASSUME IInv, NEW s \in allocated, Free(s)
  PROVE  IInv'
<1> USE DEF Free
<1>1. /\ WellFormed(heap, Listed, heapEnd)
      /\ allocated \subseteq DOMAIN heap
      /\ Listed = DOMAIN heap \ allocated
      /\ freeSegment = KERNEL_END
      /\ Listed \subseteq DOMAIN heap /\ KERNEL_END \in Listed /\ Typed(heap)
  BY DEF IInv, TypeOK, HeapInv, Running, Listed, Detached, WellFormed, Shaped
<1>2. DOMAIN heap' = DOMAIN heap
  OBVIOUS
<1>3. Listed' = Listed
  BY <1>1, <1>2 DEF Listed, Detached
<1>4. \A t \in DOMAIN heap : heap'[t].size = heap[t].size
  BY <1>1 DEF Typed
<1>5. \A t \in DOMAIN heap \ {s} : heap'[t] = heap[t]
  OBVIOUS
<1>6. s \in DOMAIN heap \ Listed
  BY <1>1
<1>7. Typed(heap')
  BY <1>1, <1>6 DEF Typed, NULL
<1>8. \A t \in DOMAIN heap : End(heap', t) = End(heap, t)
  BY <1>4 DEF End
<1>9. Tiled(heap', heapEnd)
  BY <1>1, <1>2, <1>8 DEF WellFormed, Shaped, Tiled
<1>10. Sorted(heap', Listed) /\ Apart(heap', Listed)
  <2>1. \A t \in Listed : heap'[t] = heap[t] /\ End(heap', t) = End(heap, t)
    BY <1>1, <1>5, <1>6, <1>8
  <2>2. Sorted(heap, Listed) /\ Apart(heap, Listed)
    BY <1>1 DEF WellFormed, Shaped
  <2> QED
    BY <2>1, <2>2 DEF Sorted, Apart
<1>11. WellFormed(heap', Listed', heapEnd')
  BY <1>1, <1>2, <1>3, <1>7, <1>9, <1>10 DEF WellFormed, Shaped
<1>12. KERNEL_END < s
  <2>1. s # KERNEL_END /\ s \in DOMAIN heap
    BY <1>1, <1>6
  <2> QED
    BY <1>1, <2>1, LinkAssumption DEF Typed
<1>13. TypeOK'
  <2>1. s \in Nat /\ KERNEL_END \in Nat
    BY <1>1, <1>6, LinkAssumption DEF Typed
  <2> QED
    BY <1>1, <1>2, <1>7, <2>1 DEF IInv, TypeOK
<1>14. CursorInv'
  BY <1>1, <1>2, <1>3, <1>6, <1>12 DEF CursorInv
<1>15. HeapInv' /\ BootInv'
  BY <1>1, <1>11 DEF HeapInv, BootInv, Running
<1> QED
  BY <1>13, <1>14, <1>15 DEF IInv, AlignedInv, FreeNeverPanics

\* The walk of free never runs off the list: its segment has a place.
LEMMA FreeSkipIInv ==
  ASSUME IInv, FreeSkip
  PROVE  IInv' /\ pc' = "free"
<1> USE DEF FreeSkip
<1>1. /\ cursor \in Listed /\ cursor < arg
      /\ arg \in DOMAIN heap \ allocated /\ arg \notin Listed
      /\ Typed(heap) /\ Listed \subseteq DOMAIN heap /\ Sorted(heap, Listed)
  BY DEF IInv, HeapInv, Running, WellFormed, Shaped, CursorInv, Listed, Detached
<1>2. heap[cursor].next # NULL /\ ~ (heap[cursor].next > arg)
  BY DEF GoesAfter
<1>3. cursor' \in Listed
  BY <1>1, <1>2 DEF Sorted
<1>4. cursor' < arg
  BY <1>1, <1>2, <1>3 DEF Typed
<1>5. pc' = "free"
  BY <1>2
<1>6. UNCHANGED Detached
  BY <1>5 DEF Detached
<1>7. Listed' = Listed /\ BootInv' /\ HeapInv' /\ AlignedInv'
  BY <1>5, <1>6, FrameHeap
<1>8. TypeOK'
  BY <1>1, <1>3, <1>5 DEF IInv, TypeOK, Typed
<1>9. CursorInv'
  BY <1>1, <1>3, <1>4, <1>5, <1>7 DEF CursorInv
<1> QED
  BY <1>5, <1>7, <1>8, <1>9 DEF IInv, FreeNeverPanics

LEMMA FreeInsertIInv ==
  ASSUME IInv, FreeInsert
  PROVE  IInv' /\ \A t \in allocated : heap'[t] = heap[t]
<1> USE DEF FreeInsert
<1>1. /\ WellFormed(heap, Listed, heapEnd) /\ heapEnd \in Nat
      /\ cursor \in Listed /\ cursor < arg
      /\ arg \in DOMAIN heap \ Listed
      /\ allocated \subseteq DOMAIN heap /\ arg \notin allocated
      /\ DOMAIN heap \ allocated = Listed \cup {arg}
  BY DEF IInv, TypeOK, HeapInv, Running, CursorInv, Listed, Detached
<1>2. PICK M \in SUBSET (Listed \cup {arg}) :
        /\ WellFormed(heap', M, heapEnd)
        /\ DOMAIN heap' = DOMAIN heap \ ((Listed \cup {arg}) \ M)
        /\ \A t \in DOMAIN heap \ (Listed \cup {arg}) : heap'[t] = heap[t]
  <2>1. GoesAfter(heap, cursor, arg) /\ heap' = Insert(heap, cursor, arg)
    OBVIOUS
  <2>2. InsertedInto(heap, Listed, heapEnd, arg, Insert(heap, cursor, arg))
    BY <1>1, <2>1, InsertWellFormed
  <2> QED
    BY <2>1, <2>2 DEF InsertedInto
<1>3. Listed' = M
  <2>1. Detached' = {}
    BY DEF Detached
  <2>2. Listed' = DOMAIN heap' \ allocated
    BY <2>1 DEF Listed
  <2> QED
    BY <1>1, <1>2, <2>2
<1>4. allocated \subseteq DOMAIN heap'
  BY <1>1, <1>2
<1>5. TypeOK'
  BY <1>2, <1>4 DEF IInv, TypeOK, WellFormed, Shaped
<1>6. HeapInv' /\ BootInv'
  BY <1>2, <1>3 DEF IInv, HeapInv, BootInv, Running
<1>7. \A t \in allocated : heap'[t] = heap[t]
  BY <1>1, <1>2
<1> QED
  BY <1>5, <1>6, <1>7 DEF IInv, AlignedInv, CursorInv, FreeNeverPanics

LEMMA NextIInv == IInv /\ [Next]_vars => IInv'
<1> SUFFICES ASSUME IInv, [Next]_vars
             PROVE  IInv'
  OBVIOUS
<1>1. CASE InitializeFreeSegments
  BY <1>1, BootIInv
<1>2. CASE BootPanic
  BY <1>2 DEF BootPanic, IInv, TypeOK, BootInv, HeapInv, AlignedInv, CursorInv,
              FreeNeverPanics, Running, Panics
<1>3. CASE \E n \in Requests : Malloc(n)
  BY <1>3, MallocIInv
<1>4. CASE MallocSkip
  BY <1>4, MallocSkipIInv
<1>5. CASE MallocCarve
  BY <1>5, MallocCarveIInv
<1>6. CASE MallocPanic
  <2>1. UNCHANGED Detached
    BY <1>6 DEF MallocPanic, Detached
  <2>2. Listed' = Listed /\ BootInv' /\ HeapInv' /\ AlignedInv'
    BY <1>6, <2>1, FrameHeap DEF MallocPanic
  <2>3. TypeOK' /\ FreeNeverPanics'
    BY <1>6 DEF MallocPanic, IInv, TypeOK, FreeNeverPanics, Panics
  <2>4. CursorInv'
    BY <1>6, <2>2 DEF MallocPanic, IInv, CursorInv
  <2> QED
    BY <2>2, <2>3, <2>4 DEF IInv
<1>7. CASE \E s \in allocated : Free(s)
  BY <1>7, FreeIInv
<1>8. CASE FreeSkip
  BY <1>8, FreeSkipIInv
<1>9. CASE FreeInsert
  BY <1>9, FreeInsertIInv
<1>10. CASE UNCHANGED vars
  <2>1. UNCHANGED <<Listed, Detached>>
    BY <1>10 DEF vars, Listed, Detached
  <2> QED
    BY <1>10, <2>1 DEF vars, IInv, TypeOK, BootInv, HeapInv, AlignedInv, CursorInv,
                       FreeNeverPanics, Running
<1> QED
  BY <1>1, <1>2, <1>3, <1>4, <1>5, <1>6, <1>7, <1>8, <1>9, <1>10 DEF Next

THEOREM Invariant == Spec => []IInv
<1> QED
  BY InitIInv, NextIInv, PTL DEF Spec

----------------------------------------------------------------------------
(* What follows from the invariant.                                        *)

\* Every variable keeps its type (allocator.c).
THEOREM TypeCorrect == Spec => []TypeOK
<1>1. IInv => TypeOK
  BY DEF IInv
<1> QED
  BY <1>1, Invariant, PTL

\* malloc and free lose no byte and give none to two segments.
THEOREM TilingHolds == Spec => []Tiling
<1>1. IInv => Tiling
  BY DEF IInv, HeapInv, WellFormed, Shaped, Tiling
<1> QED
  BY <1>1, Invariant, PTL

\* The free list is sorted and holds exactly what no caller holds.
THEOREM ListSortedHolds == Spec => []ListSorted
<1>1. IInv => ListSorted
  BY DEF IInv, HeapInv, WellFormed, Shaped, ListSorted
<1> QED
  BY <1>1, Invariant, PTL

\* The free list never holds two segments that touch.
THEOREM CoalescedHolds == Spec => []Coalesced
<1>1. IInv => Coalesced
  BY DEF IInv, HeapInv, BootInv, WellFormed, Coalesced, Apart, Listed
<1> QED
  BY <1>1, Invariant, PTL

\* malloc panics only when no free segment fits, and free never does.
THEOREM PanicsAreReal == Spec => [](ExhaustionIsReal /\ FreeNeverPanics)
<1>1. IInv => ExhaustionIsReal /\ FreeNeverPanics
  <2> SUFFICES ASSUME IInv, pc = "panic_malloc", NEW s \in Listed, CanServe(s, arg)
               PROVE  FALSE
    BY DEF IInv, ExhaustionIsReal
  <2>1. /\ Typed(heap) /\ s \in DOMAIN heap /\ arg \in Requests
        /\ ~ Fits(heap, s, arg)
    BY DEF IInv, TypeOK, CursorInv, Listed
  <2> QED
    BY <2>1, CarvePointComplete
<1> QED
  BY <1>1, Invariant, PTL

Walking == pc \in {"malloc", "free"}

\* How much of the heap the walk in progress has before it: nothing when malloc
\* has run off the list, and else at least the header it looks at.
Ahead == IF cursor = NULL THEN 0 ELSE heapEnd - cursor

\* A free segment and its header lie below the end of the heap.
LEMMA AheadOf ==
  ASSUME IInv, Running, NEW s \in Listed
  PROVE  s \in Nat /\ KERNEL_END <= s /\ s # NULL /\ s + HDR <= heapEnd
<1>1. /\ s \in DOMAIN heap /\ Typed(heap) /\ Tiled(heap, heapEnd) /\ heapEnd \in Nat
  BY DEF IInv, TypeOK, HeapInv, WellFormed, Shaped
<1>2. s \in Nat /\ KERNEL_END <= s /\ End(heap, s) \in Nat /\ s + HDR <= End(heap, s)
  BY <1>1, EndType
<1>3. End(heap, s) <= heapEnd
  BY <1>1 DEF Tiled
<1>4. s # NULL
  BY <1>2, LinkAssumption DEF NULL
<1> QED
  BY <1>1, <1>2, <1>3, <1>4 DEF HDR

\* The walks of malloc (allocator.c:64-90) and of free (allocator.c:121-134)
\* end, whatever the list: a turn returns, or panics in malloc, or leaves less of
\* the heap ahead; and what is ahead cannot fall for ever.
THEOREM WalksEnd ==
  Spec => /\ [](Walking => Ahead \in Nat)
          /\ [][Walking => pc' \in {"idle", "panic_malloc"} \/ Ahead' < Ahead]_vars
<1>1. IInv /\ Walking => Ahead \in Nat
  <2> SUFFICES ASSUME IInv, Walking, cursor # NULL
               PROVE  heapEnd - cursor \in Nat
    BY DEF Ahead
  <2>1. cursor \in Listed /\ heapEnd \in Nat /\ Running
    BY DEF Walking, IInv, TypeOK, CursorInv, Running
  <2> QED
    BY <2>1, AheadOf DEF HDR
<1>2. IInv /\ IInv' /\ [Next]_vars =>
        [Walking => pc' \in {"idle", "panic_malloc"} \/ Ahead' < Ahead]_vars
  <2> SUFFICES ASSUME IInv, IInv', Next, Walking,
                      pc' \notin {"idle", "panic_malloc"}
               PROVE  Ahead' < Ahead
    BY DEF vars
  <2>1. MallocSkip \/ FreeSkip
    BY DEF Walking, Next, InitializeFreeSegments, BootPanic, Malloc, MallocCarve, MallocPanic,
           Free, FreeInsert
  <2>2. /\ cursor \in Listed /\ cursor' = heap[cursor].next /\ heapEnd' = heapEnd
        /\ Running /\ heapEnd \in Nat
    BY <2>1 DEF MallocSkip, FreeSkip, IInv, TypeOK, CursorInv, Running
  <2>3. cursor \in Nat /\ cursor # NULL /\ cursor + HDR <= heapEnd
    BY <2>2, AheadOf
  <2>4. Sorted(heap, Listed)
    BY <2>2 DEF IInv, HeapInv, WellFormed, Shaped
  <2>5. CASE heap[cursor].next = NULL
    BY <2>2, <2>3, <2>5 DEF Ahead, HDR
  <2>6. CASE heap[cursor].next # NULL
    <3>1. heap[cursor].next \in Listed /\ cursor < heap[cursor].next
      BY <2>2, <2>4, <2>6 DEF Sorted
    <3>2. heap[cursor].next \in Nat
      BY <2>2, <3>1, AheadOf
    <3> QED
      BY <2>2, <2>3, <2>6, <3>1, <3>2 DEF Ahead
  <2> QED
    BY <2>5, <2>6
<1> QED
  BY <1>1, <1>2, Invariant, PTL DEF Spec

\* When every segment is freed the heap is the one segment boot made.
THEOREM RestoredHolds == Spec => []Restored
<1>1. IInv => Restored
  <2> SUFFICES ASSUME IInv, pc = "idle", allocated = {}
               PROVE  heap = OneSegment(heapEnd - KERNEL_END - HDR)
    BY DEF Restored
  <2>1. /\ WellFormed(heap, DOMAIN heap, heapEnd) /\ heapEnd \in Nat
        /\ Typed(heap) /\ KERNEL_END \in DOMAIN heap
        /\ heap = [s \in DOMAIN heap |-> heap[s]]
    BY DEF IInv, TypeOK, HeapInv, Running, Listed, Detached, WellFormed, Shaped, Typed
  <2>2. \A s \in DOMAIN heap : End(heap, s) = heapEnd
    BY <2>1 DEF WellFormed, Shaped, Apart, Tiled
  <2>3. DOMAIN heap = {KERNEL_END}
    <3> SUFFICES ASSUME NEW t \in DOMAIN heap, t # KERNEL_END
                 PROVE  FALSE
      BY <2>1
    <3>1. KERNEL_END < t /\ t \in Nat
      BY <2>1, LinkAssumption DEF Typed
    <3>2. heapEnd <= t
      BY <2>1, <2>2, <3>1 DEF WellFormed, Shaped, Tiled
    <3>3. t + HDR <= heapEnd
      BY <2>1, <2>2, EndType
    <3> QED
      BY <2>1, <3>1, <3>2, <3>3 DEF HDR
  <2>4. heap[KERNEL_END].next = NULL
    BY <2>1, <2>3, LinkAssumption DEF WellFormed, Shaped, Sorted
  <2>5. heap[KERNEL_END].size = heapEnd - KERNEL_END - HDR
    <3>1. heap[KERNEL_END].size \in Nat
      BY <2>1 DEF Typed
    <3> QED
      BY <2>1, <2>2, <3>1, LinkAssumption DEF End, HDR
  <2>6. heap[KERNEL_END] = [size |-> heapEnd - KERNEL_END - HDR, next |-> NULL]
    BY <2>1, <2>4, <2>5, EndType
  <2> QED
    BY <2>1, <2>3, <2>6 DEF OneSegment
<1> QED
  BY <1>1, Invariant, PTL

----------------------------------------------------------------------------
(* The refinement.                                                         *)

\* The substitutions of the refinement mapping.
Arena == IF Running THEN [lo |-> KERNEL_END, hi |-> heapEnd] ELSE [lo |-> 0, hi |-> 0]

Regions == {<<s + HDR, heap[s].size>> : s \in allocated}

Request == IF pc \in {"malloc", "panic_malloc"} THEN arg ELSE -1

LEMMA InitPromise == Init => Promise!Init
  BY DEF Init, Running, Promise!Init, Promise!Closed, Promise!None

\* A step of the walks that neither carves nor ends a call is a stutter.
LEMMA Stutter ==
  ASSUME UNCHANGED <<Arena, Regions, Request>>
  PROVE  UNCHANGED Promise!vars
  BY DEF Arena, Regions, Request, Promise!vars

LEMMA BootOpens ==
  ASSUME IInv, InitializeFreeSegments
  PROVE  Promise!Open
<1>1. IInv'
  BY BootIInv
<1>2. /\ pc = "boot" /\ pc' = "idle" /\ ~ Running /\ Running'
      /\ allocated = {} /\ allocated' = {}
  BY DEF InitializeFreeSegments, Running, IInv, BootInv
<1>3. KERNEL_END \in Nat /\ heapEnd' \in Nat /\ KERNEL_END < heapEnd'
  <2>1. /\ Typed(heap') /\ KERNEL_END \in DOMAIN heap' /\ heapEnd' \in Nat
        /\ End(heap', KERNEL_END) <= heapEnd'
    BY <1>1, <1>2 DEF IInv, TypeOK, HeapInv, WellFormed, Shaped, Tiled
  <2>2. KERNEL_END + HDR <= End(heap', KERNEL_END) /\ End(heap', KERNEL_END) \in Nat
    BY <2>1, EndType
  <2> QED
    BY <2>1, <2>2, LinkAssumption DEF HDR
<1> QED
  BY <1>2, <1>3 DEF Promise!Open, Promise!Closed

LEMMA CarveGrants ==
  ASSUME IInv, MallocCarve
  PROVE  Promise!Grant
<1> DEFINE p == CarvePoint(heap, cursor, arg)
           r == <<p + HDR, heap'[p].size>>
<1>1. /\ IInv' /\ Running /\ Running'
      /\ pc = "malloc" /\ pc' = "idle" /\ heapEnd' = heapEnd
      /\ allocated' = allocated \cup {p}
  BY MallocCarveIInv DEF MallocCarve, Running
<1>2. /\ WellFormed(heap, Listed, heapEnd) /\ heapEnd \in Nat /\ Typed(heap)
      /\ cursor \in Listed /\ arg \in Requests /\ Fits(heap, cursor, arg)
      /\ Listed \subseteq DOMAIN heap
      /\ allocated \subseteq DOMAIN heap \ {cursor}
      /\ heap' = Carve(heap, cursor, arg)
  BY DEF MallocCarve, IInv, TypeOK, HeapInv, Running, CursorInv, Listed, WellFormed, Shaped
<1>3. /\ p \notin DOMAIN heap
      /\ \A s \in DOMAIN heap \ {cursor} : heap'[s] = heap[s]
      /\ heap'[p].size >= arg
  <2>1. CarvedFrom(heap, Listed, heapEnd, cursor, arg, p, Carve(heap, cursor, arg))
    BY <1>2, CarveWellFormed
  <2> QED
    BY <1>2, <2>1 DEF CarvedFrom
<1>4. /\ Typed(heap') /\ Tiled(heap', heapEnd)
      /\ allocated' \subseteq DOMAIN heap' /\ p \in DOMAIN heap'
  BY <1>1 DEF IInv, TypeOK, HeapInv, WellFormed, Shaped
<1>5. (p + HDR) % ALIGN = 0
  BY <1>1 DEF IInv, AlignedInv
<1>6. Regions' = Regions \cup {r}
  BY <1>1, <1>2, <1>3 DEF Regions
<1> HIDE DEF p
<1>7. \A s \in allocated' : /\ s \in Nat /\ s >= KERNEL_END /\ heap'[s].size \in Nat
                            /\ End(heap', s) = s + HDR + heap'[s].size
  BY <1>4 DEF Typed, End
<1>8. r \notin Regions
  <2>1. \A s \in allocated : s + HDR # p + HDR
    BY <1>1, <1>2, <1>3, <1>7 DEF HDR
  <2> QED
    BY <2>1 DEF Regions
<1>9. /\ KERNEL_END <= p + HDR /\ p + HDR + heap'[p].size <= heapEnd
      /\ arg <= heap'[p].size
  <2>1. End(heap', p) <= heapEnd
    BY <1>4 DEF Tiled
  <2>2. arg \in Nat
    BY <1>2, RequestAssumption
  <2> QED
    BY <1>1, <1>3, <1>7, <2>1, <2>2, LinkAssumption DEF HDR
<1>10. \A q \in Regions : p + HDR + heap'[p].size <= q[1] \/ q[1] + q[2] <= p + HDR
  <2> SUFFICES ASSUME NEW s \in allocated
               PROVE  \/ p + HDR + heap'[p].size <= s + HDR
                      \/ s + HDR + heap[s].size <= p + HDR
    BY DEF Regions
  <2>1. s # p /\ heap'[s] = heap[s] /\ s \in DOMAIN heap'
    BY <1>1, <1>2, <1>3, <1>4
  <2>2. (s < p => End(heap', s) <= p) /\ (p < s => End(heap', p) <= s)
    BY <1>4, <2>1 DEF Tiled
  <2> QED
    BY <1>1, <1>7, <2>1, <2>2 DEF HDR
<1>11. Arena' = Arena /\ Arena = [lo |-> KERNEL_END, hi |-> heapEnd]
       /\ Request = arg /\ Request' = -1 /\ arg \in Nat
  BY <1>1, <1>2, RequestAssumption DEF Arena, Request
<1>12. r[1] = p + HDR /\ r[2] = heap'[p].size
  OBVIOUS
<1>13. \A q \in Regions : Promise!Disjoint(r, q)
  BY <1>10, <1>12 DEF Promise!Disjoint
<1> HIDE DEF r
<1>14. Promise!Grantable(r, arg)
  BY <1>5, <1>9, <1>11, <1>12, <1>13 DEF Promise!Grantable, Arena, Regions
<1> QED
  BY <1>6, <1>8, <1>11, <1>14
  DEF Promise!Grant, Promise!None, Arena, Regions, Request

LEMMA FreeReleases ==
  ASSUME IInv, NEW s \in allocated, Free(s)
  PROVE  Promise!Release
<1> USE DEF Free
<1>1. /\ Typed(heap) /\ allocated \subseteq DOMAIN heap /\ Running /\ Running'
      /\ pc = "idle" /\ pc' = "free"
  BY DEF IInv, TypeOK, Running
<1>2. \A t \in allocated : heap'[t].size = heap[t].size /\ t \in Nat
  BY <1>1 DEF Typed
<1>3. Regions' = {<<t + HDR, heap[t].size>> : t \in allocated \ {s}}
  BY <1>2 DEF Regions
<1>4. \A t \in allocated \ {s} : t + HDR # s + HDR
  BY <1>2 DEF HDR
<1>5. Regions' = Regions \ {<<s + HDR, heap[s].size>>}
  BY <1>3, <1>4 DEF Regions
<1>6. <<s + HDR, heap[s].size>> \in Regions
  BY DEF Regions
<1>7. Arena' = Arena /\ Request' = Request /\ Request = -1
  BY <1>1 DEF Arena, Request
<1> QED
  BY <1>5, <1>6, <1>7 DEF Promise!Release, Promise!None, Arena, Regions, Request

LEMMA NextPromise == IInv /\ [Next]_vars => [Promise!Next]_(Promise!vars)
<1> SUFFICES ASSUME IInv, [Next]_vars
             PROVE  Promise!Next \/ UNCHANGED Promise!vars
  OBVIOUS
<1> USE DEF Promise!Next
<1>1. CASE InitializeFreeSegments
  BY <1>1, BootOpens
<1>2. CASE BootPanic
  BY <1>2, Stutter DEF BootPanic, Arena, Regions, Request, Running
<1>3. CASE \E n \in Requests : Malloc(n)
  <2>1. PICK n \in Requests : Malloc(n)
    BY <1>3
  <2>2. Arena' = Arena /\ Regions' = Regions /\ Request = -1 /\ Request' = n
    BY <2>1 DEF Malloc, Arena, Regions, Request, Running
  <2>3. Promise!Ask
    BY <2>2 DEF Promise!Ask, Promise!None, Arena, Regions, Request
  <2> QED
    BY <2>3
<1>4. CASE MallocSkip
  BY <1>4, Stutter DEF MallocSkip, Arena, Regions, Request, Running
<1>5. CASE MallocCarve
  BY <1>5, CarveGrants
<1>6. CASE MallocPanic
  BY <1>6, Stutter DEF MallocPanic, Arena, Regions, Request, Running
<1>7. CASE \E s \in allocated : Free(s)
  BY <1>7, FreeReleases
<1>8. CASE FreeSkip
  BY <1>8, FreeSkipIInv, Stutter DEF FreeSkip, Arena, Regions, Request, Running
<1>9. CASE FreeInsert
  <2>1. \A t \in allocated : heap'[t] = heap[t]
    BY <1>9, FreeInsertIInv
  <2>2. Regions' = Regions
    BY <1>9, <2>1 DEF FreeInsert, Regions
  <2> QED
    BY <1>9, <2>2, Stutter DEF FreeInsert, Arena, Request, Running
<1>10. CASE UNCHANGED vars
  BY <1>10, Stutter DEF vars, Arena, Regions, Request, Running
<1> QED
  BY <1>1, <1>2, <1>3, <1>4, <1>5, <1>6, <1>7, <1>8, <1>9, <1>10 DEF Next

\* malloc and free implement the promise: what a caller was granted is aligned,
\* long enough, disjoint from every other grant, and stays so until it is freed.
THEOREM Refinement == Spec => KeepsPromise
<1> QED
  BY InitPromise, NextPromise, Invariant, PTL DEF Spec, KeepsPromise, Promise!Spec

----------------------------------------------------------------------------
(* deep_copy and FreeSegment_delete are callers like any other: every run  *)
(* of HeapCopy is a run of Allocator, so what is proved of the heap above  *)
(* holds while the list is copied into segments taken from that same list. *)

\* The nodes of the copy are distinct segments, all held.
NodesHeld ==
  /\ copy \in Seq([segment: Nat, size: Nat])
  /\ \A i \in DOMAIN copy : copy[i].segment \in allocated
  /\ \A i, j \in DOMAIN copy : copy[i].segment = copy[j].segment => i = j

\* deep_copy goes from one member of the list to the next, and what malloc has
\* returned to it is not yet a node.
Copying ==
  /\ result \in Nat
  /\ phase = "copy" => pc = "idle" /\ source \in Listed \cup {NULL}
  /\ phase = "fill" =>
       /\ source \in Listed
       /\ pc \in {"idle", "malloc", "panic_malloc"}
       /\ pc = "idle" => result \in allocated \ Nodes

CopyInv == IInv /\ NodesHeld /\ Copying

LEMMA CopyInitInv == CopyInit => CopyInv
<1> SUFFICES ASSUME CopyInit
             PROVE  CopyInv
  OBVIOUS
<1>1. IInv
  BY InitIInv DEF CopyInit
<1>2. copy = <<>> /\ phase = "none" /\ result = NULL
  BY DEF CopyInit
<1> QED
  BY <1>1, <1>2 DEF CopyInv, NodesHeld, Copying, NULL

\* The copier's steps are calls of malloc and free, or none of the heap's.
LEMMA CopyStep == CopyInv /\ [CopyNext]_allvars => [Next]_vars
<1> SUFFICES ASSUME CopyInv, [CopyNext]_allvars
             PROVE  [Next]_vars
  OBVIOUS
<1>1. CASE OtherCall
  BY <1>1 DEF OtherCall, Next
<1>2. CASE Turn
  BY <1>2 DEF Turn, Next
<1>3. CASE TurnCarve
  BY <1>3 DEF TurnCarve, Next
<1>4. CASE CopyMalloc
  BY <1>4, CopyAssumption DEF CopyMalloc, Next
<1>5. CASE DeleteFree
  <2>1. Len(copy) \in DOMAIN copy
    BY <1>5 DEF DeleteFree, CopyInv, NodesHeld
  <2>2. copy[Len(copy)].segment \in allocated
    BY <2>1 DEF CopyInv, NodesHeld
  <2> QED
    BY <1>5, <2>2 DEF DeleteFree, Next
<1>6. CASE CopyStart \/ CopyFill \/ CopyDone \/ DeleteStart \/ DeleteDone
  BY <1>6 DEF CopyStart, CopyFill, CopyDone, DeleteStart, DeleteDone
<1>7. CASE UNCHANGED allvars
  BY <1>7 DEF allvars
<1> QED
  BY <1>1, <1>2, <1>3, <1>4, <1>5, <1>6, <1>7 DEF CopyNext

\* A copy that stays as it is stays held, if no node is freed.
LEMMA NodesStay ==
  ASSUME NodesHeld, UNCHANGED copy, \A s \in allocated : s \in Nodes => s \in allocated'
  PROVE  NodesHeld'
BY DEF NodesHeld, Nodes

\* A malloc in progress leaves the list alone, and gives out a new segment.
LEMMA CarveIsNew ==
  ASSUME IInv, MallocCarve
  PROVE  /\ Listed' = Listed
         /\ CarvePoint(heap, cursor, arg) \in Nat
         /\ CarvePoint(heap, cursor, arg) \notin allocated
<1> USE DEF MallocCarve
<1> DEFINE p == CarvePoint(heap, cursor, arg)
<1>1. /\ WellFormed(heap, Listed, heapEnd) /\ heapEnd \in Nat
      /\ cursor \in Listed /\ arg \in Requests
      /\ Listed \subseteq DOMAIN heap /\ Typed(heap)
      /\ allocated \subseteq DOMAIN heap
  BY DEF IInv, TypeOK, HeapInv, Running, CursorInv, Listed, WellFormed, Shaped
<1>2. p \notin DOMAIN heap /\ DOMAIN heap' = DOMAIN heap \cup {p}
  <2>1. CarvedFrom(heap, Listed, heapEnd, cursor, arg, p, Carve(heap, cursor, arg))
    BY <1>1, CarveWellFormed
  <2> QED
    BY <2>1 DEF CarvedFrom
<1>3. Listed' = Listed
  <2>1. Detached' = {} /\ Detached = {} /\ allocated' = allocated \cup {p}
    BY DEF Detached
  <2> QED
    BY <1>2, <2>1 DEF Listed
<1>4. p \in Nat
  BY <1>1, CarvePointFacts
<1> QED
  BY <1>1, <1>2, <1>3, <1>4

\* The turns that do not give out a segment.
LEMMA TurnInv ==
  ASSUME CopyInv, Turn
  PROVE  NodesHeld' /\ Copying'
<1>1. UNCHANGED <<phase, source, copy, taken, result, allocated>>
  BY DEF Turn, copier, MallocSkip, MallocPanic, FreeSkip, FreeInsert,
         InitializeFreeSegments, BootPanic
<1>2. NodesHeld'
  BY <1>1, NodesStay DEF CopyInv
<1>3. CASE phase \in {"copy", "fill"}
  <2>1. phase = "fill" /\ pc = "malloc" /\ (MallocSkip \/ MallocPanic)
    BY <1>3 DEF CopyInv, Copying, Turn, MallocSkip, MallocPanic, FreeSkip, FreeInsert,
                InitializeFreeSegments, BootPanic
  <2>2. pc' \in {"malloc", "panic_malloc"} /\ UNCHANGED <<heap, allocated>>
    BY <2>1 DEF MallocSkip, MallocPanic
  <2>3. UNCHANGED Listed
    BY <2>1, <2>2 DEF Listed, Detached
  <2> QED
    BY <1>1, <1>2, <2>1, <2>2, <2>3 DEF CopyInv, Copying
<1>4. CASE phase \notin {"copy", "fill"}
  BY <1>1, <1>2, <1>4 DEF CopyInv, Copying
<1> QED
  BY <1>3, <1>4

LEMMA TurnCarveInv ==
  ASSUME CopyInv, TurnCarve
  PROVE  NodesHeld' /\ Copying'
<1> DEFINE p == CarvePoint(heap, cursor, arg)
<1>1. /\ UNCHANGED <<phase, source, copy>> /\ result' = p
      /\ pc = "malloc" /\ pc' = "idle" /\ allocated' = allocated \cup {p}
  BY DEF TurnCarve, MallocCarve
<1>2. Listed' = Listed /\ p \in Nat /\ p \notin allocated
  BY CarveIsNew DEF TurnCarve, CopyInv
<1> HIDE DEF p
<1>3. NodesHeld'
  BY <1>1, NodesStay DEF CopyInv
<1>4. Nodes' = Nodes /\ Nodes \subseteq allocated
  BY <1>1 DEF Nodes, CopyInv, NodesHeld
<1> QED
  BY <1>1, <1>2, <1>3, <1>4 DEF CopyInv, Copying

\* What a node is filled with is a new segment, and a size.
LEMMA CopyFillInv ==
  ASSUME CopyInv, CopyFill
  PROVE  NodesHeld' /\ Copying'
<1> DEFINE node == [segment |-> result, size |-> heap[source].size]
<1>1. /\ copy' = Append(copy, node) /\ UNCHANGED <<allocated, heap, pc, result>>
      /\ phase' = "copy" /\ pc = "idle" /\ source' = heap[source].next
  BY DEF CopyFill, SizeAfterMalloc, vars
<1>2. /\ source \in Listed /\ result \in allocated \ Nodes /\ result \in Nat
      /\ copy \in Seq([segment: Nat, size: Nat])
  BY <1>1 DEF CopyFill, CopyInv, Copying, NodesHeld
<1>3. /\ heap[source].size \in Nat
      /\ heap[source].next \in Listed \cup {NULL}
  <2>1. Typed(heap) /\ Listed \subseteq DOMAIN heap /\ Sorted(heap, Listed)
    BY <1>1 DEF CopyInv, IInv, HeapInv, Running, WellFormed, Shaped
  <2>2. heap[source] \in [size: Nat, next: Nat]
    BY <1>2, <2>1 DEF Typed
  <2> QED
    BY <1>2, <2>1, <2>2 DEF Sorted
<1>4. node \in [segment: Nat, size: Nat] /\ node.segment = result
  BY <1>2, <1>3
<1> HIDE DEF node
<1>5. /\ copy' \in Seq([segment: Nat, size: Nat])
      /\ DOMAIN copy = 1 .. Len(copy) /\ Len(copy) \in Nat
      /\ DOMAIN copy' = 1 .. Len(copy) + 1
      /\ \A i \in DOMAIN copy : copy'[i] = copy[i]
      /\ copy'[Len(copy) + 1] = node
  BY <1>1, <1>2, <1>4
<1>6. \A i \in DOMAIN copy : copy[i].segment \in allocated /\ copy[i].segment # result
  BY <1>2 DEF CopyInv, NodesHeld, Nodes
<1>7. \A i \in DOMAIN copy' : i \in DOMAIN copy \/ i = Len(copy) + 1
  BY <1>5
<1>8. \A i \in DOMAIN copy' : copy'[i].segment \in allocated'
  BY <1>1, <1>2, <1>4, <1>5, <1>6, <1>7
<1>9. \A i, j \in DOMAIN copy' : copy'[i].segment = copy'[j].segment => i = j
  BY <1>4, <1>5, <1>6, <1>7 DEF CopyInv, NodesHeld
<1>10. UNCHANGED Listed
  BY <1>1 DEF CopyFill, vars, Listed, Detached
<1> QED
  BY <1>1, <1>2, <1>3, <1>5, <1>8, <1>9, <1>10 DEF NodesHeld, Copying

\* The node that is freed is no other node.
LEMMA DeleteFreeInv ==
  ASSUME CopyInv, DeleteFree
  PROVE  NodesHeld' /\ Copying'
<1> DEFINE n == Len(copy)
<1>1. /\ phase = "delete" /\ phase' = "delete" /\ UNCHANGED result
      /\ copy # <<>> /\ copy' = SubSeq(copy, 1, n - 1)
      /\ allocated' = allocated \ {copy[n].segment}
  BY DEF DeleteFree, Free
<1>2. copy \in Seq([segment: Nat, size: Nat])
  BY DEF CopyInv, NodesHeld
<1>3. n \in Nat /\ n >= 1 /\ DOMAIN copy = 1 .. n
  BY <1>1, <1>2
<1>4. /\ copy' \in Seq([segment: Nat, size: Nat])
      /\ DOMAIN copy' = 1 .. n - 1
      /\ \A i \in 1 .. n - 1 : copy'[i] = copy[i]
  <2> DEFINE S == [segment: Nat, size: Nat]
             s == SubSeq(copy, 1, n - 1)
  <2>1. \A i \in 1 .. n - 1 : copy[i] \in S
    <3>1. \A i \in 1 .. n - 1 : i \in 1 .. Len(copy)
      BY <1>3
    <3> QED
      BY <1>2, <3>1, ElementOfSeq
  <2> HIDE DEF S, n
  <2>2. /\ s \in Seq(S)
        /\ Len(s) = IF 1 <= n - 1 THEN n - 1 - 1 + 1 ELSE 0
        /\ \A i \in 1 .. n - 1 - 1 + 1 : s[i] = copy[1 + i - 1]
    BY <1>3, <2>1, SubSeqProperties
  <2> HIDE DEF s
  <2>3. Len(s) = n - 1 /\ DOMAIN s = 1 .. n - 1
    BY <1>3, <2>2
  <2>4. \A i \in 1 .. n - 1 : s[i] = copy[i]
    <3>1. n - 1 - 1 + 1 = n - 1 /\ \A i \in 1 .. n - 1 : 1 + i - 1 = i
      BY <1>3
    <3> QED
      BY <2>2, <3>1
  <2>5. copy' = s
    BY <1>1 DEF s
  <2> QED
    BY <2>2, <2>3, <2>4, <2>5 DEF S
<1> HIDE DEF n
<1>5. \A i \in DOMAIN copy' : i \in DOMAIN copy /\ i # n /\ copy'[i] = copy[i]
  BY <1>3, <1>4
<1>6. n \in DOMAIN copy
  BY <1>3
<1>7. \A i \in DOMAIN copy' : copy'[i].segment \in allocated'
  BY <1>1, <1>5, <1>6 DEF CopyInv, NodesHeld
<1>8. \A i, j \in DOMAIN copy' : copy'[i].segment = copy'[j].segment => i = j
  BY <1>5 DEF CopyInv, NodesHeld
<1> QED
  BY <1>1, <1>4, <1>7, <1>8 DEF NodesHeld, CopyInv, Copying

LEMMA CopyNextInv == CopyInv /\ [CopyNext]_allvars => CopyInv'
<1> SUFFICES ASSUME CopyInv, [CopyNext]_allvars
             PROVE  CopyInv'
  OBVIOUS
<1>1. IInv'
  BY CopyStep, NextIInv DEF CopyInv
<1>2. CASE OtherCall
  <2>1. UNCHANGED copier /\ phase = "none"
    BY <1>2 DEF OtherCall
  <2>2. \A s \in allocated : s \in Nodes => s \in allocated'
    BY <1>2 DEF OtherCall, Malloc, Free
  <2> QED
    BY <1>1, <2>1, <2>2, NodesStay DEF CopyInv, Copying, copier
<1>3. CASE Turn
  BY <1>1, <1>3, TurnInv DEF CopyInv
<1>4. CASE TurnCarve
  BY <1>1, <1>4, TurnCarveInv DEF CopyInv
<1>5. CASE CopyStart
  <2>1. /\ UNCHANGED <<copy, result>> /\ UNCHANGED vars /\ pc = "idle"
        /\ phase' = "copy" /\ source' = freeSegment
    BY <1>5 DEF CopyStart
  <2>2. freeSegment \in Listed
    BY <2>1 DEF CopyInv, IInv, HeapInv, Running, WellFormed, Shaped
  <2>3. UNCHANGED <<Listed, allocated, pc>>
    BY <2>1 DEF vars, Listed, Detached
  <2>4. NodesHeld'
    BY <2>1, <2>3, NodesStay DEF CopyInv
  <2> QED
    BY <1>1, <2>1, <2>2, <2>3, <2>4 DEF CopyInv, Copying
<1>6. CASE CopyMalloc
  <2>1. /\ UNCHANGED <<copy, result, source, heap, allocated>> /\ pc' = "malloc"
        /\ pc = "idle" /\ phase = "copy" /\ phase' = "fill" /\ source # NULL
    BY <1>6 DEF CopyMalloc, Malloc
  <2>2. UNCHANGED Listed
    BY <2>1 DEF Listed, Detached
  <2>3. NodesHeld'
    BY <2>1, NodesStay DEF CopyInv
  <2> QED
    BY <1>1, <2>1, <2>2, <2>3 DEF CopyInv, Copying
<1>7. CASE CopyFill
  BY <1>1, <1>7, CopyFillInv DEF CopyInv
<1>8. CASE CopyDone \/ DeleteStart \/ DeleteDone
  <2>1. UNCHANGED <<copy, result, allocated>> /\ phase' \in {"none", "delete"}
    BY <1>8 DEF CopyDone, DeleteStart, DeleteDone, vars
  <2>2. NodesHeld'
    BY <2>1, NodesStay DEF CopyInv
  <2> QED
    BY <1>1, <2>1, <2>2 DEF CopyInv, Copying
<1>9. CASE DeleteFree
  BY <1>1, <1>9, DeleteFreeInv DEF CopyInv
<1>10. CASE UNCHANGED allvars
  <2>1. UNCHANGED <<copy, result, source, phase, allocated, pc, heap, arg>>
    BY <1>10 DEF allvars, vars, copier
  <2>2. UNCHANGED <<Listed, Nodes>>
    BY <2>1 DEF Listed, Detached, Nodes
  <2>3. NodesHeld'
    BY <2>1, NodesStay DEF CopyInv
  <2> QED
    BY <1>1, <2>1, <2>2, <2>3 DEF CopyInv, Copying
<1> QED
  BY <1>2, <1>3, <1>4, <1>5, <1>6, <1>7, <1>8, <1>9, <1>10 DEF CopyNext

\* deep_copy never makes two nodes of one segment, and FreeSegment_delete gives
\* back only segments that are held (allocator.c:163-179).
THEOREM CopyIsHeld == CopySpec => []NodesHeld
<1>1. CopyInv => NodesHeld
  BY DEF CopyInv
<1> QED
  BY <1>1, CopyInitInv, CopyNextInv, PTL DEF CopySpec

\* Copying the free list into segments of that list, and deleting the copy, are
\* calls of malloc and free like any others (allocator.c:163-179).
THEOREM CopyIsCalls == CopySpec => Spec
<1>1. CopyInit => Init
  BY DEF CopyInit
<1> QED
  BY <1>1, CopyInitInv, CopyNextInv, CopyStep, PTL DEF CopySpec, Spec

\* So the heap keeps its order, and its promise to callers, through a copy.
THEOREM CopyKeepsHeap ==
  CopySpec => [](TypeOK /\ Tiling /\ ListSorted /\ Coalesced /\ ExhaustionIsReal /\ Restored)
              /\ KeepsPromise
BY CopyIsCalls, TypeCorrect, TilingHolds, ListSortedHolds, CoalescedHolds,
   PanicsAreReal, RestoredHolds, Refinement, PTL

----------------------------------------------------------------------------
(* What is held determines what is free.                                   *)

Below == {p \in Nat \X Nat : p[1] < p[2]}

LEMMA BelowWellFounded == IsWellFoundedOn(Below, Nat)
BY NatLessThanWellFounded, Zenon DEF OpToRel, Below

\* A set of numbers that is not empty has a least one, and a greatest one if it
\* is bounded.
LEMMA LeastNumber ==
  ASSUME NEW S, S \subseteq Nat, S # {}
  PROVE  \E n \in S : \A m \in S : n <= m
<1>1. PICK n \in S : \A m \in S : ~ (<<m, n>> \in Below)
  BY BelowWellFounded, WFMin
<1>2. \A m \in S : ~ (m < n)
  BY <1>1 DEF Below
<1> QED
  BY <1>2

LEMMA GreatestNumber ==
  ASSUME NEW n \in Nat, NEW S, S \subseteq 0 .. n, S # {}
  PROVE  \E m \in S : \A x \in S : x <= m
<1> DEFINE D == {n - x : x \in S}
<1>1. D \subseteq Nat /\ D # {}
  <2>1. \A x \in S : n - x \in Nat
    OBVIOUS
  <2>2. \E x \in S : n - x \in D
    OBVIOUS
  <2> QED
    BY <2>1, <2>2
<1>2. PICK d \in D : \A e \in D : d <= e
  BY <1>1, LeastNumber
<1>3. PICK m \in S : d = n - m
  OBVIOUS
<1>4. \A x \in S : n - m <= n - x /\ x \in 0 .. n
  BY <1>2, <1>3
<1>5. \A x \in S : x <= m
  BY <1>4
<1> QED
  BY <1>5

\* Every header but the first lies where another segment ends.
LEMMA SegmentBelow ==
  ASSUME NEW h, NEW L, NEW hi \in Nat, Shaped(h, L, hi),
         NEW x \in DOMAIN h, x # KERNEL_END
  PROVE  \E p \in DOMAIN h : p < x /\ End(h, p) = x
<1>1. /\ Typed(h) /\ KERNEL_END \in DOMAIN h
      /\ \A t \in DOMAIN h : t \in Nat /\ t >= KERNEL_END
      /\ KERNEL_END \in Nat
  BY LinkAssumption DEF Shaped, Typed
<1>2. \A t \in DOMAIN h : /\ End(h, t) = hi \/ End(h, t) \in DOMAIN h
                          /\ End(h, t) <= hi
                          /\ \A u \in DOMAIN h : t < u => End(h, t) <= u
                          /\ End(h, t) \in Nat /\ t + HDR <= End(h, t)
  BY <1>1, EndType DEF Shaped, Tiled
<1> DEFINE S == {t \in DOMAIN h : t < x}
<1>3. PICK p \in S : \A t \in S : t <= p
  <2>1. S \subseteq 0 .. x /\ KERNEL_END \in S /\ x \in Nat
    BY <1>1
  <2> HIDE DEF S
  <2> QED
    BY <2>1, GreatestNumber
<1>4. End(h, p) <= x /\ p < End(h, p) /\ x < hi
  BY <1>1, <1>2, <1>3 DEF HDR
<1>5. End(h, p) = x
  <2> SUFFICES ASSUME End(h, p) # x PROVE FALSE
    OBVIOUS
  <2>1. End(h, p) < x /\ End(h, p) # hi
    BY <1>1, <1>2, <1>3, <1>4
  <2>2. End(h, p) \in S
    BY <1>2, <1>3, <2>1
  <2>3. End(h, p) <= p
    BY <1>3, <2>2
  <2> QED
    BY <1>1, <1>2, <1>3, <1>4, <2>3
<1> QED
  BY <1>3, <1>5

\* A header of one heap is one of the other, if they are alike below it.
LEMMA SameHeader ==
  ASSUME NEW h, NEW L, NEW g, NEW M, NEW hi \in Nat,
         Shaped(h, L, hi), Shaped(g, M, hi), NEW x \in DOMAIN h,
         \A t \in DOMAIN h : t < x => t \in DOMAIN g /\ g[t].size = h[t].size
  PROVE  x \in DOMAIN g
<1>1. CASE x = KERNEL_END
  BY <1>1 DEF Shaped
<1>2. CASE x # KERNEL_END
  <2>1. PICK p \in DOMAIN h : p < x /\ End(h, p) = x
    BY <1>2, SegmentBelow
  <2>2. p \in DOMAIN g /\ End(g, p) = x
    BY <2>1 DEF End
  <2>3. x \in Nat /\ End(h, x) \in Nat /\ x + HDR <= End(h, x)
    BY EndType DEF Shaped
  <2>4. End(h, x) <= hi /\ (x = hi \/ x \in DOMAIN g)
    BY <2>2 DEF Shaped, Tiled
  <2> QED
    BY <2>3, <2>4 DEF HDR
<1> QED
  BY <1>1, <1>2

\* A segment that is free in both heaps is as long in one as in the other.
LEMMA NotShorter ==
  ASSUME NEW h, NEW L, NEW g, NEW M, NEW hi \in Nat,
         WellFormed(h, L, hi), WellFormed(g, M, hi),
         DOMAIN h \ L = DOMAIN g \ M, NEW x \in L, x \in M
  PROVE  ~ (End(h, x) < End(g, x))
<1> SUFFICES ASSUME End(h, x) < End(g, x) PROVE FALSE
  OBVIOUS
<1> DEFINE e == End(h, x)
<1>1. /\ Typed(h) /\ Typed(g) /\ x \in DOMAIN h /\ x \in DOMAIN g
      /\ L \subseteq DOMAIN h
  BY DEF WellFormed, Shaped
<1>2. e \in Nat /\ x + HDR <= e /\ x \in Nat /\ End(g, x) \in Nat
  BY <1>1, EndType
<1>3. End(g, x) <= hi /\ (e = hi \/ e \in DOMAIN h)
  BY <1>1 DEF WellFormed, Shaped, Tiled
<1>4. e \in DOMAIN h /\ e \notin L
  BY <1>2, <1>3 DEF WellFormed, Apart
<1>5. e \in DOMAIN g
  BY <1>4
<1>6. x < e
  BY <1>2 DEF HDR
<1>7. End(g, x) <= e
  BY <1>1, <1>5, <1>6 DEF WellFormed, Shaped, Tiled
<1> QED
  BY <1>2, <1>7

\* Two heaps of the same arena, in which the same segments are held with the
\* same sizes, have the same free segments with the same sizes.
LEMMA HeapIsDetermined ==
  ASSUME NEW h, NEW L, NEW g, NEW M, NEW hi \in Nat,
         WellFormed(h, L, hi), WellFormed(g, M, hi),
         DOMAIN h \ L = DOMAIN g \ M,
         \A s \in DOMAIN h \ L : h[s].size = g[s].size
  PROVE  L = M /\ \A s \in L : h[s].size = g[s].size
<1>1. /\ Shaped(h, L, hi) /\ Shaped(g, M, hi)
      /\ Typed(h) /\ Typed(g) /\ L \subseteq DOMAIN h /\ M \subseteq DOMAIN g
      /\ \A t \in DOMAIN h \cup DOMAIN g : t \in Nat
  BY DEF WellFormed, Shaped, Typed
<1> DEFINE Same(x) == /\ x \in DOMAIN h <=> x \in DOMAIN g
                      /\ x \in DOMAIN h => h[x].size = g[x].size
           S == {x \in Nat : ~ Same(x)}
<1>2. S = {}
  <2> SUFFICES ASSUME S # {} PROVE FALSE
    OBVIOUS
  <2>1. PICK x \in S : \A t \in S : x <= t
    <3>1. S \subseteq Nat
      OBVIOUS
    <3> HIDE DEF S
    <3> QED
      BY <3>1, LeastNumber
  <2>2. \A t \in Nat : t < x => Same(t)
    BY <2>1
  <2>3. x \in DOMAIN h => x \in DOMAIN g
    <3> SUFFICES ASSUME x \in DOMAIN h PROVE x \in DOMAIN g
      OBVIOUS
    <3>1. \A t \in DOMAIN h : t < x => t \in DOMAIN g /\ g[t].size = h[t].size
      BY <1>1, <2>2
    <3> HIDE DEF S
    <3> QED
      BY <1>1, <3>1, SameHeader
  <2>4. x \in DOMAIN g => x \in DOMAIN h
    <3> SUFFICES ASSUME x \in DOMAIN g PROVE x \in DOMAIN h
      OBVIOUS
    <3>1. \A t \in DOMAIN g : t < x => t \in DOMAIN h /\ h[t].size = g[t].size
      BY <1>1, <2>2
    <3> HIDE DEF S
    <3> QED
      BY <1>1, <3>1, SameHeader
  <2>5. x \in DOMAIN h /\ x \in DOMAIN g /\ h[x].size # g[x].size
    BY <2>1, <2>3, <2>4
  <2>6. x \in L /\ x \in M
    BY <2>5
  <2>7. ~ (End(h, x) < End(g, x)) /\ ~ (End(g, x) < End(h, x))
    BY <2>6, NotShorter
  <2>8. h[x].size \in Nat /\ g[x].size \in Nat /\ x \in Nat
    BY <1>1, <2>5 DEF Typed
  <2> QED
    BY <2>5, <2>7, <2>8 DEF End, HDR
<1>3. \A x \in Nat : Same(x)
  BY <1>2
<1>4. DOMAIN h = DOMAIN g
  BY <1>1, <1>3
<1> QED
  BY <1>1, <1>3, <1>4

----------------------------------------------------------------------------
(* What a copy has to do with the list.                                    *)

\* The place of s in the list L.
Rank(L, s) == 1 + Cardinality({t \in L : t < s})

LEMMA ListIsFinite ==
  ASSUME NEW h, NEW L, NEW hi \in Nat, Shaped(h, L, hi)
  PROVE  /\ IsFiniteSet(L) /\ Cardinality(L) \in Nat
         /\ \A s \in L : /\ s \in Nat /\ Rank(L, s) \in Nat
                         /\ IsFiniteSet({t \in L : t < s})
<1>1. L \subseteq 0 .. hi
  <2> SUFFICES ASSUME NEW t \in L PROVE t \in 0 .. hi
    OBVIOUS
  <2>1. t \in DOMAIN h /\ Typed(h)
    BY DEF Shaped
  <2>2. t \in Nat /\ End(h, t) \in Nat /\ t + HDR <= End(h, t) /\ End(h, t) <= hi
    BY <2>1, EndType DEF Shaped, Tiled
  <2> QED
    BY <2>2 DEF HDR
<1>2. IsFiniteSet(0 .. hi)
  BY FS_Interval
<1>3. IsFiniteSet(L)
  BY <1>1, <1>2, FS_Subset
<1>4. ASSUME NEW s \in L
      PROVE  s \in Nat /\ Rank(L, s) \in Nat /\ IsFiniteSet({t \in L : t < s})
  <2>1. s \in Nat
    BY <1>1
  <2>2. {t \in L : t < s} \in SUBSET L
    OBVIOUS
  <2>3. IsFiniteSet({t \in L : t < s})
    BY <1>3, <2>2, FS_Subset
  <2>4. Cardinality({t \in L : t < s}) \in Nat
    BY <2>3, FS_CardinalityType
  <2> QED
    BY <2>1, <2>3, <2>4 DEF Rank
<1> QED
  BY <1>3, <1>4, FS_CardinalityType

\* The head is the first; the next of each has the next place; the last one's
\* place is the length of the list; no two have the same.
LEMMA RankIs ==
  ASSUME NEW h, NEW L, NEW hi \in Nat, Shaped(h, L, hi)
  PROVE  /\ Rank(L, KERNEL_END) = 1
         /\ \A s \in L : h[s].next # NULL => Rank(L, h[s].next) = Rank(L, s) + 1
         /\ \A s \in L : h[s].next = NULL => Rank(L, s) = Cardinality(L)
         /\ \A s, t \in L : Rank(L, s) = Rank(L, t) => s = t
<1> DEFINE Lower(s) == {t \in L : t < s}
<1>1. /\ IsFiniteSet(L)
      /\ \A s \in L : s \in Nat /\ IsFiniteSet(Lower(s)) /\ Rank(L, s) = 1 + Cardinality(Lower(s))
  BY ListIsFinite DEF Rank
<1>0. \A s \in L : s \in Nat
  BY ListIsFinite
<1>2. \A s \in L : s >= KERNEL_END
  BY DEF Shaped, Typed
<1>3. Rank(L, KERNEL_END) = 1
  <2>1. Lower(KERNEL_END) = {}
    BY <1>0, <1>2, LinkAssumption
  <2>2. KERNEL_END \in L /\ Cardinality({}) = 0
    BY FS_EmptySet DEF Shaped
  <2> HIDE DEF Lower
  <2> QED
    BY <1>1, <2>1, <2>2
<1>4. \A s \in L : Cardinality(Lower(s)) \in Nat /\ Cardinality(Lower(s) \cup {s}) = Cardinality(Lower(s)) + 1
  <2> SUFFICES ASSUME NEW s \in L
               PROVE  /\ Cardinality(Lower(s)) \in Nat
                      /\ Cardinality(Lower(s) \cup {s}) = Cardinality(Lower(s)) + 1
    OBVIOUS
  <2>1. IsFiniteSet(Lower(s)) /\ s \notin Lower(s)
    BY <1>1
  <2> HIDE DEF Lower
  <2> QED
    BY <2>1, FS_AddElement, FS_CardinalityType
<1>5. ASSUME NEW s \in L, h[s].next # NULL
      PROVE  Rank(L, h[s].next) = Rank(L, s) + 1
  <2>1. h[s].next \in L /\ s < h[s].next /\ \A t \in L : t <= s \/ h[s].next <= t
    BY <1>5 DEF Shaped, Sorted
  <2>2. Lower(h[s].next) = Lower(s) \cup {s}
    <3> DEFINE n == h[s].next
    <3> HIDE DEF n
    <3>1. n \in Nat /\ s < n /\ \A t \in L : t <= s \/ n <= t
      BY <1>0, <2>1 DEF n
    <3>2. \A t \in L : t < n <=> t < s \/ t = s
      BY <1>0, <3>1
    <3>3. Lower(n) = Lower(s) \cup {s}
      BY <3>2
    <3> QED
      BY <3>3 DEF n
  <2> HIDE DEF Lower
  <2> QED
    BY <1>1, <1>4, <2>1, <2>2
<1>6. ASSUME NEW s \in L, h[s].next = NULL
      PROVE  Rank(L, s) = Cardinality(L)
  <2>1. NULL \notin L
    BY <1>2, LinkAssumption DEF NULL
  <2>2. \A t \in L : t <= s
    BY <1>6, <2>1 DEF Shaped, Sorted
  <2>3. L = Lower(s) \cup {s}
    <3>1. \A t \in L : t < s \/ t = s
      BY <1>0, <2>2
    <3> QED
      BY <3>1
  <2>4. Cardinality(L) = Cardinality(Lower(s)) + 1
    <3> HIDE DEF Lower
    <3> QED
      BY <1>4, <2>3
  <2>5. Rank(L, s) = 1 + Cardinality(Lower(s)) /\ Cardinality(Lower(s)) \in Nat
    BY <1>1, <1>4
  <2> HIDE DEF Lower
  <2> QED
    BY <2>4, <2>5
<1>7. ASSUME NEW s \in L, NEW t \in L, s < t
      PROVE  Rank(L, s) < Rank(L, t)
  <2>1. Lower(s) \cup {s} \in SUBSET Lower(t) /\ IsFiniteSet(Lower(t))
    <3>1. \A u \in L : u < s \/ u = s => u < t
      BY <1>0, <1>7
    <3> QED
      BY <1>1, <3>1
  <2> HIDE DEF Lower
  <2>2. Cardinality(Lower(s) \cup {s}) <= Cardinality(Lower(t))
    BY <2>1, FS_Subset
  <2>3. /\ Rank(L, s) = 1 + Cardinality(Lower(s)) /\ Rank(L, t) = 1 + Cardinality(Lower(t))
        /\ Cardinality(Lower(s)) \in Nat /\ Cardinality(Lower(t)) \in Nat
        /\ Cardinality(Lower(s) \cup {s}) = Cardinality(Lower(s)) + 1
    BY <1>1, <1>4
  <2> QED
    BY <2>2, <2>3
<1>8. \A s, t \in L : Rank(L, s) = Rank(L, t) => s = t
  <2> SUFFICES ASSUME NEW s \in L, NEW t \in L, Rank(L, s) = Rank(L, t), s # t
               PROVE  FALSE
    OBVIOUS
  <2>1. Rank(L, s) \in Nat /\ Rank(L, t) \in Nat /\ s \in Nat /\ t \in Nat
    BY ListIsFinite
  <2>2. s < t \/ t < s
    BY <2>1
  <2> QED
    BY <1>7, <2>1, <2>2
<1> QED
  BY <1>3, <1>5, <1>6, <1>8

\* A node's size is the listed segment's, or what that was before a later malloc.
AtLeast(h, L) ==
  \A i \in DOMAIN copy, s \in L : i = Rank(L, s) => copy[i].size >= h[s].size

LastExact(h, L) ==
  \A i \in DOMAIN copy, s \in L :
    i = Rank(L, s) /\ i = Len(copy) => copy[i].size = h[s].size

\* deep_copy has copied what comes before its source.
Reached ==
  IF source = NULL THEN Len(copy) = Cardinality(Listed)
  ELSE Len(copy) + 1 = Rank(Listed, source)

\* A finished copy is one of a heap in which the segments taken were held.
MatchInv ==
  /\ phase \in {"none", "copy", "fill", "delete"}
  /\ phase = "copy" => Reached /\ AtLeast(heap, Listed) /\ LastExact(heap, Listed)
  /\ phase = "fill" => Reached /\ AtLeast(heap, Listed)
  /\ phase = "none" /\ copy # <<>> =>
       /\ Running
       /\ \E h, L :
            /\ WellFormed(h, L, heapEnd)
            /\ taken = {<<s, h[s].size>> : s \in DOMAIN h \ L}
            /\ Len(copy) = Cardinality(L)
            /\ AtLeast(h, L) /\ LastExact(h, L)

\* What a finished copy is of does not change while it is kept.
LEMMA KeptCopy ==
  ASSUME MatchInv, phase = "none", UNCHANGED <<phase, copy, taken>>,
         Running => Running' /\ UNCHANGED heapEnd
  PROVE  MatchInv'
<1>1. CASE copy = <<>>
  BY <1>1 DEF MatchInv
<1>2. CASE copy # <<>>
  <2>1. PICK h, L :
          /\ WellFormed(h, L, heapEnd)
          /\ taken = {<<s, h[s].size>> : s \in DOMAIN h \ L}
          /\ Len(copy) = Cardinality(L)
          /\ AtLeast(h, L) /\ LastExact(h, L)
    BY <1>2 DEF MatchInv
  <2>2. Running' /\ heapEnd' = heapEnd
    BY <1>2 DEF MatchInv
  <2>3. /\ WellFormed(h, L, heapEnd')
        /\ taken' = {<<s, h[s].size>> : s \in DOMAIN h \ L}
        /\ Len(copy') = Cardinality(L)
        /\ AtLeast(h, L)' /\ LastExact(h, L)'
    BY <2>1, <2>2 DEF AtLeast, LastExact
  <2> QED
    BY <2>2, <2>3 DEF MatchInv
<1> QED
  BY <1>1, <1>2

\* malloc takes from listed segments; it adds to none.
LEMMA CarveShrinks ==
  ASSUME IInv, MallocCarve
  PROVE  \A t \in Listed : heap'[t].size <= heap[t].size
<1> DEFINE p == CarvePoint(heap, cursor, arg)
           e == End(heap, cursor)
<1>1. /\ WellFormed(heap, Listed, heapEnd) /\ cursor \in Listed /\ arg \in Requests
      /\ Listed \subseteq DOMAIN heap /\ Typed(heap) /\ heapEnd \in Nat
      /\ Fits(heap, cursor, arg) /\ heap' = Carve(heap, cursor, arg)
  BY DEF MallocCarve, IInv, TypeOK, HeapInv, Running, CursorInv, Listed, WellFormed, Shaped
<1>2. p \in Nat /\ p + HDR + arg <= e /\ arg \in Nat /\ e \in Nat
  BY <1>1, CarvePointFacts, EndType, RequestAssumption
<1>3. p \notin DOMAIN heap
  BY <1>1, CarveWellFormed DEF CarvedFrom
<1>4. \A t \in DOMAIN heap : heap[t].size \in Nat
  BY <1>1 DEF Typed
<1>5. \A t \in Listed : t # p /\ t \in DOMAIN heap
  BY <1>1, <1>3
<1>6. \A t \in Listed : heap'[t] = IF t = cursor
                                   THEN [size |-> heap[cursor].size - (e - p), next |-> heap[cursor].next]
                                   ELSE heap[t]
  BY <1>1, <1>5 DEF Carve
<1> HIDE DEF p, e
<1>7. \A t \in Listed : heap'[t].size = heap[t].size \/ heap'[t].size = heap[t].size - (e - p)
  BY <1>6
<1> QED
  BY <1>2, <1>4, <1>5, <1>7 DEF HDR

LEMMA FillMatches ==
  ASSUME CopyInv, MatchInv, CopyFill
  PROVE  MatchInv'
<1> DEFINE node == [segment |-> result, size |-> heap[source].size]
           n    == Len(copy)
<1>1. /\ copy' = Append(copy, node) /\ UNCHANGED <<allocated, heap, heapEnd, pc, arg>>
      /\ phase = "fill" /\ phase' = "copy" /\ pc = "idle" /\ source' = heap[source].next
  BY DEF CopyFill, SizeAfterMalloc, vars
<1>2. /\ source \in Listed /\ copy \in Seq([segment: Nat, size: Nat]) /\ result \in Nat
      /\ AtLeast(heap, Listed) /\ Reached
  BY <1>1 DEF CopyInv, Copying, NodesHeld, MatchInv
<1>3. Shaped(heap, Listed, heapEnd) /\ heapEnd \in Nat
  BY <1>1 DEF CopyInv, IInv, HeapInv, TypeOK, Running, WellFormed
<1>4. UNCHANGED Listed
  BY <1>1 DEF Listed, Detached
<1>5. source # NULL /\ heap[source].size \in Nat /\ \A s \in Listed : heap[s].size \in Nat
  BY <1>2, <1>3, LinkAssumption DEF NULL, Shaped, Typed
<1>6. n + 1 = Rank(Listed, source)
  BY <1>2, <1>5 DEF Reached
<1>7. /\ n \in Nat /\ Len(copy') = n + 1 /\ DOMAIN copy = 1 .. n /\ DOMAIN copy' = 1 .. n + 1
      /\ \A i \in 1 .. n : copy'[i] = copy[i]
      /\ copy'[n + 1] = node
  <2>1. node \in [segment: Nat, size: Nat]
    BY <1>2, <1>5
  <2> HIDE DEF node
  <2> QED
    BY <1>1, <1>2, <2>1
<1>8. \A s \in Listed : Rank(Listed, s) = n + 1 => s = source
  BY <1>2, <1>3, <1>6, RankIs
<1>9. node.size = heap[source].size
  OBVIOUS
<1> HIDE DEF node, n
<1>10. Reached'
  <2>1. source' = NULL => Len(copy') = Cardinality(Listed)
    BY <1>1, <1>2, <1>3, <1>6, <1>7, RankIs
  <2>2. source' # NULL => Len(copy') + 1 = Rank(Listed, source')
    BY <1>1, <1>2, <1>3, <1>6, <1>7, RankIs
  <2> QED
    BY <1>4, <2>1, <2>2 DEF Reached
<1>11. AtLeast(heap, Listed)'
  <2> SUFFICES ASSUME NEW i \in DOMAIN copy', NEW s \in Listed, i = Rank(Listed, s)
               PROVE  copy'[i].size >= heap[s].size
    BY <1>1, <1>4 DEF AtLeast
  <2>1. CASE i \in 1 .. n
    BY <1>2, <1>7, <2>1 DEF AtLeast
  <2>2. CASE i = n + 1
    <3>1. s = source /\ copy'[i] = node
      BY <1>7, <1>8, <2>2
    <3>2. copy'[i].size = heap[s].size /\ heap[s].size \in Nat
      BY <1>5, <1>9, <3>1
    <3> QED
      BY <3>2
  <2> QED
    BY <1>7, <2>1, <2>2
<1>12. LastExact(heap, Listed)'
  <2> SUFFICES ASSUME NEW i \in DOMAIN copy', NEW s \in Listed,
                      i = Rank(Listed, s), i = Len(copy')
               PROVE  copy'[i].size = heap[s].size
    BY <1>1, <1>4 DEF LastExact
  <2>1. s = source /\ copy'[i] = node
    BY <1>7, <1>8
  <2> QED
    BY <1>9, <2>1
<1> QED
  BY <1>1, <1>10, <1>11, <1>12 DEF MatchInv

LEMMA DoneMatches ==
  ASSUME CopyInv, MatchInv, CopyDone
  PROVE  MatchInv'
<1>1. /\ phase = "copy" /\ source = NULL /\ phase' = "none" /\ taken' = Held
      /\ UNCHANGED <<vars, source, copy, result>> /\ UNCHANGED <<heapEnd, pc>>
  BY DEF CopyDone, vars
<1>2. pc = "idle" /\ Reached /\ AtLeast(heap, Listed) /\ LastExact(heap, Listed)
  BY <1>1 DEF CopyInv, Copying, MatchInv
<1>3. /\ WellFormed(heap, Listed, heapEnd) /\ Running
      /\ allocated = DOMAIN heap \ Listed
  BY <1>2 DEF CopyInv, IInv, HeapInv, TypeOK, Running, Listed, Detached
<1>4. taken' = {<<s, heap[s].size>> : s \in DOMAIN heap \ Listed}
  BY <1>1, <1>3 DEF Held
<1>5. Len(copy) = Cardinality(Listed)
  BY <1>1, <1>2 DEF Reached
<1>6. \E h, L : /\ WellFormed(h, L, heapEnd')
                /\ taken' = {<<s, h[s].size>> : s \in DOMAIN h \ L}
                /\ Len(copy') = Cardinality(L)
                /\ AtLeast(h, L)' /\ LastExact(h, L)'
  <2> DEFINE Is(h, L) == /\ WellFormed(h, L, heapEnd')
                         /\ taken' = {<<s, h[s].size>> : s \in DOMAIN h \ L}
                         /\ Len(copy') = Cardinality(L)
                         /\ \A i \in DOMAIN copy', s \in L :
                              i = Rank(L, s) => copy'[i].size >= h[s].size
                         /\ \A i \in DOMAIN copy', s \in L :
                              i = Rank(L, s) /\ i = Len(copy') => copy'[i].size = h[s].size
  <2>1. Is(heap, Listed)
    BY <1>1, <1>2, <1>3, <1>4, <1>5 DEF AtLeast, LastExact
  <2>2. \E h, L : Is(h, L)
    <3> HIDE DEF Is
    <3> QED
      BY <2>1
  <2> QED
    BY <2>2 DEF AtLeast, LastExact
<1>7. Running'
  BY <1>1, <1>3 DEF Running
<1> QED
  BY <1>1, <1>6, <1>7 DEF MatchInv

LEMMA MatchStep == CopyInv /\ MatchInv /\ [CopyNext]_allvars => MatchInv'
<1> SUFFICES ASSUME CopyInv, MatchInv, [CopyNext]_allvars
             PROVE  MatchInv'
  OBVIOUS
<1>1. /\ phase \in {"none", "copy", "fill", "delete"}
      /\ phase = "copy" => pc = "idle"
      /\ phase = "fill" => pc \in {"idle", "malloc", "panic_malloc"}
  BY DEF MatchInv, CopyInv, Copying
\* Once there is a heap it has its end.
<1>2. Running => Running' /\ UNCHANGED heapEnd
  <2>1. [Next]_vars
    BY CopyStep
  <2> QED
    BY <2>1 DEF Next, vars, Running, InitializeFreeSegments, BootPanic, Malloc, MallocSkip,
                MallocCarve, MallocPanic, Free, FreeSkip, FreeInsert
<1>3. ASSUME phase = "fill", UNCHANGED <<phase, source, copy, heap, Listed>>
      PROVE  MatchInv'
  BY <1>3 DEF MatchInv, Reached, AtLeast
<1>4. CASE OtherCall
  <2>1. phase = "none" /\ UNCHANGED <<phase, copy, taken>>
    BY <1>4 DEF OtherCall, copier
  <2> QED
    BY <1>2, <2>1, KeptCopy
<1>5. CASE Turn
  <2>1. UNCHANGED <<phase, copy, taken, source>>
    BY <1>5 DEF Turn, copier
  <2>2. CASE phase = "none"
    BY <1>2, <2>1, <2>2, KeptCopy
  <2>3. CASE phase = "delete"
    BY <2>1, <2>3 DEF MatchInv
  <2>4. CASE phase = "fill"
    <3>1. pc = "malloc" /\ (MallocSkip \/ MallocPanic)
      BY <1>1, <1>5, <2>4 DEF Turn, MallocSkip, MallocPanic, FreeSkip, FreeInsert,
                              InitializeFreeSegments, BootPanic
    <3>2. pc' \in {"malloc", "panic_malloc"} /\ UNCHANGED <<heap, allocated>>
      BY <3>1 DEF MallocSkip, MallocPanic
    <3>3. UNCHANGED Listed
      BY <3>1, <3>2 DEF Listed, Detached
    <3> QED
      BY <1>3, <2>1, <2>4, <3>2, <3>3
  <2>5. phase # "copy"
    BY <1>1, <1>5 DEF Turn, MallocSkip, MallocPanic, FreeSkip, FreeInsert,
                      InitializeFreeSegments, BootPanic
  <2> QED
    BY <1>1, <2>2, <2>3, <2>4, <2>5
<1>6. CASE TurnCarve
  <2>1. UNCHANGED <<phase, copy, taken, source>> /\ MallocCarve /\ pc = "malloc"
    BY <1>6 DEF TurnCarve, MallocCarve
  <2>2. CASE phase = "none"
    BY <1>2, <2>1, <2>2, KeptCopy
  <2>3. CASE phase = "delete"
    BY <2>1, <2>3 DEF MatchInv
  <2>4. CASE phase = "fill"
    <3>1. Listed' = Listed /\ \A t \in Listed : heap'[t].size <= heap[t].size
      BY <2>1, CarveIsNew, CarveShrinks DEF CopyInv
    <3>2. Reached /\ AtLeast(heap, Listed)
      BY <2>4 DEF MatchInv
    <3>3. Reached'
      BY <2>1, <3>1, <3>2 DEF Reached
    <3>4. /\ \A t \in Listed : heap[t].size \in Nat /\ heap'[t].size \in Nat
          /\ \A i \in DOMAIN copy : copy[i].size \in Nat
      <4>1. IInv'
        BY CopyStep, NextIInv DEF CopyInv
      <4>2. Typed(heap) /\ Typed(heap)' /\ Listed \subseteq DOMAIN heap
            /\ Listed' \subseteq DOMAIN heap'
        BY <4>1 DEF CopyInv, IInv, TypeOK, Listed
      <4>3. copy \in Seq([segment: Nat, size: Nat])
        BY DEF CopyInv, NodesHeld
      <4>4. \A i \in DOMAIN copy : copy[i] \in [segment: Nat, size: Nat]
        <5>1. DOMAIN copy = 1 .. Len(copy)
          BY <4>3
        <5> QED
          BY <4>3, <5>1, ElementOfSeq
      <4> QED
        BY <3>1, <4>2, <4>4 DEF Typed
    <3>5. \A i \in DOMAIN copy, s \in Listed : i = Rank(Listed, s) => copy[i].size >= heap'[s].size
      <4> SUFFICES ASSUME NEW i \in DOMAIN copy, NEW s \in Listed, i = Rank(Listed, s)
                   PROVE  copy[i].size >= heap'[s].size
        OBVIOUS
      <4>1. copy[i].size >= heap[s].size
        BY <3>2 DEF AtLeast
      <4> QED
        BY <3>1, <3>4, <4>1
    <3>6. AtLeast(heap, Listed)'
      BY <2>1, <3>1, <3>5 DEF AtLeast
    <3> QED
      BY <2>1, <2>4, <3>3, <3>6 DEF MatchInv
  <2>5. phase # "copy"
    BY <1>1, <2>1
  <2> QED
    BY <1>1, <2>2, <2>3, <2>4, <2>5
<1>7. CASE CopyStart
  <2>1. /\ copy = <<>> /\ UNCHANGED <<vars, copy>> /\ UNCHANGED <<heap, allocated, pc, arg>>
        /\ pc = "idle" /\ phase' = "copy" /\ source' = freeSegment
    BY <1>7 DEF CopyStart, vars
  <2>2. freeSegment = KERNEL_END /\ Shaped(heap, Listed, heapEnd) /\ heapEnd \in Nat
    BY <2>1 DEF CopyInv, IInv, TypeOK, HeapInv, Running, WellFormed
  <2>3. Rank(Listed, KERNEL_END) = 1 /\ KERNEL_END # NULL
    BY <2>2, RankIs, LinkAssumption DEF NULL
  <2>4. UNCHANGED Listed
    BY <2>1 DEF Listed, Detached
  <2>5. Reached'
    BY <2>1, <2>2, <2>3, <2>4 DEF Reached
  <2> QED
    BY <2>1, <2>5 DEF MatchInv, AtLeast, LastExact
<1>8. CASE CopyMalloc
  <2>1. /\ UNCHANGED <<copy, source, heap, allocated>> /\ pc = "idle" /\ pc' = "malloc"
        /\ phase = "copy" /\ phase' = "fill"
    BY <1>8 DEF CopyMalloc, Malloc
  <2>2. UNCHANGED Listed
    BY <2>1 DEF Listed, Detached
  <2> QED
    BY <2>1, <2>2 DEF MatchInv, Reached, AtLeast
<1>9. CASE CopyFill
  BY <1>9, FillMatches
<1>10. CASE CopyDone
  BY <1>10, DoneMatches
<1>11. CASE DeleteStart \/ DeleteFree
  <2>1. phase' = "delete"
    BY <1>11 DEF DeleteStart, DeleteFree
  <2> QED
    BY <2>1 DEF MatchInv
<1>12. CASE DeleteDone
  <2>1. phase' = "none" /\ copy' = <<>>
    BY <1>12 DEF DeleteDone
  <2> QED
    BY <2>1 DEF MatchInv
<1>13. CASE UNCHANGED allvars
  <2>1. UNCHANGED <<phase, source, copy, taken, heap, allocated, pc, arg>>
    BY <1>13 DEF allvars, vars, copier
  <2>2. UNCHANGED Listed
    BY <2>1 DEF Listed, Detached
  <2>3. CASE phase = "none"
    BY <1>2, <2>1, <2>3, KeptCopy
  <2>4. CASE phase # "none"
    BY <2>1, <2>2, <2>4 DEF MatchInv, Reached, AtLeast, LastExact
  <2> QED
    BY <2>3, <2>4
<1> QED
  BY <1>4, <1>5, <1>6, <1>7, <1>8, <1>9, <1>10, <1>11, <1>12, <1>13 DEF CopyNext

\* What test_1 (allocator.c:182-200) asserts of one sequence of calls, as far as it
\* is so of all: whenever the same segments are held as when the copy was made,
\* the copy has a node for every segment of the list, at least as long as that,
\* and the last one as long.
THEOREM CopyMatchesList == CopySpec => []CopyMatches
<1>1. CopyInit => MatchInv
  BY DEF CopyInit, MatchInv
<1>2. CopyInv /\ MatchInv => CopyMatches
  <2> SUFFICES ASSUME CopyInv, MatchInv, phase = "none", pc = "idle", copy # <<>>, Held = taken
               PROVE  /\ Len(copy) = Cardinality(Listed)
                      /\ \A i \in DOMAIN copy, s \in Listed : IsNth(s, i) =>
                           /\ copy[i].size >= heap[s].size
                           /\ i = Len(copy) => copy[i].size = heap[s].size
    BY DEF CopyMatches
  <2>1. PICK h, L :
          /\ WellFormed(h, L, heapEnd)
          /\ taken = {<<s, h[s].size>> : s \in DOMAIN h \ L}
          /\ Len(copy) = Cardinality(L)
          /\ AtLeast(h, L) /\ LastExact(h, L)
    BY DEF MatchInv
  <2>2. /\ WellFormed(heap, Listed, heapEnd) /\ heapEnd \in Nat
        /\ allocated = DOMAIN heap \ Listed
    BY DEF CopyInv, IInv, HeapInv, TypeOK, Running, Listed, Detached
  <2>3. {<<s, heap[s].size>> : s \in allocated} = {<<s, h[s].size>> : s \in DOMAIN h \ L}
    BY <2>1 DEF Held
  <2>4. \A s \in allocated : s \in DOMAIN h \ L /\ heap[s].size = h[s].size
    <3> SUFFICES ASSUME NEW s \in allocated
                 PROVE  s \in DOMAIN h \ L /\ heap[s].size = h[s].size
      OBVIOUS
    <3>1. <<s, heap[s].size>> \in {<<t, h[t].size>> : t \in DOMAIN h \ L}
      BY <2>3
    <3>2. PICK t \in DOMAIN h \ L : <<s, heap[s].size>> = <<t, h[t].size>>
      BY <3>1
    <3>3. s = t /\ heap[s].size = h[t].size
      BY <3>2
    <3> QED
      BY <3>3
  <2>5. \A s \in DOMAIN h \ L : s \in allocated
    <3> SUFFICES ASSUME NEW s \in DOMAIN h \ L
                 PROVE  s \in allocated
      OBVIOUS
    <3>1. <<s, h[s].size>> \in {<<t, heap[t].size>> : t \in allocated}
      BY <2>3
    <3>2. PICK t \in allocated : <<s, h[s].size>> = <<t, heap[t].size>>
      BY <3>1
    <3> QED
      BY <3>2
  <2>6. DOMAIN heap \ Listed = DOMAIN h \ L
    BY <2>2, <2>4, <2>5
  <2>7. Listed = L /\ \A s \in Listed : heap[s].size = h[s].size
    BY <2>1, <2>2, <2>4, <2>6, HeapIsDetermined
  <2>8. \A i, s : IsNth(s, i) => s \in Listed /\ i = Rank(Listed, s)
    BY DEF IsNth, Rank
  <2> QED
    BY <2>1, <2>7, <2>8 DEF AtLeast, LastExact
<1> QED
  BY <1>1, <1>2, CopyInitInv, CopyNextInv, MatchStep, PTL DEF CopySpec
=============================================================================
