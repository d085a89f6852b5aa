--------------------------- MODULE ConsoleProofs ----------------------------
(***************************************************************************)
(* Proofs about Console, for every set of formats, every size of printf's  *)
(* buffer and of the screen, and ints of up to 32 bits.                    *)
(*                                                                         *)
(* First what the conversions do: to_str's digits are a number's decimal   *)
(* notation, for every int but the least.  Then the buffer: after k items  *)
(* of a format it holds their texts, as far as they fit.  Then the screen: *)
(* the cursor is where the text so far ends, and every cell shows what was *)
(* put there last.  The recursive functions are reasoned about with their  *)
(* least counterexample (LeastNumber).                                     *)
(***************************************************************************)
EXTENDS Console, SequenceTheorems, FiniteSetTheorems, WellFoundedInduction, TLAPS

----------------------------------------------------------------------------
(* Numbers.                                                                *)

Below == {p \in Nat \X Nat : p[1] < p[2]}

LEMMA BelowWellFounded == IsWellFoundedOn(Below, Nat)
BY NatLessThanWellFounded, Zenon DEF OpToRel, Below

\* A set of numbers that is not empty has a least one: the induction that all
\* lemmas about the recursive functions use.
LEMMA LeastNumber ==
  ASSUME NEW S, S \subseteq Nat, S # {}
  PROVE  \E n \in S : \A m \in S : n <= m
<1>1. PICK n \in S : \A m \in S : ~ (<<m, n>> \in Below)
  BY BelowWellFounded, WFMin
<1>2. \A m \in S : ~ (m < n)
  BY <1>1 DEF Below
<1> QED
  BY <1>2

\* And a greatest one, if it is bounded.
LEMMA MaxIs ==
  ASSUME NEW n \in Nat, NEW S, S \subseteq 0 .. n, S # {}
  PROVE  Max(S) \in S /\ \A x \in S : x <= Max(S)
<1> DEFINE D == {n - x : x \in S}
<1>1. D \subseteq Nat /\ D # {}
  <2>1. \A x \in S : n - x \in Nat
    OBVIOUS
  <2>2. \E x \in S : n - x \in D
    OBVIOUS
  <2> QED
    BY <2>1, <2>2
<1>2. PICK d \in D : \A e \in D : d <= e
  BY <1>1, LeastNumber
<1>3. PICK y \in S : d = n - y
  OBVIOUS
<1>4. \A x \in S : y >= x
  <2>1. \A x \in S : n - y <= n - x /\ x \in 0 .. n
    BY <1>2, <1>3
  <2> QED
    BY <2>1
<1> QED
  BY <1>4 DEF Max

\* Quotient and rest are unique.
LEMMA DivMod ==
  ASSUME NEW w \in Nat \ {0}, NEW q \in Nat, NEW r \in 0 .. w - 1
  PROVE  (w * q + r) % w = r /\ (w * q + r) \div w = q
OBVIOUS

\* What the next number leaves: it counts up to the divisor and starts again.
LEMMA ModNext ==
  ASSUME NEW x \in Nat, NEW w \in Nat \ {0}
  PROVE  (x + 1) % w = IF (x % w) + 1 = w THEN 0 ELSE (x % w) + 1
<1> DEFINE q == x \div w
           r == x % w
<1>1. q \in Nat /\ r \in 0 .. w - 1 /\ x = w * q + r
  OBVIOUS
<1> SUFFICES (x + 1) % w = IF r + 1 = w THEN 0 ELSE r + 1
  OBVIOUS
<1> HIDE DEF q, r
<1>2. CASE r + 1 = w
  <2>1. x + 1 = w * (q + 1) + 0
    BY <1>1, <1>2
  <2>2. (w * (q + 1) + 0) % w = 0
    <3>1. q + 1 \in Nat /\ 0 \in 0 .. w - 1
      BY <1>1
    <3> QED
      BY <3>1, DivMod
  <2> QED
    BY <2>1, <2>2, <1>2
<1>3. CASE r + 1 # w
  <2>1. x + 1 = w * q + (r + 1) /\ r + 1 \in 0 .. w - 1
    BY <1>1, <1>3
  <2>2. (w * q + (r + 1)) % w = r + 1
    BY <2>1, <1>1, DivMod
  <2> QED
    BY <2>1, <2>2, <1>3
<1> QED
  BY <1>2, <1>3
----------------------------------------------------------------------------
(* Digits.                                                                 *)

\* f is the recursive function of Digits up to m.
IsDigits(f, m, sign) ==
  f = [v \in 0 .. m |->
         IF v = 0 THEN <<>> ELSE <<ZERO + sign * (v % 10)>> \o f[v \div 10]]

LEMMA DigitsAt ==
  ASSUME NEW f, NEW m \in Nat, NEW sign, NEW v \in 0 .. m, IsDigits(f, m, sign)
  PROVE  f[v] = IF v = 0 THEN <<>> ELSE <<ZERO + sign * (v % 10)>> \o f[v \div 10]
<1> DEFINE D(u) == IF u = 0 THEN <<>> ELSE <<ZERO + sign * (u % 10)>> \o f[u \div 10]
<1>1. f = [u \in 0 .. m |-> D(u)]
  BY DEF IsDigits
<1> HIDE DEF D
<1>2. f[v] = D(v)
  BY <1>1
<1> QED
  BY <1>2 DEF D

LEMMA Tenth ==
  ASSUME NEW v \in Nat, v # 0
  PROVE  v \div 10 \in Nat /\ v \div 10 < v /\ v % 10 \in 0 .. 9
OBVIOUS

LEMMA DigitsExist ==
  ASSUME NEW sign
  PROVE  \A m \in Nat : \E f : IsDigits(f, m, sign)
<1> DEFINE S == {m \in Nat : ~ \E f : IsDigits(f, m, sign)}
<1> SUFFICES ASSUME S # {} PROVE FALSE
  OBVIOUS
<1>1. PICK m \in S : \A k \in S : m <= k
  <2>1. S \subseteq Nat
    OBVIOUS
  <2> QED
    BY <2>1, LeastNumber
<1>2. CASE m = 0
  <2> DEFINE f == [v \in 0 .. 0 |-> <<>>]
  <2>1. f = [v \in 0 .. 0 |->
               IF v = 0 THEN <<>> ELSE <<ZERO + sign * (v % 10)>> \o f[v \div 10]]
    OBVIOUS
  <2>2. IsDigits(f, 0, sign)
    BY <2>1 DEF IsDigits
  <2> QED
    BY <2>2, <1>1, <1>2
<1>3. CASE m # 0
  <2>1. m - 1 \in Nat /\ m - 1 \notin S
    BY <1>1, <1>3
  <2>2. PICK f : IsDigits(f, m - 1, sign)
    BY <2>1
  <2> DEFINE D(v, t) == IF v = 0 THEN <<>> ELSE <<ZERO + sign * (v % 10)>> \o t
             g == [v \in 0 .. m |-> D(v, f[v \div 10])]
  <2>3. \A v \in 0 .. m - 1 : f[v] = D(v, f[v \div 10])
    BY <2>1, <2>2 DEF IsDigits
  <2> HIDE DEF D
  <2>4. \A v \in 0 .. m - 1 : g[v] = f[v]
    BY <2>1, <2>3
  <2>5. \A v \in 0 .. m : v # 0 => v \div 10 \in 0 .. m - 1
    BY <1>1, Tenth
  <2>6. \A v \in 0 .. m : D(v, f[v \div 10]) = D(v, g[v \div 10])
    <3>1. \A t, u : D(0, t) = D(0, u)
      BY DEF D
    <3> QED
      BY <2>4, <2>5, <3>1
  <2>7. g = [v \in 0 .. m |-> D(v, g[v \div 10])]
    BY <2>6
  <2> HIDE DEF g
  <2>8. IsDigits(g, m, sign)
    BY <2>7 DEF IsDigits, D
  <2> QED
    BY <2>8, <1>1
<1> QED
  BY <1>2, <1>3

\* How far the function goes does not matter.
LEMMA DigitsUnique ==
  ASSUME NEW sign, NEW m \in Nat, NEW n \in Nat, NEW f, NEW g,
         IsDigits(f, m, sign), IsDigits(g, n, sign), m <= n
  PROVE  \A v \in 0 .. m : f[v] = g[v]
<1> DEFINE S == {v \in 0 .. m : f[v] # g[v]}
<1> SUFFICES ASSUME S # {} PROVE FALSE
  OBVIOUS
<1>1. PICK v \in S : \A k \in S : v <= k
  <2>1. S \subseteq Nat
    OBVIOUS
  <2> QED
    BY <2>1, LeastNumber
<1> DEFINE D(t) == IF v = 0 THEN <<>> ELSE <<ZERO + sign * (v % 10)>> \o t
<1>2. f[v] = D(f[v \div 10]) /\ g[v] = D(g[v \div 10])
  <2>1. v \in 0 .. m /\ v \in 0 .. n
    BY <1>1
  <2>2. f[v] = D(f[v \div 10])
    BY <2>1, DigitsAt
  <2>3. g[v] = D(g[v \div 10])
    BY <2>1, DigitsAt
  <2> QED
    BY <2>2, <2>3
<1>3. v # 0 => f[v \div 10] = g[v \div 10]
  BY <1>1, Tenth
<1>4. v = 0 => f[v] = g[v]
  BY <1>2
<1> HIDE DEF D
<1> QED
  BY <1>1, <1>2, <1>3, <1>4

LEMMA DigitsRec ==
  ASSUME NEW sign, NEW m \in Nat
  PROVE  Digits(m, sign) = IF m = 0 THEN <<>>
                           ELSE <<ZERO + sign * (m % 10)>> \o Digits(m \div 10, sign)
<1> DEFINE F(n) == CHOOSE f : IsDigits(f, n, sign)
<1>1. \A n \in Nat : IsDigits(F(n), n, sign)
  BY DigitsExist
<1>2. \A n \in Nat : Digits(n, sign) = F(n)[n]
  BY DEF Digits, IsDigits
<1>3. F(m)[m] = IF m = 0 THEN <<>> ELSE <<ZERO + sign * (m % 10)>> \o F(m)[m \div 10]
  <2> HIDE DEF F
  <2>1. m \in 0 .. m /\ IsDigits(F(m), m, sign)
    BY <1>1
  <2> QED
    BY <2>1, DigitsAt
<1>4. m # 0 => F(m)[m \div 10] = F(m \div 10)[m \div 10]
  <2> SUFFICES ASSUME m # 0
               PROVE  F(m \div 10)[m \div 10] = F(m)[m \div 10]
    OBVIOUS
  <2>1. m \div 10 \in Nat /\ m \div 10 <= m /\ m \div 10 \in 0 .. m \div 10
    BY Tenth
  <2> QED
    BY <2>1, <1>1, DigitsUnique
<1>5. m # 0 => m \div 10 \in Nat
  BY Tenth
<1> HIDE DEF F
<1> QED
  BY <1>2, <1>3, <1>4, <1>5

LEMMA DigitsType ==
  ASSUME NEW sign \in {1, -1}
  PROVE  \A m \in Nat : Digits(m, sign) \in Seq(Nat)
<1> DEFINE S == {m \in Nat : Digits(m, sign) \notin Seq(Nat)}
<1> SUFFICES ASSUME S # {} PROVE FALSE
  OBVIOUS
<1>1. PICK m \in S : \A k \in S : m <= k
  <2>1. S \subseteq Nat
    OBVIOUS
  <2> QED
    BY <2>1, LeastNumber
<1>2. m # 0
  <2>1. Digits(0, sign) = <<>>
    BY DigitsRec
  <2>2. <<>> \in Seq(Nat)
    OBVIOUS
  <2>3. Digits(0, sign) \in Seq(Nat)
    BY <2>1, <2>2
  <2>4. Digits(m, sign) \notin Seq(Nat)
    BY <1>1
  <2> QED
    BY <2>3, <2>4
<1>3. Digits(m \div 10, sign) \in Seq(Nat)
  BY <1>1, <1>2, Tenth
<1>4. ZERO + sign * (m % 10) \in Nat
  <2>1. m % 10 \in 0 .. 9
    BY <1>2, Tenth
  <2> QED
    BY <2>1 DEF ZERO
<1>5. Digits(m, sign) = <<ZERO + sign * (m % 10)>> \o Digits(m \div 10, sign)
  BY <1>2, DigitsRec
<1>6. <<ZERO + sign * (m % 10)>> \o Digits(m \div 10, sign) \in Seq(Nat)
  <2> DEFINE d == ZERO + sign * (m % 10)
  <2> HIDE DEF d
  <2>1. <<d>> \in Seq(Nat)
    BY <1>4 DEF d
  <2> QED
    BY <1>3, <2>1, ConcatProperties DEF d
<1> QED
  BY <1>1, <1>5, <1>6

\* The powers that an int of 32 bits reaches.
LEMMA Tens ==
  \A k \in 0 .. 9 : /\ 10^k \in Nat \ {0} /\ 10^(k + 1) = 10 * 10^k
                    /\ \A m \in Nat : (m \div 10) \div 10^k = m \div 10^(k + 1)
                    /\ \A m \in Nat : 10^k <= m \div 10 <=> 10^(k + 1) <= m
<1> DEFINE P(k) ==
      /\ 10^k \in Nat \ {0} /\ 10^(k + 1) = 10 * 10^k
      /\ \A m \in Nat : (m \div 10) \div 10^k = m \div 10^(k + 1)
      /\ \A m \in Nat : 10^k <= m \div 10 <=> 10^(k + 1) <= m
<1>0. P(0)
  OBVIOUS
<1>1. P(1)
  OBVIOUS
<1>2. P(2)
  OBVIOUS
<1>3. P(3)
  OBVIOUS
<1>4. P(4)
  OBVIOUS
<1>5. P(5)
  OBVIOUS
<1>6. P(6)
  OBVIOUS
<1>7. P(7)
  OBVIOUS
<1>8. P(8)
  OBVIOUS
<1>9. P(9)
  OBVIOUS
<1> HIDE DEF P
<1>10. \A k \in 0 .. 9 : P(k)
  BY <1>0, <1>1, <1>2, <1>3, <1>4, <1>5, <1>6, <1>7, <1>8, <1>9
<1> QED
  BY <1>10 DEF P

\* The digits of a number of n digits are its digits by position, the last first.
LEMMA DigitsAre ==
  \A n \in 1 .. 10 : \A m \in Nat :
    10^(n - 1) <= m /\ m < 10^n =>
      /\ Len(Digits(m, 1)) = n
      /\ \A j \in 1 .. n : Digits(m, 1)[j] = ZERO + ((m \div 10^(j - 1)) % 10)
<1> DEFINE Right(n) == \A m \in Nat :
             10^(n - 1) <= m /\ m < 10^n =>
               /\ Len(Digits(m, 1)) = n
               /\ \A j \in 1 .. n : Digits(m, 1)[j] = ZERO + ((m \div 10^(j - 1)) % 10)
           S == {n \in 1 .. 10 : ~ Right(n)}
<1> SUFFICES ASSUME S # {} PROVE FALSE
  OBVIOUS
<1>1. PICK n \in S : \A k \in S : n <= k
  <2>1. S \subseteq Nat
    OBVIOUS
  <2> QED
    BY <2>1, LeastNumber
<1>2. PICK m \in Nat :
        /\ 10^(n - 1) <= m /\ m < 10^n
        /\ ~ (/\ Len(Digits(m, 1)) = n
              /\ \A j \in 1 .. n : Digits(m, 1)[j] = ZERO + ((m \div 10^(j - 1)) % 10))
  BY <1>1
<1>3. n \in 1 .. 10 /\ 10^0 = 1 /\ m # 0
  <2>1. n - 1 \in 0 .. 9 /\ 10^0 = 1
    OBVIOUS
  <2>2. 10^(n - 1) \in Nat \ {0}
    BY <2>1, Tens
  <2>3. 10^(n - 1) <= m
    BY <1>2
  <2>4. \A p \in Nat \ {0} : p <= m => m # 0
    OBVIOUS
  <2>5. m # 0
    BY <2>2, <2>3, <2>4
  <2> QED
    BY <1>1, <2>1, <2>5
<1> DEFINE d == ZERO + (m % 10)
           rest == Digits(m \div 10, 1)
<1>4. Digits(m, 1) = <<d>> \o rest
  <2>1. Digits(m, 1) = <<ZERO + 1 * (m % 10)>> \o rest
    BY <1>3, DigitsRec
  <2>2. 1 * (m % 10) = m % 10
    OBVIOUS
  <2> QED
    BY <2>1, <2>2
<1>5. rest \in Seq(Nat) /\ d \in Nat
  BY DigitsType, Tenth, <1>3 DEF ZERO
<1>6. /\ Len(rest) = n - 1
      /\ \A j \in 1 .. n - 1 : rest[j] = ZERO + ((m \div 10^j) % 10)
  <2>1. CASE n = 1
    <3>1. 10^1 = 10
      OBVIOUS
    <3>2. m \div 10 = 0
      BY <1>2, <2>1, <3>1
    <3>3. rest = <<>>
      BY <3>2, DigitsRec
    <3> QED
      BY <2>1, <3>3
  <2>2. CASE n # 1
    <3>1. n - 1 \in 1 .. 10 /\ n - 1 \notin S
      BY <1>1, <1>3, <2>2
    <3>2. n - 2 \in 0 .. 9 /\ n - 1 \in 0 .. 9 /\ (n - 2) + 1 = n - 1 /\ (n - 1) + 1 = n
          /\ (n - 1) - 1 = n - 2
      BY <1>3, <2>2
    <3>3. m \div 10 \in Nat /\ 10^(n - 2) <= m \div 10
      <4>1. 10^(n - 2) <= m \div 10 <=> 10^((n - 2) + 1) <= m
        BY <3>2, Tens
      <4>2. 10^((n - 2) + 1) <= m
        BY <1>2, <3>2
      <4> QED
        BY <4>1, <4>2, <1>3, Tenth
    <3>4. m \div 10 < 10^(n - 1)
      <4>1. 10^(n - 1) <= m \div 10 <=> 10^n <= m
        BY <3>2, Tens
      <4>2. 10^(n - 1) \in Nat \ {0}
        BY <3>2, Tens
      <4>3. 10^n = 10 * 10^(n - 1)
        BY <3>2, Tens
      <4>4. \A p, q \in Nat : p < q => ~ (q <= p)
        OBVIOUS
      <4>5. \A p, q \in Nat : ~ (q <= p) => p < q
        OBVIOUS
      <4>6. 10^n \in Nat
        BY <4>2, <4>3
      <4>7. ~ (10^n <= m)
        BY <1>2, <4>4, <4>6
      <4> QED
        BY <3>3, <4>1, <4>2, <4>5, <4>7
    <3>5. Right(n - 1)
      BY <3>1
    <3>6. /\ Len(rest) = n - 1
          /\ \A j \in 1 .. n - 1 : rest[j] = ZERO + (((m \div 10) \div 10^(j - 1)) % 10)
      BY <3>2, <3>3, <3>4, <3>5
    <3>7. \A j \in 1 .. n - 1 : (m \div 10) \div 10^(j - 1) = m \div 10^j
      <4> SUFFICES ASSUME NEW j \in 1 .. n - 1
                   PROVE  (m \div 10) \div 10^(j - 1) = m \div 10^j
        OBVIOUS
      <4>1. j - 1 \in 0 .. 9 /\ (j - 1) + 1 = j
        BY <1>3
      <4> QED
        BY <4>1, Tens
    <3> QED
      BY <3>6, <3>7
  <2> QED
    BY <2>1, <2>2
<1> HIDE DEF d, rest
<1>7. Len(<<d>> \o rest) = n
  BY <1>3, <1>5, <1>6
<1>8. ASSUME NEW j \in 1 .. n
      PROVE  (<<d>> \o rest)[j] = ZERO + ((m \div 10^(j - 1)) % 10)
  <2>1. CASE j = 1
    <3>1. (<<d>> \o rest)[1] = d
      BY <1>5
    <3>2. m \div 10^(1 - 1) = m
      BY <1>3
    <3> QED
      BY <2>1, <3>1, <3>2 DEF d
  <2>2. CASE j # 1
    <3>1. (<<d>> \o rest)[j] = rest[j - 1]
      BY <1>3, <1>5, <1>6, <2>2
    <3>2. j - 1 \in 1 .. n - 1
      BY <1>3, <2>2
    <3> QED
      BY <1>6, <3>1, <3>2
  <2> QED
    BY <2>1, <2>2
<1> QED
  BY <1>2, <1>4, <1>7, <1>8

----------------------------------------------------------------------------
(* Conversions.                                                            *)

\* An int is 32 bits long at most.
LEMMA IntIs ==
  /\ INT_MAX \in Nat \ {0} /\ UINT \in Nat \ {0} /\ UINT = 2 * INT_MAX + 2
  /\ INT_MAX < 10^10
<1>1. INT_MAX \in Nat \ {0} /\ INT_MAX < 10^10
  <2>1. \A i \in Nat : i <= 2147483647 => i < 10^10
    BY SMT
  <2> QED
    BY <2>1, ConsoleAssumption, SMT
<1>2. UINT = 2 * INT_MAX + 2 /\ UINT \in Nat \ {0}
  BY <1>1 DEF UINT
<1> QED
  BY <1>1, <1>2

LEMMA AsIntIs ==
  ASSUME NEW v \in Int
  PROVE  /\ AsInt(v) \in -INT_MAX - 1 .. INT_MAX
         /\ v \in -INT_MAX - 1 .. INT_MAX => AsInt(v) = v
<1>1. UINT \in Nat \ {0} /\ UINT = 2 * INT_MAX + 2 /\ INT_MAX \in Nat
  BY IntIs
<1>2. v % UINT \in 0 .. UINT - 1
  BY <1>1
<1>3. v \in 0 .. INT_MAX => v % UINT = v
  BY <1>1
<1>4. v \in -INT_MAX - 1 .. -1 => v % UINT = v + UINT
  BY <1>1
<1> DEFINE bits == v % UINT
<1>5. AsInt(v) = IF bits > INT_MAX THEN bits - UINT ELSE bits
  BY DEF AsInt
<1> HIDE DEF bits
<1>6. AsInt(v) \in -INT_MAX - 1 .. INT_MAX
  BY <1>1, <1>2, <1>5 DEF bits
<1>7. v \in -INT_MAX - 1 .. INT_MAX => AsInt(v) = v
  BY <1>1, <1>3, <1>4, <1>5 DEF bits
<1> QED
  BY <1>6, <1>7

LEMMA ReverseType ==
  ASSUME NEW S, NEW s \in Seq(S)
  PROVE  /\ Reverse(s) \in Seq(S) /\ Len(Reverse(s)) = Len(s)
         /\ \A i \in 1 .. Len(s) : Reverse(s)[i] = s[(Len(s) - i) + 1]
<1>1. \A i \in 1 .. Len(s) : s[(Len(s) - i) + 1] \in S
  OBVIOUS
<1> QED
  BY <1>1 DEF Reverse

LEMMA ToStrType ==
  ASSUME NEW v \in -INT_MAX - 1 .. INT_MAX
  PROVE  to_str(v) \in Seq(Nat)
<1> DEFINE neg == AsInt(-v)
           abs == IF v < 0 THEN neg ELSE v
           rev == IF abs < 0 THEN Digits(-abs, -1) ELSE Digits(abs, 1)
           all == IF v < 0 THEN Append(rev, MINUS) ELSE rev
<1>1. v \in Int /\ -v \in Int
  BY IntIs
<1>2. abs \in Int
  BY <1>1, AsIntIs, IntIs
<1>3. rev \in Seq(Nat)
  <2>1. \A a \in Int : (a < 0 => -a \in Nat) /\ (~ (a < 0) => a \in Nat)
    OBVIOUS
  <2>2. \A m \in Nat : Digits(m, -1) \in Seq(Nat) /\ Digits(m, 1) \in Seq(Nat)
    BY DigitsType
  <2> HIDE DEF abs
  <2> QED
    BY <1>2, <2>1, <2>2
<1>4. all \in Seq(Nat)
  <2> HIDE DEF rev
  <2>1. Append(rev, MINUS) \in Seq(Nat)
    BY <1>3, AppendProperties DEF MINUS
  <2> QED
    BY <1>3, <2>1
<1>5. to_str(v) = IF v = 0 THEN <<ZERO>> ELSE Reverse(all)
  BY DEF to_str
<1> HIDE DEF all
<1>6. Reverse(all) \in Seq(Nat) /\ <<ZERO>> \in Seq(Nat)
  BY <1>4, ReverseType DEF ZERO
<1> QED
  BY <1>5, <1>6

\* How many digits a number has.
NumDigits(abs) == CHOOSE k \in 1 .. 10 : 10^k > abs /\ (k = 1 \/ 10^(k - 1) <= abs)

LEMMA NumDigitsIs ==
  ASSUME NEW abs \in 0 .. INT_MAX
  PROVE  LET n == NumDigits(abs)
         IN  /\ n \in 1 .. 10 /\ abs < 10^n
             /\ abs # 0 => 10^(n - 1) <= abs
             /\ abs = 0 => n = 1
<1> DEFINE P(k) == 10^k > abs /\ (k = 1 \/ 10^(k - 1) <= abs)
           n    == NumDigits(abs)
<1>1. \E k \in 1 .. 10 : P(k)
  <2> DEFINE S == {k \in 1 .. 10 : 10^k > abs}
  <2>1. 10 \in S
    <3>1. abs < 10^10
      BY IntIs
    <3> QED
      BY <3>1
  <2>2. PICK k \in S : \A j \in S : k <= j
    <3>1. S \subseteq Nat
      OBVIOUS
    <3> QED
      BY <2>1, <3>1, LeastNumber
  <2>3. CASE k = 1
    BY <2>2, <2>3
  <2>4. CASE k # 1
    <3>1. k - 1 \in 1 .. 10 /\ k - 1 \in 0 .. 9 /\ k - 1 \notin S
      BY <2>2, <2>4
    <3>2. 10^(k - 1) \in Nat /\ abs \in Nat
      <4>1. 10^(k - 1) \in Nat
        BY <3>1, Tens
      <4> QED
        BY <4>1, IntIs
    <3>3. ~ (10^(k - 1) > abs)
      BY <3>1
    <3>4. 10^(k - 1) <= abs
      <4>1. \A p, q \in Nat : ~ (p > q) => p <= q
        OBVIOUS
      <4> QED
        BY <3>2, <3>3, <4>1
    <3> QED
      BY <2>2, <3>4
  <2> QED
    BY <2>3, <2>4
<1>2. n \in 1 .. 10 /\ P(n)
  BY <1>1 DEF NumDigits
<1>3. 10^0 = 1 /\ 10^1 = 10
  OBVIOUS
<1> HIDE DEF n
<1>4. n - 1 \in 0 .. 9 /\ (n - 1) + 1 = n /\ abs \in Nat
  BY <1>2, IntIs
<1>5. 10^(n - 1) \in Nat \ {0} /\ 10^n = 10 * 10^(n - 1)
  BY <1>4, Tens
<1>6. abs < 10^n
  <2>1. \A p, q \in Nat : p > q => q < p
    OBVIOUS
  <2> QED
    BY <1>2, <1>4, <1>5, <2>1
<1>7. ASSUME abs # 0
      PROVE  10^(n - 1) <= abs
  <2>1. CASE n = 1
    <3>1. 10^(n - 1) = 1
      BY <1>3, <2>1
    <3> QED
      BY <1>4, <1>7, <3>1
  <2>2. CASE n # 1
    BY <1>2, <2>2
  <2> QED
    BY <2>1, <2>2
<1>8. ASSUME abs = 0
      PROVE  n = 1
  <2>1. \A p \in Nat \ {0} : ~ (p <= abs)
    BY <1>8
  <2> QED
    BY <1>2, <1>5, <2>1
<1> QED
  BY <1>2, <1>6, <1>7, <1>8 DEF n

ByPosition(abs) ==
  [i \in 1 .. NumDigits(abs) |-> ZERO + ((abs \div 10^(NumDigits(abs) - i)) % 10)]

LEMMA ReversedDigits ==
  ASSUME NEW abs \in 1 .. INT_MAX
  PROVE  Reverse(Digits(abs, 1)) = ByPosition(abs) /\ ByPosition(abs) \in Seq(Nat)
<1> DEFINE n == NumDigits(abs)
           d == Digits(abs, 1)
<1>1. abs \in Nat /\ abs \in 0 .. INT_MAX /\ abs # 0
  BY IntIs
<1>2. n \in 1 .. 10 /\ 10^(n - 1) <= abs /\ abs < 10^n
  BY <1>1, NumDigitsIs
<1>3. d \in Seq(Nat)
  BY <1>1, DigitsType
<1>4. Len(d) = n /\ \A j \in 1 .. n : d[j] = ZERO + ((abs \div 10^(j - 1)) % 10)
  BY <1>1, <1>2, DigitsAre
<1> HIDE DEF d, n
<1>5. \A i \in 1 .. n : d[(n - i) + 1] = ZERO + ((abs \div 10^(n - i)) % 10)
  <2> SUFFICES ASSUME NEW i \in 1 .. n
               PROVE  d[(n - i) + 1] = ZERO + ((abs \div 10^(n - i)) % 10)
    OBVIOUS
  <2>1. (n - i) + 1 \in 1 .. n /\ ((n - i) + 1) - 1 = n - i
    BY <1>2
  <2> QED
    BY <1>4, <2>1
<1>6. Reverse(d) = [i \in 1 .. n |-> d[(n - i) + 1]]
  BY <1>4 DEF Reverse
<1>7. Reverse(d) = [i \in 1 .. n |-> ZERO + ((abs \div 10^(n - i)) % 10)]
  BY <1>5, <1>6
<1>8. Reverse(d) \in Seq(Nat)
  BY <1>3, ReverseType
<1> QED
  BY <1>7, <1>8 DEF ByPosition, n, d

LEMMA ReversedSign ==
  ASSUME NEW s \in Seq(Nat), NEW c \in Nat
  PROVE  Reverse(Append(s, c)) = <<c>> \o Reverse(s)
<1> DEFINE a == Append(s, c)
           r == <<c>> \o Reverse(s)
<1>1. a \in Seq(Nat) /\ Len(a) = Len(s) + 1 /\ a[Len(s) + 1] = c
      /\ \A i \in 1 .. Len(s) : a[i] = s[i]
  BY AppendProperties
<1>2. Reverse(s) \in Seq(Nat) /\ Len(Reverse(s)) = Len(s)
      /\ \A i \in 1 .. Len(s) : Reverse(s)[i] = s[(Len(s) - i) + 1]
  BY ReverseType
<1>3. Reverse(a) \in Seq(Nat) /\ Len(Reverse(a)) = Len(s) + 1
      /\ \A i \in 1 .. Len(s) + 1 : Reverse(a)[i] = a[((Len(s) + 1) - i) + 1]
  <2> HIDE DEF a
  <2> QED
    BY <1>1, ReverseType
<1>4. <<c>> \in Seq(Nat) /\ Len(<<c>>) = 1 /\ <<c>>[1] = c /\ Len(s) \in Nat
  OBVIOUS
<1>5. r \in Seq(Nat) /\ Len(r) = Len(s) + 1
      /\ \A i \in 1 .. Len(s) + 1 : r[i] = IF i = 1 THEN c ELSE Reverse(s)[i - 1]
  BY <1>2, <1>4, ConcatProperties
<1> HIDE DEF a, r
<1>6. \A i \in 1 .. Len(s) + 1 : Reverse(a)[i] = r[i]
  <2> SUFFICES ASSUME NEW i \in 1 .. Len(s) + 1
               PROVE  Reverse(a)[i] = r[i]
    OBVIOUS
  <2>1. CASE i = 1
    <3>1. ((Len(s) + 1) - 1) + 1 = Len(s) + 1
      BY <1>4
    <3> QED
      BY <2>1, <3>1, <1>1, <1>3, <1>5
  <2>2. CASE i # 1
    <3>1. i - 1 \in 1 .. Len(s) /\ ((Len(s) + 1) - i) + 1 = (Len(s) - (i - 1)) + 1
          /\ (Len(s) - (i - 1)) + 1 \in 1 .. Len(s)
      BY <2>2, <1>4
    <3>2. Reverse(a)[i] = s[(Len(s) - (i - 1)) + 1]
      BY <3>1, <1>1, <1>3
    <3>3. r[i] = s[(Len(s) - (i - 1)) + 1]
      BY <2>2, <3>1, <1>2, <1>5
    <3> QED
      BY <3>2, <3>3
  <2> QED
    BY <2>1, <2>2
<1>7. Reverse(a) = r
  BY <1>3, <1>5, <1>6, SeqEqual
<1> QED
  BY <1>7 DEF a, r

\* to_str (utils.c:20-48) is right for every int but the least.
LEMMA ToStrIsNumeral ==
  ASSUME NEW v \in -INT_MAX .. INT_MAX
  PROVE  to_str(v) = Numeral(v)
<1> DEFINE abs == IF v < 0 THEN -v ELSE v
<1>1. v \in Int /\ abs \in 0 .. INT_MAX /\ -v \in -INT_MAX - 1 .. INT_MAX
  BY IntIs
<1>2. AsInt(-v) = -v
  <2>1. -v \in Int
    BY <1>1
  <2> QED
    BY <1>1, <2>1, AsIntIs
<1>3. Numeral(v) = (IF v < 0 THEN <<MINUS>> ELSE <<>>) \o ByPosition(abs)
  BY DEF Numeral, ByPosition, NumDigits
<1>4. CASE v = 0
  <2>1. NumDigits(0) = 1
    <3>1. 0 \in 0 .. INT_MAX
      BY IntIs
    <3> QED
      BY <3>1, NumDigitsIs
  <2>2. 10^(1 - 1) = 1
    OBVIOUS
  <2>3. ByPosition(0) = [i \in 1 .. 1 |-> ZERO]
    <3>1. \A i \in 1 .. 1 : i = 1
      OBVIOUS
    <3>2. ZERO + ((0 \div 1) % 10) = ZERO
      BY DEF ZERO
    <3>3. \A i \in 1 .. 1 : ZERO + ((0 \div 10^(1 - i)) % 10) = ZERO
      BY <3>1, <3>2, <2>2
    <3> QED
      BY <2>1, <3>3 DEF ByPosition
  <2>4. ByPosition(0) = <<ZERO>>
    BY <2>3
  <2>5. <<>> \o <<ZERO>> = <<ZERO>>
    OBVIOUS
  <2>6. Numeral(v) = <<>> \o ByPosition(0)
    BY <1>3, <1>4
  <2> QED
    BY <1>4, <2>4, <2>5, <2>6 DEF to_str
<1>5. CASE v > 0
  <2>1. to_str(v) = Reverse(Digits(v, 1))
    BY <1>1, <1>5 DEF to_str
  <2>2. v \in 1 .. INT_MAX /\ abs = v
    BY <1>1, <1>5
  <2>3. <<>> \o ByPosition(v) = ByPosition(v)
    BY <2>2, ReversedDigits, ConcatEmptySeq
  <2> QED
    BY <1>3, <1>5, <2>1, <2>2, <2>3, ReversedDigits
<1>6. CASE v < 0
  <2>1. abs = -v /\ abs \in 1 .. INT_MAX
    BY <1>1, <1>6
  <2>2. to_str(v) = Reverse(Append(Digits(abs, 1), MINUS))
    <3>1. ~ (abs < 0) /\ v # 0
      BY <1>6, <2>1
    <3> QED
      BY <1>2, <1>6, <2>1, <3>1 DEF to_str
  <2> HIDE DEF abs
  <2>3. Digits(abs, 1) \in Seq(Nat) /\ MINUS \in Nat
    <3>1. abs \in Nat
      BY <2>1, IntIs
    <3> QED
      BY <3>1, DigitsType DEF MINUS
  <2>4. to_str(v) = <<MINUS>> \o Reverse(Digits(abs, 1))
    BY <2>2, <2>3, ReversedSign
  <2> QED
    BY <1>3, <1>6, <2>1, <2>4, ReversedDigits
<1> QED
  BY <1>1, <1>4, <1>5, <1>6

\* f is the recursive function of int_to_hex up to n.
IsRest(f, v, n) == f = [k \in 0 .. n |-> IF k = 0 THEN v ELSE f[k - 1] \div 16]

LEMMA RestExists ==
  ASSUME NEW v \in Nat
  PROVE  \A n \in Nat : \E f : IsRest(f, v, n)
<1> DEFINE S == {n \in Nat : ~ \E f : IsRest(f, v, n)}
<1> SUFFICES ASSUME S # {} PROVE FALSE
  OBVIOUS
<1>1. PICK n \in S : \A k \in S : n <= k
  <2>1. S \subseteq Nat
    OBVIOUS
  <2> QED
    BY <2>1, LeastNumber
<1>2. CASE n = 0
  <2> DEFINE f == [k \in 0 .. 0 |-> v]
  <2>1. f = [k \in 0 .. 0 |-> IF k = 0 THEN v ELSE f[k - 1] \div 16]
    OBVIOUS
  <2>2. IsRest(f, v, 0)
    BY <2>1 DEF IsRest
  <2> QED
    BY <2>2, <1>1, <1>2
<1>3. CASE n # 0
  <2>1. n - 1 \in Nat /\ n - 1 \notin S
    BY <1>1, <1>3
  <2>2. PICK f : IsRest(f, v, n - 1)
    BY <2>1
  <2> DEFINE g == [k \in 0 .. n |-> IF k = 0 THEN v ELSE f[k - 1] \div 16]
  <2>3. \A k \in 0 .. n - 1 : g[k] = f[k]
    BY <2>1, <2>2 DEF IsRest
  <2>4. g = [k \in 0 .. n |-> IF k = 0 THEN v ELSE g[k - 1] \div 16]
    <3>1. \A k \in 0 .. n : k # 0 => k - 1 \in 0 .. n - 1
      BY <2>1
    <3>2. \A k \in 0 .. n : k # 0 => g[k - 1] = f[k - 1]
      BY <2>3, <3>1
    <3> QED
      BY <3>2
  <2> HIDE DEF g
  <2>5. IsRest(g, v, n)
    BY <2>4 DEF IsRest
  <2> QED
    BY <2>5, <1>1
<1> QED
  BY <1>2, <1>3

LEMMA RestType ==
  ASSUME NEW v \in Nat, NEW n \in Nat, NEW f, IsRest(f, v, n)
  PROVE  \A k \in 0 .. n : f[k] \in Nat
<1> DEFINE S == {k \in 0 .. n : f[k] \notin Nat}
<1> SUFFICES ASSUME S # {} PROVE FALSE
  OBVIOUS
<1>1. PICK k \in S : \A j \in S : k <= j
  <2>1. S \subseteq Nat
    OBVIOUS
  <2> QED
    BY <2>1, LeastNumber
<1>2. f[k] = IF k = 0 THEN v ELSE f[k - 1] \div 16
  BY <1>1 DEF IsRest
<1>3. k # 0 => f[k - 1] \in Nat
  BY <1>1
<1> QED
  BY <1>1, <1>2, <1>3

LEMMA HexType ==
  ASSUME NEW v \in Nat, NEW n \in Nat
  PROVE  int_to_hex(v, n) \in Seq(Nat)
<1> DEFINE f == CHOOSE g : IsRest(g, v, n)
<1>1. IsRest(f, v, n)
  BY RestExists
<1>2. int_to_hex(v, n) = [i \in 1 .. n |-> HexDigit(f[n - i] % 16)]
  BY DEF int_to_hex, IsRest
<1> HIDE DEF f
<1>3. ASSUME NEW i \in 1 .. n
      PROVE  HexDigit(f[n - i] % 16) \in Nat
  <2>1. f[n - i] \in Nat
    BY <1>1, RestType
  <2>2. f[n - i] % 16 \in 0 .. 15
    BY <2>1
  <2>3. \A d \in 0 .. 15 : HexDigit(d) \in Nat
    BY DEF HexDigit, ZERO
  <2> QED
    BY <2>2, <2>3
<1>4. int_to_hex(v, n) \in [1 .. n -> Nat]
  BY <1>2, <1>3
<1> QED
  BY <1>4

LEMMA Sixteens == \A e \in 0 .. 7 : 16^e \in Nat
<1> DEFINE P(e) == 16^e \in Nat
<1>1. P(0) /\ P(1) /\ P(2) /\ P(3)
  OBVIOUS
<1>2. P(4) /\ P(5) /\ P(6) /\ P(7)
  OBVIOUS
<1> HIDE DEF P
<1>3. \A e \in 0 .. 7 : P(e)
  BY <1>1, <1>2
<1> QED
  BY <1>3 DEF P

LEMMA HexWidthType == HexWidth \in 1 .. 8
<1> DEFINE P(k) == 16^k >= UINT /\ 16^(k - 1) < UINT
           S    == {k \in 1 .. 8 : 16^k >= UINT}
<1>1. 16^8 = 2 * 2147483647 + 2 /\ 16^0 = 1 /\ 16^1 = 16
  BY SMT
<1>2. 16^8 >= UINT
  <2>1. INT_MAX <= 2147483647
    BY ConsoleAssumption, SMT
  <2> QED
    BY <1>1, <2>1, IntIs, SMT
<1>3. PICK k \in S : \A j \in S : k <= j
  <2>1. S \subseteq Nat /\ 8 \in S
    BY <1>2
  <2> QED
    BY <2>1, LeastNumber
<1>4. 16^(k - 1) < UINT
  <2>1. CASE k = 1
    BY <1>1, <2>1, IntIs, SMT
  <2>2. CASE k # 1
    <3>1. k - 1 \in 1 .. 8 /\ k - 1 \in 0 .. 7 /\ k - 1 \notin S
      BY <1>3, <2>2
    <3>2. 16^(k - 1) \in Nat
      BY <3>1, Sixteens
    <3> QED
      BY <3>1, <3>2, IntIs
  <2> QED
    BY <2>1, <2>2
<1> QED
  BY <1>3, <1>4 DEF HexWidth

LEMMA TextType ==
  ASSUME NEW i \in Items
  PROVE  Text(i) \in Seq(Nat)
<1>1. CASE i.spec \in {"text", "s", "?"} /\ i.arg \in Seq(1 .. 255)
  <2>1. i.arg \in Seq(Nat)
    <3>1. 1 .. 255 \subseteq Nat
      OBVIOUS
    <3> QED
      BY <1>1, <3>1, SeqMonotonic
  <2>2. <<PERCENT>> \in Seq(Nat)
    BY DEF PERCENT
  <2>3. <<PERCENT>> \o i.arg \in Seq(Nat)
    BY <2>1, <2>2, ConcatProperties
  <2> QED
    BY <1>1, <2>1, <2>3 DEF Text
<1>2. CASE i.spec = "c" /\ i.arg \in [1 .. 1 -> 0 .. 255]
  <2>1. i.arg \in [1 .. 1 -> Nat]
    BY <1>2
  <2>2. i.arg \in Seq(Nat)
    <3>1. \A n \in Nat : \A f \in [1 .. n -> Nat] : f \in Seq(Nat)
      OBVIOUS
    <3> QED
      BY <2>1, <3>1
  <2> QED
    BY <1>2, <2>2 DEF Text
<1>3. CASE i.spec = "%"
  <2>1. Text(i) = <<PERCENT>>
    BY <1>3 DEF Text
  <2> QED
    BY <2>1 DEF PERCENT
<1>4. CASE i.spec \in {"d", "u", "llu"} /\ i.arg \in Int
  <2>1. Text(i) = to_str(AsInt(i.arg))
    BY <1>4 DEF Text
  <2> QED
    BY <1>4, <2>1, AsIntIs, ToStrType
<1>5. CASE i.spec = "x" /\ i.arg \in Nat
  <2>1. Text(i) = int_to_hex(i.arg % UINT, HexWidth)
    BY <1>5 DEF Text
  <2>2. i.arg % UINT \in Nat /\ HexWidth \in Nat
    BY <1>5, IntIs, HexWidthType
  <2> QED
    BY <2>1, <2>2, HexType
<1>6. CASE i.spec = "llx" /\ i.arg \in Nat
  <2>1. Text(i) = int_to_hex(i.arg, 2 * HexWidth)
    BY <1>6 DEF Text
  <2>2. 2 * HexWidth \in Nat
    BY HexWidthType
  <2> QED
    BY <1>6, <2>1, <2>2, HexType
<1>7. UINT * UINT \in Nat /\ UINT \in Nat /\ INT_MAX \in Nat
  BY IntIs
<1>8. \/ i.spec \in {"text", "s", "?"} /\ i.arg \in Seq(1 .. 255)
      \/ i.spec = "c" /\ i.arg \in [1 .. 1 -> 0 .. 255]
      \/ i.spec = "%"
      \/ i.spec \in {"d", "u", "llu"} /\ i.arg \in Int
      \/ i.spec \in {"x", "llx"} /\ i.arg \in Nat
  <2>1. CASE i \in [spec: {"text", "s", "?"}, arg: Strings]
    BY <2>1 DEF Strings
  <2>2. CASE i \in [spec: {"c"}, arg: [1 .. 1 -> 0 .. 255]]
    BY <2>2
  <2>3. CASE i \in [spec: {"%"}, arg: {<<>>}]
    BY <2>3
  <2>4. CASE i \in [spec: {"d"}, arg: -INT_MAX - 1 .. INT_MAX]
    BY <2>4, <1>7
  <2>5. CASE i \in [spec: {"u", "x"}, arg: 0 .. UINT - 1]
    BY <2>5, <1>7
  <2>6. CASE i \in [spec: {"llu", "llx"}, arg: 0 .. UINT * UINT - 1]
    <3> DEFINE top == UINT * UINT - 1
    <3>1. top \in Int /\ i.arg \in 0 .. top /\ i.spec \in {"llu", "llx"}
      BY <2>6, <1>7
    <3> HIDE DEF top
    <3>2. i.arg \in Nat
      BY <3>1
    <3> QED
      BY <3>1, <3>2
  <2> QED
    BY <2>1, <2>2, <2>3, <2>4, <2>5, <2>6 DEF Items
<1> QED
  BY <1>1, <1>2, <1>3, <1>4, <1>5, <1>6, <1>8

----------------------------------------------------------------------------
(* Texts put together.                                                     *)

\* f is the recursive function of FlattenSeq up to n.
IsFlat(f, s, n) == f = [i \in 1 .. n |-> IF i = 1 THEN s[i] ELSE f[i - 1] \o s[i]]

LEMMA FlatAt ==
  ASSUME NEW f, NEW s, NEW n \in Nat, IsFlat(f, s, n), NEW i \in 1 .. n
  PROVE  f[i] = IF i = 1 THEN s[i] ELSE f[i - 1] \o s[i]
<1> DEFINE D(j) == IF j = 1 THEN s[j] ELSE f[j - 1] \o s[j]
<1>1. f = [j \in 1 .. n |-> D(j)]
  BY DEF IsFlat
<1> HIDE DEF D
<1>2. f[i] = D(i)
  BY <1>1
<1> QED
  BY <1>2 DEF D

LEMMA FlatExists ==
  ASSUME NEW s
  PROVE  \A n \in Nat : \E f : IsFlat(f, s, n)
<1> DEFINE S == {n \in Nat : ~ \E f : IsFlat(f, s, n)}
<1> SUFFICES ASSUME S # {} PROVE FALSE
  OBVIOUS
<1>1. PICK n \in S : \A k \in S : n <= k
  <2>1. S \subseteq Nat
    OBVIOUS
  <2> QED
    BY <2>1, LeastNumber
<1>2. CASE n = 0
  <2> DEFINE f == [i \in 1 .. 0 |-> s]
  <2>1. f = [i \in 1 .. 0 |-> IF i = 1 THEN s[i] ELSE f[i - 1] \o s[i]]
    OBVIOUS
  <2>2. IsFlat(f, s, 0)
    BY <2>1 DEF IsFlat
  <2> QED
    BY <2>2, <1>1, <1>2
<1>3. CASE n # 0
  <2>1. n - 1 \in Nat /\ n - 1 \notin S
    BY <1>1, <1>3
  <2>2. PICK f : IsFlat(f, s, n - 1)
    BY <2>1
  <2> DEFINE D(i, t) == IF i = 1 THEN s[i] ELSE t \o s[i]
             g == [i \in 1 .. n |-> D(i, f[i - 1])]
  <2>3. \A i \in 1 .. n - 1 : f[i] = D(i, f[i - 1])
    BY <2>1, <2>2, FlatAt
  <2>4. \A t, u : D(1, t) = D(1, u)
    OBVIOUS
  <2> HIDE DEF D
  <2>5. \A i \in 1 .. n - 1 : g[i] = f[i]
    BY <2>1, <2>3
  <2>6. \A i \in 1 .. n : i # 1 => i - 1 \in 1 .. n - 1
    BY <2>1
  <2>7. \A i \in 1 .. n : D(i, f[i - 1]) = D(i, g[i - 1])
    BY <2>4, <2>5, <2>6
  <2>8. g = [i \in 1 .. n |-> D(i, g[i - 1])]
    BY <2>7
  <2> HIDE DEF g
  <2>9. IsFlat(g, s, n)
    BY <2>8 DEF IsFlat, D
  <2> QED
    BY <2>9, <1>1
<1> QED
  BY <1>2, <1>3

LEMMA FlatUnique ==
  ASSUME NEW f, NEW g, NEW s, NEW t, NEW m \in Nat, NEW n \in Nat, m <= n,
         IsFlat(f, s, m), IsFlat(g, t, n), \A i \in 1 .. m : s[i] = t[i]
  PROVE  \A i \in 1 .. m : f[i] = g[i]
<1> DEFINE S == {i \in 1 .. m : f[i] # g[i]}
<1> SUFFICES ASSUME S # {} PROVE FALSE
  OBVIOUS
<1>1. PICK i \in S : \A k \in S : i <= k
  <2>1. S \subseteq Nat
    OBVIOUS
  <2> QED
    BY <2>1, LeastNumber
<1>2. i \in 1 .. m /\ i \in 1 .. n /\ s[i] = t[i] /\ f[i] # g[i]
  BY <1>1
<1>3. f[i] = IF i = 1 THEN s[i] ELSE f[i - 1] \o s[i]
  BY <1>2, FlatAt
<1>4. g[i] = IF i = 1 THEN t[i] ELSE g[i - 1] \o t[i]
  BY <1>2, FlatAt
<1>5. i # 1 => f[i - 1] = g[i - 1]
  BY <1>1, <1>2
<1> QED
  BY <1>2, <1>3, <1>4, <1>5

LEMMA FlatType ==
  ASSUME NEW s \in Seq(Seq(Nat)), NEW f, IsFlat(f, s, Len(s))
  PROVE  \A i \in 1 .. Len(s) : f[i] \in Seq(Nat)
<1> DEFINE S == {i \in 1 .. Len(s) : f[i] \notin Seq(Nat)}
<1> SUFFICES ASSUME S # {} PROVE FALSE
  OBVIOUS
<1>1. PICK i \in S : \A k \in S : i <= k
  <2>1. S \subseteq Nat
    OBVIOUS
  <2> QED
    BY <2>1, LeastNumber
<1>2. i \in 1 .. Len(s) /\ Len(s) \in Nat /\ s[i] \in Seq(Nat)
  BY <1>1
<1>3. f[i] = IF i = 1 THEN s[i] ELSE f[i - 1] \o s[i]
  BY <1>2, FlatAt
<1>4. i # 1 => f[i - 1] \in Seq(Nat)
  BY <1>1, <1>2
<1>5. i # 1 => f[i - 1] \o s[i] \in Seq(Nat)
  BY <1>2, <1>4, ConcatProperties
<1> QED
  BY <1>1, <1>2, <1>3, <1>5

LEMMA FlattenIs ==
  ASSUME NEW s \in Seq(Seq(Nat))
  PROVE  LET f == CHOOSE g : IsFlat(g, s, Len(s))
         IN  /\ IsFlat(f, s, Len(s))
             /\ FlattenSeq(s) = IF Len(s) = 0 THEN s ELSE f[Len(s)]
<1> DEFINE f == CHOOSE g : IsFlat(g, s, Len(s))
<1>1. Len(s) \in Nat
  OBVIOUS
<1>2. IsFlat(f, s, Len(s))
  BY <1>1, FlatExists
<1>3. FlattenSeq(s) = IF Len(s) = 0 THEN s ELSE f[Len(s)]
  BY DEF FlattenSeq, IsFlat
<1> QED
  BY <1>2, <1>3

LEMMA FlattenType ==
  /\ \A s \in Seq(Seq(Nat)) : FlattenSeq(s) \in Seq(Nat)
  /\ FlattenSeq(<<>>) = <<>>
<1>1. ASSUME NEW s \in Seq(Seq(Nat))
      PROVE  FlattenSeq(s) \in Seq(Nat)
  <2> DEFINE f == CHOOSE g : IsFlat(g, s, Len(s))
  <2>1. IsFlat(f, s, Len(s)) /\ FlattenSeq(s) = IF Len(s) = 0 THEN s ELSE f[Len(s)]
    BY FlattenIs
  <2> HIDE DEF f
  <2>2. CASE Len(s) = 0
    <3>1. s = <<>>
      BY <2>2
    <3>2. <<>> \in Seq(Nat)
      OBVIOUS
    <3> QED
      BY <2>1, <2>2, <3>1, <3>2
  <2>3. CASE Len(s) # 0
    <3>1. Len(s) \in 1 .. Len(s)
      BY <2>3
    <3>2. f[Len(s)] \in Seq(Nat)
      BY <2>1, <3>1, FlatType
    <3> QED
      BY <2>1, <2>3, <3>2
  <2> QED
    BY <2>2, <2>3
<1>2. FlattenSeq(<<>>) = <<>>
  BY DEF FlattenSeq
<1> QED
  BY <1>1, <1>2

Agree(s, t, n) == \A i \in 1 .. n : s[i] = t[i]

\* h is at p what f is at n with the next text of t behind it.
Joins(f, h, t, n, p) ==
  /\ n = 0 => h[p] = t[p]
  /\ n # 0 => h[p] = f[n] \o t[p]

LEMMA FlatNext ==
  ASSUME NEW f, NEW h, NEW s, NEW t, NEW n \in Nat, NEW p \in Nat, p = n + 1,
         IsFlat(f, s, n), IsFlat(h, t, p), Agree(s, t, n)
  PROVE  Joins(f, h, t, n, p)
<1>1. p \in 1 .. p /\ p - 1 = n /\ (p = 1 <=> n = 0) /\ n <= p
  OBVIOUS
<1>2. h[p] = IF p = 1 THEN t[p] ELSE h[p - 1] \o t[p]
  BY <1>1, FlatAt
<1>3. \A i \in 1 .. n : f[i] = h[i]
  BY <1>1, FlatUnique DEF Agree
<1>4. n # 0 => f[n] = h[n]
  BY <1>3
<1> QED
  BY <1>1, <1>2, <1>4 DEF Joins

\* One more text goes to the end.
LEMMA FlattenNext ==
  ASSUME NEW s \in Seq(Seq(Nat)), NEW t \in Seq(Seq(Nat)), Len(t) = Len(s) + 1,
         \A i \in 1 .. Len(s) : s[i] = t[i]
  PROVE  FlattenSeq(t) = FlattenSeq(s) \o t[Len(t)]
<1> DEFINE n == Len(s)
           p == Len(t)
           f == CHOOSE g : IsFlat(g, s, n)
           h == CHOOSE g : IsFlat(g, t, p)
<1>1. IsFlat(f, s, n) /\ FlattenSeq(s) = IF n = 0 THEN s ELSE f[n]
  BY FlattenIs
<1>2. IsFlat(h, t, p) /\ FlattenSeq(t) = IF p = 0 THEN t ELSE h[p]
  BY FlattenIs
<1>3. n \in Nat /\ p \in Nat /\ p = n + 1 /\ p # 0 /\ Agree(s, t, n)
  <2>1. Agree(s, t, n)
    BY DEF Agree
  <2>2. n \in Nat /\ p \in Nat /\ p = n + 1
    OBVIOUS
  <2> HIDE DEF n, p
  <2> QED
    BY <2>1, <2>2
<1>4. t[p] \in Seq(Nat)
  <2>1. p \in 1 .. Len(t)
    BY <1>3
  <2> HIDE DEF p
  <2> QED
    BY <2>1
<1>5. n = 0 => s = <<>>
  OBVIOUS
<1> HIDE DEF f, h, n, p
<1>6. Joins(f, h, t, n, p)
  BY <1>1, <1>2, <1>3, FlatNext
<1>7. <<>> \o t[p] = t[p]
  BY <1>4, ConcatEmptySeq
<1>8. FlattenSeq(t) = FlattenSeq(s) \o t[p]
  BY <1>1, <1>2, <1>3, <1>5, <1>6, <1>7, Zenon DEF Joins
<1> QED
  BY <1>8 DEF p

----------------------------------------------------------------------------
(* Types.                                                                  *)

TInv ==
  /\ TypeOK
  /\ items \in Seq(Items)
  /\ pc # "idle" => asked # <<>>

LEMMA TInvInit == Init => TInv
<1> SUFFICES ASSUME Init PROVE TInv
  OBVIOUS
<1>1. BUFSZ \in Nat \ {0} /\ VGA_WIDTH \in Nat \ {0} /\ VGA_HEIGHT \in Nat \ {0} /\ MaxCalls \in Nat
  BY ConsoleAssumption, SMT
<1>2. /\ pc = "idle" /\ items = <<>> /\ written = 0 /\ printed = 0
      /\ terminal_row = 0 /\ terminal_column = 0 /\ asked = <<>> /\ fell = FALSE
  BY DEF Init
<1>3. buf \in [0 .. BUFSZ - 1 -> Nat] /\ screen \in [Cells -> Nat]
  BY DEF Init, JUNK, SPACE
<1>4. /\ terminal_row \in Nat /\ terminal_row < VGA_HEIGHT
      /\ terminal_column \in 0 .. VGA_WIDTH - 1
      /\ written \in Nat /\ printed \in Nat
  BY <1>1, <1>2
<1>5. asked \in Seq(Formats) /\ Len(asked) <= MaxCalls /\ items \in Seq(Items)
  BY <1>1, <1>2
<1> QED
  BY <1>2, <1>3, <1>4, <1>5 DEF TInv, TypeOK

\* A character moves the cursor on the screen, or past it once a newline fell.
LEMMA PutType ==
  ASSUME TypeOK, NEW c \in Nat, terminal_putchar(c)
  PROVE  /\ terminal_row' \in Nat /\ (fell' \/ terminal_row' < VGA_HEIGHT)
         /\ terminal_column' \in 0 .. VGA_WIDTH - 1
         /\ screen' \in [Cells -> Nat]
         /\ fell' \in BOOLEAN
<1>1. VGA_WIDTH \in Nat \ {0} /\ VGA_HEIGHT \in Nat \ {0}
  BY ConsoleAssumption, SMT
<1>2. /\ terminal_row \in Nat /\ (fell \/ terminal_row < VGA_HEIGHT)
      /\ terminal_column \in 0 .. VGA_WIDTH - 1
      /\ screen \in [Cells -> Nat] /\ fell \in BOOLEAN
  BY DEF TypeOK
<1>3. CASE c = NEWLINE
  <2>1. /\ terminal_row' = terminal_row + 1 /\ terminal_column' = 0 /\ screen' = screen
        /\ fell' = (fell \/ terminal_row + 1 = VGA_HEIGHT)
    BY <1>3 DEF terminal_putchar, ColumnAfterNewline
  <2>2. fell' \in BOOLEAN
    BY <2>1
  <2>3. terminal_row' \in Nat /\ terminal_column' \in 0 .. VGA_WIDTH - 1
    BY <1>1, <1>2, <2>1
  <2>4. fell' \/ (~ fell /\ terminal_row + 1 # VGA_HEIGHT)
    BY <2>1
  <2>5. terminal_row < VGA_HEIGHT /\ terminal_row + 1 # VGA_HEIGHT => terminal_row' < VGA_HEIGHT
    BY <1>1, <1>2, <2>1
  <2>6. fell' \/ terminal_row' < VGA_HEIGHT
    BY <1>2, <2>4, <2>5
  <2> QED
    BY <1>2, <2>1, <2>2, <2>3, <2>6
<1>4. CASE c # NEWLINE
  <2>1. screen' \in [Cells -> Nat] /\ fell' = fell
    BY <1>2, <1>4 DEF terminal_putchar
  <2>2. terminal_column' \in 0 .. VGA_WIDTH - 1
    BY <1>1, <1>2, <1>4 DEF terminal_putchar
  <2>3. terminal_row' = terminal_row \/ terminal_row' = RowAfter(terminal_row)
    BY <1>4 DEF terminal_putchar
  <2>4. terminal_row' \in Nat /\ (fell \/ terminal_row' < VGA_HEIGHT)
    BY <1>1, <1>2, <2>3 DEF RowAfter
  <2> QED
    BY <1>2, <2>1, <2>2, <2>4
<1> QED
  BY <1>3, <1>4

LEMMA TInvStep == TInv /\ [Next]_vars => TInv'
<1> SUFFICES ASSUME TInv, [Next]_vars PROVE TInv'
  OBVIOUS
<1>1. BUFSZ \in Nat \ {0} /\ MaxCalls \in Nat /\ Formats \subseteq Seq(Items)
  BY ConsoleAssumption, SMT
<1>2. /\ pc \in {"idle", "format", "print"} /\ buf \in [0 .. BUFSZ - 1 -> Nat]
      /\ written \in Nat /\ printed \in Nat
      /\ asked \in Seq(Formats) /\ Len(asked) <= MaxCalls
      /\ items \in Seq(Items) /\ (pc # "idle" => asked # <<>>)
  BY DEF TInv, TypeOK
<1> DEFINE Screens == /\ terminal_row \in Nat /\ (fell \/ terminal_row < VGA_HEIGHT)
                      /\ terminal_column \in 0 .. VGA_WIDTH - 1
                      /\ screen \in [Cells -> Nat] /\ fell \in BOOLEAN
<1>3. /\ Screens
      /\ UNCHANGED terminal => Screens'
  BY DEF TInv, TypeOK, terminal
<1>4. ASSUME NEW f \in Formats, Printf(f)
      PROVE  TInv'
  <2>1. buf' \in [0 .. BUFSZ - 1 -> Nat]
    BY <1>2, <1>4 DEF Printf, JUNK
  <2>2. asked' \in Seq(Formats) /\ Len(asked') <= MaxCalls /\ asked' # <<>>
    <3>1. asked' = Append(asked, f) /\ Len(asked) < MaxCalls /\ Len(asked) \in Nat
      BY <1>2, <1>4 DEF Printf
    <3>2. asked \in Seq(Formats) /\ f \in Formats
      BY <1>2, <1>4
    <3>3. asked' \in Seq(Formats) /\ Len(asked') = Len(asked) + 1
      BY <3>1, <3>2, AppendProperties
    <3>4. asked' # <<>>
      <4>1. Len(<<>>) = 0
        OBVIOUS
      <4> QED
        BY <3>1, <3>3, <4>1
    <3>5. Len(asked') <= MaxCalls
      BY <1>1, <3>1, <3>3
    <3> QED
      BY <3>3, <3>4, <3>5
  <2> QED
    BY <1>1, <1>2, <1>3, <1>4, <2>1, <2>2 DEF Printf, TInv, TypeOK
<1>5. CASE FormatItem
  <2>1. Head(items) \in Items /\ Tail(items) \in Seq(Items)
    BY <1>2, <1>5, HeadTailProperties DEF FormatItem
  <2> DEFINE t == Text(Head(items))
  <2>2. t \in Seq(Nat)
    BY <2>1, TextType
  <2>3. buf' = Copied(t) /\ written' = written + Len(t) /\ items' = Tail(items)
        /\ pc' = pc /\ printed' = printed /\ UNCHANGED terminal /\ asked' = asked
    BY <1>5 DEF FormatItem
  <2> HIDE DEF t
  <2>4. buf' \in [0 .. BUFSZ - 1 -> Nat]
    <3>1. \A i \in 0 .. BUFSZ - 1 : i - written \in 0 .. Len(t) - 1 => t[i - written + 1] \in Nat
      <4>1. \A j \in 1 .. Len(t) : t[j] \in Nat
        BY <2>2
      <4>2. \A i \in 0 .. BUFSZ - 1 : i - written \in 0 .. Len(t) - 1 => i - written + 1 \in 1 .. Len(t)
        BY <1>1, <1>2, <2>2
      <4> QED
        BY <4>1, <4>2
    <3> QED
      BY <1>2, <2>3, <3>1 DEF Copied
  <2>5. written' \in Nat
    BY <1>2, <2>2, <2>3
  <2> QED
    BY <1>2, <1>3, <2>1, <2>3, <2>4, <2>5 DEF TInv, TypeOK
<1>6. CASE Terminate
  <2>1. buf' \in [0 .. BUFSZ - 1 -> Nat]
    BY <1>2, <1>6 DEF Terminate, NUL
  <2> QED
    BY <1>2, <1>3, <1>6, <2>1 DEF Terminate, TInv, TypeOK
<1>7. CASE PrintChar
  <2>1. PICK c \in IF printed < BUFSZ THEN {buf[printed]} ELSE {JUNK, NEWLINE} : terminal_putchar(c)
    BY <1>7 DEF PrintChar
  <2>2. c \in Nat
    <3>1. printed < BUFSZ => printed \in 0 .. BUFSZ - 1
      BY <1>1, <1>2
    <3> QED
      BY <1>2, <2>1, <3>1 DEF JUNK, NEWLINE
  <2>3. Screens'
    BY <2>1, <2>2, PutType DEF TInv
  <2> QED
    BY <1>2, <1>7, <2>3 DEF PrintChar, format, TInv, TypeOK
<1>8. CASE Return
  BY <1>2, <1>3, <1>8 DEF Return, format, TInv, TypeOK
<1>9. CASE UNCHANGED vars
  BY <1>2, <1>3, <1>9 DEF vars, format, TInv, TypeOK
<1> QED
  BY <1>4, <1>5, <1>6, <1>7, <1>8, <1>9 DEF Next

\* All variables keep their types; in particular, the cursor stays on the screen
\* as long as no newline was put on its last row (tty.c:41-53).
THEOREM TypeCorrect == Spec => []TypeOK
<1>1. TInv => TypeOK
  BY DEF TInv
<1> QED
  BY <1>1, TInvInit, TInvStep, PTL DEF Spec

----------------------------------------------------------------------------
(* Off the screen.                                                         *)

Off == fell => terminal_row >= VGA_HEIGHT

\* A place behind the last row is none of the screen's.
LEMMA BehindTheScreen ==
  ASSUME NEW row \in Nat, NEW col \in Nat, row >= VGA_HEIGHT
  PROVE  row * VGA_WIDTH + col \notin Cells
<1>1. VGA_WIDTH \in Nat \ {0} /\ VGA_HEIGHT \in Nat \ {0}
  BY ConsoleAssumption, SMT
<1>2. PICK d \in Nat : row = VGA_HEIGHT + d
  BY <1>1
<1>3. row * VGA_WIDTH = VGA_WIDTH * VGA_HEIGHT + d * VGA_WIDTH
  BY <1>1, <1>2
<1>4. d * VGA_WIDTH \in Nat /\ VGA_WIDTH * VGA_HEIGHT \in Nat
  BY <1>1
<1> QED
  BY <1>3, <1>4 DEF Cells

LEMMA OffStep ==
  ASSUME TInv, Off, NEW c \in Nat, terminal_putchar(c)
  PROVE  Off' /\ (fell => UNCHANGED screen)
<1>1. VGA_WIDTH \in Nat \ {0} /\ VGA_HEIGHT \in Nat \ {0}
  BY ConsoleAssumption, SMT
<1>2. /\ terminal_row \in Nat /\ (fell \/ terminal_row < VGA_HEIGHT)
      /\ terminal_column \in 0 .. VGA_WIDTH - 1
      /\ fell \in BOOLEAN /\ screen \in [Cells -> Nat]
  BY DEF TInv, TypeOK
<1>3. CASE c = NEWLINE
  BY <1>1, <1>2, <1>3 DEF terminal_putchar, Off
<1>4. CASE c # NEWLINE
  <2>1. fell' = fell /\ terminal_row' \in {terminal_row, RowAfter(terminal_row)}
    BY <1>4 DEF terminal_putchar
  <2>2. Off'
    BY <1>1, <1>2, <2>1 DEF Off, RowAfter
  <2>3. ASSUME fell PROVE screen' = screen
    <3> DEFINE at == terminal_row * VGA_WIDTH + terminal_column
    <3>1. at \notin Cells
      <4>1. terminal_row \in Nat /\ terminal_column \in Nat /\ terminal_row >= VGA_HEIGHT
        BY <1>1, <1>2, <2>3 DEF Off
      <4> QED
        BY <4>1, BehindTheScreen
    <3>2. screen' = [i \in Cells |-> IF i = at THEN c ELSE screen[i]]
      BY <1>4 DEF terminal_putchar
    <3> QED
      BY <1>2, <3>1, <3>2
  <2> QED
    BY <2>2, <2>3
<1> QED
  BY <1>3, <1>4

\* A newline on the last row is the end of the display: the row is compared with
\* the height only where a line is full, so the cursor is below the screen from
\* then on and no later character shows (tty.c:41-53).
THEOREM NothingShownBelow == Spec => [][fell => UNCHANGED screen]_vars
<1>1. Init => Off
  BY DEF Init, Off
<1>2. ASSUME TInv, Off, [Next]_vars
      PROVE  Off' /\ (fell => UNCHANGED screen)
  <2>1. CASE PrintChar
    <3>1. PICK c \in IF printed < BUFSZ THEN {buf[printed]} ELSE {JUNK, NEWLINE} : terminal_putchar(c)
      BY <2>1 DEF PrintChar
    <3>2. c \in Nat
      <4>1. BUFSZ \in Nat /\ printed \in Nat /\ buf \in [0 .. BUFSZ - 1 -> Nat]
        BY <1>2, ConsoleAssumption, SMT DEF TInv, TypeOK
      <4>2. printed < BUFSZ => printed \in 0 .. BUFSZ - 1
        BY <4>1
      <4> QED
        BY <3>1, <4>1, <4>2 DEF JUNK, NEWLINE
    <3> QED
      BY <1>2, <3>1, <3>2, OffStep
  <2>2. CASE UNCHANGED terminal
    BY <1>2, <2>2 DEF terminal, Off
  <2> QED
    BY <1>2, <2>1, <2>2 DEF Next, Printf, FormatItem, Terminate, Return, vars
<1>3. TInv /\ Off /\ [Next]_vars => TInv' /\ Off'
  BY <1>2, TInvStep
<1>4. TInv /\ Off /\ [Next]_vars => [fell => UNCHANGED screen]_vars
  BY <1>2
<1> QED
  BY <1>1, <1>3, <1>4, TInvInit, PTL DEF Spec

----------------------------------------------------------------------------
(* What a format is turned into.                                           *)

\* The texts of the first k items of a format, and all of them together.
Texts(f, k)  == [j \in 1 .. k |-> Text(f[j])]
Output(f, k) == FlattenSeq(Texts(f, k))

LEMMA OutputIs ==
  ASSUME NEW f \in Seq(Items)
  PROVE  /\ \A k \in 0 .. Len(f) : Output(f, k) \in Seq(Nat)
         /\ Output(f, 0) = <<>>
         /\ \A k \in 0 .. Len(f) - 1 : Output(f, k + 1) = Output(f, k) \o Text(f[k + 1])
<1>1. \A j \in 1 .. Len(f) : Text(f[j]) \in Seq(Nat)
  BY TextType
<1>2. \A k \in 0 .. Len(f) : Texts(f, k) \in Seq(Seq(Nat)) /\ Len(Texts(f, k)) = k
  <2> SUFFICES ASSUME NEW k \in 0 .. Len(f)
               PROVE  Texts(f, k) \in Seq(Seq(Nat)) /\ Len(Texts(f, k)) = k
    OBVIOUS
  <2>1. Texts(f, k) \in [1 .. k -> Seq(Nat)] /\ k \in Nat
    BY <1>1 DEF Texts
  <2> QED
    BY <2>1
<1>3. \A k \in 0 .. Len(f) : Output(f, k) \in Seq(Nat)
  BY <1>2, FlattenType DEF Output
<1>4. Output(f, 0) = <<>>
  <2>1. Texts(f, 0) = <<>>
    BY DEF Texts
  <2> QED
    BY <2>1, FlattenType DEF Output
<1>5. ASSUME NEW k \in 0 .. Len(f) - 1
      PROVE  Output(f, k + 1) = Output(f, k) \o Text(f[k + 1])
  <2>1. k \in 0 .. Len(f) /\ k + 1 \in 0 .. Len(f) /\ k + 1 \in 1 .. k + 1
    OBVIOUS
  <2>2. /\ Texts(f, k) \in Seq(Seq(Nat)) /\ Len(Texts(f, k)) = k
        /\ Texts(f, k + 1) \in Seq(Seq(Nat)) /\ Len(Texts(f, k + 1)) = k + 1
    BY <1>2, <2>1
  <2>3. /\ \A i \in 1 .. k : Texts(f, k)[i] = Texts(f, k + 1)[i]
        /\ Texts(f, k + 1)[k + 1] = Text(f[k + 1])
    BY <2>1 DEF Texts
  <2>4. FlattenSeq(Texts(f, k + 1)) = FlattenSeq(Texts(f, k)) \o Texts(f, k + 1)[k + 1]
    BY <2>2, <2>3, FlattenNext
  <2> QED
    BY <2>3, <2>4 DEF Output
<1> QED
  BY <1>3, <1>4, <1>5

\* It is the text asked for, if the numbers are ints that to_str can tell.
LEMMA WantedIs ==
  ASSUME NEW f \in Seq(Items), Tellable(f)
  PROVE  Wanted(f) = Output(f, Len(f))
<1> DEFINE T(j) == IF IsDecimal(f[j]) THEN Numeral(f[j].arg) ELSE Text(f[j])
<1>1. ASSUME NEW j \in 1 .. Len(f)
      PROVE  T(j) = Text(f[j])
  <2>1. CASE IsDecimal(f[j])
    <3>1. f[j].arg \in -INT_MAX .. INT_MAX
      BY <2>1 DEF Tellable
    <3>2. f[j].arg \in Int /\ f[j].arg \in -INT_MAX - 1 .. INT_MAX
      BY <3>1, IntIs
    <3>3. AsInt(f[j].arg) = f[j].arg
      BY <3>2, AsIntIs
    <3>4. Text(f[j]) = to_str(AsInt(f[j].arg))
      BY <2>1 DEF Text, IsDecimal
    <3> QED
      BY <2>1, <3>1, <3>3, <3>4, ToStrIsNumeral
  <2> QED
    BY <2>1
<1>2. DOMAIN f = 1 .. Len(f)
  OBVIOUS
<1>3. Wanted(f) = FlattenSeq([j \in DOMAIN f |-> T(j)])
  BY DEF Wanted
<1> HIDE DEF T
<1>4. [j \in DOMAIN f |-> T(j)] = Texts(f, Len(f))
  BY <1>1, <1>2 DEF Texts
<1> QED
  BY <1>3, <1>4 DEF Output

----------------------------------------------------------------------------
(* The buffer.                                                             *)

\* vsnprintf has dealt with k items of f.
Formatted(f, k) ==
  /\ written = Len(Output(f, k))
  /\ \A i \in 0 .. BUFSZ - 2 : i < written => buf[i] = Output(f, k)[i + 1]

FInv ==
  LET f == Last(asked)
  IN  /\ pc = "format" => \E k \in 0 .. Len(f) :
                            items = SubSeq(f, k + 1, Len(f)) /\ Formatted(f, k)
      /\ pc = "print" => /\ Formatted(f, Len(f))
                         /\ buf[Least(written, BUFSZ - 1)] = NUL
                         /\ printed <= written

LEMMA LastAsked ==
  ASSUME TInv, pc # "idle"
  PROVE  Last(asked) \in Formats /\ Last(asked) \in Seq(Items) /\ Len(asked) \in Nat \ {0}
<1>1. asked \in Seq(Formats) /\ asked # <<>>
  BY DEF TInv, TypeOK
<1>2. Len(asked) \in 1 .. Len(asked)
  BY <1>1
<1>3. Formats \subseteq Seq(Items)
  BY ConsoleAssumption, SMT
<1> QED
  BY <1>1, <1>2, <1>3 DEF Last

\* Copying a text behind what was written.
LEMMA CopiedIs ==
  ASSUME NEW t \in Seq(Nat), NEW u \in Seq(Nat), TInv,
         written = Len(u), \A i \in 0 .. BUFSZ - 2 : i < written => buf[i] = u[i + 1]
  PROVE  /\ Len(u \o t) = written + Len(t)
         /\ \A i \in 0 .. BUFSZ - 2 : i < written + Len(t) => Copied(t)[i] = (u \o t)[i + 1]
<1>1. /\ Len(u \o t) = Len(u) + Len(t)
      /\ \A i \in 1 .. Len(u) + Len(t) :
            (u \o t)[i] = IF i <= Len(u) THEN u[i] ELSE t[i - Len(u)]
  BY ConcatProperties
<1>2. BUFSZ \in Nat \ {0} /\ DOMAIN buf = 0 .. BUFSZ - 1
  BY ConsoleAssumption, SMT DEF TInv, TypeOK
<1>3. ASSUME NEW i \in 0 .. BUFSZ - 2, i < written + Len(t)
      PROVE  Copied(t)[i] = (u \o t)[i + 1]
  <2>1. i \in DOMAIN buf /\ i + 1 < BUFSZ
    BY <1>2
  <2>2. Copied(t)[i] = IF i - written \in 0 .. Len(t) - 1 THEN t[i - written + 1] ELSE buf[i]
    BY <2>1 DEF Copied
  <2>3. (u \o t)[i + 1] = IF i + 1 <= Len(u) THEN u[i + 1] ELSE t[(i + 1) - Len(u)]
    <3>1. i + 1 \in 1 .. Len(u) + Len(t)
      BY <1>3
    <3> QED
      BY <1>1, <3>1
  <2>4. CASE i < written
    BY <2>2, <2>3, <2>4
  <2>5. CASE ~ (i < written)
    <3>1. i - written \in 0 .. Len(t) - 1 /\ ~ (i + 1 <= Len(u))
          /\ i - written + 1 = (i + 1) - Len(u)
      BY <1>3, <2>5
    <3> QED
      BY <2>2, <2>3, <3>1
  <2> QED
    BY <2>4, <2>5
<1> QED
  BY <1>1, <1>3

LEMMA FInvStep == TInv /\ FInv /\ [Next]_vars => FInv'
<1> SUFFICES ASSUME TInv, FInv, [Next]_vars PROVE FInv'
  OBVIOUS
<1>1. BUFSZ \in Nat \ {0} /\ Formats \subseteq Seq(Items)
  BY ConsoleAssumption, SMT
<1>2. /\ pc \in {"idle", "format", "print"} /\ buf \in [0 .. BUFSZ - 1 -> Nat]
      /\ written \in Nat /\ printed \in Nat
      /\ asked \in Seq(Formats)
  BY DEF TInv, TypeOK
<1>3. ASSUME NEW f \in Formats, Printf(f)
      PROVE  FInv'
  <2>1. f \in Seq(Items)
    BY <1>1
  <2>2. asked' = Append(asked, f) /\ items' = f /\ written' = 0 /\ pc' = "format"
    BY <1>3 DEF Printf
  <2>3. Last(asked') = f
    <3>1. Len(asked') = Len(asked) + 1 /\ Append(asked, f)[Len(asked) + 1] = f
      BY <1>2, <2>2, AppendProperties
    <3> QED
      BY <2>2, <3>1 DEF Last
  <2>4. items' = SubSeq(f, 0 + 1, Len(f))
    <3>1. SubSeq(f, 1, Len(f)) = f
      BY <2>1, SubSeqFull
    <3> QED
      BY <2>2, <3>1
  <2>5. written' = Len(Output(f, 0))
    BY <2>1, <2>2, OutputIs
  <2>6. Formatted(f, 0)'
    BY <2>2, <2>5 DEF Formatted
  <2>7. 0 \in 0 .. Len(f)
    BY <2>1
  <2> QED
    BY <2>2, <2>3, <2>4, <2>6, <2>7 DEF FInv
<1>4. CASE FormatItem
  <2> DEFINE f == Last(asked)
  <2>1. pc = "format" /\ items # <<>> /\ asked' = asked /\ pc' = "format"
    BY <1>4 DEF FormatItem
  <2>2. f \in Seq(Items)
    BY <2>1, LastAsked
  <2>3. PICK k \in 0 .. Len(f) : items = SubSeq(f, k + 1, Len(f)) /\ Formatted(f, k)
    BY <2>1 DEF FInv
  <2> HIDE DEF f
  <2>4. k \in 0 .. Len(f) - 1 /\ k + 1 \in 1 .. Len(f) /\ Len(f) \in k + 1 .. Len(f)
    <3>1. k # Len(f)
      <4> SUFFICES ASSUME k = Len(f) PROVE FALSE
        OBVIOUS
      <4>1. SubSeq(f, k + 1, Len(f)) = <<>>
        <5>1. k + 1 \in Int /\ Len(f) \in Int /\ Len(f) < k + 1
          BY <2>2
        <5> QED
          BY <5>1, SubSeqEmpty
      <4> QED
        BY <2>1, <2>3, <4>1
    <3> QED
      BY <2>2, <3>1
  <2>5. Head(items) = f[k + 1] /\ Tail(items) = SubSeq(f, (k + 1) + 1, Len(f))
    BY <2>2, <2>3, <2>4, HeadTailOfSubSeq
  <2> DEFINE t == Text(f[k + 1])
             u == Output(f, k)
  <2>6. t \in Seq(Nat) /\ u \in Seq(Nat) /\ Output(f, k + 1) = u \o t
    <3>1. f[k + 1] \in Items
      BY <2>2, <2>4
    <3> QED
      BY <2>2, <2>4, <3>1, TextType, OutputIs
  <2>7. buf' = Copied(t) /\ written' = written + Len(t) /\ items' = Tail(items)
    BY <1>4, <2>5 DEF FormatItem
  <2>8. written = Len(u) /\ \A i \in 0 .. BUFSZ - 2 : i < written => buf[i] = u[i + 1]
    BY <2>3 DEF Formatted
  <2> HIDE DEF t, u
  <2>9. /\ Len(u \o t) = written + Len(t)
        /\ \A i \in 0 .. BUFSZ - 2 : i < written + Len(t) => Copied(t)[i] = (u \o t)[i + 1]
    BY <2>6, <2>8, CopiedIs
  <2>10. Formatted(f, k + 1)'
    <3>1. /\ written' = Len(Output(f, k + 1))
          /\ \A i \in 0 .. BUFSZ - 2 : i < written' => buf'[i] = Output(f, k + 1)[i + 1]
      BY <2>6, <2>7, <2>9
    <3>2. f' = f
      BY <2>1 DEF f
    <3> QED
      BY <3>1, <3>2 DEF Formatted
  <2>11. k + 1 \in 0 .. Len(f)
    BY <2>4
  <2>12. f' = f
    BY <2>1 DEF f
  <2>13. \E j \in 0 .. Len(f') : items' = SubSeq(f', j + 1, Len(f')) /\ Formatted(f, j)'
    BY <2>5, <2>7, <2>10, <2>11, <2>12
  <2> QED
    BY <2>1, <2>13 DEF FInv, f
<1>5. CASE Terminate
  <2> DEFINE f == Last(asked)
             at == Least(written, BUFSZ - 1)
  <2>1. pc = "format" /\ items = <<>> /\ asked' = asked /\ pc' = "print" /\ printed' = 0
        /\ written' = written
    BY <1>5 DEF Terminate
  <2>2. f \in Seq(Items)
    BY <2>1, LastAsked
  <2>3. PICK k \in 0 .. Len(f) : items = SubSeq(f, k + 1, Len(f)) /\ Formatted(f, k)
    BY <2>1 DEF FInv
  <2> HIDE DEF f
  <2>4. k = Len(f)
    <3> SUFFICES ASSUME k # Len(f) PROVE FALSE
      OBVIOUS
    <3>1. Len(f) \in Nat /\ k + 1 \in 1 .. Len(f) /\ Len(f) - (k + 1) + 1 >= 1 /\ k + 1 <= Len(f)
      BY <2>2
    <3>2. \A i \in k + 1 .. Len(f) : f[i] \in Items
      BY <2>2, <3>1
    <3>3. Len(SubSeq(f, k + 1, Len(f))) = IF k + 1 <= Len(f) THEN Len(f) - (k + 1) + 1 ELSE 0
      <4>1. k + 1 \in Int /\ Len(f) \in Int
        BY <3>1
      <4> QED
        BY <3>2, <4>1, SubSeqProperties
    <3>4. Len(items) = 0
      BY <2>1
    <3>5. Len(items) = Len(f) - (k + 1) + 1
      <4>1. Len(items) = Len(SubSeq(f, k + 1, Len(f)))
        BY <2>3, Zenon
      <4>2. k + 1 <= Len(f)
        BY <3>1, Zenon
      <4> QED
        BY <3>3, <4>1, <4>2, Zenon
    <3> QED
      BY <3>1, <3>4, <3>5
  <2>5. at = (IF written >= BUFSZ THEN BUFSZ - 1 ELSE written) /\ at \in 0 .. BUFSZ - 1
    <3>1. BUFSZ \in Nat /\ BUFSZ > 0 /\ written \in Nat
      BY <1>1, <1>2
    <3>2. at = IF written < BUFSZ - 1 THEN written ELSE BUFSZ - 1
      BY DEF Least
    <3> HIDE DEF at
    <3>3. CASE written < BUFSZ - 1
      BY <3>1, <3>2, <3>3
    <3>4. CASE ~ written < BUFSZ - 1
      BY <3>1, <3>2, <3>4
    <3> QED
      BY <3>3, <3>4
  <2>6. buf' = [buf EXCEPT ![at] = NUL]
    BY <1>5, <2>5 DEF Terminate
  <2>7. \A i \in 0 .. BUFSZ - 2 : i < written => i # at
    BY <1>1, <1>2 DEF Least
  <2> HIDE DEF at
  <2>8. buf'[at] = NUL /\ \A i \in 0 .. BUFSZ - 2 : i < written => buf'[i] = buf[i]
    BY <1>1, <1>2, <2>5, <2>6, <2>7
  <2>9. f' = f /\ at' = at
    BY <2>1 DEF f, at
  <2>10. Formatted(f, Len(f))'
    BY <2>1, <2>3, <2>4, <2>8, <2>9 DEF Formatted
  <2>11. printed' <= written'
    BY <1>2, <2>1
  <2> QED
    BY <2>1, <2>8, <2>9, <2>10, <2>11 DEF FInv, f, at
<1>6. CASE PrintChar
  <2>1. pc = "print" /\ printed < written /\ printed' = printed + 1
        /\ UNCHANGED <<pc, items, buf, written, asked>>
    BY <1>6 DEF PrintChar, format
  <2>2. printed' <= written'
    BY <1>2, <2>1
  <2> QED
    BY <2>1, <2>2 DEF FInv, Formatted
<1>7. CASE Return
  BY <1>7 DEF Return, FInv
<1>8. CASE UNCHANGED vars
  BY <1>8 DEF vars, format, FInv, Formatted
<1> QED
  BY <1>3, <1>4, <1>5, <1>6, <1>7, <1>8 DEF Next

\* vsnprintf (printf.c:40-160) leaves the text of every format whose numbers are
\* ints that to_str can tell in the buffer, as much as fits, and counts all of it.
THEOREM FormatsRight == Spec => []FormatsAsAsked
<1>1. Init => FInv
  BY DEF Init, FInv
<1>2. TInv /\ FInv => FormatsAsAsked
  <2> SUFFICES ASSUME TInv, FInv, pc = "print", Tellable(Last(asked))
               PROVE  LET text == Wanted(Last(asked))
                          fits == Least(Len(text), BUFSZ - 1)
                      IN  /\ written = Len(text)
                          /\ \A i \in 0 .. fits - 1 : buf[i] = text[i + 1]
                          /\ buf[fits] = NUL
    BY DEF FormatsAsAsked
  <2> DEFINE f == Last(asked)
             text == Wanted(f)
             fits == Least(Len(text), BUFSZ - 1)
  <2>1. f \in Seq(Items)
    BY LastAsked
  <2>2. text = Output(f, Len(f))
    BY <2>1, WantedIs
  <2>3. Formatted(f, Len(f)) /\ buf[Least(written, BUFSZ - 1)] = NUL
    BY DEF FInv
  <2> HIDE DEF f, text
  <2>4. written = Len(text) /\ \A i \in 0 .. BUFSZ - 2 : i < written => buf[i] = text[i + 1]
    BY <2>2, <2>3 DEF Formatted
  <2>5. \A i \in 0 .. fits - 1 : i \in 0 .. BUFSZ - 2 /\ i < written
    <3>1. written \in Nat /\ BUFSZ \in Nat \ {0}
      BY ConsoleAssumption, SMT DEF TInv, TypeOK
    <3> QED
      BY <2>4, <3>1 DEF Least
  <2>6. \A i \in 0 .. fits - 1 : buf[i] = text[i + 1]
    BY <2>4, <2>5
  <2>7. buf[fits] = NUL
    BY <2>3, <2>4
  <2> QED
    BY <2>4, <2>6, <2>7 DEF text, f
<1> QED
  BY <1>1, <1>2, TInvInit, TInvStep, FInvStep, PTL DEF Spec

----------------------------------------------------------------------------
(* The screen.                                                             *)

\* P is a text, Q the same with one character more: what that changes.
LEMMA LineStartNext ==
  ASSUME NEW P \in Seq(Nat), NEW Q \in Seq(Nat), Len(Q) = Len(P) + 1,
         \A i \in 1 .. Len(P) : Q[i] = P[i]
  PROVE  /\ \A k \in 1 .. Len(P) + 1 : LineStart(P, k) \in 0 .. k - 1
         /\ \A k \in 1 .. Len(P) + 1 : LineStart(Q, k) = LineStart(P, k)
         /\ LineStart(Q, Len(Q) + 1) = IF Q[Len(Q)] = NEWLINE THEN Len(Q)
                                       ELSE LineStart(P, Len(P) + 1)
<1> DEFINE S(t, k) == {0} \cup {j \in 1 .. k - 1 : t[j] = NEWLINE}
<1>1. \A t, k : LineStart(t, k) = Max(S(t, k))
  BY DEF LineStart
<1>2. \A k \in Nat \ {0} : \A t : S(t, k) \subseteq 0 .. k - 1 /\ S(t, k) # {} /\ k - 1 \in Nat
  OBVIOUS
<1>3. \A k \in Nat \ {0} : \A t : Max(S(t, k)) \in S(t, k) /\ \A x \in S(t, k) : x <= Max(S(t, k))
  <2> HIDE DEF S
  <2> QED
    BY <1>2, MaxIs
<1>4. ASSUME NEW k \in 1 .. Len(P) + 1
      PROVE  S(Q, k) = S(P, k)
  <2>1. \A j \in 1 .. k - 1 : j \in 1 .. Len(P)
    OBVIOUS
  <2>2. \A j \in 1 .. k - 1 : Q[j] = P[j]
    BY <2>1
  <2> QED
    BY <2>2
<1> DEFINE start == IF Q[Len(Q)] = NEWLINE THEN Len(Q) ELSE LineStart(P, Len(P) + 1)
<1>5. ASSUME Q[Len(Q)] = NEWLINE
      PROVE  LineStart(Q, Len(Q) + 1) = start
  <2>1. Len(Q) \in S(Q, Len(Q) + 1) /\ Len(Q) + 1 \in Nat \ {0}
    BY <1>5
  <2>2. S(Q, Len(Q) + 1) \subseteq 0 .. Len(Q)
    OBVIOUS
  <2> DEFINE m == Max(S(Q, Len(Q) + 1))
  <2>3. m \in S(Q, Len(Q) + 1) /\ Len(Q) <= m
    BY <2>1, <1>3
  <2>4. m \in 0 .. Len(Q)
    BY <2>2, <2>3
  <2> HIDE DEF m
  <2>5. m = Len(Q)
    BY <2>3, <2>4
  <2> HIDE DEF S
  <2>6. LineStart(Q, Len(Q) + 1) = Len(Q)
    BY <1>1, <2>5 DEF m
  <2> QED
    BY <1>5, <2>6
<1>6. ASSUME Q[Len(Q)] # NEWLINE
      PROVE  LineStart(Q, Len(Q) + 1) = start
  <2>1. S(Q, Len(Q) + 1) = S(P, Len(P) + 1)
    <3>1. \A j \in 1 .. (Len(Q) + 1) - 1 : j = Len(Q) \/ j \in 1 .. Len(P)
      OBVIOUS
    <3>2. \A j \in 1 .. Len(P) : j \in 1 .. (Len(Q) + 1) - 1
      OBVIOUS
    <3>3. \A j \in 1 .. (Len(Q) + 1) - 1 :
            Q[j] = NEWLINE <=> j \in 1 .. Len(P) /\ P[j] = NEWLINE
      BY <1>6, <3>1
    <3>4. (Len(P) + 1) - 1 = Len(P)
      OBVIOUS
    <3> QED
      BY <3>2, <3>3, <3>4
  <2> HIDE DEF S
  <2> QED
    BY <1>1, <1>6, <2>1
<1>7. \A k \in 1 .. Len(P) + 1 : LineStart(P, k) \in 0 .. k - 1
  <2> SUFFICES ASSUME NEW k \in 1 .. Len(P) + 1
               PROVE  LineStart(P, k) \in 0 .. k - 1
    OBVIOUS
  <2>1. k \in Nat \ {0}
    OBVIOUS
  <2> HIDE DEF S
  <2> QED
    BY <2>1, <1>1, <1>2, <1>3
<1>8. \A k \in 1 .. Len(P) + 1 : LineStart(Q, k) = LineStart(P, k)
  BY <1>1, <1>4
<1>9. LineStart(Q, Len(Q) + 1) = IF Q[Len(Q)] = NEWLINE THEN Len(Q)
                                 ELSE LineStart(P, Len(P) + 1)
  BY <1>5, <1>6
<1> QED
  BY <1>7, <1>8, <1>9

LEMMA ColumnNext ==
  ASSUME NEW P \in Seq(Nat), NEW Q \in Seq(Nat), Len(Q) = Len(P) + 1,
         \A i \in 1 .. Len(P) : Q[i] = P[i]
  PROVE  LET here == Column(P, Len(P) + 1)
         IN  /\ \A k \in 1 .. Len(P) + 1 : Column(Q, k) = Column(P, k)
             /\ \A k \in 1 .. Len(P) + 1 : Column(P, k) \in 0 .. VGA_WIDTH - 1
             /\ Column(Q, Len(Q) + 1) =
                  IF Q[Len(Q)] = NEWLINE \/ here + 1 = VGA_WIDTH THEN 0 ELSE here + 1
<1>1. VGA_WIDTH \in Nat \ {0}
  BY ConsoleAssumption, SMT
<1>2. /\ \A k \in 1 .. Len(P) + 1 : LineStart(P, k) \in 0 .. k - 1
      /\ \A k \in 1 .. Len(P) + 1 : LineStart(Q, k) = LineStart(P, k)
      /\ LineStart(Q, Len(Q) + 1) = IF Q[Len(Q)] = NEWLINE THEN Len(Q)
                                    ELSE LineStart(P, Len(P) + 1)
  BY LineStartNext
<1>3. \A k \in 1 .. Len(P) + 1 : Column(Q, k) = Column(P, k)
  BY <1>2 DEF Column
<1>4. \A k \in 1 .. Len(P) + 1 : Column(P, k) \in 0 .. VGA_WIDTH - 1
  <2>1. \A x \in Nat : x % VGA_WIDTH \in 0 .. VGA_WIDTH - 1
    BY <1>1
  <2>2. \A k \in 1 .. Len(P) + 1 : k - 1 - LineStart(P, k) \in Nat
    BY <1>2
  <2> QED
    BY <2>1, <2>2 DEF Column
<1> DEFINE n == Len(P)
           start == LineStart(P, n + 1)
           here == Column(P, n + 1)
<1>5. n \in Nat /\ n + 1 \in 1 .. n + 1 /\ start \in 0 .. n /\ Len(Q) = n + 1
  <2>1. n \in Nat /\ n + 1 \in 1 .. n + 1 /\ Len(Q) = n + 1
    OBVIOUS
  <2>2. start \in 0 .. (n + 1) - 1
    BY <1>2, <2>1
  <2> QED
    BY <2>1, <2>2
<1>6. CASE Q[Len(Q)] = NEWLINE
  <2>1. Column(Q, Len(Q) + 1) = ((n + 1) + 1 - 1 - (n + 1)) % VGA_WIDTH
    BY <1>2, <1>6 DEF Column
  <2>2. (n + 1) + 1 - 1 - (n + 1) = 0 /\ 0 % VGA_WIDTH = 0
    BY <1>1, <1>5
  <2> QED
    BY <1>3, <1>4, <1>6, <2>1, <2>2
<1>7. CASE Q[Len(Q)] # NEWLINE
  <2> DEFINE x == n - start
  <2>1. x \in Nat
    BY <1>5
  <2>2. here = x % VGA_WIDTH
    <3>1. (n + 1) - 1 - start = x
      BY <1>5
    <3> QED
      BY <3>1 DEF Column
  <2>3. Column(Q, Len(Q) + 1) = (x + 1) % VGA_WIDTH
    <3>1. Column(Q, Len(Q) + 1) = ((n + 1) + 1 - 1 - start) % VGA_WIDTH
      BY <1>2, <1>7 DEF Column
    <3>2. (n + 1) + 1 - 1 - start = x + 1
      BY <1>5
    <3> QED
      BY <3>1, <3>2
  <2> HIDE DEF x
  <2>4. (x + 1) % VGA_WIDTH = IF (x % VGA_WIDTH) + 1 = VGA_WIDTH THEN 0 ELSE (x % VGA_WIDTH) + 1
    BY <1>1, <2>1, ModNext
  <2> HIDE DEF here
  <2>5. Column(Q, Len(Q) + 1) = IF here + 1 = VGA_WIDTH THEN 0 ELSE here + 1
    BY <2>2, <2>3, <2>4
  <2> QED
    BY <1>3, <1>4, <1>7, <2>5 DEF here
<1> QED
  BY <1>3, <1>4, <1>6, <1>7

LEMMA RowNext ==
  ASSUME NEW P \in Seq(Nat), NEW Q \in Seq(Nat), Len(Q) = Len(P) + 1,
         \A i \in 1 .. Len(P) : Q[i] = P[i]
  PROVE  LET here == Row(P, Len(P) + 1)
         IN  /\ \A k \in 1 .. Len(P) + 1 : Row(Q, k) = Row(P, k)
             /\ \A k \in 1 .. Len(P) + 1 : Row(P, k) \in 0 .. VGA_HEIGHT - 1
             /\ Row(Q, Len(Q) + 1) =
                  IF ~ (Q[Len(Q)] = NEWLINE \/ Column(P, Len(P) + 1) + 1 = VGA_WIDTH) THEN here
                  ELSE IF here + 1 = VGA_HEIGHT THEN 0 ELSE here + 1
<1>1. VGA_WIDTH \in Nat \ {0} /\ VGA_HEIGHT \in Nat \ {0}
  BY ConsoleAssumption, SMT
<1>2. \A k \in 1 .. Len(P) + 1 : Column(Q, k) = Column(P, k) /\ Column(P, k) \in 0 .. VGA_WIDTH - 1
  BY ColumnNext
<1> DEFINE n == Len(P)
           S(t, k) == {j \in 1 .. k - 1 : EndsRow(t, j)}
           lines == Cardinality(S(P, n + 1))
<1>3. n \in Nat /\ n + 1 \in 1 .. n + 1 /\ Len(Q) = n + 1
  OBVIOUS
<1>4. \A j \in 1 .. n : EndsRow(Q, j) <=> EndsRow(P, j)
  BY <1>2 DEF EndsRow
<1>5. \A k \in 1 .. n + 1 : S(Q, k) = S(P, k)
  BY <1>3, <1>4
<1>6. \A t, k : Row(t, k) = Cardinality(S(t, k)) % VGA_HEIGHT
  BY DEF Row
<1>7. \A t : \A k \in 1 .. n + 1 : IsFiniteSet(S(t, k)) /\ Cardinality(S(t, k)) \in Nat
  <2> SUFFICES ASSUME NEW t, NEW k \in 1 .. n + 1
               PROVE  IsFiniteSet(S(t, k)) /\ Cardinality(S(t, k)) \in Nat
    OBVIOUS
  <2>1. IsFiniteSet(1 .. k - 1)
    <3>1. 1 \in Int /\ k - 1 \in Int
      BY <1>3
    <3> QED
      BY <3>1, FS_Interval
  <2>2. S(t, k) \in SUBSET (1 .. k - 1)
    OBVIOUS
  <2>3. IsFiniteSet(S(t, k))
    BY <2>1, <2>2, FS_Subset
  <2> HIDE DEF S
  <2> QED
    BY <2>3, FS_CardinalityType
<1>8. \A x \in Nat : x % VGA_HEIGHT \in 0 .. VGA_HEIGHT - 1
  BY <1>1
<1>9. EndsRow(Q, n + 1) <=> Q[Len(Q)] = NEWLINE \/ Column(P, n + 1) + 1 = VGA_WIDTH
  <2>1. EndsRow(Q, n + 1) <=> Q[n + 1] = NEWLINE \/ Column(P, n + 1) = VGA_WIDTH - 1
    BY <1>2, <1>3 DEF EndsRow
  <2>2. Column(P, n + 1) = VGA_WIDTH - 1 <=> Column(P, n + 1) + 1 = VGA_WIDTH
    <3>1. Column(P, n + 1) \in 0 .. VGA_WIDTH - 1
      BY <1>2, <1>3
    <3> DEFINE q == Column(P, n + 1)
    <3> HIDE DEF q
    <3>2. q \in Int /\ VGA_WIDTH \in Int
      BY <3>1, <1>1 DEF q
    <3>3. q = VGA_WIDTH - 1 <=> q + 1 = VGA_WIDTH
      BY <3>2
    <3> QED
      BY <3>3 DEF q
  <2> QED
    BY <1>3, <2>1, <2>2
<1>10. S(Q, n + 2) = IF EndsRow(Q, n + 1) THEN S(P, n + 1) \cup {n + 1} ELSE S(P, n + 1)
  <2>1. S(Q, n + 2) = S(Q, n + 1) \cup {j \in {n + 1} : EndsRow(Q, j)}
    <3>1. 1 .. (n + 2) - 1 = (1 .. (n + 1) - 1) \cup {n + 1}
      BY <1>3
    <3> QED
      BY <3>1
  <2> QED
    BY <1>3, <1>5, <2>1
<1>11. n + 1 \notin S(P, n + 1)
  BY <1>3
<1>12. Len(Q) + 1 = n + 2
  BY <1>3
<1>13. \A k \in 1 .. n + 1 : Row(P, k) \in 0 .. VGA_HEIGHT - 1
  <2> HIDE DEF S
  <2> QED
    BY <1>6, <1>7, <1>8
<1>14. lines \in Nat /\ Row(P, n + 1) = lines % VGA_HEIGHT /\ IsFiniteSet(S(P, n + 1))
  BY <1>3, <1>6, <1>7
<1>15. \A k \in 1 .. n + 1 : Row(Q, k) = Row(P, k)
  <2> HIDE DEF S
  <2> QED
    BY <1>5, <1>6
<1> HIDE DEF S
<1>16. Cardinality(S(P, n + 1) \cup {n + 1}) = lines + 1
  BY <1>11, <1>14, FS_AddElement
<1>17. (lines + 1) % VGA_HEIGHT = IF (lines % VGA_HEIGHT) + 1 = VGA_HEIGHT THEN 0
                                  ELSE (lines % VGA_HEIGHT) + 1
  <2> HIDE DEF lines
  <2> QED
    BY <1>1, <1>14, ModNext
<1>18. Row(Q, n + 2) = IF EndsRow(Q, n + 1) THEN (lines + 1) % VGA_HEIGHT
                       ELSE lines % VGA_HEIGHT
  BY <1>6, <1>10, <1>16
<1> HIDE DEF lines
<1>19. Row(Q, n + 2) = IF ~ EndsRow(Q, n + 1) THEN Row(P, n + 1)
                       ELSE IF Row(P, n + 1) + 1 = VGA_HEIGHT THEN 0 ELSE Row(P, n + 1) + 1
  BY <1>14, <1>17, <1>18
<1> QED
  BY <1>9, <1>12, <1>13, <1>15, <1>19

\* Where the screen's text is, the new character comes to.
LEMMA ShownNext ==
  ASSUME NEW P \in Seq(Nat), NEW Q \in Seq(Nat), Len(Q) = Len(P) + 1,
         \A i \in 1 .. Len(P) : Q[i] = P[i], NEW i \in Int
  PROVE  Shown(Q, i) = IF Q[Len(Q)] # NEWLINE /\ Place(P, Len(P) + 1) = i
                       THEN Q[Len(Q)] ELSE Shown(P, i)
<1> DEFINE n == Len(P)
           H(t) == {k \in DOMAIN t : t[k] # NEWLINE /\ Place(t, k) = i}
<1>1. n \in Nat /\ Len(Q) = n + 1 /\ DOMAIN P = 1 .. n /\ DOMAIN Q = 1 .. n + 1
  OBVIOUS
<1>2. \A k \in 1 .. n + 1 : Place(Q, k) = Place(P, k)
  BY ColumnNext, RowNext DEF Place
<1>3. \A t : Shown(t, i) = IF H(t) = {} THEN SPACE ELSE t[Max(H(t))]
  BY DEF Shown
<1>4. H(P) \subseteq 1 .. n /\ H(Q) \subseteq 1 .. n + 1
  BY <1>1
<1>5. H(P) # {} => Max(H(P)) \in H(P)
  <2>1. H(P) \subseteq 0 .. n
    BY <1>4
  <2> HIDE DEF H
  <2> QED
    BY <1>1, <2>1, MaxIs
<1>6. H(Q) # {} => Max(H(Q)) \in H(Q) /\ \A x \in H(Q) : x <= Max(H(Q))
  <2>1. H(Q) \subseteq 0 .. n + 1 /\ n + 1 \in Nat
    BY <1>1, <1>4
  <2> HIDE DEF H
  <2> QED
    BY <2>1, MaxIs
<1>7. \A k \in 1 .. n : k \in H(Q) <=> k \in H(P)
  BY <1>1, <1>2
<1>8. n + 1 \in H(Q) <=> Q[Len(Q)] # NEWLINE /\ Place(P, n + 1) = i
  <2>1. n + 1 \in 1 .. n + 1
    BY <1>1
  <2> QED
    BY <1>1, <1>2, <2>1
<1>9. CASE n + 1 \in H(Q)
  <2>1. Max(H(Q)) \in 1 .. n + 1 /\ n + 1 <= Max(H(Q)) /\ H(Q) # {}
    <3> HIDE DEF H
    <3> QED
      BY <1>4, <1>6, <1>9
  <2> HIDE DEF H
  <2>2. Max(H(Q)) = n + 1
    BY <1>1, <2>1
  <2> QED
    BY <1>1, <1>3, <1>8, <1>9, <2>1, <2>2
<1>10. CASE n + 1 \notin H(Q)
  <2> HIDE DEF H
  <2>1. H(Q) = H(P)
    <3>1. \A x \in H(Q) : x \in 1 .. n
      BY <1>1, <1>4, <1>10
    <3> QED
      BY <1>4, <1>7, <3>1
  <2>2. H(P) # {} => Q[Max(H(P))] = P[Max(H(P))]
    BY <1>4, <1>5
  <2>3. Shown(Q, i) = Shown(P, i)
    BY <1>3, <2>1, <2>2
  <2> QED
    BY <1>8, <1>10, <2>3
<1> QED
  BY <1>9, <1>10

\* The texts of the first n calls.
Before(n) == FlattenSeq([k \in 1 .. n |-> Wanted(asked[k])])

\* The text put on the screen so far.
SoFar ==
  IF pc = "idle" THEN Before(Len(asked))
  ELSE Before(Len(asked) - 1)
         \o SubSeq(Wanted(Last(asked)), 1, IF pc = "print" THEN printed ELSE 0)

\* The cursor is behind it and the screen shows it.
ScreenIs(P) ==
  /\ terminal_column = Column(P, Len(P) + 1)
  /\ terminal_row = Row(P, Len(P) + 1)
  /\ \A i \in Cells : screen[i] = Shown(P, i)

Told == \A k \in DOMAIN asked : Tellable(asked[k]) /\ Len(Wanted(asked[k])) < BUFSZ

SInv == ~ fell /\ Told => ScreenIs(SoFar)

\* terminal_putchar (tty.c:41-53) puts a character where it belongs.
LEMMA PutChar ==
  ASSUME NEW P \in Seq(Nat), NEW Q \in Seq(Nat), Len(Q) = Len(P) + 1,
         \A i \in 1 .. Len(P) : Q[i] = P[i],
         TypeOK, ScreenIs(P), NEW c, c = Q[Len(Q)], terminal_putchar(c), ~ fell'
  PROVE  /\ ~ fell
         /\ terminal_column' = Column(Q, Len(Q) + 1)
         /\ terminal_row' = Row(Q, Len(Q) + 1)
         /\ \A i \in Cells : screen'[i] = Shown(Q, i)
<1> DEFINE row == Row(P, Len(P) + 1)
           col == Column(P, Len(P) + 1)
<1>1. terminal_row = row /\ terminal_column = col /\ \A i \in Cells : screen[i] = Shown(P, i)
  BY DEF ScreenIs
<1>2. /\ Column(Q, Len(Q) + 1) = IF c = NEWLINE \/ col + 1 = VGA_WIDTH THEN 0 ELSE col + 1
      /\ Row(Q, Len(Q) + 1) = IF ~ (c = NEWLINE \/ col + 1 = VGA_WIDTH) THEN row
                              ELSE IF row + 1 = VGA_HEIGHT THEN 0 ELSE row + 1
  BY ColumnNext, RowNext
<1>3. \A i \in Cells : i \in Int
  <2>1. VGA_WIDTH * VGA_HEIGHT - 1 \in Int
    BY ConsoleAssumption, SMT
  <2> DEFINE top == VGA_WIDTH * VGA_HEIGHT - 1
  <2> HIDE DEF top
  <2>2. \A i \in 0 .. top : i \in Int
    OBVIOUS
  <2> QED
    BY <2>2 DEF Cells, top
<1>4. \A i \in Cells : Shown(Q, i) = IF c # NEWLINE /\ Place(P, Len(P) + 1) = i
                                     THEN c ELSE Shown(P, i)
  BY <1>3, ShownNext
<1>5. Place(P, Len(P) + 1) = row * VGA_WIDTH + col
  BY DEF Place
<1> HIDE DEF row, col
<1>6. CASE c = NEWLINE
  <2>1. /\ terminal_row' = terminal_row + 1 /\ terminal_column' = 0 /\ screen' = screen
        /\ fell' = (fell \/ terminal_row + 1 = VGA_HEIGHT)
    BY <1>6 DEF terminal_putchar, ColumnAfterNewline
  <2>2. ~ fell /\ terminal_row + 1 # VGA_HEIGHT
    BY <2>1
  <2> QED
    BY <1>1, <1>2, <1>4, <1>6, <2>1, <2>2
<1>7. CASE c # NEWLINE
  <2> DEFINE at == terminal_row * VGA_WIDTH + terminal_column
             full == terminal_column + 1 = VGA_WIDTH
  <2>1. /\ screen' = [i \in Cells |-> IF i = at THEN c ELSE screen[i]]
        /\ terminal_column' = IF full THEN 0 ELSE terminal_column + 1
        /\ terminal_row' = IF full THEN RowAfter(terminal_row) ELSE terminal_row
        /\ fell' = fell
    BY <1>7 DEF terminal_putchar
  <2>2. at = Place(P, Len(P) + 1)
    BY <1>1, <1>5
  <2>3. full <=> col + 1 = VGA_WIDTH
    BY <1>1
  <2> HIDE DEF at, full
  <2>4. \A i \in Cells : screen'[i] = IF i = at THEN c ELSE screen[i]
    BY <2>1
  <2>5. \A i \in Cells : screen'[i] = Shown(Q, i)
    BY <1>1, <1>4, <1>7, <2>2, <2>4
  <2>6. terminal_column' = Column(Q, Len(Q) + 1)
    BY <1>1, <1>2, <1>7, <2>1, <2>3
  <2>7. terminal_row' = Row(Q, Len(Q) + 1)
    BY <1>1, <1>2, <1>7, <2>1, <2>3 DEF RowAfter
  <2> QED
    BY <2>1, <2>5, <2>6, <2>7
<1> QED
  BY <1>6, <1>7

LEMMA EmptyScreen == Init => ScreenIs(<<>>)
<1> SUFFICES ASSUME Init PROVE ScreenIs(<<>>)
  OBVIOUS
<1>1. VGA_WIDTH \in Nat \ {0} /\ VGA_HEIGHT \in Nat \ {0}
  BY ConsoleAssumption, SMT
<1>2. LineStart(<<>>, 1) = 0
  <2>1. {0} \cup {j \in 1 .. 1 - 1 : <<>>[j] = NEWLINE} = {0}
    OBVIOUS
  <2>2. Max({0}) = 0
    <3>1. {0} \subseteq 0 .. 0 /\ {0} # {} /\ 0 \in Nat
      OBVIOUS
    <3>2. Max({0}) \in {0}
      BY <3>1, MaxIs
    <3> QED
      BY <3>2
  <2> QED
    BY <2>1, <2>2 DEF LineStart
<1>3. Column(<<>>, 1) = 0
  BY <1>1, <1>2 DEF Column
<1>4. Row(<<>>, 1) = 0
  <2>1. {j \in 1 .. 1 - 1 : EndsRow(<<>>, j)} = {}
    OBVIOUS
  <2>2. Cardinality({}) = 0
    BY FS_EmptySet
  <2>3. 0 % VGA_HEIGHT = 0
    BY <1>1
  <2> QED
    BY <2>1, <2>2, <2>3 DEF Row
<1>5. Len(<<>>) + 1 = 1
  OBVIOUS
<1>6. \A i \in Cells : screen[i] = Shown(<<>>, i)
  <2>1. \A i : {k \in DOMAIN <<>> : <<>>[k] # NEWLINE /\ Place(<<>>, k) = i} = {}
    OBVIOUS
  <2>2. \A i : Shown(<<>>, i) = SPACE
    BY <2>1 DEF Shown
  <2> QED
    BY <2>2 DEF Init
<1> QED
  BY <1>3, <1>4, <1>5, <1>6 DEF Init, ScreenIs

\* The texts of calls whose numbers to_str can tell.
LEMMA BeforeIs ==
  ASSUME TInv, \A k \in 1 .. Len(asked) : Tellable(asked[k])
  PROVE  /\ \A k \in 1 .. Len(asked) : Wanted(asked[k]) \in Seq(Nat)
         /\ \A n \in 0 .. Len(asked) : Before(n) \in Seq(Nat)
         /\ Before(0) = <<>>
         /\ \A n \in 1 .. Len(asked) : Before(n) = Before(n - 1) \o Wanted(asked[n])
<1>1. asked \in Seq(Formats) /\ Formats \subseteq Seq(Items) /\ Len(asked) \in Nat
  BY ConsoleAssumption, SMT DEF TInv, TypeOK
<1>2. ASSUME NEW k \in 1 .. Len(asked)
      PROVE  Wanted(asked[k]) \in Seq(Nat)
  <2>1. asked[k] \in Seq(Items) /\ Tellable(asked[k])
    BY <1>1
  <2>2. Wanted(asked[k]) = Output(asked[k], Len(asked[k]))
    BY <2>1, WantedIs
  <2>3. Len(asked[k]) \in 0 .. Len(asked[k])
    BY <2>1
  <2> QED
    BY <2>1, <2>2, <2>3, OutputIs
<1> DEFINE T(n) == [k \in 1 .. n |-> Wanted(asked[k])]
<1>3. \A n \in 0 .. Len(asked) : T(n) \in Seq(Seq(Nat)) /\ Len(T(n)) = n
  <2> SUFFICES ASSUME NEW n \in 0 .. Len(asked)
               PROVE  T(n) \in Seq(Seq(Nat)) /\ Len(T(n)) = n
    OBVIOUS
  <2>1. T(n) \in [1 .. n -> Seq(Nat)] /\ n \in Nat
    BY <1>1, <1>2
  <2> QED
    BY <2>1
<1>4. \A n : Before(n) = FlattenSeq(T(n))
  BY DEF Before
<1>5. ASSUME NEW n \in 1 .. Len(asked)
      PROVE  Before(n) = Before(n - 1) \o Wanted(asked[n])
  <2>1. n - 1 \in 0 .. Len(asked) /\ n \in 0 .. Len(asked) /\ (n - 1) + 1 = n /\ n \in 1 .. n
    BY <1>1
  <2>2. \A i \in 1 .. n - 1 : T(n - 1)[i] = T(n)[i]
    BY <2>1
  <2>3. T(n)[n] = Wanted(asked[n])
    BY <2>1
  <2>4. T(n - 1) \in Seq(Seq(Nat)) /\ T(n) \in Seq(Seq(Nat)) /\ Len(T(n - 1)) = n - 1 /\ Len(T(n)) = n
    BY <1>3, <2>1
  <2> HIDE DEF T
  <2>5. FlattenSeq(T(n)) = FlattenSeq(T(n - 1)) \o T(n)[n]
    BY <2>1, <2>2, <2>4, FlattenNext
  <2> QED
    BY <1>4, <2>3, <2>5
<1>6. Before(0) = <<>>
  <2>1. T(0) = <<>>
    OBVIOUS
  <2> QED
    BY <1>4, <2>1, FlattenType
<1>7. \A n \in 0 .. Len(asked) : Before(n) \in Seq(Nat)
  <2> HIDE DEF T
  <2> QED
    BY <1>3, <1>4, FlattenType
<1> QED
  BY <1>2, <1>5, <1>6, <1>7


\* What the last call is still to put on the screen.
LEMMA SoFarIs ==
  ASSUME TInv, pc # "idle", Told
  PROVE  LET n == Len(asked)
             W == Wanted(Last(asked))
         IN  /\ Before(n - 1) \in Seq(Nat) /\ W \in Seq(Nat) /\ Len(W) < BUFSZ
             /\ W = Output(Last(asked), Len(Last(asked)))
             /\ Before(n) = Before(n - 1) \o W
             /\ pc # "print" => SoFar = Before(n - 1)
             /\ pc = "print" => SoFar = Before(n - 1) \o SubSeq(W, 1, printed)
<1> DEFINE n == Len(asked)
           W == Wanted(Last(asked))
<1>1. Last(asked) \in Seq(Items) /\ n \in Nat \ {0}
  BY LastAsked
<1>2. n \in 1 .. n /\ n - 1 \in 0 .. n /\ Last(asked) = asked[n] /\ DOMAIN asked = 1 .. n
  BY <1>1 DEF Last, TInv, TypeOK
<1>3. Tellable(Last(asked)) /\ Len(W) < BUFSZ
  BY <1>2 DEF Told
<1>4. \A k \in 1 .. n : Tellable(asked[k])
  BY <1>2 DEF Told
<1>5. Before(n - 1) \in Seq(Nat) /\ W \in Seq(Nat) /\ Before(n) = Before(n - 1) \o W
  BY <1>2, <1>4, BeforeIs
<1>6. W = Output(Last(asked), Len(Last(asked)))
  BY <1>1, <1>3, WantedIs
<1>7. pc # "print" => SoFar = Before(n - 1)
  <2>1. SubSeq(W, 1, 0) = <<>>
    BY SubSeqEmpty
  <2>2. Before(n - 1) \o <<>> = Before(n - 1)
    BY <1>5, ConcatEmptySeq
  <2> HIDE DEF W
  <2>3. pc # "print" => SoFar = Before(n - 1) \o SubSeq(W, 1, 0)
    BY DEF SoFar, W
  <2> QED
    BY <2>1, <2>2, <2>3
<1>8. pc = "print" => SoFar = Before(n - 1) \o SubSeq(W, 1, printed)
  BY DEF SoFar
<1> QED
  BY <1>3, <1>5, <1>6, <1>7, <1>8

LEMMA SInvStep == TInv /\ FInv /\ SInv /\ [Next]_vars => SInv'
<1> SUFFICES ASSUME TInv, FInv, SInv, [Next]_vars, ~ fell', Told'
             PROVE  ScreenIs(SoFar)'
  BY DEF SInv
<1>1. BUFSZ \in Nat \ {0} /\ Formats \subseteq Seq(Items)
  BY ConsoleAssumption, SMT
<1>2. /\ pc \in {"idle", "format", "print"}
      /\ written \in Nat /\ printed \in Nat
      /\ asked \in Seq(Formats)
  BY DEF TInv, TypeOK
\* Steps that put nothing on the screen.
<1>3. ASSUME UNCHANGED terminal, Told, SoFar' = SoFar
      PROVE  ScreenIs(SoFar)'
  <2>1. ScreenIs(SoFar)
    BY <1>3 DEF SInv, terminal
  <2> QED
    BY <1>3, <2>1 DEF ScreenIs, terminal
<1>4. ASSUME NEW f \in Formats, Printf(f)
      PROVE  ScreenIs(SoFar)'
  <2>1. pc = "idle" /\ pc' = "format" /\ asked' = Append(asked, f) /\ UNCHANGED terminal
    BY <1>4 DEF Printf
  <2>2. /\ Len(asked') = Len(asked) + 1 /\ Len(asked) \in Nat
        /\ \A k \in 1 .. Len(asked) : asked'[k] = asked[k]
        /\ DOMAIN asked = 1 .. Len(asked) /\ DOMAIN asked' = 1 .. Len(asked')
    BY <1>2, <2>1, AppendProperties
  <2>3. Told
    <3>1. \A k \in 1 .. Len(asked) : k \in DOMAIN asked'
      BY <2>2
    <3>2. \A k \in DOMAIN asked' : Tellable(asked'[k]) /\ Len(Wanted(asked'[k])) < BUFSZ
      BY DEF Told
    <3> QED
      BY <2>2, <3>1, <3>2 DEF Told
  <2>4. Before(Len(asked)) \in Seq(Nat)
    <3>1. \A k \in 1 .. Len(asked) : Tellable(asked[k])
      BY <2>2, <2>3 DEF Told
    <3>2. Len(asked) \in 0 .. Len(asked)
      BY <2>2
    <3> QED
      BY <3>1, <3>2, BeforeIs
  <2>5. SoFar' = Before(Len(asked))
    <3> DEFINE W == Wanted(Last(asked'))
               B == FlattenSeq([k \in 1 .. Len(asked) |-> Wanted(asked'[k])])
    <3>1. SubSeq(W, 1, 0) = <<>>
      BY SubSeqEmpty
    <3>2. [k \in 1 .. Len(asked) |-> Wanted(asked'[k])] = [k \in 1 .. Len(asked) |-> Wanted(asked[k])]
      BY <2>2
    <3>3. B = Before(Len(asked))
      BY <3>2 DEF Before
    <3>4. Len(asked') - 1 = Len(asked)
      BY <2>2
    <3>5. SoFar' = FlattenSeq([k \in 1 .. Len(asked') - 1 |-> Wanted(asked'[k])]) \o SubSeq(W, 1, 0)
      <4> HIDE DEF W
      <4> QED
        BY <2>1 DEF SoFar, Before, W
    <3>6. SoFar' = B \o <<>>
      BY <3>1, <3>4, <3>5
    <3> HIDE DEF B
    <3>7. Before(Len(asked)) \o <<>> = Before(Len(asked))
      BY <2>4, ConcatEmptySeq
    <3> QED
      BY <3>3, <3>6, <3>7
  <2>6. SoFar = Before(Len(asked))
    BY <2>1 DEF SoFar
  <2> QED
    BY <1>3, <2>1, <2>3, <2>5, <2>6
<1>5. CASE FormatItem
  <2>1. pc = "format" /\ pc' = pc /\ asked' = asked /\ UNCHANGED terminal
    BY <1>5 DEF FormatItem
  <2>2. SoFar' = SoFar /\ Told
    BY <2>1 DEF SoFar, Before, Told
  <2> QED
    BY <1>3, <2>1, <2>2
<1>6. CASE Terminate
  <2>1. pc = "format" /\ pc' = "print" /\ printed' = 0 /\ asked' = asked /\ UNCHANGED terminal
    BY <1>6 DEF Terminate
  <2>2. SoFar' = SoFar /\ Told
    BY <2>1 DEF SoFar, Before, Told
  <2> QED
    BY <1>3, <2>1, <2>2
<1>7. CASE PrintChar
  <2> DEFINE B == Before(Len(asked) - 1)
             W == Wanted(Last(asked))
             P == B \o SubSeq(W, 1, printed)
             Q == B \o SubSeq(W, 1, printed + 1)
  <2>1. /\ pc = "print" /\ printed < written /\ printed' = printed + 1
        /\ UNCHANGED <<pc, items, buf, written, asked>>
    BY <1>7 DEF PrintChar, format
  <2>2. PICK c \in IF printed < BUFSZ THEN {buf[printed]} ELSE {JUNK, NEWLINE} : terminal_putchar(c)
    BY <1>7 DEF PrintChar
  <2>3. Told
    BY <2>1 DEF Told
  <2>4. /\ B \in Seq(Nat) /\ W \in Seq(Nat) /\ Len(W) < BUFSZ
        /\ W = Output(Last(asked), Len(Last(asked)))
        /\ SoFar = P
    BY <2>1, <2>3, SoFarIs
  <2>5. SoFar' = Q
    BY <2>1 DEF SoFar, Before
  <2>6. Formatted(Last(asked), Len(Last(asked)))
    BY <2>1 DEF FInv
  <2> HIDE DEF B, W
  <2>7. written = Len(W) /\ \A i \in 0 .. BUFSZ - 2 : i < written => buf[i] = W[i + 1]
    BY <2>4, <2>6 DEF Formatted
  <2>8. printed + 1 \in 1 .. Len(W) /\ c = W[printed + 1]
    <3>1. printed + 1 \in 1 .. Len(W) /\ printed < BUFSZ /\ printed \in 0 .. BUFSZ - 2
      BY <1>1, <1>2, <2>1, <2>4, <2>7
    <3> QED
      BY <2>1, <2>2, <2>7, <3>1
  <2>9. /\ SubSeq(W, 1, printed) \in Seq(Nat) /\ Len(SubSeq(W, 1, printed)) = printed
        /\ \A i \in 1 .. printed : SubSeq(W, 1, printed)[i] = W[i]
    <3>1. \A i \in 1 .. printed : W[i] \in Nat
      <4>1. \A i \in 1 .. printed : i \in 1 .. Len(W)
        BY <1>2, <2>4, <2>8
      <4> QED
        BY <2>4, <4>1
    <3>2. printed \in Int /\ printed - 1 + 1 = printed /\ (1 <= printed \/ printed = 0)
      BY <1>2
    <3>3. /\ SubSeq(W, 1, printed) \in Seq(Nat)
          /\ Len(SubSeq(W, 1, printed)) = IF 1 <= printed THEN printed - 1 + 1 ELSE 0
          /\ \A i \in 1 .. printed - 1 + 1 : SubSeq(W, 1, printed)[i] = W[1 + i - 1]
      BY <3>1, <3>2, SubSeqProperties
    <3>4. \A i \in 1 .. printed : 1 + i - 1 = i
      OBVIOUS
    <3> QED
      BY <3>2, <3>3, <3>4
  <2>10. /\ SubSeq(W, 1, printed + 1) \in Seq(Nat) /\ Len(SubSeq(W, 1, printed + 1)) = printed + 1
         /\ \A i \in 1 .. printed + 1 : SubSeq(W, 1, printed + 1)[i] = W[i]
    <3>1. \A i \in 1 .. printed + 1 : W[i] \in Nat
      BY <2>4, <2>8
    <3>2. printed + 1 \in Int /\ (printed + 1) - 1 + 1 = printed + 1 /\ 1 <= printed + 1
      BY <1>2
    <3>3. /\ SubSeq(W, 1, printed + 1) \in Seq(Nat)
          /\ Len(SubSeq(W, 1, printed + 1)) = IF 1 <= printed + 1 THEN (printed + 1) - 1 + 1 ELSE 0
          /\ \A i \in 1 .. (printed + 1) - 1 + 1 : SubSeq(W, 1, printed + 1)[i] = W[1 + i - 1]
      BY <3>1, <3>2, SubSeqProperties
    <3>4. \A i \in 1 .. printed + 1 : 1 + i - 1 = i
      BY <1>2
    <3> QED
      BY <3>2, <3>3, <3>4
  <2> DEFINE p == SubSeq(W, 1, printed)
             q == SubSeq(W, 1, printed + 1)
  <2> HIDE DEF p, q
  <2>11. /\ P \in Seq(Nat) /\ Len(P) = Len(B) + printed
         /\ \A i \in 1 .. Len(B) + printed : P[i] = IF i <= Len(B) THEN B[i] ELSE W[i - Len(B)]
    <3>1. p \in Seq(Nat) /\ Len(p) = printed /\ \A i \in 1 .. printed : p[i] = W[i]
      BY <2>9 DEF p
    <3>2. /\ B \o p \in Seq(Nat) /\ Len(B \o p) = Len(B) + Len(p)
          /\ \A i \in 1 .. Len(B) + Len(p) : (B \o p)[i] = IF i <= Len(B) THEN B[i] ELSE p[i - Len(B)]
      BY <2>4, <3>1, ConcatProperties
    <3>3. \A i \in 1 .. Len(B) + printed : i <= Len(B) \/ i - Len(B) \in 1 .. printed
      BY <1>2, <2>4
    <3> QED
      BY <3>1, <3>2, <3>3 DEF p
  <2>12. /\ Q \in Seq(Nat) /\ Len(Q) = Len(B) + (printed + 1)
         /\ \A i \in 1 .. Len(B) + (printed + 1) :
              Q[i] = IF i <= Len(B) THEN B[i] ELSE W[i - Len(B)]
    <3>1. q \in Seq(Nat) /\ Len(q) = printed + 1 /\ \A i \in 1 .. printed + 1 : q[i] = W[i]
      BY <2>10 DEF q
    <3>2. /\ B \o q \in Seq(Nat) /\ Len(B \o q) = Len(B) + Len(q)
          /\ \A i \in 1 .. Len(B) + Len(q) : (B \o q)[i] = IF i <= Len(B) THEN B[i] ELSE q[i - Len(B)]
      BY <2>4, <3>1, ConcatProperties
    <3>3. \A i \in 1 .. Len(B) + (printed + 1) : i <= Len(B) \/ i - Len(B) \in 1 .. printed + 1
      BY <1>2, <2>4
    <3> QED
      BY <3>1, <3>2, <3>3 DEF q
  <2> HIDE DEF P, Q
  <2>13. /\ Len(Q) = Len(P) + 1 /\ Q[Len(Q)] = c
         /\ \A i \in 1 .. Len(P) : Q[i] = P[i]
    <3>1. Len(B) \in Nat
      BY <2>4
    <3>2. Len(Q) = Len(P) + 1
      BY <1>2, <2>11, <2>12, <3>1
    <3>4. \A i \in 1 .. Len(P) : Q[i] = P[i]
      <4>1. \A i \in 1 .. Len(P) :
              i \in 1 .. Len(B) + printed /\ i \in 1 .. Len(B) + (printed + 1)
        BY <1>2, <2>11, <3>1
      <4> QED
        BY <2>11, <2>12, <4>1
    <3>3. Len(Q) \in 1 .. Len(B) + (printed + 1) /\ ~ (Len(Q) <= Len(B))
          /\ Len(Q) - Len(B) = printed + 1
      BY <1>2, <2>12, <3>1
    <3> QED
      BY <2>8, <2>12, <3>2, <3>3, <3>4
  <2>14. TypeOK
    BY DEF TInv
  <2>15. ~ fell
    <3>1. fell => fell'
      BY <2>2 DEF terminal_putchar
    <3> QED
      BY <3>1
  <2>16. ScreenIs(P)
    BY <2>3, <2>4, <2>15 DEF SInv
  <2>17. /\ terminal_column' = Column(Q, Len(Q) + 1)
         /\ terminal_row' = Row(Q, Len(Q) + 1)
         /\ \A i \in Cells : screen'[i] = Shown(Q, i)
    BY <2>2, <2>11, <2>12, <2>13, <2>14, <2>16, PutChar
  <2> QED
    BY <2>5, <2>17 DEF ScreenIs
<1>8. CASE Return
  <2>1. pc = "print" /\ pc' = "idle" /\ printed = written /\ asked' = asked /\ UNCHANGED terminal
    BY <1>8 DEF Return
  <2>2. Told
    BY <2>1 DEF Told
  <2> DEFINE B == Before(Len(asked) - 1)
             W == Wanted(Last(asked))
  <2>3. /\ W \in Seq(Nat) /\ Before(Len(asked)) = B \o W
        /\ W = Output(Last(asked), Len(Last(asked)))
        /\ SoFar = B \o SubSeq(W, 1, printed)
    BY <2>1, <2>2, SoFarIs
  <2>4. Formatted(Last(asked), Len(Last(asked)))
    BY <2>1 DEF FInv
  <2>5. SoFar' = Before(Len(asked))
    BY <2>1 DEF SoFar, Before
  <2> HIDE DEF B, W
  <2>6. printed = Len(W)
    BY <2>1, <2>3, <2>4 DEF Formatted
  <2>7. SubSeq(W, 1, Len(W)) = W
    BY <2>3, SubSeqFull
  <2>8. SoFar' = SoFar
    BY <2>3, <2>5, <2>6, <2>7
  <2> QED
    BY <1>3, <2>1, <2>2, <2>8
<1>9. CASE UNCHANGED vars
  <2>1. SoFar' = SoFar /\ Told /\ UNCHANGED terminal
    BY <1>9 DEF vars, SoFar, Before, Told
  <2> QED
    BY <1>3, <2>1
<1> QED
  BY <1>4, <1>5, <1>6, <1>7, <1>8, <1>9 DEF Next

\* What is printed (printf.c:26-34) is what the screen shows (tty.c:41-53), with
\* texts of any number and length and screens of any size, unless a newline was put
\* on the last row, a text did not fit the buffer or a number is none to_str tells.
THEOREM ScreenRight == Spec => []ScreenShowsText
<1>1. Init => SInv
  <2> SUFFICES ASSUME Init PROVE ScreenIs(SoFar)
    BY DEF SInv
  <2>1. Before(0) = <<>>
    <3>1. [k \in 1 .. 0 |-> Wanted(asked[k])] = <<>>
      OBVIOUS
    <3> QED
      BY <3>1, FlattenType DEF Before
  <2>2. SoFar = <<>>
    BY <2>1 DEF Init, SoFar
  <2> QED
    BY <2>2, EmptyScreen
<1>2. Init => FInv
  BY DEF Init, FInv
<1>3. TInv /\ SInv => ScreenShowsText
  <2> SUFFICES ASSUME TInv, SInv, pc = "idle", ~ fell, Told
               PROVE  \A i \in Cells :
                        screen[i] = Shown(FlattenSeq([k \in DOMAIN asked |-> Wanted(asked[k])]), i)
    BY DEF ScreenShowsText, Told
  <2>1. DOMAIN asked = 1 .. Len(asked)
    BY DEF TInv, TypeOK
  <2>2. SoFar = FlattenSeq([k \in DOMAIN asked |-> Wanted(asked[k])])
    BY <2>1 DEF SoFar, Before
  <2> QED
    BY <2>2 DEF SInv, ScreenIs
<1> QED
  BY <1>1, <1>2, <1>3, TInvInit, TInvStep, FInvStep, SInvStep, PTL DEF Spec
=============================================================================
