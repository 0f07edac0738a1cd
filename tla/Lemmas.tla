------------------------------- MODULE Lemmas -------------------------------
(***************************************************************************)
(* Facts that the proofs share: about % , for clocks and counters that     *)
(* wrap; and about sets of numbers, for what a fold over a sequence        *)
(* computes.                                                               *)
(***************************************************************************)
EXTENDS Integers, FiniteSetsExt, WellFoundedInduction, TLAPS

-----------------------------------------------------------------------------
(* Remainders. *)


(* A remainder stays below the number it is taken by.                      *)
LEMMA ModBounded ==
  ASSUME NEW n \in Nat, NEW m \in Nat \ {0}
  PROVE  n % m \in 0 .. m - 1
  BY SMT

(* A number below the modulus is its own remainder.                        *)
LEMMA ModSmall ==
  ASSUME NEW m \in Nat \ {0}, NEW n \in 0 .. m - 1
  PROVE  n % m = n
  BY SMT

(* Quotient and remainder make up a number, and only they do.              *)
LEMMA DivMod ==
  ASSUME NEW n \in Nat, NEW m \in Nat \ {0}
  PROVE  n \div m \in Nat /\ n % m \in 0 .. m - 1 /\ n = (n \div m) * m + (n % m)
  BY SMTT(60)

(* A number below the modulus is the remainder of every multiple plus it.  *)
LEMMA ModUnique ==
  ASSUME NEW m \in Nat \ {0}, NEW q \in Nat, NEW r \in 0 .. m - 1
  PROVE  (q * m + r) % m = r
  BY SMTT(30)

(* A remainder may be taken before more is added.                          *)
LEMMA ModAdd ==
  ASSUME NEW n \in Nat, NEW k \in Nat, NEW m \in Nat \ {0}
  PROVE  (n + k) % m = ((n % m) + k) % m
<1> DEFINE q == n \div m
           r == n % m
           p == (r + k) \div m
           s == (r + k) % m
<1>1. q \in Nat /\ r \in 0 .. m - 1 /\ n = q * m + r
  BY DivMod
<1>2. r + k \in Nat
  BY <1>1
<1>3. p \in Nat /\ s \in 0 .. m - 1 /\ r + k = p * m + s
  BY <1>2, DivMod
<1> HIDE DEF q, r, p, s
<1>4. n + k = (q + p) * m + s /\ q + p \in Nat
  BY <1>1, <1>3
<1>5. ((q + p) * m + s) % m = s
  BY <1>3, <1>4, ModUnique
<1> QED BY <1>4, <1>5 DEF r, s

(* The remainder of a sum is that of the sum of the remainders.            *)
LEMMA ModSum ==
  ASSUME NEW a \in Nat, NEW b \in Nat, NEW m \in Nat \ {0}
  PROVE  ((a % m) + (b % m)) % m = (a + b) % m
<1>1. a % m \in Nat /\ b % m \in Nat
  BY ModBounded
<1>2. (a + b) % m = ((a % m) + b) % m
  BY ModAdd
<1>3. (b + (a % m)) % m = ((b % m) + (a % m)) % m
  BY <1>1, ModAdd
<1>4. (a % m) + b = b + (a % m) /\ (a % m) + (b % m) = (b % m) + (a % m)
  BY <1>1
<1> QED BY <1>2, <1>3, <1>4

(* A sum of four remainders has the remainder of the sum.                  *)
LEMMA ModSumOfFour ==
  ASSUME NEW a \in Nat, NEW b \in Nat, NEW c \in Nat, NEW d \in Nat, NEW m \in Nat \ {0}
  PROVE  ((a % m) + (b % m) + (c % m) + (d % m)) % m = (a + b + c + d) % m
<1> DEFINE u == (a % m) + (b % m)
           v == u + (c % m)
           x == a + b
           y == x + c
<1>1. a % m \in Nat /\ b % m \in Nat /\ c % m \in Nat /\ d % m \in Nat
  BY ModBounded
<1>2. u \in Nat /\ v \in Nat /\ x \in Nat /\ y \in Nat
  BY <1>1
<1>3. u % m = x % m
  BY ModSum
<1>4. v % m = y % m
  <2> HIDE DEF u, x
  <2>1. (u + c) % m = (x + c) % m
    <3>1. (u + c) % m = ((u % m) + c) % m
      BY <1>2, ModAdd
    <3>2. (x + c) % m = ((x % m) + c) % m
      BY <1>2, ModAdd
    <3> QED BY <1>3, <3>1, <3>2
  <2>2. ((c % m) + u) % m = (c + u) % m
    BY <1>2, ModAdd
  <2>3. (c % m) + u = u + (c % m) /\ c + u = u + c
    BY <1>1, <1>2
  <2> QED BY <2>1, <2>2, <2>3
<1>5. (v + (d % m)) % m = (y + d) % m
  <2> HIDE DEF v, y
  <2>1. (v + d) % m = (y + d) % m
    <3>1. (v + d) % m = ((v % m) + d) % m
      BY <1>2, ModAdd
    <3>2. (y + d) % m = ((y % m) + d) % m
      BY <1>2, ModAdd
    <3> QED BY <1>4, <3>1, <3>2
  <2>2. ((d % m) + v) % m = (d + v) % m
    BY <1>2, ModAdd
  <2>3. (d % m) + v = v + (d % m) /\ d + v = v + d
    BY <1>1, <1>2
  <2> QED BY <2>1, <2>2, <2>3
<1> QED BY <1>5

(* A whole turn makes no difference.                                       *)
LEMMA ModTurn ==
  ASSUME NEW n \in Nat, NEW m \in Nat \ {0}
  PROVE  (n + m) % m = n % m
<1> DEFINE q == n \div m
           r == n % m
<1>1. q \in Nat /\ r \in 0 .. m - 1 /\ n = q * m + r
  BY DivMod
<1> HIDE DEF q, r
<1>2. n + m = (q + 1) * m + r /\ q + 1 \in Nat
  BY <1>1
<1>3. ((q + 1) * m + r) % m = r
  BY <1>1, <1>2, ModUnique
<1> QED BY <1>2, <1>3 DEF r

(* A sum of two remainders turns at most once.                             *)
LEMMA ModOfTwo ==
  ASSUME NEW m \in Nat \ {0}, NEW r \in 0 .. m - 1, NEW k \in 0 .. m - 1
  PROVE  (r + k) % m = IF r + k < m THEN r + k ELSE r + k - m
<1>1. CASE r + k < m
  BY <1>1, ModSmall
<1>2. CASE ~(r + k < m)
  <2> DEFINE x == r + k - m
  <2>1. x \in 0 .. m - 1 /\ x \in Nat /\ x + m = r + k
    BY <1>2
  <2>2. (x + m) % m = x % m
    BY <2>1, ModTurn
  <2>3. x % m = x
    BY <2>1, ModSmall
  <2> QED BY <1>2, <2>1, <2>2, <2>3
<1> QED BY <1>1, <1>2

(* A counter goes up by one until it starts anew.                          *)
LEMMA ModStep ==
  ASSUME NEW m \in Nat \ {0}, NEW r \in 0 .. m - 1
  PROVE  (r + 1) % m = IF r = m - 1 THEN 0 ELSE r + 1
<1>1. CASE r = m - 1
  <2>1. r + 1 = 1 * m + 0 /\ 0 \in 0 .. m - 1
    BY <1>1
  <2>2. (1 * m + 0) % m = 0
    BY <2>1, ModUnique
  <2> QED BY <1>1, <2>1, <2>2
<1>2. CASE r # m - 1
  BY <1>2, ModSmall
<1> QED BY <1>1, <1>2

(* The successor of a remainder is the next one or zero.                   *)
LEMMA ModNext ==
  ASSUME NEW n \in Nat, NEW m \in Nat \ {0}
  PROVE  (n + 1) % m = IF n % m = m - 1 THEN 0 ELSE (n % m) + 1
<1> DEFINE r == n % m
<1>1. r \in 0 .. m - 1 /\ (n + 1) % m = (r + 1) % m
  BY ModAdd, ModBounded
<1> HIDE DEF r
<1>2. (r + 1) % m = IF r = m - 1 THEN 0 ELSE r + 1
  BY <1>1, ModStep
<1> QED BY <1>1, <1>2 DEF r

(* A counter that counts modulo a multiple of m also counts modulo m.      *)
LEMMA ModDivides ==
  ASSUME NEW c \in Nat \ {0}, NEW m \in Nat \ {0}, c % m = 0, NEW n \in Nat
  PROVE  (n % c) % m = n % m
<1> DEFINE q == n \div c
           r == n % c
           k == c \div m
           p == r \div m
           s == r % m
<1>1. q \in Nat /\ r \in 0 .. c - 1 /\ n = q * c + r
  BY DivMod
<1>2. k \in Nat /\ c = k * m
  BY DivMod
<1>3. r \in Nat
  BY <1>1
<1> HIDE DEF r
<1>4. p \in Nat /\ s \in 0 .. m - 1 /\ r = p * m + s
  BY <1>3, DivMod
<1> HIDE DEF q, k, p, s
<1>5. n = (q * k + p) * m + s /\ q * k + p \in Nat
  <2>1. n = q * (k * m) + (p * m + s)
    BY <1>1, <1>2, <1>4
  <2>2. q * (k * m) + (p * m + s) = (q * k + p) * m + s
    BY <1>1, <1>2, <1>4, SMT
  <2> QED BY <1>1, <1>2, <1>4, <2>1, <2>2
<1>6. n % m = s
  BY <1>4, <1>5, ModUnique
<1> QED BY <1>6 DEF r, s

-----------------------------------------------------------------------------
(* Induction and folds. *)

(* A set of numbers that is not empty has a least one.                     *)
LEMMA LeastOf ==
  ASSUME NEW T \in SUBSET Nat, T # {}
  PROVE  \E m \in T : \A k \in T : m <= k
<1> DEFINE R == OpToRel(<, Nat)
<1>1. IsWellFoundedOn(R, Nat)
  BY NatLessThanWellFounded
<1>2. \A x, y \in Nat : y < x => <<y, x>> \in R
  BY DEF OpToRel
<1> HIDE DEF R
<1>3. PICK m \in T : \A k \in T : ~(<<k, m>> \in R)
  BY <1>1, WFMin
<1>4. \A k \in T : ~(k < m)
  BY <1>2, <1>3
<1> QED BY <1>4

(* Induction, for a set in the place of a property.                        *)
LEMMA SetInduction ==
  ASSUME NEW T, 0 \in T, \A k \in Nat : k \in T => k + 1 \in T
  PROVE  Nat \subseteq T
<1> DEFINE U == Nat \ T
<1> SUFFICES ASSUME U # {} PROVE FALSE
  OBVIOUS
<1>1. PICK m \in U : \A k \in U : m <= k
  BY LeastOf
<1>2. m \in Nat \ {0} /\ m - 1 \in Nat /\ (m - 1) + 1 = m
  BY <1>1
<1>3. m - 1 \notin U
  BY <1>1, <1>2
<1> QED BY <1>1, <1>2, <1>3

(* Max is the greatest element of a part of 1 .. n.                        *)
LEMMA MaxOf ==
  ASSUME NEW n \in Nat, NEW s \in SUBSET (1 .. n), s # {}
  PROVE  Max(s) \in s /\ \A k \in s : k <= Max(s)
<1> DEFINE T == {n - k : k \in s}
<1>1. T \in SUBSET Nat /\ T # {}
  <2>1. \A k \in s : n - k \in Nat
    OBVIOUS
  <2>2. PICK k \in s : TRUE
    OBVIOUS
  <2>3. n - k \in T
    OBVIOUS
  <2> QED BY <2>1, <2>3
<1>2. PICK m \in T : \A k \in T : m <= k
  BY <1>1, LeastOf
<1>3. PICK x \in s : m = n - x
  BY <1>2
<1>4. \A k \in s : n - x <= n - k
  BY <1>2, <1>3
<1>5. x \in s /\ \A k \in s : x >= k
  BY <1>3, <1>4
<1>6. Max(s) \in s /\ \A k \in s : Max(s) >= k
  BY <1>5 DEF Max
<1> QED BY <1>6

(* What MapThenFoldSet works out when it takes the elements of 1 .. n in   *)
(* their order, as FoldLeft does.                                          *)
Folding(n, base, step, g) ==
  g = [s \in SUBSET (1 .. n) |->
         IF s = {} THEN base ELSE step[<<Max(s), g[s \ {Max(s)}]>>]]

(* There is such a function, so that the one which the library chooses is  *)
(* one.                                                                    *)
LEMMA FoldingExists ==
  ASSUME NEW n \in Nat, NEW A, NEW base \in A, NEW step \in [Nat \X A -> A]
  PROVE  \E g \in [SUBSET (1 .. n) -> A] : Folding(n, base, step, g)
<1> DEFINE Good(k, g) == g \in [SUBSET (1 .. k) -> A] /\ Folding(k, base, step, g)
           T == {k \in Nat : \E g : Good(k, g)}
<1>1. 0 \in T
  <2> DEFINE g == [s \in SUBSET (1 .. 0) |-> base]
  <2>1. SUBSET (1 .. 0) = {{}}
    OBVIOUS
  <2>2. Good(0, g)
    BY <2>1 DEF Folding
  <2> QED BY <2>2
<1>2. ASSUME NEW k \in Nat, k \in T
      PROVE  k + 1 \in T
  <2>1. PICK g : Good(k, g)
    BY <1>2
  <2> DEFINE P == SUBSET (1 .. k + 1)
             h == [s \in P |-> IF k + 1 \in s THEN step[<<k + 1, g[s \ {k + 1}]>>] ELSE g[s]]
  <2>2. ASSUME NEW s \in P, k + 1 \in s
        PROVE  Max(s) = k + 1 /\ s \ {k + 1} \in SUBSET (1 .. k)
    <3>1. s \in SUBSET (1 .. k + 1) /\ s # {} /\ k + 1 \in Nat
      BY <2>2
    <3>2. Max(s) \in s /\ k + 1 <= Max(s)
      BY <2>2, <3>1, MaxOf
    <3>3. Max(s) = k + 1
      <4> DEFINE m == Max(s)
      <4>1. m \in 1 .. k + 1 /\ k + 1 <= m
        BY <3>1, <3>2
      <4> HIDE DEF m
      <4>2. m = k + 1
        BY <4>1
      <4> QED BY <4>2 DEF m
    <3>4. \A j \in s \ {k + 1} : j \in 1 .. k
      BY <3>1
    <3> QED BY <3>3, <3>4
  <2>3. ASSUME NEW s \in P, k + 1 \notin s
        PROVE  s \in SUBSET (1 .. k)
    BY <2>3
  <2>4. h \in [P -> A]
    BY <2>1, <2>2, <2>3
  <2>5. ASSUME NEW s \in P
        PROVE  h[s] = IF s = {} THEN base ELSE step[<<Max(s), h[s \ {Max(s)}]>>]
    <3>1. CASE k + 1 \in s
      <4>1. s \ {k + 1} \in P /\ h[s \ {k + 1}] = g[s \ {k + 1}]
        BY <2>2, <3>1
      <4> QED BY <2>2, <3>1, <4>1
    <3>2. CASE k + 1 \notin s
      <4>1. s \in SUBSET (1 .. k) /\ h[s] = g[s]
        BY <2>3, <3>2
      <4>2. g[s] = IF s = {} THEN base ELSE step[<<Max(s), g[s \ {Max(s)}]>>]
        BY <2>1, <4>1 DEF Folding
      <4>3. h[s \ {Max(s)}] = g[s \ {Max(s)}]
        <5>1. s \ {Max(s)} \in P /\ k + 1 \notin s \ {Max(s)}
          BY <3>2
        <5> QED BY <5>1
      <4> QED BY <4>1, <4>2, <4>3
    <3> QED BY <3>1, <3>2
  <2> HIDE DEF h
  <2>6. h = [s \in P |-> h[s]]
    BY <2>4
  <2>7. Folding(k + 1, base, step, h)
    BY <2>5, <2>6 DEF Folding
  <2>8. Good(k + 1, h)
    BY <2>4, <2>7
  <2> HIDE DEF Good
  <2> QED BY <2>8
<1> HIDE DEF Good
<1>3. Nat \subseteq T
  BY <1>1, <1>2, SetInduction
<1> QED BY <1>3 DEF Good

(* The same for a step that only takes the elements of 1 .. n.             *)
Unfolds(n, A, base, step, g) ==
  /\ g \in [SUBSET (1 .. n) -> A] /\ g[{}] = base
  /\ \A s \in SUBSET (1 .. n) :
       s # {} => /\ Max(s) \in 1 .. n /\ g[s \ {Max(s)}] \in A
                 /\ g[s] = step[<<Max(s), g[s \ {Max(s)}]>>]

LEMMA FoldExists ==
  ASSUME NEW n \in Nat, NEW A, NEW base \in A, NEW step \in [(1 .. n) \X A -> A]
  PROVE  \E g : Unfolds(n, A, base, step, g)
<1> DEFINE all == [x \in Nat \X A |-> IF x[1] \in 1 .. n THEN step[x] ELSE x[2]]
<1>1. all \in [Nat \X A -> A]
  OBVIOUS
<1>2. \A k \in 1 .. n : \A a \in A : all[<<k, a>>] = step[<<k, a>>]
  OBVIOUS
<1> HIDE DEF all
<1>3. PICK g \in [SUBSET (1 .. n) -> A] : Folding(n, base, all, g)
  BY <1>1, FoldingExists
<1>4. {} \in SUBSET (1 .. n) /\ g[{}] = base
  BY <1>3 DEF Folding
<1>5. ASSUME NEW s \in SUBSET (1 .. n), s # {}
      PROVE  /\ Max(s) \in 1 .. n /\ g[s \ {Max(s)}] \in A
             /\ g[s] = step[<<Max(s), g[s \ {Max(s)}]>>]
  <2>1. Max(s) \in s
    BY <1>5, MaxOf
  <2>2. Max(s) \in 1 .. n /\ s \ {Max(s)} \in SUBSET (1 .. n)
    BY <2>1
  <2>3. g[s] = all[<<Max(s), g[s \ {Max(s)}]>>]
    BY <1>3, <1>5 DEF Folding
  <2> QED BY <1>2, <1>3, <2>2, <2>3
<1>6. Unfolds(n, A, base, step, g)
  BY <1>3, <1>4, <1>5 DEF Unfolds
<1> QED BY <1>6

(* The greatest of the first numbers, and what is left without it.         *)
LEMMA MaxOfFirst ==
  ASSUME NEW m \in Nat, NEW k \in 0 .. m - 1
  PROVE  /\ 1 .. k + 1 \in SUBSET (1 .. m) /\ 1 .. k + 1 # {}
         /\ Max(1 .. k + 1) = k + 1 /\ (1 .. k + 1) \ {k + 1} = 1 .. k
         /\ k \in 0 .. m /\ k + 1 \in 0 .. m /\ k + 1 \in 1 .. m
<1> DEFINE s == 1 .. k + 1
           x == Max(s)
<1>1. k \in Nat /\ k + 1 <= m
  OBVIOUS
<1>2. \A j \in s : j \in 1 .. m
  BY <1>1
<1>3. k + 1 \in s
  BY <1>1
<1>4. \A j : j \in s \ {k + 1} <=> j \in 1 .. k
  BY <1>1
<1>5. s \ {k + 1} = 1 .. k
  BY <1>4
<1>6. k \in 0 .. m /\ k + 1 \in 0 .. m /\ k + 1 \in 1 .. m
  BY <1>1
<1>7. x \in s /\ \A j \in s : j <= x
  BY <1>2, <1>3, MaxOf
<1> HIDE DEF x
<1>8. x = k + 1
  <2>1. x \in 1 .. k + 1 /\ k + 1 <= x
    BY <1>3, <1>7
  <2> HIDE DEF s
  <2> QED BY <2>1
<1> HIDE DEF s
<1>9. s \in SUBSET (1 .. m) /\ s # {}
  BY <1>2, <1>3
<1> QED BY <1>5, <1>6, <1>8, <1>9 DEF s, x
=============================================================================
