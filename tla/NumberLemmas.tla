----------------------------- MODULE NumberLemmas -----------------------------
(***************************************************************************)
(* Facts about natural numbers that the proofs of several components need: *)
(* the least element of a set, the largest one of a bounded set, and how   *)
(* the remainder of a division moves when the dividend is counted up.      *)
(***************************************************************************)
EXTENDS Integers, WellFoundedInduction, TLAPS

\* A set of natural numbers that is not empty has a least element.
LEMMA LeastNatural ==
  ASSUME NEW T \in SUBSET Nat, T # {}
  PROVE  \E x \in T : \A y \in T : x <= y
<1>1. \E x \in T : \A y \in T : ~(<<y, x>> \in OpToRel(<, Nat))
  BY NatLessThanWellFounded, WFMin, Zenon
<1>2. PICK x \in T : \A y \in T : ~(<<y, x>> \in OpToRel(<, Nat))
  BY <1>1
<1>3. ASSUME NEW y \in T PROVE ~(y < x)
  BY <1>2 DEF OpToRel
<1>4. ASSUME NEW y \in T PROVE x <= y
  BY <1>3
<1> HIDE <1>2
<1> QED
  BY <1>4

\* Induction over the natural numbers, for a property given as a set.
LEMMA SetInduction ==
  ASSUME NEW S, 0 \in S, \A n \in Nat : n \in S => n + 1 \in S
  PROVE  Nat \subseteq S
<1> SUFFICES ASSUME NEW b \in Nat, b \notin S PROVE FALSE
  OBVIOUS
<1> DEFINE T == {n \in Nat : n \notin S}
<1>1. PICK m \in T : \A y \in T : m <= y
  <2>1. T \in SUBSET Nat /\ b \in T
    OBVIOUS
  <2> QED
    BY <2>1, LeastNatural
<1>2. m # 0 /\ m - 1 \in Nat /\ m - 1 \notin T
  BY <1>1
<1>3. m - 1 \in S
  BY <1>2
<1> QED
  BY <1>1, <1>2, <1>3

\* A set of natural numbers below a bound, not empty, has a largest element.
LEMMA LargestNatural ==
  ASSUME NEW T \in SUBSET Nat, T # {}, NEW b \in Nat, \A y \in T : y <= b
  PROVE  \E x \in T : \A y \in T : y <= x
<1> DEFINE D == {b - y : y \in T}
<1>1. D \in SUBSET Nat /\ D # {}
  <2>1. ASSUME NEW y \in T PROVE b - y \in Nat
    OBVIOUS
  <2>2. PICK y \in T : TRUE
    OBVIOUS
  <2>3. b - y \in D
    OBVIOUS
  <2>4. D \in SUBSET Nat
    BY <2>1
  <2> QED
    BY <2>3, <2>4
<1>2. PICK d \in D : \A e \in D : d <= e
  BY <1>1, LeastNatural
<1>3. PICK x \in T : d = b - x
  BY <1>2
<1>4. ASSUME NEW y \in T PROVE y <= x
  <2>1. b - y \in D
    OBVIOUS
  <2> QED
    BY <1>2, <1>3, <2>1
<1> QED
  BY <1>4

\* Multiples of n are at least n apart.
LEMMA MultiplesApart ==
  ASSUME NEW n \in Nat \ {0}, NEW a \in Int, NEW b \in Int, a < b
  PROVE  n * a + n <= n * b
<1>1. PICK d \in Nat : b = a + 1 + d
  <2>1. b - a - 1 \in Nat
    OBVIOUS
  <2> QED
    BY <2>1
<1>2. n * b = n * a + n + n * d
  BY <1>1
<1>3. n * d >= 0
  BY Z3
<1>4. n * a \in Int /\ n * b \in Int /\ n * d \in Int
  BY Z3
<1> QED
  BY <1>2, <1>3, <1>4

\* Quotient and remainder are unique.
LEMMA RemainderUnique ==
  ASSUME NEW n \in Nat \ {0}, NEW q \in Int, NEW r \in 0..(n - 1), NEW x \in Nat,
         x = n * q + r
  PROVE  x % n = r
<1> DEFINE p == x \div n
           m == x % n
<1>1. p \in Int /\ m \in 0..(n - 1) /\ x = n * p + m
  BY Z3
<1> HIDE DEF p, m
<1>2. p = q => m = r
  BY <1>1
<1>3. ~(p < q)
  BY <1>1, MultiplesApart
<1>4. ~(q < p)
  BY <1>1, MultiplesApart
<1> QED
  BY <1>1, <1>2, <1>3, <1>4 DEF m

\* The quotient is the number whose multiple is just below the dividend.
LEMMA QuotientUnique ==
  ASSUME NEW n \in Nat \ {0}, NEW q \in Int, NEW x \in Int,
         n * q <= x, x < n * q + n
  PROVE  x \div n = q
<1> DEFINE p == x \div n
           m == x % n
<1>1. p \in Int /\ m \in 0..(n - 1) /\ x = n * p + m
  BY Z3
<1> HIDE DEF p, m
<1>2. ~(p < q)
  <2>1. ASSUME p < q PROVE n * p + n <= n * q
    BY <1>1, <2>1, MultiplesApart
  <2>2. n * p \in Int /\ n * q \in Int
    BY <1>1
  <2> QED
    BY <1>1, <2>1, <2>2
<1>3. ~(q < p)
  <2>1. ASSUME q < p PROVE n * q + n <= n * p
    BY <1>1, <2>1, MultiplesApart
  <2>2. n * p \in Int /\ n * q \in Int
    BY <1>1
  <2> QED
    BY <1>1, <2>1, <2>2
<1>4. p = q
  BY <1>1, <1>2, <1>3
<1> QED
  BY <1>4 DEF p

\* Counting up moves the remainder by one, from n - 1 to 0.
LEMMA RemainderSucc ==
  ASSUME NEW n \in Nat \ {0}, NEW x \in Nat
  PROVE  (x + 1) % n = IF x % n = n - 1 THEN 0 ELSE (x % n) + 1
<1> DEFINE p == x \div n
           m == x % n
<1>1. p \in Int /\ m \in 0..(n - 1) /\ x = n * p + m
  BY Z3
<1> HIDE DEF p, m
<1>2. CASE m = n - 1
  <2>1. p + 1 \in Int /\ x + 1 = n * (p + 1) + 0 /\ x + 1 \in Nat
    BY <1>1, <1>2
  <2>2. 0 \in 0..(n - 1)
    OBVIOUS
  <2> QED
    BY <1>2, <2>1, <2>2, RemainderUnique DEF m
<1>3. CASE m # n - 1
  <2>1. x + 1 = n * p + (m + 1) /\ m + 1 \in 0..(n - 1) /\ x + 1 \in Nat
    BY <1>1, <1>3
  <2> QED
    BY <1>1, <1>3, <2>1, RemainderUnique DEF m
<1> QED
  BY <1>2, <1>3

\* Zero leaves no remainder.
LEMMA RemainderZero ==
  ASSUME NEW n \in Nat \ {0}
  PROVE  0 % n = 0
<1>1. 0 \in 0..(n - 1) /\ 0 = n * 0 + 0
  OBVIOUS
<1> QED
  BY <1>1, RemainderUnique
=============================================================================
