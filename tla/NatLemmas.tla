----------------------------- MODULE NatLemmas ------------------------------
(***************************************************************************)
(* Smallest and largest numbers: what the choices the code makes rest on.  *)
(***************************************************************************)
EXTENDS Integers, WellFoundedInduction, TLAPS

\* A set of naturals that is not empty has a smallest element.
LEMMA MinNat ==
  ASSUME NEW T \in SUBSET Nat, T # {}
  PROVE  \E x \in T : \A y \in T : x <= y
<1>1. PICK x \in T : \A y \in T : ~ (<<y, x>> \in OpToRel(<, Nat))
  BY NatLessThanWellFounded, WFMin
<1>2. \A y \in T : ~ (y < x)
  BY <1>1 DEF OpToRel
<1> QED BY <1>2

\* A set of naturals with 0 and with the successor of each of its elements has
\* them all: induction on a set.
LEMMA AllNat ==
  ASSUME NEW T \in SUBSET Nat, 0 \in T, \A n \in T : n + 1 \in T
  PROVE  T = Nat
<1> SUFFICES ASSUME Nat \ T # {} PROVE FALSE
  OBVIOUS
<1>1. PICK x \in Nat \ T : \A y \in Nat \ T : x <= y
  BY MinNat
<1>2. x # 0 /\ x - 1 \in Nat
  BY <1>1
<1>3. x - 1 \in T
  BY <1>1, <1>2
<1>4. (x - 1) + 1 = x
  BY <1>1
<1> QED BY <1>1, <1>3, <1>4

\* A sequence of numbers each of which is at least the one before.
LEMMA Grows ==
  ASSUME NEW n \in Nat, NEW e \in [0 .. n -> Nat], \A i \in 1 .. n : e[i - 1] <= e[i]
  PROVE  \A j \in 0 .. n : \A i \in 0 .. j : e[i] <= e[j]
<1> DEFINE P(j) == j \in 0 .. n => \A i \in 0 .. j : e[i] <= e[j]
<1>1. \A i \in 0 .. n : e[i] \in Nat
  OBVIOUS
<1>2. P(0)
  BY <1>1
<1>3. ASSUME NEW j \in Nat, P(j) PROVE P(j + 1)
  <2> SUFFICES ASSUME j + 1 \in 0 .. n, NEW i \in 0 .. j + 1
               PROVE  e[i] <= e[j + 1]
    OBVIOUS
  <2>1. j \in 0 .. n /\ j + 1 \in 1 .. n /\ (j + 1) - 1 = j
    OBVIOUS
  <2>2. e[j] <= e[j + 1] /\ e[j] \in Nat /\ e[j + 1] \in Nat
    BY <1>1, <2>1
  <2>3. CASE i = j + 1
    BY <2>2, <2>3
  <2>4. CASE i \in 0 .. j
    <3>1. e[i] \in Nat /\ e[i] <= e[j]
      BY <1>1, <1>3, <2>1, <2>4
    <3> QED BY <2>2, <3>1
  <2> QED BY <2>3, <2>4
<1> HIDE DEF P
<1> DEFINE T == {m \in Nat : P(m)}
<1>4. T \in SUBSET Nat /\ 0 \in T /\ \A m \in T : m + 1 \in T
  BY <1>2, <1>3
<1>5. T = Nat
  BY <1>4, AllNat
<1>6. \A j \in 0 .. n : P(j)
  BY <1>5
<1> QED BY <1>6 DEF P

\* One that is bounded has a largest element.
LEMMA MaxNat ==
  ASSUME NEW n \in Nat, NEW T \in SUBSET (0 .. n), T # {}
  PROVE  \E x \in T : \A y \in T : y <= x
<1> DEFINE R == {n - t : t \in T}
<1>1. R \in SUBSET Nat /\ R # {}
  <2>1. \A t \in T : t \in 0 .. n /\ n - t \in Nat
    OBVIOUS
  <2>2. R \subseteq Nat
    BY <2>1
  <2>3. PICK t \in T : TRUE
    OBVIOUS
  <2>4. n - t \in R
    OBVIOUS
  <2> QED BY <2>2, <2>4
<1>2. PICK r \in R : \A q \in R : r <= q
  BY <1>1, MinNat
<1>3. PICK x \in T : r = n - x
  BY <1>2
<1>4. \A y \in T : n - x <= n - y
  BY <1>2, <1>3
<1> QED BY <1>3, <1>4

\* So has the range of a finite sequence of naturals.
LEMMA MaxOfRange ==
  ASSUME NEW n \in Nat, n # 0, NEW f \in [1 .. n -> Nat]
  PROVE  \E j \in 1 .. n : \A i \in 1 .. n : f[i] <= f[j]
<1> DEFINE Best(k, j) == \A i \in 1 .. k : f[i] <= f[j]
<1> DEFINE Bad == {k \in 1 .. n : ~ \E j \in 1 .. k : Best(k, j)}
<1>1. SUFFICES ASSUME Bad # {} PROVE FALSE
  <2>1. n \in 1 .. n
    OBVIOUS
  <2> QED BY <2>1
<1>2. PICK k \in Bad : \A m \in Bad : k <= m
  <2>1. Bad \in SUBSET Nat
    OBVIOUS
  <2> QED BY <1>1, <2>1, MinNat
<1>3. k \in 1 .. n /\ ~ \E j \in 1 .. k : Best(k, j)
  BY <1>2
<1>4. k # 1
  <2>1. ASSUME k = 1 PROVE Best(k, 1)
    BY <2>1
  <2> QED BY <1>3, <2>1
<1>5. k - 1 \in 1 .. n /\ k - 1 \notin Bad
  <2>1. k \in 1 .. n
    BY <1>3
  <2>2. k - 1 \in 1 .. n /\ ~ (k <= k - 1)
    BY <2>1, <1>4
  <2> HIDE DEF Bad
  <2> QED BY <1>2, <2>2
<1>6. PICK j \in 1 .. k - 1 : Best(k - 1, j)
  BY <1>5
<1>7. f[j] \in Nat /\ f[k] \in Nat /\ \A i \in 1 .. k - 1 : f[i] \in Nat
  BY <1>3, <1>6
<1>8. CASE f[k] <= f[j]
  <2>1. Best(k, j)
    BY <1>3, <1>6, <1>8
  <2> QED BY <1>3, <1>6, <2>1
<1>9. CASE f[j] < f[k]
  <2>1. Best(k, k)
    BY <1>3, <1>6, <1>7, <1>9
  <2>2. k \in 1 .. k
    BY <1>3
  <2> QED BY <1>3, <2>1, <2>2
<1> QED BY <1>7, <1>8, <1>9
=============================================================================
