------------------------- MODULE PartialSumsProofs -------------------------
(***************************************************************************)
(* Facts about running totals. The induction over the naturals that they   *)
(* need is obtained from the well-foundedness of < as a statement about    *)
(* sets.                                                                   *)
(***************************************************************************)
EXTENDS PartialSums, WellFoundedInduction, TLAPS

\* Every non-empty set of naturals has a least element.
LEMMA LeastNatural ==
  ASSUME NEW T, T \subseteq Nat, T # {}
  PROVE  \E x \in T : \A y \in T : x <= y
<1>1. PICK R : /\ IsWellFoundedOn(R, Nat)
               /\ \A a, b \in Nat : a < b => <<a, b>> \in R
  <2>1. \A a, b \in Nat : a < b => <<a, b>> \in OpToRel(<, Nat)
    BY SMT DEF OpToRel
  <2>2. QED
    BY <2>1, NatLessThanWellFounded
<1>2. IsWellFoundedOn(R, Nat)
  BY <1>1
<1>3. PICK x \in T : \A y \in T : ~(<<y, x>> \in R)
  BY <1>2, WFMin
<1>4. \A y \in T : ~(y < x)
  BY <1>1, <1>3
<1>5. QED
  BY <1>4

\* Induction over the naturals, as a fact about sets.
LEMMA NatSetInduction ==
  ASSUME NEW S, 0 \in S, \A n \in Nat : n \in S => n + 1 \in S
  PROVE  \A n \in Nat : n \in S
<1>1. SUFFICES ASSUME Nat \ S # {} PROVE FALSE
  OBVIOUS
<1>2. PICK x \in Nat \ S : \A y \in Nat \ S : x <= y
  BY <1>1, LeastNatural
<1>3. x - 1 \in Nat /\ x - 1 \in S
  BY <1>2
<1>4. QED
  BY <1>2, <1>3

\* h holds the first n totals of d.
IsTotals(h, n, d) ==
  /\ h \in [0..n -> Int]
  /\ h[0] = 0
  /\ \A k \in 1..n : h[k] = h[k - 1] + d[k]

\* Totals exist up to every n, and two of them agree where both are defined.
LEMMA TotalsExist ==
  ASSUME NEW d \in [Nat -> Int]
  PROVE  \A n \in Nat : \E h : IsTotals(h, n, d)
<1> DEFINE S == {n \in Nat : \E h : IsTotals(h, n, d)}
<1>1. 0 \in S
  <2>1. IsTotals([k \in 0..0 |-> 0], 0, d)
    BY DEF IsTotals
  <2>2. QED
    BY <2>1
<1>2. ASSUME NEW n \in Nat, n \in S PROVE n + 1 \in S
  <2>1. PICK h : IsTotals(h, n, d)
    BY <1>2
  <2>2. DEFINE g == [k \in 0..(n + 1) |-> IF k = n + 1 THEN h[n] + d[n + 1] ELSE h[k]]
  <2>3. g \in [0..(n + 1) -> Int]
    BY <2>1 DEF IsTotals
  <2>4. g[0] = 0
    BY <2>1 DEF IsTotals
  <2>5. ASSUME NEW k \in 1..(n + 1) PROVE g[k] = g[k - 1] + d[k]
    BY <2>1 DEF IsTotals
  <2>6. IsTotals(g, n + 1, d)
    BY <2>3, <2>4, <2>5 DEF IsTotals
  <2>7. QED
    BY <2>6
<1>3. \A n \in Nat : n \in S
  <2> HIDE DEF S
  <2>1. QED
    BY <1>1, <1>2, NatSetInduction
<1>4. QED
  BY <1>3

LEMMA TotalsAgree ==
  ASSUME NEW d \in [Nat -> Int], NEW m \in Nat, NEW n \in Nat, NEW g, NEW h,
         IsTotals(g, m, d), IsTotals(h, n, d)
  PROVE  \A k \in Nat : k <= m /\ k <= n => g[k] = h[k]
<1> DEFINE S == {k \in Nat : k <= m /\ k <= n => g[k] = h[k]}
<1>1. 0 \in S
  BY DEF IsTotals
<1>2. ASSUME NEW k \in Nat, k \in S PROVE k + 1 \in S
  <2>1. CASE k + 1 <= m /\ k + 1 <= n
    <3>1. g[k] = h[k]
      BY <1>2, <2>1
    <3>2. k + 1 \in 1..m /\ k + 1 \in 1..n /\ (k + 1) - 1 = k
      BY <2>1
    <3>3. g[k + 1] = g[k] + d[k + 1] /\ h[k + 1] = h[k] + d[k + 1]
      BY <3>2 DEF IsTotals
    <3>4. QED
      BY <3>1, <3>3
  <2>2. CASE ~(k + 1 <= m /\ k + 1 <= n)
    BY <2>2
  <2>3. QED
    BY <2>1, <2>2
<1>3. \A k \in Nat : k \in S
  <2> HIDE DEF S
  <2>1. QED
    BY <1>1, <1>2, NatSetInduction
<1>4. QED
  BY <1>3

\* Sums(d) satisfies the equations it is defined by.
THEOREM SumsDef ==
  ASSUME NEW d \in [Nat -> Int]
  PROVE  /\ Sums(d) \in [Nat -> Int]
         /\ Sums(d)[0] = 0
         /\ \A n \in Nat : Sums(d)[n + 1] = Sums(d)[n] + d[n + 1]
<1> DEFINE T(n) == CHOOSE h : IsTotals(h, n, d)
<1> DEFINE g == [n \in Nat |-> T(n)[n]]
<1>1. \A n \in Nat : IsTotals(T(n), n, d)
  BY TotalsExist
<1>2. g \in [Nat -> Int] /\ g[0] = 0
  <2>1. \A n \in Nat : T(n)[n] \in Int
    <3> HIDE DEF T
    <3>1. QED
      BY <1>1 DEF IsTotals
  <2>2. T(0)[0] = 0
    <3> HIDE DEF T
    <3>1. QED
      BY <1>1 DEF IsTotals
  <2> HIDE DEF T
  <2>3. QED
    BY <2>1, <2>2
<1>3. ASSUME NEW n \in Nat PROVE g[n + 1] = g[n] + d[n + 1]
  <2> HIDE DEF T
  <2>1. IsTotals(T(n), n, d) /\ IsTotals(T(n + 1), n + 1, d)
    BY <1>1
  <2>2. T(n + 1)[n] = T(n)[n]
    BY <2>1, TotalsAgree
  <2>3. T(n + 1)[n + 1] = T(n + 1)[n] + d[n + 1]
    BY <2>1 DEF IsTotals
  <2>4. QED
    BY <2>2, <2>3
<1>4. g = [n \in Nat |-> IF n = 0 THEN 0 ELSE g[n - 1] + d[n]]
  <2> HIDE DEF g
  <2>1. ASSUME NEW n \in Nat PROVE g[n] = IF n = 0 THEN 0 ELSE g[n - 1] + d[n]
    <3>1. CASE n = 0
      BY <1>2, <3>1
    <3>2. CASE n # 0
      <4>1. n - 1 \in Nat /\ (n - 1) + 1 = n
        BY <3>2
      <4>2. QED
        BY <4>1, <1>3, <3>2
    <3>3. QED
      BY <3>1, <3>2
  <2>2. g = [n \in Nat |-> g[n]]
    BY <1>2
  <2>3. QED
    BY <2>1, <2>2
<1>5. Sums(d) = [n \in Nat |-> IF n = 0 THEN 0 ELSE Sums(d)[n - 1] + d[n]]
  <2> HIDE DEF g
  <2>1. QED
    BY <1>4 DEF Sums
<1>6. \A n \in Nat : Sums(d)[n] = IF n = 0 THEN 0 ELSE Sums(d)[n - 1] + d[n]
  BY <1>5
<1>7. Sums(d)[0] = 0
  BY <1>6
<1>8. ASSUME NEW n \in Nat PROVE Sums(d)[n + 1] = Sums(d)[n] + d[n + 1]
  <2>1. n + 1 \in Nat /\ n + 1 # 0 /\ (n + 1) - 1 = n
    OBVIOUS
  <2>2. QED
    BY <2>1, <1>6
<1>9. Sums(d) \in [Nat -> Int]
  <2> DEFINE S == {n \in Nat : Sums(d)[n] \in Int}
  <2>1. 0 \in S
    BY <1>7
  <2>2. ASSUME NEW n \in Nat, n \in S PROVE n + 1 \in S
    <3>1. Sums(d)[n] \in Int /\ d[n + 1] \in Int
      BY <2>2
    <3>2. QED
      BY <3>1, <1>8
  <2>3. \A n \in Nat : n \in S
    <3> HIDE DEF S
    <3>1. QED
      BY <2>1, <2>2, NatSetInduction
  <2>4. \A n \in Nat : Sums(d)[n] \in Int
    BY <2>3
  <2>5. QED
    BY <2>4, <1>5
<1>10. QED
  BY <1>7, <1>8, <1>9

\* The total of the first n terms depends on those terms only.
LEMMA SumsAgree ==
  ASSUME NEW d \in [Nat -> Int], NEW e \in [Nat -> Int], NEW n \in Nat,
         \A k \in 1..n : d[k] = e[k]
  PROVE  Sums(d)[n] = Sums(e)[n]
<1> DEFINE S == {k \in Nat : k <= n => Sums(d)[k] = Sums(e)[k]}
<1>1. 0 \in S
  BY SumsDef
<1>2. ASSUME NEW k \in Nat, k \in S PROVE k + 1 \in S
  <2>1. CASE k + 1 <= n
    <3>1. Sums(d)[k] = Sums(e)[k] /\ d[k + 1] = e[k + 1]
      BY <1>2, <2>1
    <3>2. QED
      BY <3>1, SumsDef
  <2>2. CASE ~(k + 1 <= n)
    BY <2>2
  <2>3. QED
    BY <2>1, <2>2
<1>3. \A k \in Nat : k \in S
  <2> HIDE DEF S
  <2>1. QED
    BY <1>1, <1>2, NatSetInduction
<1>4. QED
  BY <1>3

\* Changing one term changes the totals from there on by the difference.
LEMMA SumsChangeOne ==
  ASSUME NEW d \in [Nat -> Int], NEW e \in [Nat -> Int],
         NEW n \in Nat, NEW i \in 1..n,
         \A k \in 1..n : k # i => d[k] = e[k]
  PROVE  Sums(e)[n] = Sums(d)[n] + (e[i] - d[i])
<1> DEFINE S == {k \in Nat : i <= k /\ k <= n =>
                  Sums(e)[k] = Sums(d)[k] + (e[i] - d[i])}
<1>1. 0 \in S
  OBVIOUS
<1>2. ASSUME NEW k \in Nat, k \in S PROVE k + 1 \in S
  <2>1. CASE i <= k /\ k + 1 <= n
    <3>1. Sums(e)[k] = Sums(d)[k] + (e[i] - d[i]) /\ d[k + 1] = e[k + 1]
      BY <1>2, <2>1
    <3>2. /\ Sums(d)[k + 1] = Sums(d)[k] + d[k + 1]
          /\ Sums(e)[k + 1] = Sums(e)[k] + e[k + 1]
          /\ Sums(d)[k] \in Int
      BY SumsDef
    <3>3. QED
      BY <3>1, <3>2
  <2>2. CASE i = k + 1 /\ k + 1 <= n
    <3>1. Sums(d)[k] = Sums(e)[k]
      BY <2>2, SumsAgree
    <3>2. /\ Sums(d)[k + 1] = Sums(d)[k] + d[k + 1]
          /\ Sums(e)[k + 1] = Sums(e)[k] + e[k + 1]
          /\ Sums(d)[k] \in Int
      BY SumsDef
    <3>3. QED
      BY <2>2, <3>1, <3>2
  <2>3. CASE ~(i <= k + 1 /\ k + 1 <= n)
    BY <2>3
  <2>4. QED
    BY <2>1, <2>2, <2>3
<1>3. \A k \in Nat : k \in S
  <2> HIDE DEF S
  <2>1. QED
    BY <1>1, <1>2, NatSetInduction
<1>4. QED
  BY <1>3

\* A total of naturals is a natural, and no smaller than any of its terms.
LEMMA SumsOfNaturals ==
  ASSUME NEW d \in [Nat -> Nat]
  PROVE  \A n \in Nat : Sums(d)[n] \in Nat /\ \A i \in 1..n : d[i] <= Sums(d)[n]
<1> DEFINE S == {n \in Nat : Sums(d)[n] \in Nat /\ \A i \in 1..n : d[i] <= Sums(d)[n]}
<1>1. d \in [Nat -> Int]
  OBVIOUS
<1>2. 0 \in S
  BY <1>1, SumsDef
<1>3. ASSUME NEW n \in Nat, n \in S PROVE n + 1 \in S
  <2>1. Sums(d)[n + 1] = Sums(d)[n] + d[n + 1]
    BY <1>1, SumsDef
  <2>2. Sums(d)[n] \in Nat /\ d[n + 1] \in Nat
    BY <1>3
  <2>3. ASSUME NEW i \in 1..(n + 1) PROVE d[i] <= Sums(d)[n + 1]
    <3>1. CASE i = n + 1
      BY <2>1, <2>2, <3>1
    <3>2. CASE i \in 1..n
      <4>1. d[i] <= Sums(d)[n] /\ d[i] \in Nat
        BY <1>3, <3>2
      <4>2. QED
        BY <2>1, <2>2, <4>1
    <3>3. QED
      BY <3>1, <3>2
  <2>4. QED
    BY <2>1, <2>2, <2>3
<1>4. \A n \in Nat : n \in S
  <2> HIDE DEF S
  <2>1. QED
    BY <1>2, <1>3, NatSetInduction
<1>5. QED
  BY <1>4
=============================================================================
