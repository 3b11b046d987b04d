--------------------------- MODULE OlioPoolProofs ---------------------------
(***************************************************************************)
(* The pool contract is well typed, implements the abstract ledger of      *)
(* notes and therefore always holds what its unspent notes are worth.      *)
(* Before that, its tree: for any depth and hash function, inserting a leaf*)
(* gives the root of the tree with that leaf, and the path the browser     *)
(* computes leads every leaf to that root.                                 *)
(***************************************************************************)
EXTENDS PoolTree, PartialSumsProofs

-----------------------------------------------------------------------------
(* Recursive functions on the naturals. The induction is over sets, as for *)
(* running totals, and the step is given as a function.                    *)

\* r is the recursion from x by the step F, in S.
Solves(r, S, x, F) ==
  /\ r \in [Nat -> S]
  /\ r[0] = x
  /\ \A l \in Nat : r[l + 1] = F[<<l, r[l]>>]

\* h holds the first n + 1 values of the recursion.
IsRun(h, n, S, x, F) ==
  /\ h \in [0..n -> S]
  /\ h[0] = x
  /\ \A k \in Nat : k < n => h[k + 1] = F[<<k, h[k]>>]

LEMMA RunsExist ==
  ASSUME NEW S, NEW x \in S, NEW F \in [Nat \X S -> S]
  PROVE  \A n \in Nat : \E h : IsRun(h, n, S, x, F)
<1> DEFINE T == {n \in Nat : \E h : IsRun(h, n, S, x, F)}
<1>1. 0 \in T
  <2>1. IsRun([k \in 0..0 |-> x], 0, S, x, F)
    BY DEF IsRun
  <2>2. QED
    BY <2>1
<1>2. ASSUME NEW n \in Nat, n \in T PROVE n + 1 \in T
  <2>1. PICK h : IsRun(h, n, S, x, F)
    BY <1>2
  <2> DEFINE g == [k \in 0..(n + 1) |-> IF k = n + 1 THEN F[<<n, h[n]>>] ELSE h[k]]
  <2>2. h[n] \in S /\ F[<<n, h[n]>>] \in S
    BY <2>1 DEF IsRun
  <2>3. g \in [0..(n + 1) -> S]
    BY <2>1, <2>2 DEF IsRun
  <2>4. g[0] = x
    BY <2>1 DEF IsRun
  <2>5. ASSUME NEW k \in Nat, k < n + 1 PROVE g[k + 1] = F[<<k, g[k]>>]
    <3>1. CASE k = n
      <4>1. g[k + 1] = F[<<n, h[n]>>]
        BY <3>1
      <4>2. g[k] = h[n]
        BY <3>1
      <4>3. QED
        BY <4>1, <4>2, <3>1
    <3>2. CASE k < n
      <4>1. g[k + 1] = h[k + 1] /\ g[k] = h[k]
        BY <3>2
      <4>2. QED
        BY <4>1, <3>2, <2>1 DEF IsRun
    <3>3. QED
      BY <2>5, <3>1, <3>2
  <2>6. IsRun(g, n + 1, S, x, F)
    BY <2>3, <2>4, <2>5 DEF IsRun
  <2>7. QED
    BY <2>6
<1>3. \A n \in Nat : n \in T
  <2> HIDE DEF T
  <2>1. QED
    BY <1>1, <1>2, NatSetInduction
<1>4. QED
  BY <1>3

LEMMA RunsAgree ==
  ASSUME NEW S, NEW x, NEW F, NEW m \in Nat, NEW n \in Nat, NEW g, NEW h,
         IsRun(g, m, S, x, F), IsRun(h, n, S, x, F)
  PROVE  \A k \in Nat : k <= m /\ k <= n => g[k] = h[k]
<1> DEFINE T == {k \in Nat : k <= m /\ k <= n => g[k] = h[k]}
<1>1. 0 \in T
  BY DEF IsRun
<1>2. ASSUME NEW k \in Nat, k \in T PROVE k + 1 \in T
  <2>1. CASE k + 1 <= m /\ k + 1 <= n
    <3>1. g[k] = h[k]
      BY <1>2, <2>1
    <3>2. g[k + 1] = F[<<k, g[k]>>] /\ h[k + 1] = F[<<k, h[k]>>]
      BY <2>1 DEF IsRun
    <3>3. QED
      BY <3>1, <3>2
  <2>2. CASE ~(k + 1 <= m /\ k + 1 <= n)
    BY <2>2
  <2>3. QED
    BY <2>1, <2>2
<1>3. \A k \in Nat : k \in T
  <2> HIDE DEF T
  <2>1. QED
    BY <1>1, <1>2, NatSetInduction
<1>4. QED
  BY <1>3

\* A recursion with a start and a step in S has a solution.
LEMMA Recursion ==
  ASSUME NEW S, NEW x \in S, NEW F \in [Nat \X S -> S]
  PROVE  \E r : Solves(r, S, x, F)
<1> DEFINE H(n) == CHOOSE h : IsRun(h, n, S, x, F)
<1> DEFINE r == [n \in Nat |-> H(n)[n]]
<1>1. \A n \in Nat : IsRun(H(n), n, S, x, F)
  BY RunsExist
<1> HIDE DEF H
<1>2. \A n \in Nat : H(n)[n] \in S
  BY <1>1 DEF IsRun
<1>3. r[0] = x
  BY <1>1 DEF IsRun
<1>4. ASSUME NEW l \in Nat PROVE r[l + 1] = F[<<l, r[l]>>]
  <2>1. IsRun(H(l), l, S, x, F) /\ IsRun(H(l + 1), l + 1, S, x, F)
    BY <1>1
  <2>2. H(l + 1)[l] = H(l)[l]
    BY <2>1, RunsAgree
  <2>3. H(l + 1)[l + 1] = F[<<l, H(l + 1)[l]>>]
    BY <2>1 DEF IsRun
  <2>4. QED
    BY <2>2, <2>3
<1>5. r \in [Nat -> S]
  BY <1>2
<1> HIDE DEF r
<1>6. QED
  BY <1>3, <1>4, <1>5 DEF Solves

\* What a function on the naturals begins in and does not leave it stays in.
LEMMA Stays ==
  ASSUME NEW S, NEW s, s[0] \in S, \A l \in Nat : s[l] \in S => s[l + 1] \in S
  PROVE  \A l \in Nat : s[l] \in S
<1> DEFINE T == {l \in Nat : s[l] \in S}
<1>1. 0 \in T /\ \A l \in Nat : l \in T => l + 1 \in T
  OBVIOUS
<1>2. \A l \in Nat : l \in T
  <2> HIDE DEF T
  <2>1. QED
    BY <1>1, NatSetInduction
<1>3. QED
  BY <1>2

-----------------------------------------------------------------------------
(* The equations of the recursive functions of MerkleTree.                 *)

LEMMA Halving ==
  ASSUME NEW n \in Nat
  PROVE  /\ n \div 2 \in Nat
         /\ n % 2 \in {0, 1}
         /\ n = 2 * (n \div 2) + (n % 2)
BY SMT

\* The number of a node, from that of the node above it.
LEMMA Even ==
  ASSUME NEW n \in Nat, n % 2 = 0
  PROVE  2 * (n \div 2) = n
BY SMT

LEMMA Odd ==
  ASSUME NEW n \in Nat, n % 2 # 0
  PROVE  2 * (n \div 2) = n - 1 /\ 2 * (n \div 2) + 1 = n /\ n - 1 \in Nat
<1>1. n = 2 * (n \div 2) + 1 /\ n \div 2 \in Nat
  BY Halving
<1> DEFINE half == n \div 2
<1>2. n = 2 * half + 1 /\ half \in Nat
  BY <1>1
<1> HIDE DEF half
<1>3. 2 * half = n - 1 /\ 2 * half + 1 = n /\ n - 1 \in Nat
  BY <1>2
<1>4. QED
  BY <1>3 DEF half

LEMMA ShiftRightDef ==
  ASSUME NEW n \in Nat
  PROVE  /\ ShiftRight(n)[0] = n
         /\ \A l \in Nat : ShiftRight(n)[l + 1] = ShiftRight(n)[l] \div 2
         /\ \A l \in Nat : ShiftRight(n)[l] \in Nat
<1> DEFINE F == [p \in Nat \X Nat |-> p[2] \div 2]
<1>1. F \in [Nat \X Nat -> Nat]
  BY Halving
<1>2. PICK r : Solves(r, Nat, n, F)
  <2> HIDE DEF F
  <2>1. QED
    BY <1>1, Recursion
<1>3. r = [l \in Nat |-> IF l = 0 THEN n ELSE r[l - 1] \div 2]
  <2>1. ASSUME NEW l \in Nat, l # 0 PROVE r[l] = r[l - 1] \div 2
    <3>1. l - 1 \in Nat /\ (l - 1) + 1 = l
      BY <2>1
    <3>2. r[(l - 1) + 1] = r[l - 1] \div 2
      BY <1>2, <3>1 DEF Solves
    <3>3. QED
      BY <3>1, <3>2
  <2>2. QED
    BY <1>2, <2>1 DEF Solves
<1> DEFINE s == ShiftRight(n)
<1>4. s = [l \in Nat |-> IF l = 0 THEN n ELSE s[l - 1] \div 2]
  BY <1>3 DEF ShiftRight
<1> HIDE DEF s
<1>5. s[0] = n
  BY <1>4
<1>6. \A l \in Nat : s[l + 1] = s[l] \div 2
  BY <1>4
<1>7. \A l \in Nat : s[l] \in Nat
  <2>1. \A l \in Nat : s[l] \in Nat => s[l + 1] \in Nat
    BY <1>6, Halving
  <2>2. QED
    BY <1>5, <2>1, Stays
<1>8. QED
  BY <1>5, <1>6, <1>7 DEF s

LEMMA ShiftLeftDef ==
  ASSUME NEW n \in Nat
  PROVE  /\ ShiftLeft(n)[0] = n
         /\ \A l \in Nat : ShiftLeft(n)[l + 1] = 2 * ShiftLeft(n)[l]
         /\ \A l \in Nat : ShiftLeft(n)[l] \in Nat
<1> DEFINE F == [p \in Nat \X Nat |-> 2 * p[2]]
<1>1. F \in [Nat \X Nat -> Nat]
  OBVIOUS
<1>2. PICK r : Solves(r, Nat, n, F)
  <2> HIDE DEF F
  <2>1. QED
    BY <1>1, Recursion
<1>3. r = [l \in Nat |-> IF l = 0 THEN n ELSE 2 * r[l - 1]]
  <2>1. ASSUME NEW l \in Nat, l # 0 PROVE r[l] = 2 * r[l - 1]
    <3>1. l - 1 \in Nat /\ (l - 1) + 1 = l
      BY <2>1
    <3>2. r[(l - 1) + 1] = 2 * r[l - 1]
      BY <1>2, <3>1 DEF Solves
    <3>3. QED
      BY <3>1, <3>2
  <2>2. QED
    BY <1>2, <2>1 DEF Solves
<1> DEFINE s == ShiftLeft(n)
<1>4. s = [l \in Nat |-> IF l = 0 THEN n ELSE 2 * s[l - 1]]
  BY <1>3 DEF ShiftLeft
<1> HIDE DEF s
<1>5. s[0] = n
  BY <1>4
<1>6. \A l \in Nat : s[l + 1] = 2 * s[l]
  BY <1>4
<1>7. \A l \in Nat : s[l] \in Nat
  <2>1. \A l \in Nat : s[l] \in Nat => s[l + 1] \in Nat
    BY <1>6
  <2>2. QED
    BY <1>5, <2>1, Stays
<1>8. QED
  BY <1>5, <1>6, <1>7 DEF s

LEMMA ZerosDef ==
  /\ Zeros[0] = 0
  /\ \A l \in Nat : Zeros[l + 1] = Hash(Zeros[l], Zeros[l])
  /\ \A l \in Nat : Zeros[l] \in Field
<1> DEFINE F == [p \in Nat \X Field |-> Hash(p[2], p[2])]
<1>1. F \in [Nat \X Field -> Field] /\ 0 \in Field
  BY HashAssumption
<1>2. PICK r : Solves(r, Field, 0, F)
  <2> HIDE DEF F
  <2>1. QED
    BY <1>1, Recursion
<1>3. r = [l \in Nat |-> IF l = 0 THEN 0 ELSE Hash(r[l - 1], r[l - 1])]
  <2>1. ASSUME NEW l \in Nat, l # 0 PROVE r[l] = Hash(r[l - 1], r[l - 1])
    <3>1. l - 1 \in Nat /\ (l - 1) + 1 = l
      BY <2>1
    <3>2. r[(l - 1) + 1] = Hash(r[l - 1], r[l - 1])
      BY <1>2, <3>1 DEF Solves
    <3>3. QED
      BY <3>1, <3>2
  <2>2. QED
    BY <1>2, <2>1 DEF Solves
<1>4. Zeros = [l \in Nat |-> IF l = 0 THEN 0 ELSE Hash(Zeros[l - 1], Zeros[l - 1])]
  BY <1>3 DEF Zeros
<1>5. Zeros[0] = 0
  BY <1>4
<1>6. \A l \in Nat : Zeros[l + 1] = Hash(Zeros[l], Zeros[l])
  BY <1>4
<1>7. \A l \in Nat : Zeros[l] \in Field
  <2>1. \A l \in Nat : Zeros[l] \in Field => Zeros[l + 1] \in Field
    BY <1>6, HashAssumption
  <2>2. QED
    BY <1>1, <1>5, <2>1, Stays
<1>8. QED
  BY <1>5, <1>6, <1>7

LEMMA LeafType ==
  ASSUME NEW added \in Seq(Field), NEW i \in Nat
  PROVE  LeafAt(added, i) \in Field
<1>1. CASE i < Len(added)
  <2>1. i + 1 \in 1..Len(added)
    BY <1>1
  <2>2. QED
    BY <1>1, <2>1 DEF LeafAt
<1>2. CASE ~(i < Len(added))
  BY <1>2, HashAssumption DEF LeafAt
<1>3. QED
  BY <1>1, <1>2

Levels == [Nat -> Field]

LEMMA TreeDef ==
  ASSUME NEW added \in Seq(Field)
  PROVE  /\ \A i \in Nat : Tree(added)[0][i] = LeafAt(added, i)
         /\ \A l, i \in Nat : Tree(added)[l + 1][i]
              = Hash(Tree(added)[l][2 * i], Tree(added)[l][2 * i + 1])
         /\ \A l, i \in Nat : Tree(added)[l][i] \in Field
<1> DEFINE bottom == [i \in Nat |-> LeafAt(added, i)]
<1> DEFINE Above(v) == [i \in Nat |-> Hash(v[2 * i], v[2 * i + 1])]
<1> DEFINE F == [p \in Nat \X Levels |-> Above(p[2])]
<1>1. bottom \in Levels
  BY LeafType DEF Levels
<1>2. ASSUME NEW v \in Levels PROVE Above(v) \in Levels
  <2>1. \A i \in Nat : v[2 * i] \in Field /\ v[2 * i + 1] \in Field
    BY DEF Levels
  <2>2. QED
    BY <2>1, HashAssumption DEF Levels
<1>3. F \in [Nat \X Levels -> Levels]
  <2> HIDE DEF Above
  <2>1. QED
    BY <1>2
<1>4. PICK r : Solves(r, Levels, bottom, F)
  <2> HIDE DEF F, bottom
  <2>1. QED
    BY <1>1, <1>3, Recursion
<1>5. r = [l \in Nat |-> [i \in Nat |-> IF l = 0 THEN LeafAt(added, i)
                                       ELSE Hash(r[l - 1][2 * i], r[l - 1][2 * i + 1])]]
  <2>1. r[0] = [i \in Nat |-> LeafAt(added, i)]
    BY <1>4 DEF Solves
  <2>2. ASSUME NEW l \in Nat, l # 0 PROVE r[l] = Above(r[l - 1])
    <3>1. l - 1 \in Nat /\ (l - 1) + 1 = l
      BY <2>2
    <3>2. r[l - 1] \in Levels /\ r[(l - 1) + 1] = F[<<l - 1, r[l - 1]>>]
      BY <1>4, <3>1 DEF Solves
    <3>3. F[<<l - 1, r[l - 1]>>] = Above(r[l - 1])
      <4> HIDE DEF Above
      <4>1. QED
        BY <3>1, <3>2
    <3>4. QED
      BY <3>1, <3>2, <3>3
  <2>3. ASSUME NEW l \in Nat
        PROVE  r[l] = [i \in Nat |-> IF l = 0 THEN LeafAt(added, i)
                                     ELSE Hash(r[l - 1][2 * i], r[l - 1][2 * i + 1])]
    <3>1. CASE l = 0
      BY <2>1, <3>1
    <3>2. CASE l # 0
      BY <2>2, <3>2
    <3>3. QED
      BY <3>1, <3>2
  <2>4. r = [l \in Nat |-> r[l]]
    BY <1>4 DEF Solves
  <2>5. QED
    BY <2>3, <2>4
<1> DEFINE t == Tree(added)
<1>6. t = [l \in Nat |-> [i \in Nat |-> IF l = 0 THEN LeafAt(added, i)
                                       ELSE Hash(t[l - 1][2 * i], t[l - 1][2 * i + 1])]]
  BY <1>5 DEF Tree
<1> HIDE DEF t
<1>7. t[0] = bottom
  BY <1>6
<1>8. ASSUME NEW l \in Nat PROVE t[l + 1] = Above(t[l])
  <2>1. l + 1 \in Nat /\ l + 1 # 0 /\ (l + 1) - 1 = l
    OBVIOUS
  <2>2. QED
    BY <1>6, <2>1
<1>9. \A l \in Nat : t[l] \in Levels
  <2>1. \A l \in Nat : t[l] \in Levels => t[l + 1] \in Levels
    <3> HIDE DEF Above
    <3>1. QED
      BY <1>2, <1>8
  <2>2. t[0] \in Levels
    BY <1>1, <1>7
  <2>3. QED
    BY <2>1, <2>2, Stays
<1>10. QED
  BY <1>7, <1>8, <1>9 DEF t, Levels

LEMMA ClientTreeDef ==
  ASSUME NEW added \in Seq(Field)
  PROVE  /\ \A i \in Nat : ClientTree(added)[0][i] = LeafAt(added, i)
         /\ \A l, i \in Nat : ClientTree(added)[l + 1][i]
              = IF ShiftLeft(i)[l + 1] > Len(added) - 1 THEN Zeros[l + 1]
                ELSE Hash(ClientTree(added)[l][2 * i], ClientTree(added)[l][2 * i + 1])
<1> DEFINE bottom == [i \in Nat |-> LeafAt(added, i)]
<1> DEFINE Above(l, v) ==
      [i \in Nat |-> IF ShiftLeft(i)[l] > Len(added) - 1 THEN Zeros[l]
                     ELSE Hash(v[2 * i], v[2 * i + 1])]
<1> DEFINE F == [p \in Nat \X Levels |-> Above(p[1] + 1, p[2])]
<1>1. bottom \in Levels
  BY LeafType DEF Levels
<1>2. ASSUME NEW v \in Levels, NEW l \in Nat PROVE Above(l, v) \in Levels
  <2>1. \A i \in Nat : v[2 * i] \in Field /\ v[2 * i + 1] \in Field
    BY DEF Levels
  <2>2. Zeros[l] \in Field
    BY ZerosDef
  <2>3. QED
    BY <2>1, <2>2, HashAssumption DEF Levels
<1>3. F \in [Nat \X Levels -> Levels]
  <2> HIDE DEF Above
  <2>1. QED
    BY <1>2
<1>4. PICK r : Solves(r, Levels, bottom, F)
  <2> HIDE DEF F, bottom
  <2>1. QED
    BY <1>1, <1>3, Recursion
<1> DEFINE Body(q, l) ==
      [i \in Nat |->
         IF l = 0 THEN LeafAt(added, i)
         ELSE IF ShiftLeft(i)[l] > Len(added) - 1 THEN Zeros[l]
         ELSE Hash(q[l - 1][2 * i], q[l - 1][2 * i + 1])]
<1>5. r = [l \in Nat |-> Body(r, l)]
  <2>1. r[0] = bottom
    BY <1>4 DEF Solves
  <2>2. ASSUME NEW l \in Nat, l # 0 PROVE r[l] = Above(l, r[l - 1])
    <3>1. l - 1 \in Nat /\ (l - 1) + 1 = l
      BY <2>2
    <3>2. r[l - 1] \in Levels /\ r[(l - 1) + 1] = F[<<l - 1, r[l - 1]>>]
      BY <1>4, <3>1 DEF Solves
    <3>3. F[<<l - 1, r[l - 1]>>] = Above((l - 1) + 1, r[l - 1])
      <4> HIDE DEF Above
      <4>1. QED
        BY <3>1, <3>2
    <3> HIDE DEF Above, F
    <3>4. QED
      BY <3>1, <3>2, <3>3
  <2>3. ASSUME NEW l \in Nat PROVE r[l] = Body(r, l)
    <3>1. CASE l = 0
      BY <2>1, <3>1
    <3>2. CASE l # 0
      BY <2>2, <3>2
    <3>3. QED
      BY <3>1, <3>2
  <2>4. r = [l \in Nat |-> r[l]]
    BY <1>4 DEF Solves
  <2> HIDE DEF Body
  <2>5. QED
    BY <2>3, <2>4
<1> DEFINE t == ClientTree(added)
<1>6. t = [l \in Nat |-> Body(t, l)]
  BY <1>5 DEF ClientTree
<1> HIDE DEF t
<1>7. t[0] = bottom
  BY <1>6
<1>8. ASSUME NEW l \in Nat PROVE t[l + 1] = Above(l + 1, t[l])
  <2>1. l + 1 \in Nat /\ l + 1 # 0 /\ (l + 1) - 1 = l
    OBVIOUS
  <2>2. t[l + 1] = Body(t, l + 1)
    <3> HIDE DEF Body
    <3>1. QED
      BY <1>6
  <2>3. QED
    BY <2>2, <2>1
<1>9. QED
  BY <1>7, <1>8 DEF t

\* A function on the levels of a path, defined from the bottom up.
LEMMA ClimbDef ==
  ASSUME NEW n \in Nat, NEW depth \in Nat, NEW leaf \in Field,
         NEW fill \in [0..(depth - 1) -> Field]
  PROVE  /\ Climb(fill, n, leaf, depth)[0] = leaf
         /\ \A l \in 0..(depth - 1) : Climb(fill, n, leaf, depth)[l + 1]
              = IF IsLeft(ShiftRight(n)[l])
                THEN Hash(Climb(fill, n, leaf, depth)[l], Zeros[l])
                ELSE Hash(fill[l], Climb(fill, n, leaf, depth)[l])
         /\ \A l \in 0..depth : Climb(fill, n, leaf, depth)[l] \in Field
<1> DEFINE Above(l, v) == IF IsLeft(ShiftRight(n)[l]) THEN Hash(v, Zeros[l])
                                                      ELSE Hash(fill[l], v)
<1> DEFINE F == [p \in Nat \X Field |-> IF p[1] < depth THEN Above(p[1], p[2]) ELSE 0]
<1>1. ASSUME NEW l \in 0..(depth - 1), NEW v \in Field PROVE Above(l, v) \in Field
  <2>1. Zeros[l] \in Field /\ fill[l] \in Field
    BY ZerosDef
  <2>2. QED
    BY <2>1, HashAssumption
<1>2. F \in [Nat \X Field -> Field]
  <2> HIDE DEF Above
  <2>1. QED
    BY <1>1, HashAssumption
<1>3. PICK r : Solves(r, Field, leaf, F)
  <2> HIDE DEF F
  <2>1. QED
    BY <1>2, Recursion
<1> DEFINE q == [l \in 0..depth |-> r[l]]
<1> DEFINE Body(c, l) == IF l = 0 THEN leaf
                         ELSE IF IsLeft(ShiftRight(n)[l - 1]) THEN Hash(c[l - 1], Zeros[l - 1])
                                                              ELSE Hash(fill[l - 1], c[l - 1])
<1>4. q = [l \in 0..depth |-> Body(q, l)]
  <2>1. ASSUME NEW l \in 0..depth, l # 0 PROVE r[l] = Above(l - 1, r[l - 1])
    <3>1. l - 1 \in Nat /\ (l - 1) + 1 = l /\ l - 1 < depth
      BY <2>1
    <3>2. r[l - 1] \in Field /\ r[(l - 1) + 1] = F[<<l - 1, r[l - 1]>>]
      BY <1>3, <3>1 DEF Solves
    <3>3. F[<<l - 1, r[l - 1]>>] = Above(l - 1, r[l - 1])
      <4> HIDE DEF Above
      <4>1. QED
        BY <3>1, <3>2
    <3> HIDE DEF Above, F
    <3>4. QED
      BY <3>1, <3>2, <3>3
  <2>2. ASSUME NEW l \in 0..depth PROVE q[l] = Body(q, l)
    <3>1. CASE l = 0
      BY <1>3, <3>1 DEF Solves
    <3>2. CASE l # 0
      <4>1. l - 1 \in 0..depth
        BY <3>2
      <4>2. QED
        BY <2>1, <3>2, <4>1
    <3>3. QED
      BY <3>1, <3>2
  <2>3. q = [l \in 0..depth |-> q[l]]
    OBVIOUS
  <2> HIDE DEF Body, q
  <2>4. QED
    BY <2>2, <2>3
<1> DEFINE c == Climb(fill, n, leaf, depth)
<1>5. c = [l \in 0..depth |-> Body(c, l)]
  <2> HIDE DEF q
  <2>1. QED
    BY <1>4 DEF Climb
<1> HIDE DEF c
<1>6. c[0] = leaf
  BY <1>5
<1>7. ASSUME NEW l \in 0..(depth - 1) PROVE c[l + 1] = Above(l, c[l])
  <2>1. l + 1 \in 0..depth /\ l + 1 # 0 /\ (l + 1) - 1 = l
    OBVIOUS
  <2>2. c[l + 1] = Body(c, l + 1)
    <3> HIDE DEF Body
    <3>1. QED
      BY <1>5, <2>1
  <2>3. QED
    BY <2>2, <2>1
<1>8. \A l \in 0..depth : c[l] \in Field
  <2> DEFINE T == {l \in Nat : l <= depth => c[l] \in Field}
  <2>1. 0 \in T
    BY <1>6
  <2>2. ASSUME NEW l \in Nat, l \in T PROVE l + 1 \in T
    <3>1. CASE l + 1 <= depth
      <4>1. l \in 0..(depth - 1) /\ c[l] \in Field
        BY <2>2, <3>1
      <4> HIDE DEF Above
      <4>2. QED
        BY <1>1, <1>7, <4>1
    <3>2. CASE ~(l + 1 <= depth)
      BY <3>2
    <3>3. QED
      BY <3>1, <3>2
  <2>3. \A l \in Nat : l \in T
    <3> HIDE DEF T
    <3>1. QED
      BY <2>1, <2>2, NatSetInduction
  <2>4. QED
    BY <2>3
<1>9. QED
  BY <1>6, <1>7, <1>8 DEF c

Path(depth) == [root : Field, elements : [0..(depth - 1) -> Field],
                indices : [0..(depth - 1) -> {0, 1}]]

LEMMA FoldPathDef ==
  ASSUME NEW depth \in Nat, NEW leaf \in Field, NEW path \in Path(depth)
  PROVE  \E cur :
           /\ FoldPath(leaf, path, depth) = cur[depth]
           /\ cur[0] = leaf
           /\ \A l \in 0..(depth - 1) : cur[l + 1]
                = IF path.indices[l] = 0 THEN Hash(cur[l], path.elements[l])
                                         ELSE Hash(path.elements[l], cur[l])
<1> DEFINE Above(l, v) == IF path.indices[l] = 0 THEN Hash(v, path.elements[l])
                                                 ELSE Hash(path.elements[l], v)
<1> DEFINE F == [p \in Nat \X Field |-> IF p[1] < depth THEN Above(p[1], p[2]) ELSE 0]
<1>1. ASSUME NEW l \in 0..(depth - 1), NEW v \in Field PROVE Above(l, v) \in Field
  <2>1. path.elements[l] \in Field
    BY DEF Path
  <2>2. QED
    BY <2>1, HashAssumption
<1>2. F \in [Nat \X Field -> Field]
  <2> HIDE DEF Above
  <2>1. QED
    BY <1>1, HashAssumption
<1>3. PICK r : Solves(r, Field, leaf, F)
  <2> HIDE DEF F
  <2>1. QED
    BY <1>2, Recursion
<1> DEFINE q == [l \in 0..depth |-> r[l]]
<1> DEFINE Body(c, l) ==
      IF l = 0 THEN leaf
      ELSE IF path.indices[l - 1] = 0 THEN Hash(c[l - 1], path.elements[l - 1])
                                      ELSE Hash(path.elements[l - 1], c[l - 1])
<1>4. q = [l \in 0..depth |-> Body(q, l)]
  <2>1. ASSUME NEW l \in 0..depth, l # 0 PROVE r[l] = Above(l - 1, r[l - 1])
    <3>1. l - 1 \in Nat /\ (l - 1) + 1 = l /\ l - 1 < depth
      BY <2>1
    <3>2. r[l - 1] \in Field /\ r[(l - 1) + 1] = F[<<l - 1, r[l - 1]>>]
      BY <1>3, <3>1 DEF Solves
    <3>3. F[<<l - 1, r[l - 1]>>] = Above(l - 1, r[l - 1])
      <4> HIDE DEF Above
      <4>1. QED
        BY <3>1, <3>2
    <3> HIDE DEF Above, F
    <3>4. QED
      BY <3>1, <3>2, <3>3
  <2>2. ASSUME NEW l \in 0..depth PROVE q[l] = Body(q, l)
    <3>1. CASE l = 0
      BY <1>3, <3>1 DEF Solves
    <3>2. CASE l # 0
      <4>1. l - 1 \in 0..depth
        BY <3>2
      <4>2. QED
        BY <2>1, <3>2, <4>1
    <3>3. QED
      BY <3>1, <3>2
  <2>3. q = [l \in 0..depth |-> q[l]]
    OBVIOUS
  <2> HIDE DEF Body, q
  <2>4. QED
    BY <2>2, <2>3
<1> DEFINE cur == CHOOSE c : c = [l \in 0..depth |-> Body(c, l)]
<1>5. cur = [l \in 0..depth |-> Body(cur, l)]
  <2> HIDE DEF q, Body
  <2>1. QED
    BY <1>4
<1>6. FoldPath(leaf, path, depth) = cur[depth]
  BY DEF FoldPath
<1> HIDE DEF cur
<1>7. cur[0] = leaf
  BY <1>5
<1>8. ASSUME NEW l \in 0..(depth - 1) PROVE cur[l + 1] = Above(l, cur[l])
  <2>1. l + 1 \in 0..depth /\ l + 1 # 0 /\ (l + 1) - 1 = l
    OBVIOUS
  <2>2. cur[l + 1] = Body(cur, l + 1)
    <3> HIDE DEF Body
    <3>1. QED
      BY <1>5, <2>1
  <2>3. QED
    BY <2>2, <2>1
<1>9. QED
  BY <1>6, <1>7, <1>8

LEMMA PathIndexDef ==
  ASSUME NEW depth \in Nat, NEW path \in Path(depth)
  PROVE  \E number :
           /\ PathIndex(path, depth) = number[depth]
           /\ number[0] = 0
           /\ \A k \in 0..(depth - 1) :
                number[k + 1] = 2 * number[k] + path.indices[depth - (k + 1)]
<1> DEFINE Above(k, v) == 2 * v + path.indices[depth - (k + 1)]
<1> DEFINE F == [p \in Nat \X Nat |-> IF p[1] < depth THEN Above(p[1], p[2]) ELSE 0]
<1>1. ASSUME NEW k \in 0..(depth - 1), NEW v \in Nat PROVE Above(k, v) \in Nat
  <2>1. depth - (k + 1) \in 0..(depth - 1)
    OBVIOUS
  <2>2. path.indices[depth - (k + 1)] \in {0, 1}
    BY <2>1 DEF Path
  <2>3. QED
    BY <2>2
<1>2. F \in [Nat \X Nat -> Nat]
  <2> HIDE DEF Above
  <2>1. QED
    BY <1>1
<1>3. PICK r : Solves(r, Nat, 0, F)
  <2> HIDE DEF F
  <2>1. QED
    BY <1>2, Recursion
<1> DEFINE q == [k \in 0..depth |-> r[k]]
<1> DEFINE Body(c, k) == IF k = 0 THEN 0 ELSE 2 * c[k - 1] + path.indices[depth - k]
<1>4. q = [k \in 0..depth |-> Body(q, k)]
  <2>1. ASSUME NEW k \in 0..depth, k # 0 PROVE r[k] = Above(k - 1, r[k - 1])
    <3>1. k - 1 \in Nat /\ (k - 1) + 1 = k /\ k - 1 < depth
      BY <2>1
    <3>2. r[k - 1] \in Nat /\ r[(k - 1) + 1] = F[<<k - 1, r[k - 1]>>]
      BY <1>3, <3>1 DEF Solves
    <3>3. F[<<k - 1, r[k - 1]>>] = Above(k - 1, r[k - 1])
      <4> HIDE DEF Above
      <4>1. QED
        BY <3>1, <3>2
    <3> HIDE DEF Above, F
    <3>4. QED
      BY <3>1, <3>2, <3>3
  <2>2. ASSUME NEW k \in 0..depth PROVE q[k] = Body(q, k)
    <3>1. CASE k = 0
      BY <1>3, <3>1 DEF Solves
    <3>2. CASE k # 0
      <4>1. k - 1 \in 0..depth /\ (k - 1) + 1 = k
        BY <3>2
      <4>2. QED
        BY <2>1, <3>2, <4>1
    <3>3. QED
      BY <3>1, <3>2
  <2>3. q = [k \in 0..depth |-> q[k]]
    OBVIOUS
  <2> HIDE DEF Body, q
  <2>4. QED
    BY <2>2, <2>3
<1> DEFINE number == CHOOSE c : c = [k \in 0..depth |-> Body(c, k)]
<1>5. number = [k \in 0..depth |-> Body(number, k)]
  <2> HIDE DEF q, Body
  <2>1. QED
    BY <1>4
<1>6. PathIndex(path, depth) = number[depth]
  BY DEF PathIndex
<1> HIDE DEF number
<1>7. number[0] = 0
  BY <1>5
<1>8. ASSUME NEW k \in 0..(depth - 1) PROVE number[k + 1] = Above(k, number[k])
  <2>1. k + 1 \in 0..depth /\ k + 1 # 0 /\ (k + 1) - 1 = k
    OBVIOUS
  <2>2. number[k + 1] = Body(number, k + 1)
    <3> HIDE DEF Body
    <3>1. QED
      BY <1>5, <2>1
  <2>3. QED
    BY <2>2, <2>1
<1>9. QED
  BY <1>6, <1>7, <1>8

-----------------------------------------------------------------------------
(* Shifts.                                                                 *)

\* Twice a node's number is that of its left child: i << (l + 1) = (2 * i) << l.
LEMMA ShiftLeftDouble ==
  ASSUME NEW i \in Nat
  PROVE  \A l \in Nat : ShiftLeft(i)[l + 1] = ShiftLeft(2 * i)[l]
<1> DEFINE T == {l \in Nat : ShiftLeft(i)[l + 1] = ShiftLeft(2 * i)[l]}
<1>1. 2 * i \in Nat
  OBVIOUS
<1>2. 0 \in T
  <2>1. ShiftLeft(i)[0 + 1] = 2 * ShiftLeft(i)[0] /\ ShiftLeft(i)[0] = i
    BY ShiftLeftDef
  <2>2. ShiftLeft(2 * i)[0] = 2 * i
    BY <1>1, ShiftLeftDef
  <2>3. QED
    BY <2>1, <2>2
<1>3. ASSUME NEW l \in Nat, l \in T PROVE l + 1 \in T
  <2>1. ShiftLeft(i)[(l + 1) + 1] = 2 * ShiftLeft(i)[l + 1]
    BY ShiftLeftDef
  <2>2. ShiftLeft(2 * i)[l + 1] = 2 * ShiftLeft(2 * i)[l]
    BY <1>1, ShiftLeftDef
  <2>3. QED
    BY <1>3, <2>1, <2>2
<1>4. \A l \in Nat : l \in T
  <2> HIDE DEF T
  <2>1. QED
    BY <1>2, <1>3, NatSetInduction
<1>5. QED
  BY <1>4

LEMMA ShiftLeftGrows ==
  ASSUME NEW i \in Nat, NEW j \in Nat, i <= j
  PROVE  \A l \in Nat : ShiftLeft(i)[l] <= ShiftLeft(j)[l]
<1> DEFINE T == {l \in Nat : ShiftLeft(i)[l] <= ShiftLeft(j)[l]}
<1>1. 0 \in T
  BY ShiftLeftDef
<1>2. ASSUME NEW l \in Nat, l \in T PROVE l + 1 \in T
  <2>1. ShiftLeft(i)[l + 1] = 2 * ShiftLeft(i)[l] /\ ShiftLeft(i)[l] \in Nat
    BY ShiftLeftDef
  <2>2. ShiftLeft(j)[l + 1] = 2 * ShiftLeft(j)[l] /\ ShiftLeft(j)[l] \in Nat
    BY ShiftLeftDef
  <2>3. QED
    BY <1>2, <2>1, <2>2
<1>3. \A l \in Nat : l \in T
  <2> HIDE DEF T
  <2>1. QED
    BY <1>1, <1>2, NatSetInduction
<1>4. QED
  BY <1>3

LEMMA ShiftRightGrows ==
  ASSUME NEW m \in Nat, NEW n \in Nat, m <= n
  PROVE  \A l \in Nat : ShiftRight(m)[l] <= ShiftRight(n)[l]
<1> DEFINE T == {l \in Nat : ShiftRight(m)[l] <= ShiftRight(n)[l]}
<1>1. 0 \in T
  BY ShiftRightDef
<1>2. ASSUME NEW l \in Nat, l \in T PROVE l + 1 \in T
  <2>1. ShiftRight(m)[l + 1] = ShiftRight(m)[l] \div 2 /\ ShiftRight(m)[l] \in Nat
    BY ShiftRightDef
  <2>2. ShiftRight(n)[l + 1] = ShiftRight(n)[l] \div 2 /\ ShiftRight(n)[l] \in Nat
    BY ShiftRightDef
  <2>3. QED
    BY <1>2, <2>1, <2>2
<1>3. \A l \in Nat : l \in T
  <2> HIDE DEF T
  <2>1. QED
    BY <1>1, <1>2, NatSetInduction
<1>4. QED
  BY <1>3

\* The next number's node is the same at each level, or the one after it.
LEMMA ShiftRightNext ==
  ASSUME NEW n \in Nat
  PROVE  \A l \in Nat : ShiftRight(n + 1)[l] \in {ShiftRight(n)[l], ShiftRight(n)[l] + 1}
<1> DEFINE T == {l \in Nat : ShiftRight(n + 1)[l] \in {ShiftRight(n)[l], ShiftRight(n)[l] + 1}}
<1>1. 0 \in T
  BY ShiftRightDef
<1>2. ASSUME NEW l \in Nat, l \in T PROVE l + 1 \in T
  <2>1. ShiftRight(n)[l + 1] = ShiftRight(n)[l] \div 2 /\ ShiftRight(n)[l] \in Nat
    BY ShiftRightDef
  <2>2. ShiftRight(n + 1)[l + 1] = ShiftRight(n + 1)[l] \div 2
    BY ShiftRightDef
  <2>3. QED
    BY <1>2, <2>1, <2>2
<1>3. \A l \in Nat : l \in T
  <2> HIDE DEF T
  <2>1. QED
    BY <1>1, <1>2, NatSetInduction
<1>4. QED
  BY <1>3

\* A node is on the way of a number, or left of it, just if the node's first
\* leaf is not after that number.
LEMMA FirstLeaf ==
  ASSUME NEW m \in Nat
  PROVE  \A l \in Nat : \A i \in Nat : i <= ShiftRight(m)[l] <=> ShiftLeft(i)[l] <= m
<1> DEFINE T == {l \in Nat : \A i \in Nat : i <= ShiftRight(m)[l] <=> ShiftLeft(i)[l] <= m}
<1>1. 0 \in T
  BY ShiftRightDef, ShiftLeftDef
<1>2. ASSUME NEW l \in Nat, l \in T PROVE l + 1 \in T
  <2>1. SUFFICES ASSUME NEW i \in Nat
                 PROVE  i <= ShiftRight(m)[l + 1] <=> ShiftLeft(i)[l + 1] <= m
    OBVIOUS
  <2>2. ShiftRight(m)[l + 1] = ShiftRight(m)[l] \div 2 /\ ShiftRight(m)[l] \in Nat
    BY ShiftRightDef
  <2>3. i <= ShiftRight(m)[l + 1] <=> 2 * i <= ShiftRight(m)[l]
    BY <2>2
  <2>4. 2 * i <= ShiftRight(m)[l] <=> ShiftLeft(2 * i)[l] <= m
    BY <1>2
  <2>5. QED
    BY <2>3, <2>4, ShiftLeftDouble
<1>3. \A l \in Nat : l \in T
  <2> HIDE DEF T
  <2>1. QED
    BY <1>1, <1>2, NatSetInduction
<1>4. QED
  BY <1>3

-----------------------------------------------------------------------------
(* The tree.                                                               *)

\* A node under which no leaf is yet is the root of an empty tree.
LEMMA EmptyNodes ==
  ASSUME NEW added \in Seq(Field)
  PROVE  \A l \in Nat : \A i \in Nat :
           ShiftLeft(i)[l] >= Len(added) => Tree(added)[l][i] = Zeros[l]
<1> DEFINE T == {l \in Nat : \A i \in Nat :
                   ShiftLeft(i)[l] >= Len(added) => Tree(added)[l][i] = Zeros[l]}
<1>1. 0 \in T
  <2>1. SUFFICES ASSUME NEW i \in Nat, ShiftLeft(i)[0] >= Len(added)
                 PROVE  Tree(added)[0][i] = Zeros[0]
    OBVIOUS
  <2>2. i >= Len(added) /\ Len(added) \in Nat
    BY <2>1, ShiftLeftDef
  <2>3. LeafAt(added, i) = 0
    BY <2>2 DEF LeafAt
  <2>4. QED
    BY <2>3, TreeDef, ZerosDef
<1>2. ASSUME NEW l \in Nat, l \in T PROVE l + 1 \in T
  <2>1. SUFFICES ASSUME NEW i \in Nat, ShiftLeft(i)[l + 1] >= Len(added)
                 PROVE  Tree(added)[l + 1][i] = Zeros[l + 1]
    OBVIOUS
  <2>2. 2 * i \in Nat /\ 2 * i + 1 \in Nat /\ 2 * i <= 2 * i + 1
    OBVIOUS
  <2>3. ShiftLeft(2 * i)[l] >= Len(added)
    BY <2>1, ShiftLeftDouble
  <2>4. ShiftLeft(2 * i + 1)[l] >= Len(added)
    <3>1. ShiftLeft(2 * i)[l] <= ShiftLeft(2 * i + 1)[l]
      BY <2>2, ShiftLeftGrows
    <3>2. ShiftLeft(2 * i)[l] \in Nat /\ ShiftLeft(2 * i + 1)[l] \in Nat
      BY <2>2, ShiftLeftDef
    <3>3. QED
      BY <2>3, <3>1, <3>2
  <2>5. Tree(added)[l][2 * i] = Zeros[l] /\ Tree(added)[l][2 * i + 1] = Zeros[l]
    BY <1>2, <2>2, <2>3, <2>4
  <2>6. QED
    BY <2>5, TreeDef, ZerosDef
<1>3. \A l \in Nat : l \in T
  <2> HIDE DEF T
  <2>1. QED
    BY <1>1, <1>2, NatSetInduction
<1>4. QED
  BY <1>3

\* The browser, which skips the empty nodes, computes the same tree.
LEMMA ClientTreeIsTree ==
  ASSUME NEW added \in Seq(Field)
  PROVE  \A l \in Nat : \A i \in Nat : ClientTree(added)[l][i] = Tree(added)[l][i]
<1> DEFINE T == {l \in Nat : \A i \in Nat : ClientTree(added)[l][i] = Tree(added)[l][i]}
<1>1. 0 \in T
  BY TreeDef, ClientTreeDef
<1>2. ASSUME NEW l \in Nat, l \in T PROVE l + 1 \in T
  <2>1. SUFFICES ASSUME NEW i \in Nat
                 PROVE  ClientTree(added)[l + 1][i] = Tree(added)[l + 1][i]
    OBVIOUS
  <2>2. CASE ShiftLeft(i)[l + 1] > Len(added) - 1
    <3>1. ShiftLeft(i)[l + 1] >= Len(added)
      <4>1. ShiftLeft(i)[l + 1] \in Nat
        BY ShiftLeftDef
      <4>2. QED
        BY <2>2, <4>1
    <3>2. Tree(added)[l + 1][i] = Zeros[l + 1]
      BY <3>1, EmptyNodes
    <3>3. QED
      BY <2>2, <3>2, ClientTreeDef
  <2>3. CASE ~(ShiftLeft(i)[l + 1] > Len(added) - 1)
    <3>1. 2 * i \in Nat /\ 2 * i + 1 \in Nat
      OBVIOUS
    <3>2. /\ ClientTree(added)[l][2 * i] = Tree(added)[l][2 * i]
          /\ ClientTree(added)[l][2 * i + 1] = Tree(added)[l][2 * i + 1]
      BY <1>2, <3>1
    <3>3. QED
      BY <2>3, <3>2, ClientTreeDef, TreeDef
  <2>4. QED
    BY <2>2, <2>3
<1>3. \A l \in Nat : l \in T
  <2> HIDE DEF T
  <2>1. QED
    BY <1>1, <1>2, NatSetInduction
<1>4. QED
  BY <1>3

\* One more leaf changes only the nodes on its way.
LEMMA OtherNodesStay ==
  ASSUME NEW added \in Seq(Field), NEW leaf \in Field
  PROVE  \A l \in Nat : \A i \in Nat :
           i # ShiftRight(Len(added))[l] =>
             Tree(Append(added, leaf))[l][i] = Tree(added)[l][i]
<1> DEFINE n == Len(added)
<1> DEFINE more == Append(added, leaf)
<1> DEFINE T == {l \in Nat : \A i \in Nat :
                   i # ShiftRight(n)[l] => Tree(more)[l][i] = Tree(added)[l][i]}
<1>1. n \in Nat /\ more \in Seq(Field) /\ Len(more) = n + 1
  OBVIOUS
<1>2. 0 \in T
  <2>1. SUFFICES ASSUME NEW i \in Nat, i # n
                 PROVE  Tree(more)[0][i] = Tree(added)[0][i]
    BY <1>1, ShiftRightDef
  <2>2. LeafAt(more, i) = LeafAt(added, i)
    BY <2>1 DEF LeafAt
  <2>3. Tree(added)[0][i] = LeafAt(added, i)
    BY TreeDef
  <2>4. Tree(more)[0][i] = LeafAt(more, i)
    <3> HIDE DEF more
    <3>1. QED
      BY <1>1, TreeDef
  <2>5. QED
    BY <2>2, <2>3, <2>4
<1>3. ASSUME NEW l \in Nat, l \in T PROVE l + 1 \in T
  <2>1. SUFFICES ASSUME NEW i \in Nat, i # ShiftRight(n)[l + 1]
                 PROVE  Tree(more)[l + 1][i] = Tree(added)[l + 1][i]
    OBVIOUS
  <2>2. ShiftRight(n)[l + 1] = ShiftRight(n)[l] \div 2 /\ ShiftRight(n)[l] \in Nat
    BY <1>1, ShiftRightDef
  <2>3. /\ 2 * i \in Nat /\ 2 * i # ShiftRight(n)[l]
        /\ 2 * i + 1 \in Nat /\ 2 * i + 1 # ShiftRight(n)[l]
    BY <2>1, <2>2
  <2>4. /\ Tree(more)[l][2 * i] = Tree(added)[l][2 * i]
        /\ Tree(more)[l][2 * i + 1] = Tree(added)[l][2 * i + 1]
    BY <1>3, <2>3
  <2>5. Tree(added)[l + 1][i] = Hash(Tree(added)[l][2 * i], Tree(added)[l][2 * i + 1])
    BY TreeDef
  <2>6. Tree(more)[l + 1][i] = Hash(Tree(more)[l][2 * i], Tree(more)[l][2 * i + 1])
    <3> HIDE DEF more
    <3>1. QED
      BY <1>1, TreeDef
  <2>7. QED
    BY <2>4, <2>5, <2>6
<1>4. \A l \in Nat : l \in T
  <2> HIDE DEF T
  <2>1. QED
    BY <1>2, <1>3, NatSetInduction
<1>5. QED
  BY <1>4

\* What the nodes that insert keeps have to be: where the next leaf climbs from
\* the right, the full tree on its left.
Frontier(fill, added, depth) ==
  /\ fill \in [0..(depth - 1) -> Field]
  /\ \A l \in 0..(depth - 1) :
       LET i == ShiftRight(Len(added))[l]
       IN ~IsLeft(i) => fill[l] = Tree(added)[l][i - 1]

\* The nodes insert computes are those of the new tree.
LEMMA ClimbIsTree ==
  ASSUME NEW depth \in Nat, NEW added \in Seq(Field), NEW leaf \in Field,
         NEW fill, Frontier(fill, added, depth)
  PROVE  \A l \in 0..depth :
           Climb(fill, Len(added), leaf, depth)[l]
             = Tree(Append(added, leaf))[l][ShiftRight(Len(added))[l]]
<1> DEFINE n == Len(added)
<1> DEFINE more == Append(added, leaf)
<1> DEFINE at == ShiftRight(n)
<1> DEFINE c == Climb(fill, n, leaf, depth)
<1> DEFINE t == Tree(more)
<1>1. n \in Nat /\ more \in Seq(Field) /\ Len(more) = n + 1
  OBVIOUS
<1>2. fill \in [0..(depth - 1) -> Field]
  BY DEF Frontier
<1>2a. \A l \in 0..(depth - 1) : Climb(fill, Len(added), leaf, depth)[l + 1]
        = IF IsLeft(ShiftRight(Len(added))[l])
          THEN Hash(Climb(fill, Len(added), leaf, depth)[l], Zeros[l])
          ELSE Hash(fill[l], Climb(fill, Len(added), leaf, depth)[l])
  <2>1. PICK i \in Nat : i = Len(added)
    BY <1>1
  <2>2. \A l \in 0..(depth - 1) : Climb(fill, i, leaf, depth)[l + 1]
          = IF IsLeft(ShiftRight(i)[l]) THEN Hash(Climb(fill, i, leaf, depth)[l], Zeros[l])
            ELSE Hash(fill[l], Climb(fill, i, leaf, depth)[l])
    BY <1>2, ClimbDef, ZenonT(40)
  <2>3. QED
    BY <2>1, <2>2
<1> DEFINE T == {l \in Nat : l <= depth => c[l] = t[l][at[l]]}
<1>3. 0 \in T
  <2>1. c[0] = leaf
    BY <1>1, <1>2, ClimbDef
  <2>2. at[0] = n
    BY <1>1, ShiftRightDef
  <2>3. LeafAt(more, n) = leaf
    BY DEF LeafAt
  <2>4. t[0][n] = LeafAt(more, n)
    <3> HIDE DEF more
    <3>1. QED
      BY <1>1, TreeDef
  <2>5. QED
    BY <2>1, <2>2, <2>3, <2>4
<1>4. ASSUME NEW l \in Nat, l \in T PROVE l + 1 \in T
  <2>1. SUFFICES ASSUME l + 1 <= depth PROVE c[l + 1] = t[l + 1][at[l + 1]]
    OBVIOUS
  <2>2. l \in 0..(depth - 1) /\ c[l] = t[l][at[l]]
    BY <1>4, <2>1
  <2>3. at[l] \in Nat /\ at[l + 1] \in Nat /\ at[l + 1] = at[l] \div 2
    <3>1. l + 1 \in Nat
      OBVIOUS
    <3> HIDE DEF n
    <3>2. QED
      BY <1>1, <3>1, ShiftRightDef
  <2>4. c[l + 1] = IF IsLeft(at[l]) THEN Hash(c[l], Zeros[l]) ELSE Hash(fill[l], c[l])
    BY <2>2, <1>2a
  <2>5. t[l + 1][at[l + 1]] = Hash(t[l][2 * at[l + 1]], t[l][2 * at[l + 1] + 1])
    <3> HIDE DEF more, at
    <3>1. QED
      BY <1>1, <2>3, TreeDef
  <2>6. CASE IsLeft(at[l])
    <3>1. 2 * at[l + 1] = at[l]
      <4> HIDE DEF at
      <4>1. QED
        BY <2>3, <2>6 DEF IsLeft
    <3>2. ShiftLeft(at[l] + 1)[l] >= n + 1
      <4>1. at[l] + 1 \in Nat /\ ~(at[l] + 1 <= at[l])
        <5> HIDE DEF at
        <5>1. QED
          BY <2>3
      <4>2. ~(ShiftLeft(at[l] + 1)[l] <= n)
        BY <1>1, <4>1, FirstLeaf
      <4>3. ShiftLeft(at[l] + 1)[l] \in Nat
        BY <4>1, ShiftLeftDef
      <4>4. QED
        BY <1>1, <4>2, <4>3
    <3>3. t[l][at[l] + 1] = Zeros[l]
      <4>1. at[l] + 1 \in Nat
        BY <2>3
      <4> HIDE DEF at, more
      <4>2. QED
        BY <1>1, <3>2, <4>1, EmptyNodes
    <3> HIDE DEF t, c, at
    <3>4. QED
      BY <2>2, <2>4, <2>5, <2>6, <3>1, <3>3
  <2>7. CASE ~IsLeft(at[l])
    <3>1. 2 * at[l + 1] = at[l] - 1 /\ 2 * at[l + 1] + 1 = at[l] /\ at[l] - 1 \in Nat
      <4> HIDE DEF at
      <4>1. QED
        BY <2>3, <2>7, Odd DEF IsLeft
    <3>2. fill[l] = Tree(added)[l][at[l] - 1]
      BY <2>2, <2>7 DEF Frontier
    <3>3. t[l][at[l] - 1] = Tree(added)[l][at[l] - 1]
      <4>1. at[l] - 1 # at[l]
        <5> HIDE DEF at
        <5>1. QED
          BY <2>3
      <4>2. QED
        BY <3>1, <4>1, OtherNodesStay
    <3> HIDE DEF t, c, at
    <3>4. QED
      BY <2>2, <2>4, <2>5, <2>7, <3>1, <3>2, <3>3
  <2>8. QED
    BY <2>6, <2>7
<1>5. \A l \in Nat : l \in T
  <2> HIDE DEF T
  <2>1. QED
    BY <1>3, <1>4, NatSetInduction
<1>6. QED
  BY <1>5

\* insert computes the root of the tree with the new leaf, at any depth that has
\* room for it, and keeps the nodes that the next leaf needs.
THEOREM InsertAddsTheLeaf ==
  ASSUME NEW depth \in Nat, NEW added \in Seq(Field), NEW leaf \in Field,
         NEW fill, Frontier(fill, added, depth),
         ShiftRight(Len(added))[depth] = 0
  PROVE  /\ Insert(fill, Len(added), leaf, depth).root = Root(Append(added, leaf), depth)
         /\ Frontier(Insert(fill, Len(added), leaf, depth).filled, Append(added, leaf), depth)
<1> DEFINE n == Len(added)
<1> DEFINE more == Append(added, leaf)
<1> DEFINE c == Climb(fill, n, leaf, depth)
<1> DEFINE kept == Insert(fill, n, leaf, depth).filled
<1>1. n \in Nat /\ more \in Seq(Field) /\ Len(more) = n + 1
  OBVIOUS
<1>2. fill \in [0..(depth - 1) -> Field]
  BY DEF Frontier
<1>3. \A l \in 0..depth : c[l] = Tree(more)[l][ShiftRight(n)[l]]
  BY ClimbIsTree
<1>4. Insert(fill, n, leaf, depth).root = Root(more, depth)
  <2>1. Insert(fill, n, leaf, depth).root = c[depth]
    BY DEF Insert
  <2>2. QED
    BY <1>3, <2>1 DEF Root
<1>5. kept = [l \in 0..(depth - 1) |-> IF IsLeft(ShiftRight(n)[l]) THEN c[l] ELSE fill[l]]
  BY DEF Insert
<1>6. kept \in [0..(depth - 1) -> Field]
  <2>1. \A l \in 0..(depth - 1) : c[l] \in Field
    <3>1. \A l \in 0..depth : c[l] \in Field
      BY <1>1, <1>2, ClimbDef
    <3>2. QED
      BY <3>1
  <2> HIDE DEF c, kept
  <2>2. QED
    BY <1>2, <1>5, <2>1
<1>7. ASSUME NEW l \in 0..(depth - 1), ~IsLeft(ShiftRight(n + 1)[l])
      PROVE  kept[l] = Tree(more)[l][ShiftRight(n + 1)[l] - 1]
  <2> DEFINE i == ShiftRight(n)[l]
  <2> DEFINE j == ShiftRight(n + 1)[l]
  <2>1. i \in Nat /\ j \in {i, i + 1} /\ l \in Nat
    <3>1. l \in Nat
      OBVIOUS
    <3> HIDE DEF n
    <3>2. ShiftRight(n)[l] \in Nat
      BY <1>1, <3>1, ShiftRightDef
    <3>3. ShiftRight(n + 1)[l] \in {ShiftRight(n)[l], ShiftRight(n)[l] + 1}
      BY <1>1, <3>1, ShiftRightNext
    <3>4. QED
      BY <3>1, <3>2, <3>3
  <2>2. kept[l] = IF IsLeft(i) THEN c[l] ELSE fill[l]
    <3> HIDE DEF kept, c
    <3>1. QED
      BY <1>5
  <2>3. CASE j = i
    <3>1. ~IsLeft(i)
      BY <1>7, <2>3
    <3>2. kept[l] = Tree(added)[l][i - 1]
      <4>1. fill[l] = Tree(added)[l][i - 1]
        BY <3>1 DEF Frontier
      <4>2. QED
        BY <2>2, <3>1, <4>1
    <3>3. i - 1 \in Nat /\ i - 1 # i
      <4> HIDE DEF i, j
      <4>1. QED
        BY <2>1, <3>1 DEF IsLeft
    <3>4. Tree(more)[l][i - 1] = Tree(added)[l][i - 1]
      BY <2>1, <3>3, OtherNodesStay
    <3>5. QED
      BY <2>3, <3>2, <3>4
  <2>4. CASE j = i + 1
    <3>1. IsLeft(i) /\ j - 1 = i
      <4>1. ~IsLeft(j)
        BY <1>7
      <4> HIDE DEF i, j
      <4>2. QED
        BY <2>1, <2>4, <4>1 DEF IsLeft
    <3>2. kept[l] = c[l]
      BY <2>2, <3>1
    <3>3. c[l] = Tree(more)[l][i]
      BY <1>3
    <3>4. QED
      BY <3>1, <3>2, <3>3
  <2>5. QED
    BY <2>1, <2>3, <2>4
<1>8. Frontier(kept, more, depth)
  <2> HIDE DEF kept
  <2>1. QED
    BY <1>1, <1>6, <1>7 DEF Frontier
<1>9. QED
  BY <1>4, <1>8

\* The frontier before the first leaf.
LEMMA EmptyFrontier ==
  ASSUME NEW depth \in Nat
  PROVE  /\ EmptyTree(depth).root = Root(<<>>, depth)
         /\ Frontier(EmptyTree(depth).filled, <<>>, depth)
<1>1. <<>> \in Seq(Field) /\ Len(<<>>) = 0
  OBVIOUS
<1>2. ShiftLeft(0)[depth] \in Nat
  BY ShiftLeftDef
<1>3. Tree(<<>>)[depth][0] = Zeros[depth]
  <2>1. 0 \in Nat /\ ShiftLeft(0)[depth] >= Len(<<>>)
    BY <1>1, <1>2
  <2>2. QED
    BY <1>1, <2>1, EmptyNodes
<1>4. EmptyTree(depth).filled \in [0..(depth - 1) -> Field]
  BY ZerosDef DEF EmptyTree
<1>5. \A l \in Nat : ShiftRight(0)[l] = 0
  <2> DEFINE T == {0}
  <2>1. ShiftRight(0)[0] \in T
    BY ShiftRightDef
  <2>2. \A l \in Nat : ShiftRight(0)[l] \in T => ShiftRight(0)[l + 1] \in T
    BY ShiftRightDef
  <2>3. \A l \in Nat : ShiftRight(0)[l] \in T
    <3> HIDE DEF T
    <3>1. QED
      BY <2>1, <2>2, Stays
  <2>4. QED
    BY <2>3
<1>6. \A l \in 0..(depth - 1) : IsLeft(ShiftRight(0)[l])
  BY <1>5 DEF IsLeft
<1>7. QED
  BY <1>1, <1>3, <1>4, <1>6 DEF Frontier, EmptyTree, Root

\* The indexer, which inserts one leaf after the other, gets the root of the tree.
THEOREM IndexerGetsTheRoot ==
  ASSUME NEW depth \in Nat, NEW added \in Seq(Field),
         \A n \in 0..(Len(added) - 1) : ShiftRight(n)[depth] = 0
  PROVE  /\ AdvancePoolRoots(added, depth).root = Root(added, depth)
         /\ Frontier(AdvancePoolRoots(added, depth).filled, added, depth)
<1> DEFINE N == Len(added)
<1> DEFINE First(n) == SubSeq(added, 1, n)
<1> DEFINE Good(v, n) == /\ v.root = Root(First(n), depth)
                         /\ Frontier(v.filled, First(n), depth)
<1> DEFINE Step(v, n) == Insert(v.filled, n, added[n + 1], depth)
<1>1. N \in Nat /\ First(0) = <<>> /\ First(N) = added
  OBVIOUS
<1>2. Good(EmptyTree(depth), 0)
  BY <1>1, EmptyFrontier
<1>3. ASSUME NEW n \in 0..(N - 1), NEW v, Good(v, n) PROVE Good(Step(v, n), n + 1)
  <2>1. /\ First(n) \in Seq(Field) /\ Len(First(n)) = n /\ added[n + 1] \in Field
        /\ First(n + 1) = Append(First(n), added[n + 1])
    OBVIOUS
  <2>2. ShiftRight(n)[depth] = 0
    OBVIOUS
  <2> HIDE DEF First
  <2>3. PICK sofar \in Seq(Field), leaf \in Field : sofar = First(n) /\ leaf = added[n + 1]
    BY <2>1
  <2>4. Frontier(v.filled, sofar, depth) /\ Len(sofar) = n
    BY <1>3, <2>1, <2>3
  <2>5. ShiftRight(Len(sofar))[depth] = 0
    BY <2>2, <2>4
  <2>6. /\ Insert(v.filled, Len(sofar), leaf, depth).root = Root(Append(sofar, leaf), depth)
        /\ Frontier(Insert(v.filled, Len(sofar), leaf, depth).filled, Append(sofar, leaf), depth)
    BY <2>4, <2>5, InsertAddsTheLeaf
  <2>7. QED
    BY <2>1, <2>3, <2>4, <2>6
<1> DEFINE States == [root : Field, filled : [0..(depth - 1) -> Field]]
<1> DEFINE F == [p \in Nat \X States |-> IF p[1] < N THEN Step(p[2], p[1]) ELSE p[2]]
<1>4. ASSUME NEW n \in 0..(N - 1), NEW v \in States PROVE Step(v, n) \in States
  <2>1. n \in Nat /\ added[n + 1] \in Field /\ v.filled \in [0..(depth - 1) -> Field]
    <3>1. n \in Nat /\ n + 1 \in 1..Len(added)
      BY <1>1
    <3>2. added[n + 1] \in Field
      BY <3>1
    <3>3. v.filled \in [0..(depth - 1) -> Field]
      OBVIOUS
    <3>4. QED
      BY <3>1, <3>2, <3>3
  <2>2. \A l \in 0..depth : Climb(v.filled, n, added[n + 1], depth)[l] \in Field
    BY <2>1, ClimbDef
  <2> DEFINE c == Climb(v.filled, n, added[n + 1], depth)
  <2>3. \A l \in 0..(depth - 1) : c[l] \in Field
    BY <2>2
  <2>4. c[depth] \in Field
    BY <2>2
  <2>5. Step(v, n) = [root |-> c[depth],
                      filled |-> [l \in 0..(depth - 1) |->
                        IF IsLeft(ShiftRight(n)[l]) THEN c[l] ELSE v.filled[l]]]
    BY DEF Insert
  <2> HIDE DEF c, Step
  <2>6. PICK filling : filling = [l \in 0..(depth - 1) |->
                                    IF IsLeft(ShiftRight(n)[l]) THEN c[l] ELSE v.filled[l]]
    OBVIOUS
  <2>7. filling \in [0..(depth - 1) -> Field]
    BY <2>1, <2>3, <2>6
  <2>8. Step(v, n) = [root |-> c[depth], filled |-> filling]
    BY <2>5, <2>6
  <2>9. QED
    BY <2>4, <2>7, <2>8
<1>5. EmptyTree(depth) \in States
  BY ZerosDef DEF EmptyTree
<1>6. F \in [Nat \X States -> States]
  <2> HIDE DEF Step, States
  <2>1. QED
    BY <1>1, <1>4
<1>7. PICK r : Solves(r, States, EmptyTree(depth), F)
  <2> HIDE DEF F, States
  <2>1. QED
    BY <1>5, <1>6, Recursion
<1> DEFINE Body(t, n) == IF n = 0 THEN EmptyTree(depth)
                         ELSE Insert(t[n - 1].filled, n - 1, added[n], depth)
<1> DEFINE q == [n \in 0..N |-> r[n]]
<1>8. q = [n \in 0..N |-> Body(q, n)]
  <2>1. ASSUME NEW n \in 0..N, n # 0 PROVE r[n] = Step(r[n - 1], n - 1)
    <3>1. n - 1 \in Nat /\ (n - 1) + 1 = n /\ n - 1 < N
      BY <2>1
    <3>2. r[n - 1] \in States /\ r[(n - 1) + 1] = F[<<n - 1, r[n - 1]>>]
      BY <1>7, <3>1 DEF Solves
    <3>3. F[<<n - 1, r[n - 1]>>] = Step(r[n - 1], n - 1)
      <4> HIDE DEF Step, States
      <4>1. QED
        BY <3>1, <3>2
    <3> HIDE DEF Step, F
    <3>4. QED
      BY <3>1, <3>2, <3>3
  <2>2. ASSUME NEW n \in 0..N PROVE q[n] = Body(q, n)
    <3>1. CASE n = 0
      BY <1>7, <3>1 DEF Solves
    <3>2. CASE n # 0
      <4>1. n - 1 \in 0..N /\ (n - 1) + 1 = n
        BY <3>2
      <4>2. QED
        BY <2>1, <3>2, <4>1
    <3>3. QED
      BY <3>1, <3>2
  <2>3. q = [n \in 0..N |-> q[n]]
    OBVIOUS
  <2> HIDE DEF Body, q
  <2>4. QED
    BY <2>2, <2>3
<1> DEFINE t == CHOOSE t : t = [n \in 0..N |-> Body(t, n)]
<1>9. t = [n \in 0..N |-> Body(t, n)]
  <2> HIDE DEF q, Body
  <2>1. QED
    BY <1>8
<1>10. AdvancePoolRoots(added, depth) = t[N]
  BY DEF AdvancePoolRoots
<1> HIDE DEF t
<1>11. t[0] = EmptyTree(depth)
  BY <1>1, <1>9
<1>12. ASSUME NEW n \in 0..(N - 1) PROVE t[n + 1] = Step(t[n], n)
  <2>1. n + 1 \in 0..N /\ n + 1 # 0 /\ (n + 1) - 1 = n
    OBVIOUS
  <2>2. t[n + 1] = Body(t, n + 1)
    <3> HIDE DEF Body
    <3>1. QED
      BY <1>9, <2>1
  <2>3. QED
    BY <2>2, <2>1
<1> DEFINE T == {n \in Nat : n <= N => Good(t[n], n)}
<1>13. 0 \in T
  BY <1>2, <1>11
<1>14. ASSUME NEW n \in Nat, n \in T PROVE n + 1 \in T
  <2>1. SUFFICES ASSUME n + 1 <= N PROVE Good(t[n + 1], n + 1)
    OBVIOUS
  <2>2. n \in 0..(N - 1) /\ Good(t[n], n)
    BY <1>14, <2>1
  <2> HIDE DEF Good, Step
  <2>3. QED
    BY <1>3, <1>12, <2>2
<1>15. \A n \in Nat : n \in T
  <2> HIDE DEF T
  <2>1. QED
    BY <1>13, <1>14, NatSetInduction
<1>16. Good(t[N], N)
  BY <1>1, <1>15
<1>17. QED
  BY <1>1, <1>10, <1>16

\* Every leaf can be proved: the path the browser computes for it leads from the
\* leaf to the root of the tree, and its digits are those of its index.
THEOREM PathsLead ==
  ASSUME NEW depth \in Nat, NEW added \in Seq(Field), NEW index \in Nat,
         index < Len(added),
         ShiftRight(Len(added) - 1)[depth] = 0
  PROVE  LET path == MerkleProof(added, index, depth) IN
         /\ path.root = Root(added, depth)
         /\ FoldPath(added[index + 1], path, depth) = Root(added, depth)
         /\ PathIndex(path, depth) = index
<1> DEFINE path == MerkleProof(added, index, depth)
<1> DEFINE at == ShiftRight(index)
<1> DEFINE t == Tree(added)
<1>1. \A l \in Nat : at[l] \in Nat /\ at[l + 1] = at[l] \div 2
  BY ShiftRightDef
<1>2. at[0] = index /\ at[depth] = 0
  <2>1. Len(added) - 1 \in Nat /\ index <= Len(added) - 1
    OBVIOUS
  <2>2. at[depth] <= ShiftRight(Len(added) - 1)[depth]
    BY <2>1, ShiftRightGrows
  <2>3. at[depth] \in Nat
    BY ShiftRightDef
  <2>4. at[0] = index
    BY ShiftRightDef
  <2> HIDE DEF at
  <2>5. QED
    BY <2>2, <2>3, <2>4
<1>3. path.root = Root(added, depth)
  BY ClientTreeIsTree DEF MerkleProof, Root
<1>4. \A l \in 0..(depth - 1) : Beside(at[l]) \in Nat
  <2>1. \A l \in 0..(depth - 1) : at[l] \in Nat
    BY <1>1
  <2> HIDE DEF at
  <2>2. QED
    BY <2>1 DEF Beside, IsLeft
<1>5. \A l \in 0..(depth - 1) : path.elements[l] = t[l][Beside(at[l])]
  <2>1. \A l \in 0..(depth - 1) : path.elements[l] = ClientTree(added)[l][Beside(at[l])]
    BY DEF MerkleProof
  <2> HIDE DEF at, path
  <2>2. QED
    BY <1>4, <2>1, ClientTreeIsTree
<1>6. \A l \in 0..(depth - 1) : path.indices[l] = at[l] % 2
  BY DEF MerkleProof
<1>7. path \in Path(depth)
  <2> DEFINE elements == [l \in 0..(depth - 1) |-> ClientTree(added)[l][Beside(at[l])]]
  <2> DEFINE indices == [l \in 0..(depth - 1) |-> at[l] % 2]
  <2>1. path = [root |-> ClientTree(added)[depth][0], elements |-> elements, indices |-> indices]
    BY DEF MerkleProof
  <2>2. ClientTree(added)[depth][0] \in Field
    <3>1. 0 \in Nat
      OBVIOUS
    <3>2. ClientTree(added)[depth][0] = Tree(added)[depth][0]
      BY <3>1, ClientTreeIsTree
    <3>3. Tree(added)[depth][0] \in Field
      BY <3>1, TreeDef
    <3>4. QED
      BY <3>2, <3>3
  <2>3. elements \in [0..(depth - 1) -> Field]
    <3>1. ASSUME NEW l \in 0..(depth - 1)
          PROVE  ClientTree(added)[l][Beside(at[l])] \in Field
      <4> DEFINE i == Beside(at[l])
      <4>1. l \in Nat /\ i \in Nat
        BY <1>4
      <4> HIDE DEF i
      <4>2. ClientTree(added)[l][i] = Tree(added)[l][i]
        BY <4>1, ClientTreeIsTree
      <4>3. Tree(added)[l][i] \in Field
        BY <4>1, TreeDef
      <4>4. QED
        BY <4>2, <4>3 DEF i
    <3>2. QED
      BY <3>1
  <2>4. indices \in [0..(depth - 1) -> {0, 1}]
    <3>1. ASSUME NEW l \in 0..(depth - 1) PROVE at[l] % 2 \in {0, 1}
      <4>1. at[l] \in Nat
        BY <1>1
      <4> HIDE DEF at
      <4>2. QED
        BY <4>1, Halving
    <3>2. QED
      BY <3>1
  <2> HIDE DEF elements, indices, path
  <2>5. QED
    BY <2>1, <2>2, <2>3, <2>4 DEF Path
<1>8. FoldPath(added[index + 1], path, depth) = Root(added, depth)
  <2> DEFINE leaf == added[index + 1]
  <2>1. leaf \in Field
    OBVIOUS
  <2>2. PICK cur :
           /\ FoldPath(leaf, path, depth) = cur[depth]
           /\ cur[0] = leaf
           /\ \A l \in 0..(depth - 1) : cur[l + 1]
                = IF path.indices[l] = 0 THEN Hash(cur[l], path.elements[l])
                                         ELSE Hash(path.elements[l], cur[l])
    <3> HIDE DEF path, leaf
    <3>1. QED
      BY <1>7, <2>1, FoldPathDef
  <2> DEFINE T == {l \in Nat : l <= depth => cur[l] = t[l][at[l]]}
  <2>3. 0 \in T
    <3>1. t[0][index] = LeafAt(added, index)
      BY TreeDef
    <3>2. LeafAt(added, index) = leaf
      BY DEF LeafAt
    <3>3. QED
      BY <1>2, <2>2, <3>1, <3>2
  <2>4. ASSUME NEW l \in Nat, l \in T PROVE l + 1 \in T
    <3>1. SUFFICES ASSUME l + 1 <= depth PROVE cur[l + 1] = t[l + 1][at[l + 1]]
      OBVIOUS
    <3>2. l \in 0..(depth - 1) /\ cur[l] = t[l][at[l]]
      BY <2>4, <3>1
    <3>3. /\ path.indices[l] = at[l] % 2
          /\ path.elements[l] = t[l][Beside(at[l])]
      BY <1>5, <1>6, <3>2
    <3>4. at[l] \in Nat /\ at[l + 1] \in Nat /\ at[l + 1] = at[l] \div 2
      <4>1. l + 1 \in Nat
        OBVIOUS
      <4> HIDE DEF at
      <4>2. QED
        BY <1>1, <4>1
    <3>5. t[l + 1][at[l + 1]] = Hash(t[l][2 * at[l + 1]], t[l][2 * at[l + 1] + 1])
      <4> HIDE DEF at
      <4>1. QED
        BY <3>4, TreeDef
    <3>6. CASE at[l] % 2 = 0
      <4>1. 2 * at[l + 1] = at[l] /\ Beside(at[l]) = at[l] + 1
        <5> HIDE DEF at
        <5>1. QED
          BY <3>4, <3>6, Halving DEF Beside, IsLeft
      <4>2. cur[l + 1] = Hash(cur[l], path.elements[l])
        BY <2>2, <3>2, <3>3, <3>6
      <4> HIDE DEF t, at, path
      <4>3. QED
        BY <3>2, <3>3, <3>5, <4>1, <4>2
    <3>7. CASE at[l] % 2 # 0
      <4>1. 2 * at[l + 1] = at[l] - 1 /\ 2 * at[l + 1] + 1 = at[l] /\ Beside(at[l]) = at[l] - 1
        <5>1. PICK i \in Nat, half \in Nat : i = at[l] /\ half = at[l + 1]
          BY <3>4
        <5>2. half = i \div 2 /\ i % 2 # 0
          BY <3>4, <3>7, <5>1
        <5> HIDE DEF at
        <5>3. i = 2 * half + 1
          BY <5>2, Halving
        <5>4. Beside(i) = i - 1
          BY <5>2 DEF Beside, IsLeft
        <5>5. 2 * half = i - 1 /\ 2 * half + 1 = i
          BY <5>3
        <5>6. QED
          BY <5>1, <5>4, <5>5
      <4>2. cur[l + 1] = Hash(path.elements[l], cur[l])
        BY <2>2, <3>2, <3>3, <3>7
      <4> HIDE DEF t, at, path
      <4>3. QED
        BY <3>2, <3>3, <3>5, <4>1, <4>2
    <3>8. QED
      BY <3>6, <3>7
  <2>5. \A l \in Nat : l \in T
    <3> HIDE DEF T
    <3>1. QED
      BY <2>3, <2>4, NatSetInduction
  <2>6. cur[depth] = t[depth][at[depth]]
    BY <2>5
  <2>7. QED
    BY <1>2, <2>2, <2>6 DEF Root
<1>9. PathIndex(path, depth) = index
  <2>1. PICK number :
           /\ PathIndex(path, depth) = number[depth]
           /\ number[0] = 0
           /\ \A k \in 0..(depth - 1) :
                number[k + 1] = 2 * number[k] + path.indices[depth - (k + 1)]
    <3> HIDE DEF path
    <3>1. QED
      BY <1>7, PathIndexDef
  <2> DEFINE T == {k \in Nat : k <= depth => number[k] = at[depth - k]}
  <2>2. 0 \in T
    BY <1>2, <2>1
  <2>3. ASSUME NEW k \in Nat, k \in T PROVE k + 1 \in T
    <3>1. SUFFICES ASSUME k + 1 <= depth PROVE number[k + 1] = at[depth - (k + 1)]
      OBVIOUS
    <3> DEFINE l == depth - (k + 1)
    <3>2. /\ k \in 0..(depth - 1) /\ number[k] = at[depth - k]
          /\ l \in 0..(depth - 1) /\ l + 1 = depth - k
      BY <2>3, <3>1
    <3>3. number[k + 1] = 2 * at[l + 1] + path.indices[l]
      BY <2>1, <3>2
    <3>4. path.indices[l] = at[l] % 2
      BY <1>6, <3>2
    <3>5. at[l] \in Nat /\ at[l + 1] = at[l] \div 2
      <4>1. l \in Nat
        BY <3>2
      <4> HIDE DEF at, l
      <4>2. QED
        BY <1>1, <4>1
    <3>6. at[l] = 2 * at[l + 1] + (at[l] % 2)
      <4> HIDE DEF at, l
      <4>1. QED
        BY <3>5, Halving
    <3>7. QED
      BY <3>3, <3>4, <3>6
  <2>4. \A k \in Nat : k \in T
    <3> HIDE DEF T
    <3>1. QED
      BY <2>2, <2>3, NatSetInduction
  <2>5. number[depth] = at[0]
    BY <2>4
  <2>6. QED
    BY <1>2, <2>1, <2>5
<1>10. QED
  BY <1>3, <1>8, <1>9

-----------------------------------------------------------------------------
(* Facts about the operators the actions are built from.                   *)

\* A transfer between funded accounts keeps balances natural.
LEMMA TransferType ==
  ASSUME NEW b \in [Accounts -> Nat], NEW from \in Accounts, NEW to \in Accounts,
         NEW amount \in Nat, b[from] >= amount
  PROVE  Transfer(b, from, to, amount) \in [Accounts -> Nat]
BY DEF Transfer

\* The fee of a natural is a natural.
LEMMA FeeType ==
  ASSUME NEW amount \in Nat
  PROVE  FeeOf(amount) \in Nat
BY DEF FeeOf, DefaultFeeBps, BpsDenominator

\* A settled quote moves its total into the pool and its fee out of it, so the
\* pool keeps the payment.
LEMMA CollectedFacts ==
  ASSUME TypeOK, governed.feeRecipient # Pool, NEW from \in Accounts \ {Pool},
         NEW quote, NEW amount \in Nat, quote.fee = FeeOf(amount),
         quote.total = TotalOf(amount), balance[from] >= quote.total
  PROVE  /\ Collected(from, quote) \in [Accounts -> Nat]
         /\ Collected(from, quote)[Pool] = balance[Pool] + amount
<1>1. /\ FeeOf(amount) \in Nat
      /\ TotalOf(amount) \in Nat
      /\ TotalOf(amount) = amount + FeeOf(amount)
  BY FeeType DEF TotalOf
<1>2. Pool \in Accounts /\ governed.feeRecipient \in Accounts /\ balance \in [Accounts -> Nat]
  BY PoolAssumption DEF TypeOK, Governed
<1> DEFINE b == Transfer(balance, from, Pool, quote.total)
<1>3. b \in [Accounts -> Nat] /\ b[Pool] = balance[Pool] + TotalOf(amount)
  <2>1. b \in [Accounts -> Nat]
    BY <1>1, <1>2, TransferType
  <2>2. b[Pool] = balance[Pool] + TotalOf(amount)
    BY <1>1, <1>2 DEF Transfer
  <2>3. QED
    BY <2>1, <2>2
<1>4. b[Pool] >= quote.fee
  BY <1>1, <1>2, <1>3
<1> HIDE DEF b
<1>5. Transfer(b, Pool, governed.feeRecipient, quote.fee) \in [Accounts -> Nat]
  BY <1>1, <1>2, <1>3, <1>4, TransferType
<1>6. Transfer(b, Pool, governed.feeRecipient, quote.fee)[Pool] = b[Pool] - quote.fee
  BY <1>2, <1>3 DEF Transfer
<1>7. b[Pool] - quote.fee = balance[Pool] + amount
  BY <1>1, <1>2, <1>3
<1>8. QED
  BY <1>5, <1>6, <1>7 DEF Collected, b

\* A new root enters the history and nothing else does.
LEMMA PushRootFacts ==
  ASSUME NEW h \in Seq(Nat), NEW r \in Nat
  PROVE  /\ PushRoot(h, r) \in Seq(Nat)
         /\ \A j \in DOMAIN PushRoot(h, r) :
              PushRoot(h, r)[j] = r \/ \E k \in DOMAIN h : PushRoot(h, r)[j] = h[k]
<1> DEFINE longer == Append(h, r)
<1>1. longer \in Seq(Nat) /\ Len(longer) = Len(h) + 1 /\ Len(h) \in Nat
  OBVIOUS
<1>2. \A j \in 1..Len(longer) : longer[j] = r \/ \E k \in DOMAIN h : longer[j] = h[k]
  OBVIOUS
<1>3. RootHistorySize \in Nat \ {0}
  BY ParameterAssumption
<1>4. CASE Len(longer) > RootHistorySize
  <2> DEFINE from == Len(longer) - RootHistorySize + 1
  <2>1. PushRoot(h, r) = SubSeq(longer, from, Len(longer))
    BY <1>4 DEF PushRoot
  <2>2. from \in 1..Len(longer)
    BY <1>1, <1>3, <1>4
  <2> HIDE DEF longer, from
  <2>3. /\ SubSeq(longer, from, Len(longer)) \in Seq(Nat)
        /\ DOMAIN SubSeq(longer, from, Len(longer)) = 1..(Len(longer) - from + 1)
        /\ \A j \in 1..(Len(longer) - from + 1) :
             SubSeq(longer, from, Len(longer))[j] = longer[from + j - 1]
    <3>1. PICK size \in Nat : size = Len(longer)
      BY <1>1
    <3>2. \A i \in from..size : longer[i] \in Nat
      BY <1>1, <2>2, <3>1
    <3>3. SubSeq(longer, from, size) = [j \in 1..(size - from + 1) |-> longer[from + j - 1]]
      BY <1>1, <2>2, <3>1
    <3>4. size - from + 1 \in Nat
      BY <2>2, <3>1
    <3>5. \A j \in 1..(size - from + 1) : longer[from + j - 1] \in Nat
      BY <2>2, <3>1, <3>2
    <3>6. SubSeq(longer, from, size) \in Seq(Nat)
      BY <3>3, <3>4, <3>5
    <3>7. QED
      BY <3>1, <3>3, <3>6
  <2>4. \A j \in 1..(Len(longer) - from + 1) : from + j - 1 \in 1..Len(longer)
    BY <1>1, <2>2
  <2>5. QED
    BY <1>2, <2>1, <2>3, <2>4
<1>5. CASE ~(Len(longer) > RootHistorySize)
  <2>1. PushRoot(h, r) = longer
    BY <1>5 DEF PushRoot
  <2>2. DOMAIN longer = 1..Len(longer)
    OBVIOUS
  <2>3. QED
    BY <1>1, <1>2, <2>1, <2>2
<1>6. QED
  BY <1>4, <1>5
-----------------------------------------------------------------------------
(* The inductive invariant. TypeOK alone is not inductive: that a withdrawal's
   nullifier and amount are typed needs its root to be of a tree that exists,
   and that a fee leaves the pool needs the recipient to be another account. *)

PoolInv == TypeOK /\ CustodyInv

LEMMA PoolInvInit == Init => PoolInv
<1> SUFFICES ASSUME Init PROVE PoolInv
  OBVIOUS
<1> USE DEF Init
<1>1. TypeOK
  <2>1. governed \in Governed
    BY PoolAssumption, VerifierAssumption DEF Governed
  <2>2. <<>> \in Seq(Notes) /\ <<0>> \in Seq(Nat)
    OBVIOUS
  <2>3. QED
    BY <2>1, <2>2, PoolAssumption DEF TypeOK
<1>2. CustodyInv
  <2>1. DOMAIN leaves = {} /\ DOMAIN roots = {1} /\ roots[1] = 0 /\ Len(leaves) = 0
    OBVIOUS
  <2>2. governed.feeRecipient # Pool
    BY PoolAssumption
  <2>3. QED
    BY <2>1, <2>2 DEF CustodyInv
<1>3. QED
  BY <1>1, <1>2 DEF PoolInv

\* What a deposit does to the note variables, in the terms of the invariant.
LEMMA DepositFacts ==
  ASSUME PoolInv, NEW from \in Accounts \ {Pool}, NEW s \in signatures,
         NEW amount \in Amounts, NEW owner \in Owners, NEW opening \in Amounts,
         Deposit(from, [owner |-> owner, amount |-> opening], amount, s)
  PROVE  /\ amount \in Amounts \ {0}
         /\ opening = amount
         /\ [owner |-> owner, amount |-> opening] \in Notes
         /\ balance' \in [Accounts -> Nat]
         /\ balance'[Pool] = balance[Pool] + amount
         /\ leaves' = Append(leaves, [owner |-> owner, amount |-> opening])
         /\ roots' = PushRoot(roots, Len(leaves) + 1)
<1>1. amount \in Nat /\ amount # 0 /\ opening \in Nat
  <2>1. amount \in 1..U64Max
    BY DEF Deposit
  <2>2. amount \in Nat /\ opening \in Nat
    BY ParameterAssumption
  <2>3. amount # 0
    BY <2>1, <2>2
  <2>4. QED
    BY <2>2, <2>3
<1> USE DEF Deposit
<1>2. opening = amount
  BY DEF DepositProofOk
<1>3. [owner |-> owner, amount |-> opening] \in Notes
  BY <1>1 DEF Notes
<1>4. TypeOK /\ governed.feeRecipient # Pool
  BY DEF PoolInv, CustodyInv
<1>5. s.quote.fee = FeeOf(amount) /\ s.quote.total = TotalOf(amount)
  BY DEF ValidQuote
<1>6. balance[from] >= s.quote.total /\ balance' = Collected(from, s.quote)
  OBVIOUS
<1>7. balance' \in [Accounts -> Nat] /\ balance'[Pool] = balance[Pool] + amount
  BY <1>1, <1>4, <1>5, <1>6, CollectedFacts
<1>8. QED
  BY <1>1, <1>2, <1>3, <1>7

LEMMA DepositPreserves == PoolInv /\ SomeDeposit => PoolInv'
<1> SUFFICES ASSUME PoolInv, NEW from \in Accounts \ {Pool}, NEW s \in signatures,
                    NEW amount \in Amounts, NEW owner \in Owners, NEW opening \in Amounts,
                    Deposit(from, [owner |-> owner, amount |-> opening], amount, s)
             PROVE  PoolInv'
  BY DEF SomeDeposit
<1> DEFINE note == [owner |-> owner, amount |-> opening]
<1>1. /\ amount \in Amounts \ {0} /\ opening = amount /\ note \in Notes
      /\ balance' \in [Accounts -> Nat]
      /\ leaves' = Append(leaves, note)
      /\ roots' = PushRoot(roots, Len(leaves) + 1)
  BY DepositFacts
<1>2. UNCHANGED <<now, paused, signatures, nullifiers, spends, governanceVars>>
  BY DEF Deposit
<1> HIDE DEF note
<1>3. /\ leaves \in Seq(Notes) /\ roots \in Seq(Nat) /\ Len(leaves) \in Nat
  BY DEF PoolInv, TypeOK
<1>4. /\ leaves' \in Seq(Notes) /\ Len(leaves') = Len(leaves) + 1
      /\ DOMAIN leaves = 1..Len(leaves) /\ DOMAIN leaves' = 1..(Len(leaves) + 1)
      /\ \A i \in DOMAIN leaves : leaves'[i] = leaves[i]
      /\ leaves'[Len(leaves) + 1] = note
  BY <1>1, <1>3
<1>5. /\ roots' \in Seq(Nat)
      /\ \A j \in DOMAIN roots' :
           roots'[j] = Len(leaves) + 1 \/ \E k \in DOMAIN roots : roots'[j] = roots[k]
  BY <1>1, <1>3, PushRootFacts
<1>6. TypeOK'
  BY <1>1, <1>2, <1>4, <1>5 DEF PoolInv, TypeOK, governanceVars
<1>7. CustodyInv'
  <2>1. \A i \in DOMAIN leaves' : leaves'[i].amount \in Amounts \ {0}
    <3>1. note.amount = amount
      BY <1>1 DEF note
    <3>2. \A i \in DOMAIN leaves' : i \in DOMAIN leaves \/ i = Len(leaves) + 1
      BY <1>3, <1>4
    <3>3. \A i \in DOMAIN leaves : leaves[i].amount \in Amounts \ {0}
      BY DEF PoolInv, CustodyInv
    <3>4. \A i \in DOMAIN leaves : leaves'[i].amount \in Amounts \ {0}
      BY <1>4, <3>3
    <3>5. leaves'[Len(leaves) + 1].amount \in Amounts \ {0}
      BY <1>1, <1>4, <3>1
    <3>6. QED
      BY <3>2, <3>4, <3>5
  <2>2. \A j \in DOMAIN roots' : roots'[j] \in 0..Len(leaves')
    <3>1. \A k \in DOMAIN roots : roots[k] \in 0..Len(leaves)
      BY DEF PoolInv, CustodyInv
    <3>2. QED
      BY <1>3, <1>4, <1>5, <3>1
  <2>3. \A n \in nullifiers' : \E i \in DOMAIN leaves' : n.element = Nullifier(leaves'[i].owner, i)
    <3> SUFFICES ASSUME NEW n \in nullifiers
                 PROVE  \E i \in DOMAIN leaves' : n.element = Nullifier(leaves'[i].owner, i)
      BY <1>2
    <3>1. PICK i \in DOMAIN leaves : n.element = Nullifier(leaves[i].owner, i)
      BY DEF PoolInv, CustodyInv
    <3>2. i \in DOMAIN leaves' /\ leaves'[i] = leaves[i]
      BY <1>3, <1>4
    <3>3. QED
      BY <3>1, <3>2 DEF Nullifier
  <2>4. /\ (governed.feeRecipient # Pool)'
        /\ (pending # None /\ pending.action.kind = "SetFeeRecipient" =>
              pending.action.value # Pool)'
    BY <1>2 DEF PoolInv, CustodyInv, governanceVars
  <2>5. QED
    BY <2>1, <2>2, <2>3, <2>4 DEF CustodyInv
<1>8. QED
  BY <1>6, <1>7 DEF PoolInv

\* A withdrawal by the holder of leaf i is of an inserted leaf, in full.
LEMMA WithdrawFacts ==
  ASSUME PoolInv, NEW i \in 1..Len(leaves), NEW dest \in Recipients,
         NEW amount \in Amounts, NEW root \in 0..Len(leaves), NEW owner \in Owners,
         NEW carry \in Carries,
         Withdraw(dest, amount, root, Bytes(Nullifier(owner, i), carry))
  PROVE  /\ owner = leaves[i].owner
         /\ amount = leaves[i].amount
         /\ amount \in Nat
         /\ Bytes(Nullifier(leaves[i].owner, i), carry) \notin nullifiers
         /\ nullifiers' = nullifiers \union {Bytes(Nullifier(leaves[i].owner, i), carry)}
         /\ balance' \in [Accounts -> Nat]
         /\ balance'[Pool] = IF dest = Pool THEN balance[Pool] ELSE balance[Pool] - amount
<1> USE DEF Withdraw
<1>1. owner = leaves[i].owner /\ amount = leaves[i].amount
  BY DEF Withdrawable, WithdrawProofOk, Bytes, Nullifier
<1>2. Bytes(Nullifier(leaves[i].owner, i), carry) \notin nullifiers
  BY <1>1 DEF Withdrawable
<1>3. amount \in Nat /\ Pool \in Accounts /\ dest \in Accounts /\ balance \in [Accounts -> Nat]
  BY ParameterAssumption, PoolAssumption DEF PoolInv, TypeOK
<1>4. balance' \in [Accounts -> Nat]
  BY <1>3, TransferType
<1>5. balance'[Pool] = IF dest = Pool THEN balance[Pool] ELSE balance[Pool] - amount
  BY <1>3 DEF Transfer
<1>6. QED
  BY <1>1, <1>2, <1>3, <1>4, <1>5

LEMMA WithdrawPreserves ==
  ASSUME PoolInv, NEW i \in 1..Len(leaves), SomeWithdraw(i)
  PROVE  PoolInv'
<1>1. PICK dest \in Recipients, amount \in Amounts, root \in 0..Len(leaves),
           owner \in Owners, carry \in Carries :
             Withdraw(dest, amount, root, Bytes(Nullifier(owner, i), carry))
  BY DEF SomeWithdraw
<1>2. /\ nullifiers' = nullifiers \union {Bytes(Nullifier(leaves[i].owner, i), carry)}
      /\ balance' \in [Accounts -> Nat]
  BY <1>1, WithdrawFacts
<1>3. UNCHANGED <<now, paused, signatures, leaves, roots, usedQuotes, fees, governanceVars>>
  BY <1>1 DEF Withdraw
<1>4. leaves \in Seq(Notes) /\ i \in DOMAIN leaves /\ leaves[i] \in Notes
  BY DEF PoolInv, TypeOK
<1>5. Bytes(Nullifier(leaves[i].owner, i), carry) \in NullifierBytes
  BY <1>4 DEF Bytes, NullifierBytes, Nullifier, Notes
<1>6. TypeOK'
  BY <1>2, <1>3, <1>5 DEF PoolInv, TypeOK, governanceVars
<1>7. CustodyInv'
  BY <1>2, <1>3, <1>4 DEF PoolInv, CustodyInv, Bytes, governanceVars
<1>8. QED
  BY <1>6, <1>7 DEF PoolInv

\* The quote service signs only for templates, with the key in force.
LEMMA SignQuotePreserves ==
  ASSUME PoolInv, NEW t \in Templates, NEW issuedAt \in now..(now + ServerClockLead),
         SignQuote(t, issuedAt)
  PROVE  PoolInv'
<1> DEFINE lifetime == IF t.channel = "direct" THEN DirectMaxLifetime ELSE AsyncMaxLifetime
           quote == [quote |-> t, issuedAt |-> issuedAt, expiresAt |-> issuedAt + lifetime,
                     key |-> governed.signer]
<1>1. /\ signatures' = signatures \union {quote}
      /\ UNCHANGED <<now, paused, noteVars, governanceVars>>
  BY DEF SignQuote
<1>2. issuedAt \in Nat /\ lifetime \in Nat
  BY ParameterAssumption DEF PoolInv, TypeOK
<1>3. governed.signer \in QuoteKeys
  BY DEF PoolInv, TypeOK, Governed
<1>4. quote \in [quote : Templates, issuedAt : Nat, expiresAt : Nat, key : QuoteKeys]
  BY <1>2, <1>3
<1> HIDE DEF quote
<1>5. TypeOK'
  BY <1>1, <1>4 DEF PoolInv, TypeOK, noteVars, governanceVars
<1>6. CustodyInv'
  BY <1>1 DEF PoolInv, CustodyInv, noteVars, governanceVars
<1>7. QED
  BY <1>5, <1>6 DEF PoolInv

\* The pause switch touches nothing the invariant is about.
LEMMA SetPausedPreserves ==
  ASSUME PoolInv, NEW caller, NEW value \in BOOLEAN, SetPaused(caller, value)
  PROVE  PoolInv'
BY DEF PoolInv, TypeOK, CustodyInv, SetPaused, noteVars, governanceVars

\* A proposal the contract accepts never names the pool as fee recipient.
LEMMA ProposePreserves ==
  ASSUME PoolInv, NEW caller, NEW action \in Proposals, ProposeGovernance(caller, action)
  PROVE  PoolInv'
<1>1. /\ UNCHANGED <<now, paused, signatures, noteVars, governed>>
      /\ nonce' = nonce + 1
      /\ pending' = [id |-> nonce + 1, action |-> action,
                     proposedAt |-> now, executeAt |-> now + Timelock]
      /\ ValidProposal(action)
  BY DEF ProposeGovernance
<1>2. pending' \in PendingGovernance
  <2>1. Timelock \in Nat
    BY ParameterAssumption
  <2>2. QED
    BY <1>1, <2>1 DEF PoolInv, TypeOK, PendingGovernance
<1>3. TypeOK'
  BY <1>1, <1>2 DEF PoolInv, TypeOK, noteVars
<1>4. CustodyInv'
  BY <1>1 DEF PoolInv, CustodyInv, ValidProposal, noteVars
<1>5. QED
  BY <1>3, <1>4 DEF PoolInv

\* What an action writes is of the right kind.
LEMMA AppliedType ==
  ASSUME NEW action \in Proposals, NEW g \in Governed
  PROVE  /\ Applied(action, g) \in Governed
         /\ Applied(action, g).feeRecipient =
              IF action.kind = "SetFeeRecipient" THEN action.value ELSE g.feeRecipient
<1>1. CASE action.kind = "Upgrade" /\ action.value \in CodeHashes
  BY <1>1 DEF Applied, Governed
<1>2. CASE /\ action.kind = "SetVerifierKey"
           /\ action.slot \in VerifierKinds /\ action.value \in VerifierKeys
  <2>1. [g.vk EXCEPT ![action.slot] = action.value] \in [VerifierKinds -> VerifierKeys]
    BY <1>2 DEF Governed
  <2>2. Applied(action, g) = [g EXCEPT !.vk = [@ EXCEPT ![action.slot] = action.value]]
    BY <1>2 DEF Applied
  <2>3. QED
    BY <1>2, <2>1, <2>2 DEF Governed
<1>3. CASE action.kind = "SetAdmin" /\ action.value \in Accounts
  BY <1>3 DEF Applied, Governed
<1>4. CASE action.kind = "SetFeeRecipient" /\ action.value \in Accounts
  BY <1>4 DEF Applied, Governed
<1>5. CASE action.kind = "SetFeeQuoteSigner" /\ action.value \in QuoteKeys
  BY <1>5 DEF Applied, Governed
<1>6. QED
  BY <1>1, <1>2, <1>3, <1>4, <1>5, ProposalAssumption

LEMMA ExecutePreserves ==
  ASSUME PoolInv, NEW caller, NEW id, ExecuteGovernance(caller, id)
  PROVE  PoolInv'
<1>1. /\ pending # None
      /\ governed' = Applied(pending.action, governed)
      /\ pending' = None
      /\ UNCHANGED <<now, paused, signatures, noteVars, nonce>>
  BY DEF ExecuteGovernance, Close
<1>2. pending.action \in Proposals /\ governed \in Governed
  BY <1>1 DEF PoolInv, TypeOK, PendingGovernance
<1>3. /\ governed' \in Governed
      /\ governed'.feeRecipient = IF pending.action.kind = "SetFeeRecipient"
                                  THEN pending.action.value ELSE governed.feeRecipient
  BY <1>1, <1>2, AppliedType
<1>4. TypeOK'
  BY <1>1, <1>3 DEF PoolInv, TypeOK, noteVars
<1>5. CustodyInv'
  BY <1>1, <1>3 DEF PoolInv, CustodyInv, noteVars
<1>6. QED
  BY <1>4, <1>5 DEF PoolInv

LEMMA CancelPreserves ==
  ASSUME PoolInv, NEW caller, NEW id, CancelGovernance(caller, id)
  PROVE  PoolInv'
<1>1. pending' = None /\ UNCHANGED <<now, paused, signatures, noteVars, governed, nonce>>
  BY DEF CancelGovernance, Close
<1>2. QED
  BY <1>1 DEF PoolInv, TypeOK, CustodyInv, noteVars

LEMMA PoolInvNext == PoolInv /\ [Next]_vars => PoolInv'
<1> SUFFICES ASSUME PoolInv, [Next]_vars PROVE PoolInv'
  OBVIOUS
<1>1. CASE Tick
  BY <1>1 DEF Tick, PoolInv, TypeOK, CustodyInv, noteVars, governanceVars
<1>2. CASE \E t \in Templates, issuedAt \in now..(now + ServerClockLead) : SignQuote(t, issuedAt)
  BY <1>2, SignQuotePreserves
<1>3. CASE SomeDeposit
  BY <1>3, DepositPreserves
<1>4. CASE \E i \in 1..Len(leaves) : SomeWithdraw(i)
  BY <1>4, WithdrawPreserves
<1>5. CASE SomeGovernance
  BY <1>5, SetPausedPreserves, ProposePreserves, ExecutePreserves, CancelPreserves
     DEF SomeGovernance
<1>6. CASE UNCHANGED vars
  BY <1>6 DEF vars, PoolInv, TypeOK, CustodyInv, noteVars, governanceVars
<1>7. QED
  BY <1>1, <1>2, <1>3, <1>4, <1>5, <1>6 DEF Next

LEMMA PoolInvariant == Spec => []PoolInv
<1>1. Init => PoolInv
  BY PoolInvInit
<1>2. PoolInv /\ [Next]_vars => PoolInv'
  BY PoolInvNext
<1>3. QED
  BY <1>1, <1>2, PTL DEF Spec

\* Every balance stays natural and every stored value of its kind.
THEOREM PoolTyped == Spec => []TypeOK
<1>1. PoolInv => TypeOK
  BY DEF PoolInv
<1>2. QED
  BY <1>1, PoolInvariant, PTL

\* Whatever is proposed and executed, fees leave the pool, roots are of trees
\* that existed and nullifiers of leaves that were inserted.
THEOREM PoolCustody == Spec => []CustodyInv
<1>1. PoolInv => CustodyInv
  BY DEF PoolInv
<1>2. QED
  BY <1>1, PoolInvariant, PTL
-----------------------------------------------------------------------------
(* Which steps touch which part of the state.                              *)

NoteStep == SomeDeposit \/ \E i \in 1..Len(leaves) : SomeWithdraw(i)

\* Notes move by deposits and withdrawals only, and quotes are never unsigned.
LEMMA NotesMoveByNoteSteps ==
  ASSUME [Next]_vars
  PROVE  /\ NoteStep \/ UNCHANGED noteVars
         /\ signatures \subseteq signatures'
<1>1. CASE SomeDeposit
  <2>1. signatures' = signatures
    BY <1>1 DEF SomeDeposit, Deposit
  <2>2. QED
    BY <1>1, <2>1 DEF NoteStep
<1>2. CASE \E i \in 1..Len(leaves) : SomeWithdraw(i)
  <2>1. signatures' = signatures
    BY <1>2 DEF SomeWithdraw, Withdraw
  <2>2. QED
    BY <1>2, <2>1 DEF NoteStep
<1>3. CASE Tick
  BY <1>3 DEF Tick
<1>4. CASE \E t \in Templates, issuedAt \in now..(now + ServerClockLead) : SignQuote(t, issuedAt)
  BY <1>4 DEF SignQuote
<1>5. CASE SomeGovernance
  BY <1>5 DEF SomeGovernance, SetPaused, ProposeGovernance, ExecuteGovernance, CancelGovernance
<1>6. CASE UNCHANGED vars
  BY <1>6 DEF vars
<1>7. QED
  BY <1>1, <1>2, <1>3, <1>4, <1>5, <1>6 DEF Next
-----------------------------------------------------------------------------
(* Payments out. The events carry exactly the stored bytes, so that a leaf has *)
(* an event when and only when it is spent.                                *)

PaymentRecords == [nullifier : NullifierBytes, dest : Recipients, amount : Amounts]

LEMMA PaymentIsTyped ==
  ASSUME NEW s \in Seq(PaymentRecords)
  PROVE  /\ Len(s) \in Nat /\ DOMAIN s = 1..Len(s)
         /\ \A j \in DOMAIN s : s[j].nullifier \in NullifierBytes /\ s[j].amount \in Nat
<1>1. \A j \in DOMAIN s : s[j] \in PaymentRecords
  OBVIOUS
<1>2. \A r \in PaymentRecords : r.nullifier \in NullifierBytes /\ r.amount \in Nat
  BY ParameterAssumption DEF PaymentRecords
<1>3. QED
  BY <1>1, <1>2

SpendsInv ==
  /\ spends \in Seq(PaymentRecords)
  /\ \A j \in DOMAIN spends : spends[j].nullifier \in nullifiers
  /\ \A n \in nullifiers : \E j \in DOMAIN spends : spends[j].nullifier = n
  /\ BytesPayOnceInFull

\* A withdrawal adds one event of its leaf, under bytes no other event carries.
LEMMA WithdrawEvent ==
  ASSUME PoolInv, SpendsInv, NEW i \in 1..Len(leaves), NEW dest \in Recipients,
         NEW amount \in Amounts, NEW root \in 0..Len(leaves), NEW owner \in Owners,
         NEW carry \in Carries,
         Withdraw(dest, amount, root, Bytes(Nullifier(owner, i), carry)),
         NEW n, n = Bytes(Nullifier(leaves[i].owner, i), carry)
  PROVE  /\ n \in NullifierBytes /\ n \notin nullifiers
         /\ n.element = Nullifier(leaves[i].owner, i)
         /\ leaves' = leaves /\ nullifiers' = nullifiers \union {n}
         /\ Len(spends) \in Nat /\ DOMAIN spends = 1..Len(spends)
         /\ spends' \in Seq(PaymentRecords)
         /\ Len(spends') = Len(spends) + 1 /\ DOMAIN spends' = 1..(Len(spends) + 1)
         /\ \A j \in DOMAIN spends : spends'[j] = spends[j]
         /\ spends'[Len(spends) + 1].nullifier = n
         /\ spends'[Len(spends) + 1].dest = dest
         /\ spends'[Len(spends) + 1].amount = leaves[i].amount
<1> DEFINE event == [nullifier |-> n, dest |-> dest, amount |-> amount]
<1>1. /\ owner = leaves[i].owner /\ amount = leaves[i].amount
      /\ n \notin nullifiers /\ nullifiers' = nullifiers \union {n}
  BY WithdrawFacts
<1>2. spends' = Append(spends, event) /\ leaves' = leaves
  BY <1>1 DEF Withdraw
<1>3. leaves[i] \in Notes /\ spends \in Seq(PaymentRecords)
  BY DEF PoolInv, TypeOK, SpendsInv
<1>4. n \in NullifierBytes /\ n.element = Nullifier(leaves[i].owner, i)
  BY <1>3 DEF Bytes, NullifierBytes, Nullifier, Notes
<1>5. /\ event \in PaymentRecords /\ event.nullifier = n
      /\ event.dest = dest /\ event.amount = leaves[i].amount
  BY <1>1, <1>4 DEF PaymentRecords
<1> HIDE DEF event
<1>6. QED
  BY <1>1, <1>2, <1>3, <1>4, <1>5

LEMMA WithdrawPaysOnce ==
  ASSUME PoolInv, SpendsInv, NEW i \in 1..Len(leaves), SomeWithdraw(i)
  PROVE  SpendsInv'
<1>1. PICK dest \in Recipients, amount \in Amounts, root \in 0..Len(leaves),
           owner \in Owners, carry \in Carries :
             Withdraw(dest, amount, root, Bytes(Nullifier(owner, i), carry))
  BY DEF SomeWithdraw
<1> PICK n : n = Bytes(Nullifier(leaves[i].owner, i), carry)
  OBVIOUS
<1> DEFINE m == Len(spends)
<1>2. /\ n \notin nullifiers /\ n.element = Nullifier(leaves[i].owner, i)
      /\ leaves' = leaves /\ nullifiers' = nullifiers \union {n}
      /\ m \in Nat /\ DOMAIN spends = 1..m
      /\ spends' \in Seq(PaymentRecords) /\ DOMAIN spends' = 1..(m + 1)
      /\ \A j \in DOMAIN spends : spends'[j] = spends[j]
      /\ spends'[m + 1].nullifier = n /\ spends'[m + 1].amount = leaves[i].amount
  BY <1>1, WithdrawEvent
<1> HIDE DEF m
<1>3. DOMAIN spends' = DOMAIN spends \union {m + 1}
  BY <1>2
<1>4. \A j \in DOMAIN spends' : spends'[j].nullifier \in nullifiers'
  BY <1>2, <1>3 DEF SpendsInv
<1>5. \A k \in nullifiers' : \E j \in DOMAIN spends' : spends'[j].nullifier = k
  <2>1. ASSUME NEW k \in nullifiers PROVE \E j \in DOMAIN spends' : spends'[j].nullifier = k
    BY <1>2, <1>3 DEF SpendsInv
  <2>2. QED
    BY <1>2, <1>3, <2>1
<1>6. \A j \in DOMAIN spends' : \E k \in DOMAIN leaves' :
        /\ spends'[j].nullifier.element = Nullifier(leaves'[k].owner, k)
        /\ spends'[j].amount = leaves'[k].amount
  <2>1. i \in DOMAIN leaves
    BY DEF PoolInv, TypeOK
  <2>2. \A j \in DOMAIN spends : \E k \in DOMAIN leaves :
          /\ spends[j].nullifier.element = Nullifier(leaves[k].owner, k)
          /\ spends[j].amount = leaves[k].amount
    BY DEF SpendsInv, BytesPayOnceInFull
  <2>3. QED
    BY <1>2, <1>3, <2>1, <2>2
<1>7. \A j, k \in DOMAIN spends' : spends'[k].nullifier = spends'[j].nullifier => k = j
  <2>1. \A j, k \in DOMAIN spends : spends[k].nullifier = spends[j].nullifier => k = j
    BY DEF SpendsInv, BytesPayOnceInFull
  <2>2. \A j \in DOMAIN spends : spends[j].nullifier # n
    BY <1>2 DEF SpendsInv
  <2>3. QED
    BY <1>2, <1>3, <2>1, <2>2
<1>8. BytesPayOnceInFull'
  BY <1>6, <1>7 DEF BytesPayOnceInFull
<1>9. QED
  BY <1>2, <1>4, <1>5, <1>8 DEF SpendsInv

\* A deposit leaves the leaves that were paid where they are.
LEMMA DepositPaysNobody ==
  ASSUME PoolInv, SpendsInv, SomeDeposit
  PROVE  SpendsInv'
<1>1. PICK from \in Accounts \ {Pool}, s \in signatures, amount \in Amounts,
           owner \in Owners, opening \in Amounts :
             Deposit(from, [owner |-> owner, amount |-> opening], amount, s)
  BY DEF SomeDeposit
<1>2. /\ leaves' = Append(leaves, [owner |-> owner, amount |-> opening])
      /\ spends' = spends /\ nullifiers' = nullifiers
  BY <1>1 DEF Deposit
<1>3. leaves \in Seq(Notes)
  BY DEF PoolInv, TypeOK
<1>4. \A i \in DOMAIN leaves : i \in DOMAIN leaves' /\ leaves'[i] = leaves[i]
  BY <1>2, <1>3
<1>5. QED
  BY <1>2, <1>4 DEF SpendsInv, BytesPayOnceInFull, Nullifier

LEMMA SpendsInvariant == Spec => [](PoolInv /\ SpendsInv)
<1>1. Init => SpendsInv
  BY DEF Init, SpendsInv, BytesPayOnceInFull
<1>2. PoolInv /\ SpendsInv /\ [Next]_vars => SpendsInv'
  <2> SUFFICES ASSUME PoolInv, SpendsInv, [Next]_vars PROVE SpendsInv'
    OBVIOUS
  <2>1. CASE UNCHANGED noteVars
    BY <2>1 DEF noteVars, SpendsInv, BytesPayOnceInFull, Nullifier
  <2>2. QED
    BY <2>1, NotesMoveByNoteSteps, WithdrawPaysOnce, DepositPaysNobody DEF NoteStep
<1>3. QED
  BY <1>1, <1>2, PoolInvariant, PTL DEF Spec

\* Every withdraw event paid the whole principal of a leaf, and no two events
\* carried the same bytes, under whichever roots of the window they were
\* proved.
THEOREM PoolBytesPayOnceInFull == Spec => []BytesPayOnceInFull
<1>1. SpendsInv => BytesPayOnceInFull
  BY DEF SpendsInv
<1>2. QED
  BY <1>1, SpendsInvariant, PTL

\* What was paid again is a sum of naturals.
LEMMA RepaymentsType ==
  ASSUME SpendsInv
  PROVE  Repayments \in [Nat -> Nat]
<1>1. \A j \in DOMAIN spends : spends[j].amount \in Nat
  BY PaymentIsTyped DEF SpendsInv
<1>2. QED
  BY <1>1 DEF Repayments

LEMMA RepaidType ==
  ASSUME SpendsInv
  PROVE  Repaid \in Int
<1> PICK r : r = Repayments
  OBVIOUS
<1>1. r \in [Nat -> Int]
  <2>1. r \in [Nat -> Nat]
    BY RepaymentsType
  <2>2. QED
    BY <2>1
<1>2. Len(spends) \in Nat
  BY DEF SpendsInv
<1>3. QED
  BY <1>1, <1>2, SumsDef DEF Repaid

\* A withdrawal pays again exactly when its leaf was spent and the money leaves.
LEMMA WithdrawRepays ==
  ASSUME PoolInv, SpendsInv, SpendsInv', NEW i \in 1..Len(leaves), NEW dest \in Recipients,
         NEW amount \in Amounts, NEW root \in 0..Len(leaves), NEW owner \in Owners,
         NEW carry \in Carries,
         Withdraw(dest, amount, root, Bytes(Nullifier(owner, i), carry))
  PROVE  /\ Repaid' \in Int /\ Repaid \in Int
         /\ Repaid' = Repaid + (IF dest # Pool /\ Spent(i) THEN leaves[i].amount ELSE 0)
<1> PICK n : n = Bytes(Nullifier(leaves[i].owner, i), carry)
  OBVIOUS
<1> PICK m : m = Len(spends)
  OBVIOUS
<1>1. /\ n \notin nullifiers /\ n.element = Nullifier(leaves[i].owner, i)
      /\ m \in Nat /\ DOMAIN spends = 1..m
      /\ Len(spends') = m + 1 /\ DOMAIN spends' = 1..(m + 1)
      /\ \A j \in 1..m : spends'[j] = spends[j]
      /\ spends'[m + 1].nullifier = n /\ spends'[m + 1].dest = dest
      /\ spends'[m + 1].amount = leaves[i].amount
  BY WithdrawEvent
<1>2. Repayments \in [Nat -> Int] /\ Repayments' \in [Nat -> Int]
  <2>1. Repayments \in [Nat -> Nat]
    BY RepaymentsType
  <2>2. \A j \in DOMAIN spends' : spends'[j].amount \in Nat
    BY PaymentIsTyped DEF SpendsInv
  <2>3. Repayments' \in [Nat -> Nat]
    BY <2>2 DEF Repayments
  <2>4. \A r \in [Nat -> Nat] : r \in [Nat -> Int]
    OBVIOUS
  <2>5. QED
    BY <2>1, <2>3, <2>4
<1>3. \A j \in 1..m : Repayments[j] = Repayments'[j]
  <2> SUFFICES ASSUME NEW j \in 1..m PROVE Repayments[j] = Repayments'[j]
    OBVIOUS
  <2>1. j \in Nat /\ 1..(j - 1) \subseteq 1..m /\ j \in 1..(m + 1)
    BY <1>1
  <2>2. PaidAgain(j)' <=> PaidAgain(j)
    BY <1>1, <2>1 DEF PaidAgain
  <2>3. QED
    BY <1>1, <2>1, <2>2 DEF Repayments
<1>4. PaidAgain(m + 1)' <=> dest # Pool /\ Spent(i)
  <2>1. (\E k \in 1..m : spends[k].nullifier.element = n.element) <=> Spent(i)
    <3>1. ASSUME NEW k \in 1..m, spends[k].nullifier.element = n.element PROVE Spent(i)
      BY <1>1, <3>1 DEF SpendsInv, Spent
    <3>2. ASSUME Spent(i) PROVE \E k \in 1..m : spends[k].nullifier.element = n.element
      BY <1>1, <3>2 DEF SpendsInv, Spent
    <3>3. QED
      BY <3>1, <3>2
  <2>2. \A k \in 1..m : spends[k].nullifier # n
    BY <1>1 DEF SpendsInv
  <2>3. (m + 1) - 1 = m
    BY <1>1
  <2>4. QED
    BY <1>1, <2>1, <2>2, <2>3 DEF PaidAgain
<1>5. Repayments'[m + 1] = IF dest # Pool /\ Spent(i) THEN leaves[i].amount ELSE 0
  BY <1>1, <1>4 DEF Repayments
<1>6. Sums(Repayments)[m] = Sums(Repayments')[m]
  BY <1>1, <1>2, <1>3, SumsAgree
<1>7. /\ Sums(Repayments) \in [Nat -> Int] /\ Sums(Repayments') \in [Nat -> Int]
      /\ Sums(Repayments')[m + 1] = Sums(Repayments')[m] + Repayments'[m + 1]
  BY <1>1, <1>2, SumsDef
<1>8. Repaid = Sums(Repayments)[m] /\ Repaid' = Sums(Repayments')[m + 1]
  BY <1>1 DEF Repaid
<1>9. Repaid \in Int /\ Repaid' \in Int
  <2>1. \A s \in [Nat -> Int] : s[m] \in Int /\ s[m + 1] \in Int
    BY <1>1
  <2>2. Sums(Repayments)[m] \in Int /\ Sums(Repayments')[m + 1] \in Int
    BY <1>7, <2>1
  <2>3. QED
    BY <1>8, <2>2
<1>10. Repaid' = Repaid + Repayments'[m + 1]
  BY <1>6, <1>7, <1>8
<1>11. QED
  BY <1>5, <1>9, <1>10

-----------------------------------------------------------------------------
(* The pool implements the ledger of notes. *)

Principal == [i \in DOMAIN leaves |-> leaves[i].amount]
Redeemed == {i \in DOMAIN leaves : Spent(i)}

\* A note appended to the leaves is an amount appended to the principals.
LEMMA PrincipalAppend ==
  ASSUME NEW s \in Seq(Notes), NEW note \in Notes
  PROVE  [i \in DOMAIN Append(s, note) |-> Append(s, note)[i].amount]
           = Append([i \in DOMAIN s |-> s[i].amount], note.amount)
<1> DEFINE p == [i \in DOMAIN s |-> s[i].amount]
           t == Append(s, note)
           q == [i \in DOMAIN t |-> t[i].amount]
<1>1. /\ Len(s) \in Nat /\ DOMAIN s = 1..Len(s)
      /\ DOMAIN t = 1..(Len(s) + 1)
      /\ \A i \in 1..Len(s) : t[i] = s[i]
      /\ t[Len(s) + 1] = note
  OBVIOUS
<1>2. \A i \in 1..Len(s) : s[i].amount \in Nat
  <2>1. \A i \in 1..Len(s) : s[i] \in Notes
    BY <1>1
  <2>2. \A n \in Notes : n.amount \in Nat
    BY DEF Notes
  <2>3. QED
    BY <2>1, <2>2
<1>3. p \in Seq(Nat) /\ Len(p) = Len(s)
  BY <1>1, <1>2
<1>4. note.amount \in Nat
  BY DEF Notes
<1>5. /\ DOMAIN Append(p, note.amount) = 1..(Len(s) + 1)
      /\ \A i \in 1..Len(s) : Append(p, note.amount)[i] = p[i]
      /\ Append(p, note.amount)[Len(s) + 1] = note.amount
      /\ Append(p, note.amount) = [i \in 1..(Len(s) + 1) |-> Append(p, note.amount)[i]]
  BY <1>3, <1>4
<1>6. \A i \in 1..(Len(s) + 1) : q[i] = Append(p, note.amount)[i]
  <2> SUFFICES ASSUME NEW i \in 1..(Len(s) + 1) PROVE q[i] = Append(p, note.amount)[i]
    OBVIOUS
  <2>1. q[i] = t[i].amount
    BY <1>1
  <2>2. CASE i \in 1..Len(s)
    BY <1>1, <1>5, <2>1, <2>2
  <2>3. CASE i = Len(s) + 1
    BY <1>1, <1>5, <2>1, <2>3
  <2>4. QED
    BY <1>1, <2>2, <2>3
<1>7. q = [i \in 1..(Len(s) + 1) |-> q[i]]
  BY <1>1
<1> HIDE DEF p, q, t
<1>8. q = Append(p, note.amount)
  BY <1>5, <1>6, <1>7
<1>9. QED
  BY <1>8 DEF p, q, t

LEMMA LedgerInit == Init => Ledger!Init
<1> SUFFICES ASSUME Init PROVE Ledger!Init
  OBVIOUS
<1>1. leaves = <<>> /\ DOMAIN leaves = {}
  BY DEF Init
<1>2. Principal = <<>>
  BY <1>1 DEF Principal
<1>3. Redeemed = {}
  BY <1>1 DEF Redeemed
<1>4. balance[Pool] = 0
  BY PoolAssumption DEF Init
<1>5. Repaid = 0
  <2>1. spends = <<>> /\ Len(spends) = 0
    BY DEF Init
  <2>2. Repayments \in [Nat -> Int]
    BY <2>1 DEF Repayments
  <2>3. QED
    BY <2>1, <2>2, SumsDef DEF Repaid
<1>6. QED
  BY <1>2, <1>3, <1>4, <1>5 DEF Ledger!Init, Principal, Redeemed

\* Without a withdraw event nothing is paid again.
LEMMA RepaidStays ==
  ASSUME spends' = spends
  PROVE  Repaid' = Repaid
BY DEF Repaid, Repayments, PaidAgain

\* A deposit adds its note and its money.
LEMMA DepositAdds ==
  PoolInv /\ SpendsInv /\ SomeDeposit => \E amount \in Amounts \ {0} : Ledger!Add(amount)
<1> SUFFICES ASSUME PoolInv, SpendsInv, NEW from \in Accounts \ {Pool}, NEW s \in signatures,
                    NEW amount \in Amounts, NEW owner \in Owners, NEW opening \in Amounts,
                    Deposit(from, [owner |-> owner, amount |-> opening], amount, s)
             PROVE  \E a \in Amounts \ {0} : Ledger!Add(a)
  BY DEF SomeDeposit
<1> DEFINE note == [owner |-> owner, amount |-> opening]
<1>1. /\ amount \in Amounts \ {0} /\ note.amount = amount /\ note \in Notes
      /\ balance'[Pool] = balance[Pool] + amount
      /\ leaves' = Append(leaves, note)
  BY DepositFacts
<1>2. nullifiers' = nullifiers /\ spends' = spends
  BY DEF Deposit
<1> HIDE DEF note
<1>3. leaves \in Seq(Notes)
  BY DEF PoolInv, TypeOK
<1>4. Principal' = Append(Principal, amount)
  BY <1>1, <1>3, PrincipalAppend DEF Principal
<1>5. Redeemed' = Redeemed
  <2>1. /\ DOMAIN leaves = 1..Len(leaves) /\ Len(leaves) \in Nat
        /\ DOMAIN leaves' = 1..(Len(leaves) + 1)
        /\ \A i \in DOMAIN leaves : leaves'[i] = leaves[i]
    BY <1>1, <1>3
  <2>2. \A n \in nullifiers : n.element # Nullifier(leaves'[Len(leaves) + 1].owner, Len(leaves) + 1)
    BY <2>1 DEF Nullifier, PoolInv, CustodyInv
  <2>3. Redeemed' = {i \in DOMAIN leaves' :
                       \E n \in nullifiers : n.element = Nullifier(leaves'[i].owner, i)}
    BY <1>2 DEF Redeemed, Spent, Nullifier
  <2>4. Redeemed = {i \in DOMAIN leaves :
                      \E n \in nullifiers : n.element = Nullifier(leaves[i].owner, i)}
    BY DEF Redeemed, Spent
  <2>5. DOMAIN leaves' = DOMAIN leaves \union {Len(leaves) + 1}
    BY <2>1
  <2>6. QED
    BY <2>1, <2>2, <2>3, <2>4, <2>5
<1>6. /\ balance[Pool] + Repaid \in Int /\ balance[Pool] \in Int /\ Repaid \in Int
      /\ amount \in Int /\ Repaid' = Repaid
  <2>1. Repaid \in Int
    BY RepaidType
  <2>2. QED
    <3>1. balance[Pool] \in Nat /\ amount \in Nat
      BY <1>1, PoolAssumption, ParameterAssumption DEF PoolInv, TypeOK
    <3>2. Repaid' = Repaid
      BY <1>2, RepaidStays
    <3>3. QED
      BY <2>1, <3>1, <3>2
<1>7. balance'[Pool] + Repaid' = (balance[Pool] + Repaid) + amount
  BY <1>1, <1>6
<1>8. Ledger!Add(amount)
  BY <1>4, <1>5, <1>7 DEF Ledger!Add, Principal, Redeemed
<1>9. QED
  BY <1>1, <1>8

\* A withdrawal redeems its leaf, or pays again and leaves the ledger alone.
LEMMA WithdrawRedeems ==
  ASSUME PoolInv, SpendsInv, SpendsInv', NEW i \in 1..Len(leaves), SomeWithdraw(i)
  PROVE  Ledger!Redeem(i) \/ UNCHANGED Ledger!ledgerVars
<1>1. PICK dest \in Recipients, amount \in Amounts, root \in 0..Len(leaves),
           owner \in Owners, carry \in Carries :
             Withdraw(dest, amount, root, Bytes(Nullifier(owner, i), carry))
  BY DEF SomeWithdraw
<1> PICK n : n = Bytes(Nullifier(leaves[i].owner, i), carry)
  OBVIOUS
<1>2. /\ amount = leaves[i].amount /\ amount \in Nat
      /\ nullifiers' = nullifiers \union {n}
      /\ balance'[Pool] = IF dest = Pool THEN balance[Pool] ELSE balance[Pool] - amount
  BY <1>1, WithdrawFacts
<1>3. leaves' = leaves /\ DOMAIN leaves = 1..Len(leaves) /\ Len(leaves) \in Nat
  BY <1>1 DEF Withdraw, PoolInv, TypeOK
<1>4. Principal' = Principal /\ Principal[i] = amount
  BY <1>2, <1>3 DEF Principal
<1>5. \A k \in DOMAIN leaves : Spent(k)' <=> Spent(k) \/ k = i
  <2>1. n.element = <<leaves[i].owner, i>>
    BY DEF Bytes, Nullifier
  <2>2. QED
    BY <1>2, <1>3, <2>1 DEF Spent, Nullifier
<1>6. Redeemed' = Redeemed \union {i}
  BY <1>3, <1>5 DEF Redeemed
<1>7. /\ Repaid \in Int /\ balance[Pool] \in Int
      /\ Repaid' = Repaid + (IF dest # Pool /\ Spent(i) THEN amount ELSE 0)
  <2>1. balance[Pool] \in Int
    BY PoolAssumption DEF PoolInv, TypeOK
  <2>2. QED
    BY <1>1, <1>2, <2>1, WithdrawRepays
<1>8. CASE Spent(i)
  <2>1. Redeemed' = Redeemed
    BY <1>3, <1>6, <1>8 DEF Redeemed
  <2>2. balance'[Pool] + Repaid' = balance[Pool] + Repaid
    BY <1>2, <1>7, <1>8
  <2>3. QED
    BY <1>4, <2>1, <2>2 DEF Ledger!ledgerVars, Principal, Redeemed
<1>9. CASE ~Spent(i)
  <2>1. i \notin Redeemed
    BY <1>9 DEF Redeemed
  <2>2. balance'[Pool] + Repaid'
          \in {(balance[Pool] + Repaid) - Principal[i], balance[Pool] + Repaid}
    BY <1>2, <1>4, <1>7, <1>9
  <2>3. QED
    BY <1>4, <1>6, <2>1, <2>2 DEF Ledger!Redeem, Principal, Redeemed
<1>10. QED
  BY <1>8, <1>9

\* No other step moves a note or the pool's money.
LEMMA LedgerStutters ==
  ASSUME UNCHANGED <<leaves, nullifiers, balance, spends>>
  PROVE  UNCHANGED Ledger!ledgerVars
<1>1. Repaid' = Repaid
  BY RepaidStays
<1>2. QED
  BY <1>1 DEF Ledger!ledgerVars, Spent, Nullifier

LEMMA LedgerNext ==
  PoolInv /\ SpendsInv /\ SpendsInv' /\ [Next]_vars => [Ledger!Next]_(Ledger!ledgerVars)
<1> SUFFICES ASSUME PoolInv, SpendsInv, SpendsInv', [Next]_vars
             PROVE  [Ledger!Next]_(Ledger!ledgerVars)
  OBVIOUS
<1>1. CASE SomeDeposit
  BY <1>1, DepositAdds DEF Ledger!Next
<1>2. CASE \E i \in 1..Len(leaves) : SomeWithdraw(i)
  <2>1. PICK i \in 1..Len(leaves) : Ledger!Redeem(i) \/ UNCHANGED Ledger!ledgerVars
    BY <1>2, WithdrawRedeems
  <2>2. 1..Len(leaves) = DOMAIN [k \in DOMAIN leaves |-> leaves[k].amount]
    BY DEF PoolInv, TypeOK
  <2>3. QED
    BY <2>1, <2>2 DEF Ledger!Next
<1>3. CASE \/ Tick
           \/ \E t \in Templates, issuedAt \in now..(now + ServerClockLead) :
                SignQuote(t, issuedAt)
           \/ SomeGovernance
           \/ UNCHANGED vars
  <2>1. UNCHANGED <<leaves, nullifiers, balance, spends>>
    BY <1>3 DEF Tick, SignQuote, SomeGovernance, SetPaused, ProposeGovernance,
                ExecuteGovernance, CancelGovernance, noteVars, vars
  <2>2. QED
    BY <2>1, LedgerStutters
<1>4. QED
  BY <1>1, <1>2, <1>3 DEF Next

\* Every behaviour of the contract is one of the abstract ledger, once what it
\* pays again under other bytes of a nullifier is added to what it holds:
\* deposits add notes with their money, the first withdrawal of a note redeems
\* it in full, and quotes, pauses and governance touch neither.
THEOREM PoolImplementsLedger == Spec => ImplementsLedger
<1>1. Init => Ledger!Init
  BY LedgerInit
<1>2. PoolInv /\ SpendsInv /\ SpendsInv' /\ [Next]_vars => [Ledger!Next]_(Ledger!ledgerVars)
  BY LedgerNext
<1>3. QED
  BY <1>1, <1>2, SpendsInvariant, PTL DEF Spec, ImplementsLedger, Ledger!Spec

LedgerProofs == INSTANCE NoteLedgerProofs WITH
  Amounts <- Amounts \ {0},
  principal <- [i \in DOMAIN leaves |-> leaves[i].amount],
  redeemed <- {i \in DOMAIN leaves : Spent(i)},
  vault <- balance[Pool] + Repaid

LEMMA LedgerKeepsSolvent == ImplementsLedger => []Solvent
<1>1. Amounts \ {0} \subseteq Nat
  BY ParameterAssumption
<1>2. LedgerProofs!Spec => []LedgerProofs!Solvent
  BY <1>1, LedgerProofs!LedgerSolvent
<1>3. Ledger!Init <=> LedgerProofs!Init
  BY DEF Ledger!Init, LedgerProofs!Init
<1>4. [Ledger!Next]_(Ledger!ledgerVars) <=> [LedgerProofs!Next]_(LedgerProofs!ledgerVars)
  BY DEF Ledger!Next, Ledger!Add, Ledger!Redeem, Ledger!ledgerVars,
         LedgerProofs!Next, LedgerProofs!Add, LedgerProofs!Redeem, LedgerProofs!ledgerVars
<1>5. LedgerProofs!Solvent <=> Solvent
  BY DEF Solvent, Ledger!Solvent, Ledger!Owed, Ledger!Claims, Ledger!Sums,
         LedgerProofs!Solvent, LedgerProofs!Owed, LedgerProofs!Claims, LedgerProofs!Sums
<1>6. QED
  BY <1>2, <1>3, <1>4, <1>5, PTL DEF ImplementsLedger, Ledger!Spec, LedgerProofs!Spec

\* What the pool holds and what it has paid again cover every unspent note, for
\* any accounts, amounts, tree depth and root window, and under any governance
\* short of new code.
THEOREM PoolSolvent == Spec => []Solvent
BY PoolImplementsLedger, LedgerKeepsSolvent, PTL

\* Where a nullifier has one encoding, no event pays a leaf again.
LEMMA NothingPaidAgain ==
  ASSUME Carries = {0}, SpendsInv
  PROVE  Repaid = 0
<1>1. \A j \in DOMAIN spends : ~PaidAgain(j)
  <2> SUFFICES ASSUME NEW j \in DOMAIN spends, PaidAgain(j) PROVE FALSE
    OBVIOUS
  <2>1. /\ DOMAIN spends = 1..Len(spends) /\ Len(spends) \in Nat
        /\ \A k \in DOMAIN spends : spends[k].nullifier \in NullifierBytes
    BY PaymentIsTyped DEF SpendsInv
  <2>2. PICK k \in 1..(j - 1) : spends[k].nullifier.element = spends[j].nullifier.element
    BY DEF PaidAgain
  <2>3. spends[k].nullifier # spends[j].nullifier
    BY DEF PaidAgain
  <2>4. k \in DOMAIN spends
    BY <2>1
  <2>5. \A n, m \in NullifierBytes : n.element = m.element => n = m
    BY DEF NullifierBytes
  <2>6. QED
    BY <2>1, <2>2, <2>3, <2>4, <2>5
<1>2. Repayments = [j \in Nat |-> 0]
  BY <1>1 DEF Repayments
<1>3. Len(spends) \in Nat
  BY DEF SpendsInv
<1>4. Repayments \in [Nat -> Int] /\ \A n \in Nat : Repayments[n] = 0
  BY <1>2
<1> PICK r : r = Repayments
  OBVIOUS
<1>5. \A n \in Nat : Sums(r)[n] = 0
  <2> DEFINE S == {n \in Nat : Sums(r)[n] = 0}
  <2>1. 0 \in S
    BY <1>4, SumsDef
  <2>2. \A n \in Nat : n \in S => n + 1 \in S
    BY <1>4, SumsDef
  <2> HIDE DEF S
  <2>3. \A n \in Nat : n \in S
    BY <2>1, <2>2, NatSetInduction
  <2>4. QED
    BY <2>3 DEF S
<1>6. QED
  BY <1>3, <1>5 DEF Repaid

\* A contract that refused the bytes of a nullifier at or above the field's
\* order, as it refuses those of a commitment, would hold enough for every
\* unspent note on its own.
THEOREM CanonicalPoolSolvent ==
  ASSUME Carries = {0}
  PROVE  Spec => [](balance[Pool] >= Ledger!Owed)
<1>1. PoolInv /\ SpendsInv /\ Solvent => balance[Pool] >= Ledger!Owed
  <2> SUFFICES ASSUME PoolInv, SpendsInv, Solvent PROVE balance[Pool] >= Ledger!Owed
    OBVIOUS
  <2>1. Repaid = 0
    BY NothingPaidAgain
  <2>2. balance[Pool] \in Nat
    BY PoolAssumption DEF PoolInv, TypeOK
  <2>3. QED
    BY <2>1, <2>2 DEF Solvent, Ledger!Solvent
<1>2. QED
  BY <1>1, SpendsInvariant, PoolSolvent, PTL
-----------------------------------------------------------------------------
(* The tree beside the pool. The invariant adds to the pool's that there is
   room for every leaf, that the nodes kept are the ones the next leaf needs,
   and that the last root is of all the leaves. *)

Payable == [owner : Owners, amount : Amounts]

TreeInv ==
  /\ Len(leaves) <= Capacity
  /\ Frontier(filled, Elements(leaves), Depth)
  /\ rootHashes \in Seq(Field)
  /\ Len(rootHashes) = Len(roots)
  /\ Len(roots) > 0
  /\ roots[Len(roots)] = Len(leaves)
  /\ \A j \in DOMAIN roots : rootHashes[j] = Root(FirstElements(roots[j]), Depth)

\* Every leaf of the pool is of an amount the field has an element for.
LEMMA LeavesArePayable ==
  ASSUME PoolInv
  PROVE  leaves \in Seq(Payable)
<1>1. leaves \in Seq(Notes)
  BY DEF PoolInv, TypeOK
<1>2. ASSUME NEW x \in Notes, x.amount \in Amounts PROVE x \in Payable
  BY <1>2 DEF Notes, Payable
<1>3. \A i \in 1..Len(leaves) : leaves[i] \in Notes /\ leaves[i].amount \in Amounts
  BY <1>1 DEF PoolInv, CustodyInv
<1>4. \A i \in 1..Len(leaves) : leaves[i] \in Payable
  BY <1>2, <1>3
<1>5. QED
  BY <1>1, <1>4

LEMMA ElementsType ==
  ASSUME NEW c \in Seq(Payable)
  PROVE  /\ Elements(c) \in Seq(Field)
         /\ Len(Elements(c)) = Len(c)
         /\ \A i \in 1..Len(c) : Elements(c)[i] = FieldOf(c[i])
<1>1. \A i \in 1..Len(c) : FieldOf(c[i]) \in Field
  <2>1. \A x \in Payable : FieldOf(x) \in Field
    BY FieldAssumption DEF Payable
  <2>2. \A i \in 1..Len(c) : c[i] \in Payable
    OBVIOUS
  <2>3. QED
    BY <2>1, <2>2
<1>2. Elements(c) = [i \in 1..Len(c) |-> FieldOf(c[i])] /\ Len(c) \in Nat
  BY DEF Elements
<1>3. QED
  BY <1>1, <1>2

LEMMA ElementsAppend ==
  ASSUME NEW c \in Seq(Payable), NEW x \in Payable
  PROVE  Elements(Append(c, x)) = Append(Elements(c), FieldOf(x))
<1> DEFINE longer == Append(c, x)
<1>1. longer \in Seq(Payable) /\ Len(longer) = Len(c) + 1 /\ Len(c) \in Nat
  OBVIOUS
<1>2. \A i \in 1..Len(longer) : FieldOf(longer[i]) = IF i <= Len(c) THEN FieldOf(c[i]) ELSE FieldOf(x)
  OBVIOUS
<1>3. /\ Elements(longer) \in Seq(Field) /\ Len(Elements(longer)) = Len(longer)
      /\ \A i \in 1..Len(longer) : Elements(longer)[i] = FieldOf(longer[i])
  <2> HIDE DEF longer
  <2>1. QED
    BY <1>1, ElementsType
<1>4. /\ Elements(c) \in Seq(Field) /\ Len(Elements(c)) = Len(c)
      /\ \A i \in 1..Len(c) : Elements(c)[i] = FieldOf(c[i])
  BY ElementsType
<1>5. FieldOf(x) \in Field
  BY FieldAssumption DEF Payable
<1> DEFINE other == Append(Elements(c), FieldOf(x))
<1>6. /\ other \in Seq(Field) /\ Len(other) = Len(c) + 1
      /\ \A i \in 1..(Len(c) + 1) : other[i] = IF i <= Len(c) THEN Elements(c)[i] ELSE FieldOf(x)
  BY <1>1, <1>4, <1>5
<1> HIDE DEF longer, other
<1>7. \A i \in 1..Len(longer) : Elements(longer)[i] = other[i]
  <2> TAKE i \in 1..Len(longer)
  <2>1. Elements(longer)[i] = IF i <= Len(c) THEN FieldOf(c[i]) ELSE FieldOf(x)
    BY <1>2, <1>3
  <2>2. other[i] = IF i <= Len(c) THEN Elements(c)[i] ELSE FieldOf(x)
    BY <1>1, <1>6
  <2>3. i <= Len(c) => Elements(c)[i] = FieldOf(c[i])
    BY <1>1, <1>4
  <2>4. QED
    BY <2>1, <2>2, <2>3
<1>8. Elements(longer) = other
  BY <1>1, <1>3, <1>6, <1>7
<1>9. QED
  BY <1>8 DEF longer, other

\* The root history after a push: as many of the last entries as it may hold.
LEMMA PushRootShifts ==
  ASSUME NEW S, NEW h \in Seq(S), NEW r \in S
  PROVE  LET gone == IF Len(h) + 1 > RootHistorySize THEN Len(h) + 1 - RootHistorySize ELSE 0
         IN /\ gone \in Nat /\ gone <= Len(h)
            /\ PushRoot(h, r) \in Seq(S)
            /\ Len(PushRoot(h, r)) = Len(h) + 1 - gone
            /\ \A j \in 1..(Len(h) + 1 - gone) :
                 PushRoot(h, r)[j] = IF j + gone = Len(h) + 1 THEN r ELSE h[j + gone]
<1> DEFINE longer == Append(h, r)
<1>1. longer \in Seq(S) /\ Len(longer) = Len(h) + 1 /\ Len(h) \in Nat
  OBVIOUS
<1>2. \A j \in 1..Len(longer) : longer[j] = IF j = Len(h) + 1 THEN r ELSE h[j]
  OBVIOUS
<1>3. RootHistorySize \in Nat \ {0}
  BY ParameterAssumption
<1>4. CASE Len(longer) > RootHistorySize
  <2> DEFINE from == Len(longer) - RootHistorySize + 1
  <2>1. PushRoot(h, r) = SubSeq(longer, from, Len(longer))
    BY <1>4 DEF PushRoot
  <2>2. from \in 1..Len(longer) /\ from = Len(h) + 1 - RootHistorySize + 1
    BY <1>1, <1>3, <1>4
  <2> HIDE DEF longer, from
  <2>3. /\ SubSeq(longer, from, Len(longer)) \in Seq(S)
        /\ Len(SubSeq(longer, from, Len(longer))) = Len(longer) - from + 1
        /\ \A j \in 1..(Len(longer) - from + 1) :
             SubSeq(longer, from, Len(longer))[j] = longer[from + j - 1]
    BY <1>1, <2>2
  <2> DEFINE gone == from - 1
  <2>4. /\ gone \in Nat /\ gone <= Len(h) /\ from = gone + 1
        /\ gone = Len(h) + 1 - RootHistorySize /\ Len(h) + 1 > RootHistorySize
    BY <1>1, <1>3, <1>4, <2>2
  <2> HIDE DEF gone
  <2>5. /\ PushRoot(h, r) \in Seq(S) /\ Len(PushRoot(h, r)) = Len(h) + 1 - gone
        /\ \A j \in 1..(Len(h) + 1 - gone) : PushRoot(h, r)[j] = longer[j + gone]
    <3>1. Len(longer) - from + 1 = Len(h) + 1 - gone
      BY <1>1, <2>4
    <3>2. \A j \in 1..(Len(h) + 1 - gone) : from + j - 1 = j + gone
      BY <1>1, <2>4
    <3>3. QED
      BY <2>1, <2>3, <3>1, <3>2
  <2>6. \A j \in 1..(Len(h) + 1 - gone) : j + gone \in 1..Len(longer)
    BY <1>1, <2>4
  <2>7. QED
    BY <1>2, <2>4, <2>5, <2>6
<1>5. CASE ~(Len(longer) > RootHistorySize)
  <2>1. PushRoot(h, r) = longer
    BY <1>5 DEF PushRoot
  <2> HIDE DEF longer
  <2>2. QED
    BY <1>1, <1>2, <1>5, <2>1
<1>6. QED
  BY <1>4, <1>5

\* A tree of this depth has room for leaves with numbers below Capacity.
LEMMA RoomBelowCapacity ==
  ASSUME NEW n \in Nat, n < Capacity
  PROVE  ShiftRight(n)[Depth] = 0
<1>1. Depth \in Nat
  BY ParameterAssumption
<1>2. 1 <= ShiftRight(n)[Depth] <=> ShiftLeft(1)[Depth] <= n
  <2>1. 1 \in Nat
    OBVIOUS
  <2>2. QED
    BY <1>1, <2>1, FirstLeaf
<1>3. ShiftRight(n)[Depth] \in Nat
  BY <1>1, ShiftRightDef
<1>4. Capacity = ShiftLeft(1)[Depth] /\ Capacity \in Nat
  <2>1. 1 \in Nat
    OBVIOUS
  <2>2. QED
    BY <1>1, <2>1, ShiftLeftDef DEF Capacity
<1>5. QED
  BY <1>2, <1>3, <1>4

LEMMA TreeInvInit == TreeInit => TreeInv
<1> SUFFICES ASSUME TreeInit PROVE TreeInv
  OBVIOUS
<1>1. /\ leaves = <<>> /\ roots = <<0>>
      /\ filled = EmptyTree(Depth).filled /\ rootHashes = <<EmptyTree(Depth).root>>
  BY DEF TreeInit, Init
<1>2. Depth \in Nat
  BY ParameterAssumption
<1>3. Elements(leaves) = <<>> /\ FirstElements(0) = <<>>
  BY <1>1 DEF Elements, FirstElements
<1>4. EmptyTree(Depth).root = Root(<<>>, Depth) /\ Frontier(EmptyTree(Depth).filled, <<>>, Depth)
  BY <1>2, EmptyFrontier
<1>5. EmptyTree(Depth).root \in Field
  BY <1>2, ZerosDef DEF EmptyTree
<1>6. Len(leaves) = 0 /\ 0 <= Capacity
  <2>1. 1 \in Nat
    OBVIOUS
  <2>2. Capacity \in Nat
    BY <1>2, <2>1, ShiftLeftDef DEF Capacity
  <2>3. QED
    BY <1>1, <2>2
<1>7. QED
  BY <1>1, <1>3, <1>4, <1>5, <1>6 DEF TreeInv

\* A deposit adds its leaf to the tree and its root to the history.
LEMMA TreeInvDeposit ==
  ASSUME PoolInv, TreeInv, NEW x \in Payable,
         Len(leaves) < Capacity, leaves' = Append(leaves, x),
         roots' = PushRoot(roots, Len(leaves) + 1), InsertLeaf
  PROVE  TreeInv'
<1> DEFINE n == Len(leaves)
<1> DEFINE e == Elements(leaves)
<1> DEFINE more == Append(e, FieldOf(x))
<1> DEFINE new == Insert(filled, n, FieldOf(x), Depth)
<1>1. Depth \in Nat
  BY ParameterAssumption
<1>2. leaves \in Seq(Payable) /\ n \in Nat /\ n < Capacity
  BY LeavesArePayable
<1>3. e \in Seq(Field) /\ Len(e) = n
  BY <1>2, ElementsType
<1>4. FieldOf(x) \in Field
  BY FieldAssumption DEF Payable
<1>5. leaves'[Len(leaves')] = x /\ Len(leaves') = n + 1 /\ leaves' \in Seq(Payable)
  BY <1>2
<1>6. Elements(leaves') = more
  BY <1>2, ElementsAppend
<1>7. filled' = new.filled /\ rootHashes' = PushRoot(rootHashes, new.root)
  BY <1>5 DEF InsertLeaf
<1>8. new.root = Root(more, Depth) /\ Frontier(new.filled, more, Depth)
  <2>1. ShiftRight(n)[Depth] = 0
    BY <1>2, RoomBelowCapacity
  <2>2. Frontier(filled, e, Depth)
    BY DEF TreeInv
  <2> HIDE DEF n, e
  <2>3. QED
    BY <1>1, <1>3, <1>4, <2>1, <2>2, InsertAddsTheLeaf
<1>9. new.root \in Field
  <2>1. more \in Seq(Field)
    BY <1>3, <1>4
  <2>2. Tree(more)[Depth][0] \in Field
    <3>1. 0 \in Nat
      OBVIOUS
    <3> HIDE DEF more
    <3>2. QED
      BY <1>1, <2>1, <3>1, TreeDef
  <2>3. QED
    BY <1>8, <2>2 DEF Root
<1>10. /\ roots \in Seq(Nat) /\ rootHashes \in Seq(Field) /\ Len(rootHashes) = Len(roots)
       /\ Len(roots) \in Nat /\ Len(roots) > 0
       /\ \A j \in 1..Len(roots) : roots[j] \in 0..n
       /\ \A j \in 1..Len(roots) : rootHashes[j] = Root(FirstElements(roots[j]), Depth)
  <2>1. /\ roots \in Seq(Nat) /\ rootHashes \in Seq(Field) /\ Len(rootHashes) = Len(roots)
        /\ Len(roots) > 0
    BY DEF TreeInv, PoolInv, TypeOK
  <2>2. Len(roots) \in Nat /\ DOMAIN roots = 1..Len(roots)
    BY <2>1
  <2>3. \A j \in DOMAIN roots : roots[j] \in 0..n
    BY DEF PoolInv, CustodyInv
  <2>4. \A j \in DOMAIN roots : rootHashes[j] = Root(FirstElements(roots[j]), Depth)
    BY DEF TreeInv
  <2>5. QED
    BY <2>1, <2>2, <2>3, <2>4
<1> DEFINE FirstNew(m) == Elements(SubSeq(leaves', 1, m))
<1>11. \A m \in 0..n : FirstNew(m) = FirstElements(m)
  <2>1. \A m \in 0..n : SubSeq(leaves', 1, m) = SubSeq(leaves, 1, m)
    BY <1>2
  <2>2. QED
    BY <2>1 DEF FirstElements
<1>12. FirstNew(n + 1) = more
  <2>1. SubSeq(leaves', 1, n + 1) = leaves'
    BY <1>2, <1>5
  <2>2. QED
    BY <1>6, <2>1
<1> DEFINE gone == IF Len(roots) + 1 > RootHistorySize THEN Len(roots) + 1 - RootHistorySize ELSE 0
<1> DEFINE size == Len(roots) + 1 - gone
<1>13. /\ gone \in Nat /\ gone <= Len(roots)
       /\ roots' \in Seq(Nat) /\ Len(roots') = size
       /\ \A j \in 1..size : roots'[j] = IF j + gone = Len(roots) + 1 THEN n + 1 ELSE roots[j + gone]
  <2>1. n + 1 \in Nat
    BY <1>2
  <2> HIDE DEF n
  <2>2. QED
    BY <1>10, <2>1, PushRootShifts DEF n
<1>14. /\ rootHashes' \in Seq(Field) /\ Len(rootHashes') = size
       /\ \A j \in 1..size :
            rootHashes'[j] = IF j + gone = Len(roots) + 1 THEN new.root ELSE rootHashes[j + gone]
  <2> DEFINE lost == IF Len(rootHashes) + 1 > RootHistorySize
                     THEN Len(rootHashes) + 1 - RootHistorySize ELSE 0
  <2>1. /\ PushRoot(rootHashes, new.root) \in Seq(Field)
        /\ Len(PushRoot(rootHashes, new.root)) = Len(rootHashes) + 1 - lost
        /\ \A j \in 1..(Len(rootHashes) + 1 - lost) :
             PushRoot(rootHashes, new.root)[j]
               = IF j + lost = Len(rootHashes) + 1 THEN new.root ELSE rootHashes[j + lost]
    <3> HIDE DEF new
    <3>1. QED
      BY <1>9, <1>10, PushRootShifts
  <2>2. lost = gone /\ Len(rootHashes) = Len(roots)
    BY <1>10
  <2> HIDE DEF new, lost, gone
  <2>3. QED
    BY <1>7, <2>1, <2>2
<1> HIDE DEF gone, new, more, e, n, FirstNew
<1>15. size \in Nat /\ size > 0 /\ size + gone = Len(roots) + 1
  BY <1>10, <1>13
<1> HIDE DEF size
<1>16. roots'[Len(roots')] = n + 1
  BY <1>13, <1>15
<1>17. ASSUME NEW j \in 1..size
       PROVE  rootHashes'[j] = Root(FirstNew(roots'[j]), Depth)
  <2>1. CASE j + gone = Len(roots) + 1
    <3>1. rootHashes'[j] = new.root /\ roots'[j] = n + 1
      BY <1>13, <1>14, <2>1
    <3>2. QED
      BY <1>8, <1>12, <3>1
  <2>2. CASE j + gone # Len(roots) + 1
    <3>1. j + gone \in 1..Len(roots)
      BY <1>10, <1>13, <1>15, <2>2
    <3>2. roots'[j] = roots[j + gone] /\ rootHashes'[j] = rootHashes[j + gone]
      BY <1>13, <1>14, <2>2
    <3>3. roots[j + gone] \in 0..n
      BY <1>10, <3>1
    <3>4. FirstNew(roots'[j]) = FirstElements(roots[j + gone])
      BY <1>11, <3>2, <3>3
    <3>5. QED
      BY <1>10, <3>1, <3>2, <3>4
  <2>3. QED
    BY <2>1, <2>2
<1>18. Len(leaves') <= Capacity'
  <2>1. Capacity' = Capacity /\ Capacity \in Nat
    <3>1. 1 \in Nat
      OBVIOUS
    <3>2. QED
      BY <1>1, <3>1, ShiftLeftDef DEF Capacity
  <2>2. QED
    BY <1>2, <1>5, <2>1 DEF n
<1>19. Frontier(filled', Elements(leaves'), Depth)
  BY <1>6, <1>7, <1>8
<1>20. DOMAIN roots' = 1..size
  BY <1>13
<1>21. QED
  BY <1>5, <1>13, <1>14, <1>15, <1>16, <1>17, <1>18, <1>19, <1>20 DEF TreeInv, n, FirstNew, FirstElements

\* A step that leaves the leaves alone leaves the roots alone.
LEMMA LeavesGrowByDeposits ==
  ASSUME PoolInv, [Next]_vars
  PROVE  \/ leaves' = leaves /\ roots' = roots
         \/ \E x \in Payable : /\ Len(leaves) < Capacity
                               /\ leaves' = Append(leaves, x)
                               /\ roots' = PushRoot(roots, Len(leaves) + 1)
<1>1. CASE SomeDeposit
  <2>1. PICK from \in Accounts \ {Pool}, s \in signatures, amount \in Amounts,
             owner \in Owners, opening \in Amounts :
               Deposit(from, [owner |-> owner, amount |-> opening], amount, s)
    BY <1>1 DEF SomeDeposit
  <2>2. [owner |-> owner, amount |-> opening] \in Payable
    BY DEF Payable
  <2>3. QED
    BY <2>1, <2>2 DEF Deposit
<1>2. CASE Tick
  BY <1>2 DEF Tick, noteVars
<1>3. ASSUME NEW t \in Templates, NEW issuedAt, SignQuote(t, issuedAt)
      PROVE  leaves' = leaves /\ roots' = roots
  BY <1>3 DEF SignQuote, noteVars
<1>4. ASSUME NEW i, SomeWithdraw(i) PROVE leaves' = leaves /\ roots' = roots
  BY <1>4 DEF SomeWithdraw, Withdraw
<1>5. CASE SomeGovernance
  BY <1>5 DEF SomeGovernance, SetPaused, ProposeGovernance, ExecuteGovernance,
              CancelGovernance, noteVars
<1>6. CASE UNCHANGED vars
  BY <1>6 DEF vars, noteVars
<1>7. QED
  BY <1>1, <1>2, <1>3, <1>4, <1>5, <1>6 DEF Next

LEMMA TreeInvNext ==
  PoolInv /\ TreeInv /\ [TreeNext]_<<vars, treeVars>> => TreeInv'
<1> SUFFICES ASSUME PoolInv, TreeInv, [TreeNext]_<<vars, treeVars>> PROVE TreeInv'
  OBVIOUS
<1>1. [Next]_vars
  BY DEF TreeNext
<1>2. leaves \in Seq(Payable)
  BY LeavesArePayable
<1>3. CASE leaves' = leaves /\ roots' = roots
  <2>1. UNCHANGED treeVars
    BY <1>3 DEF TreeNext, vars, noteVars
  <2>2. QED
    BY <1>3, <2>1 DEF TreeInv, treeVars, Elements, FirstElements, Capacity, Frontier
<1>4. ASSUME NEW x \in Payable, Len(leaves) < Capacity, leaves' = Append(leaves, x),
             roots' = PushRoot(roots, Len(leaves) + 1)
      PROVE  TreeInv'
  <2>1. leaves' # leaves
    BY <1>2, <1>4
  <2>2. InsertLeaf
    BY <2>1 DEF TreeNext, vars, noteVars
  <2>3. QED
    BY <1>4, <2>2, TreeInvDeposit
<1>5. QED
  BY <1>1, <1>3, <1>4, LeavesGrowByDeposits

LEMMA TreeInvariant == TreeSpec => [](PoolInv /\ TreeInv)
<1>1. TreeInit => PoolInv /\ TreeInv
  BY PoolInvInit, TreeInvInit DEF TreeInit
<1>2. PoolInv /\ TreeInv /\ [TreeNext]_<<vars, treeVars>> => (PoolInv /\ TreeInv)'
  <2>1. [TreeNext]_<<vars, treeVars>> => [Next]_vars
    BY DEF TreeNext
  <2>2. QED
    BY <2>1, PoolInvNext, TreeInvNext
<1>3. QED
  BY <1>1, <1>2, PTL DEF TreeSpec

\* The first leaves of a tree with room for them.
LEMMA FirstElementsFacts ==
  ASSUME PoolInv, TreeInv, NEW m \in 0..Len(leaves)
  PROVE  /\ FirstElements(m) \in Seq(Field)
         /\ Len(FirstElements(m)) = m
         /\ \A n \in 0..(m - 1) : ShiftRight(n)[Depth] = 0
<1>1. leaves \in Seq(Payable)
  BY LeavesArePayable
<1>2. SubSeq(leaves, 1, m) \in Seq(Payable) /\ Len(SubSeq(leaves, 1, m)) = m
  BY <1>1
<1>3. FirstElements(m) \in Seq(Field) /\ Len(FirstElements(m)) = m
  BY <1>2, ElementsType DEF FirstElements
<1>4. ASSUME NEW n \in 0..(m - 1) PROVE ShiftRight(n)[Depth] = 0
  <2>1. Capacity \in Nat
    <3>1. 1 \in Nat /\ Depth \in Nat
      BY ParameterAssumption
    <3>2. QED
      BY <3>1, ShiftLeftDef DEF Capacity
  <2>2. n \in Nat /\ n < Capacity
    BY <1>1, <2>1 DEF TreeInv
  <2>3. QED
    BY <2>2, RoomBelowCapacity
<1>5. QED
  BY <1>3, <1>4

\* The roots in the contract's history are those of its trees, and the indexer,
\* which inserts the same leaves, gets the same roots.
THEOREM PoolRootsAreTheTrees == TreeSpec => []RootsAreTheTrees
<1>1. PoolInv /\ TreeInv => RootsAreTheTrees
  <2> SUFFICES ASSUME PoolInv, TreeInv PROVE RootsAreTheTrees
    OBVIOUS
  <2>1. ASSUME NEW j \in DOMAIN roots
        PROVE  Root(FirstElements(roots[j]), Depth)
                 = AdvancePoolRoots(FirstElements(roots[j]), Depth).root
    <3> DEFINE e == FirstElements(roots[j])
    <3>1. roots[j] \in 0..Len(leaves)
      BY DEF PoolInv, CustodyInv
    <3>2. /\ e \in Seq(Field) /\ Len(e) = roots[j]
          /\ \A n \in 0..(roots[j] - 1) : ShiftRight(n)[Depth] = 0
      BY <3>1, FirstElementsFacts
    <3>3. Depth \in Nat
      BY ParameterAssumption
    <3> HIDE DEF e
    <3>4. AdvancePoolRoots(e, Depth).root = Root(e, Depth)
      BY <3>2, <3>3, IndexerGetsTheRoot
    <3>5. QED
      BY <3>4 DEF e
  <2>2. QED
    BY <2>1 DEF RootsAreTheTrees, TreeInv
<1>2. QED
  BY <1>1, TreeInvariant, PTL

\* Every leaf of the pool has a path to the root in force that the circuits
\* accept, and the path's digits are the index its nullifier is made of.
THEOREM PoolPathsLeadToTheRoot == TreeSpec => []PathsLeadToTheRoot
<1>1. PoolInv /\ TreeInv => PathsLeadToTheRoot
  <2> SUFFICES ASSUME PoolInv, TreeInv, NEW i \in DOMAIN leaves
               PROVE  LET path == MerkleProof(Elements(leaves), i - 1, Depth)
                      IN /\ path.root = rootHashes[Len(rootHashes)]
                         /\ FoldPath(FieldOf(leaves[i]), path, Depth) = path.root
                         /\ PathIndex(path, Depth) = i - 1
    BY DEF PathsLeadToTheRoot
  <2> DEFINE n == Len(leaves)
  <2> DEFINE e == Elements(leaves)
  <2>1. leaves \in Seq(Payable) /\ n \in Nat /\ i \in 1..n
    BY LeavesArePayable
  <2>2. e \in Seq(Field) /\ Len(e) = n /\ e[i] = FieldOf(leaves[i])
    BY <2>1, ElementsType
  <2>3. Depth \in Nat
    BY ParameterAssumption
  <2>4. n \in 0..n /\ n - 1 \in 0..(n - 1)
    BY <2>1
  <2>5. ShiftRight(n - 1)[Depth] = 0
    BY <2>4, FirstElementsFacts
  <2>6. i - 1 \in Nat /\ i - 1 < n /\ (i - 1) + 1 = i
    BY <2>1
  <2>7. rootHashes[Len(rootHashes)] = Root(e, Depth)
    <3>1. Len(roots) \in DOMAIN roots /\ roots[Len(roots)] = n
      BY DEF TreeInv, PoolInv, TypeOK
    <3>2. FirstElements(n) = e
      <4>1. SubSeq(leaves, 1, n) = leaves
        BY <2>1
      <4>2. QED
        BY <4>1 DEF FirstElements
    <3>3. QED
      BY <3>1, <3>2 DEF TreeInv
  <2> DEFINE path == MerkleProof(e, i - 1, Depth)
  <2>8. /\ path.root = Root(e, Depth)
        /\ FoldPath(e[(i - 1) + 1], path, Depth) = Root(e, Depth)
        /\ PathIndex(path, Depth) = i - 1
    <3> HIDE DEF e, n
    <3>1. QED
      BY <2>2, <2>3, <2>5, <2>6, PathsLead
  <2> HIDE DEF path, e
  <2>9. QED
    BY <2>2, <2>6, <2>7, <2>8 DEF path, e
<1>2. QED
  BY <1>1, TreeInvariant, PTL
-----------------------------------------------------------------------------
(* The window of roots.                                                    *)

\* Pushing the next root onto a full window drops the oldest and keeps the
\* others in order; pushing it onto one that is not full drops none.
LEMMA WindowAfterDeposit ==
  ASSUME PoolInv, RootWindow, roots' = PushRoot(roots, Len(leaves) + 1),
         leaves' \in Seq(Notes), Len(leaves') = Len(leaves) + 1
  PROVE  RootWindow'
<1> DEFINE n == Len(leaves)
           R == RootHistorySize
           w == SmallerOf(n + 1, R)
           v == SmallerOf(n + 2, R)
<1>1. n \in Nat /\ R \in Nat \ {0} /\ roots \in Seq(Nat)
  BY ParameterAssumption DEF PoolInv, TypeOK
<1>2. /\ w \in Nat /\ w <= n + 1 /\ w <= R /\ (w = n + 1 \/ w = R)
      /\ v \in Nat /\ v <= n + 2 /\ v <= R /\ (v = n + 2 \/ v = R)
  BY <1>1 DEF SmallerOf
<1> HIDE DEF w, v
<1>3. roots = [j \in 1..w |-> n + j - w]
  BY DEF RootWindow, w
<1>4. Len(roots) = w /\ \A j \in 1..w : roots[j] = n + j - w
  BY <1>1, <1>2, <1>3
<1> DEFINE gone == IF Len(roots) + 1 > RootHistorySize
                   THEN Len(roots) + 1 - RootHistorySize ELSE 0
<1>5. /\ gone \in Nat /\ gone <= Len(roots)
      /\ PushRoot(roots, n + 1) \in Seq(Nat)
      /\ Len(PushRoot(roots, n + 1)) = Len(roots) + 1 - gone
      /\ \A j \in 1..(Len(roots) + 1 - gone) :
           PushRoot(roots, n + 1)[j]
             = IF j + gone = Len(roots) + 1 THEN n + 1 ELSE roots[j + gone]
  <2>1. n + 1 \in Nat
    BY <1>1
  <2> HIDE DEF n
  <2>2. QED
    BY <1>1, <2>1, PushRootShifts
<1>11. /\ roots' \in Seq(Nat)
       /\ Len(roots') = Len(roots) + 1 - gone
       /\ \A j \in 1..(Len(roots) + 1 - gone) :
            roots'[j] = IF j + gone = Len(roots) + 1 THEN n + 1 ELSE roots[j + gone]
  BY <1>5
<1>6. w + 1 - gone = v
  BY <1>1, <1>2, <1>4
<1> HIDE DEF gone, n, R
<1>7. \A j \in 1..v : roots'[j] = n + 1 + j - v
  <2> TAKE j \in 1..v
  <2> DEFINE k == j + gone
  <2>1. k \in 1..(w + 1) /\ k + v = w + 1 + j
    BY <1>1, <1>2, <1>4, <1>5, <1>6
  <2>2. roots'[j] = IF k = w + 1 THEN n + 1 ELSE roots[k]
    BY <1>4, <1>6, <1>11
  <2> HIDE DEF k
  <2>3. CASE k = w + 1
    BY <1>1, <1>2, <2>1, <2>2, <2>3
  <2>4. CASE k # w + 1
    <3>1. k \in 1..w
      BY <1>2, <2>1, <2>4
    <3>2. roots'[j] = n + k - w
      BY <1>4, <2>2, <2>4, <3>1
    <3>3. QED
      BY <1>1, <1>2, <2>1, <3>2
  <2>5. QED
    BY <2>3, <2>4
<1>8. roots' = [j \in 1..v |-> n + 1 + j - v]
  <2>1. roots' \in Seq(Nat) /\ Len(roots') = v
    BY <1>4, <1>6, <1>11
  <2>2. PICK next \in Seq(Nat) : next = roots'
    BY <2>1
  <2>3. Len(next) = v
    BY <2>1, <2>2
  <2> HIDE DEF v
  <2>4. next = [j \in 1..v |-> next[j]]
    BY <2>3
  <2>5. \A j \in 1..v : next[j] = n + 1 + j - v
    BY <1>7, <2>2
  <2>6. next = [j \in 1..v |-> n + 1 + j - v]
    BY <2>4, <2>5
  <2>7. QED
    BY <2>2, <2>6
<1>9. SmallerOf(Len(leaves') + 1, RootHistorySize) = v /\ Len(leaves') = n + 1
  BY <1>1 DEF v, n, R
<1>10. QED
  BY <1>8, <1>9 DEF RootWindow, SmallerOf

\* The contract accepts exactly the roots of the last RootHistorySize trees,
\* whatever deposits come in between a proof and its use.
THEOREM PoolRootWindow == Spec => []RootWindow
<1>1. Init => RootWindow
  <2> SUFFICES ASSUME Init PROVE RootWindow
    OBVIOUS
  <2>1. Len(leaves) = 0 /\ roots = <<0>>
    BY DEF Init
  <2>2. SmallerOf(0 + 1, RootHistorySize) = 1
    BY ParameterAssumption DEF SmallerOf
  <2>3. roots = [j \in 1..1 |-> 0 + j - 1]
    BY <2>1
  <2>4. QED
    BY <2>1, <2>2, <2>3 DEF RootWindow
<1>2. PoolInv /\ RootWindow /\ [Next]_vars => RootWindow'
  <2> SUFFICES ASSUME PoolInv, RootWindow, [Next]_vars PROVE RootWindow'
    OBVIOUS
  <2>1. CASE leaves' = leaves /\ roots' = roots
    BY <2>1 DEF RootWindow
  <2>2. ASSUME NEW x \in Payable, leaves' = Append(leaves, x),
               roots' = PushRoot(roots, Len(leaves) + 1)
        PROVE  RootWindow'
    <3>1. leaves \in Seq(Notes) /\ leaves' \in Seq(Notes)
      BY PoolInvNext DEF PoolInv, TypeOK
    <3>2. Len(leaves') = Len(leaves) + 1
      BY <2>2, <3>1
    <3>3. QED
      BY <2>2, <3>1, <3>2, WindowAfterDeposit
  <2>3. QED
    BY <2>1, <2>2, LeavesGrowByDeposits
<1>3. QED
  BY <1>1, <1>2, PoolInvariant, PTL DEF Spec
-----------------------------------------------------------------------------
(* Governance. The record kept of each proposal and the one that is pending *)
(* have to agree for either property to be inductive.                      *)

Outcomes == {"pending", "executed", "cancelled"}
ProposalRecords == [action : Proposals, by : Accounts, at : Nat, outcome : Outcomes,
                    closedBy : Accounts, closedAt : Nat]

PendingIsRecorded ==
  pending # None =>
    /\ pending.id \in DOMAIN proposals
    /\ proposals[pending.id].action = pending.action
    /\ proposals[pending.id].at = pending.proposedAt
    /\ pending.executeAt = pending.proposedAt + Timelock

GovernanceInv ==
  /\ proposals \in Seq(ProposalRecords)
  /\ Len(proposals) = nonce
  /\ PendingIsRecorded
  /\ TimelockHonoured

\* Closing a proposal rewrites the record of the pending one and no other.
LEMMA CloseFacts ==
  ASSUME PoolInv, GovernanceInv, pending # None, NEW caller \in Accounts,
         NEW outcome \in {"executed", "cancelled"}, Close(caller, outcome)
  PROVE  /\ pending' = None
         /\ proposals' \in Seq(ProposalRecords)
         /\ Len(proposals') = Len(proposals)
         /\ proposals[pending.id].outcome = "pending"
         /\ proposals'[pending.id].action = proposals[pending.id].action
         /\ proposals'[pending.id].at = proposals[pending.id].at
         /\ proposals'[pending.id].outcome = outcome
         /\ proposals'[pending.id].closedBy = caller
         /\ proposals'[pending.id].closedAt = now
         /\ \A id \in DOMAIN proposals : id # pending.id => proposals'[id] = proposals[id]
<1> DEFINE k == pending.id
           closed == [proposals[k] EXCEPT !.outcome = outcome, !.closedBy = caller,
                                          !.closedAt = now]
<1>1. /\ pending' = None
      /\ proposals' = [proposals EXCEPT ![k] = closed]
  BY DEF Close
<1>2. proposals \in Seq(ProposalRecords) /\ k \in DOMAIN proposals /\ now \in Nat
  BY DEF GovernanceInv, PendingIsRecorded, PoolInv, TypeOK
<1>3. proposals[k] \in ProposalRecords /\ proposals[k].outcome = "pending"
  BY <1>2 DEF GovernanceInv, TimelockHonoured
<1>4. /\ closed \in ProposalRecords
      /\ closed.action = proposals[k].action /\ closed.at = proposals[k].at
      /\ closed.outcome = outcome /\ closed.closedBy = caller /\ closed.closedAt = now
  BY <1>2, <1>3 DEF ProposalRecords, Outcomes
<1> HIDE DEF closed, k
<1>5. /\ proposals' \in Seq(ProposalRecords) /\ Len(proposals') = Len(proposals)
      /\ proposals'[k] = closed
      /\ \A id \in DOMAIN proposals : id # k => proposals'[id] = proposals[id]
  BY <1>1, <1>2, <1>4
<1>6. QED
  BY <1>1, <1>3, <1>4, <1>5 DEF k

\* Executing or cancelling keeps the records true to what happened.
LEMMA ClosePreserves ==
  ASSUME PoolInv, GovernanceInv, pending # None, NEW caller \in Accounts,
         NEW outcome \in {"executed", "cancelled"}, Close(caller, outcome), nonce' = nonce,
         outcome = "executed" => /\ TimelockElapsed(pending)
                                 /\ pending.action.kind = "SetAdmin" =>
                                      caller = pending.action.value
  PROVE  GovernanceInv'
<1>1. /\ pending' = None
      /\ proposals' \in Seq(ProposalRecords)
      /\ Len(proposals') = Len(proposals)
      /\ proposals'[pending.id].action = proposals[pending.id].action
      /\ proposals'[pending.id].at = proposals[pending.id].at
      /\ proposals'[pending.id].outcome = outcome
      /\ proposals'[pending.id].closedBy = caller
      /\ proposals'[pending.id].closedAt = now
      /\ \A id \in DOMAIN proposals : id # pending.id => proposals'[id] = proposals[id]
  BY CloseFacts
<1>2. /\ proposals[pending.id].action = pending.action
      /\ pending.executeAt = proposals[pending.id].at + Timelock
  BY DEF GovernanceInv, PendingIsRecorded
<1>3. DOMAIN proposals' = DOMAIN proposals
  BY <1>1 DEF GovernanceInv
<1>4. TimelockHonoured'
  <2> SUFFICES ASSUME NEW id \in DOMAIN proposals
               PROVE  LET p == proposals'[id] IN
                        /\ p.outcome = "executed" => p.closedAt >= p.at + Timelock
                        /\ p.outcome = "executed" /\ p.action.kind = "SetAdmin" =>
                             p.closedBy = p.action.value
                        /\ p.outcome # "pending"
    BY <1>1, <1>3 DEF TimelockHonoured
  <2>1. CASE id = pending.id
    BY <1>1, <1>2, <2>1 DEF TimelockElapsed
  <2>2. CASE id # pending.id
    BY <1>1, <2>2 DEF GovernanceInv, TimelockHonoured
  <2>3. QED
    BY <2>1, <2>2
<1>5. PendingIsRecorded'
  BY <1>1 DEF PendingIsRecorded
<1>6. QED
  BY <1>1, <1>4, <1>5 DEF GovernanceInv

\* A new proposal gets a record of its own, and becomes the pending one.
LEMMA ProposeKeepsRecords ==
  ASSUME PoolInv, GovernanceInv, NEW caller \in Accounts, NEW action \in Proposals,
         ProposeGovernance(caller, action)
  PROVE  /\ GovernanceInv'
         /\ \A id \in DOMAIN proposals : proposals'[id] = proposals[id]
<1> DEFINE record == [action |-> action, by |-> caller, at |-> now, outcome |-> "pending",
                      closedBy |-> caller, closedAt |-> now]
<1>1. /\ pending = None
      /\ nonce' = nonce + 1
      /\ pending' = [id |-> nonce + 1, action |-> action,
                     proposedAt |-> now, executeAt |-> now + Timelock]
      /\ proposals' = Append(proposals, record)
  BY DEF ProposeGovernance
<1>2. /\ proposals \in Seq(ProposalRecords) /\ Len(proposals) = nonce /\ nonce \in Nat
      /\ now \in Nat /\ Timelock \in Nat
  BY ParameterAssumption DEF GovernanceInv, PoolInv, TypeOK
<1>3. record \in ProposalRecords /\ record.outcome = "pending"
      /\ record.action = action /\ record.at = now
  BY <1>2 DEF ProposalRecords, Outcomes
<1> HIDE DEF record
<1>4. /\ proposals' \in Seq(ProposalRecords) /\ Len(proposals') = nonce'
      /\ DOMAIN proposals = 1..nonce /\ DOMAIN proposals' = 1..(nonce + 1)
      /\ \A id \in DOMAIN proposals : proposals'[id] = proposals[id]
      /\ proposals'[nonce + 1] = record
  BY <1>1, <1>2, <1>3
<1>5. pending' \in PendingGovernance /\ pending' # None
  <2>1. pending' \in PendingGovernance
    BY <1>1, <1>2 DEF PendingGovernance
  <2>2. QED
    BY <2>1, NoneAssumption
<1>6. PendingIsRecorded'
  BY <1>1, <1>2, <1>3, <1>4 DEF PendingIsRecorded
<1>7. TimelockHonoured'
  <2>1. \A id \in DOMAIN proposals : proposals[id].outcome # "pending"
    BY <1>1 DEF GovernanceInv, TimelockHonoured
  <2>2. pending'.id = nonce + 1
    BY <1>1
  <2>3. \A id \in DOMAIN proposals' : id \in DOMAIN proposals \/ id = nonce + 1
    BY <1>2, <1>4
  <2>4. \A id \in DOMAIN proposals : id # nonce + 1
    BY <1>2, <1>4
  <2>5. ASSUME NEW id \in DOMAIN proposals'
        PROVE  LET p == proposals'[id] IN
                 /\ p.outcome = "executed" => p.closedAt >= p.at + Timelock
                 /\ p.outcome = "executed" /\ p.action.kind = "SetAdmin" =>
                      p.closedBy = p.action.value
                 /\ p.outcome = "pending" <=> id = nonce + 1
    <3>1. CASE id = nonce + 1
      BY <1>3, <1>4, <3>1
    <3>2. CASE id \in DOMAIN proposals
      BY <1>4, <2>1, <2>4, <3>2 DEF GovernanceInv, TimelockHonoured
    <3>3. QED
      BY <2>3, <3>1, <3>2
  <2>6. QED
    BY <1>5, <2>2, <2>5 DEF TimelockHonoured
<1>8. QED
  BY <1>4, <1>6, <1>7 DEF GovernanceInv

\* What GovernedByProposals says of one step.
GovernedStep ==
  /\ governed' # governed =>
       /\ pending # None
       /\ pending' = None
       /\ proposals[pending.id].action = pending.action
       /\ governed' = Applied(pending.action, governed)
       /\ proposals'[pending.id].outcome = "executed"
  /\ \A id \in DOMAIN proposals :
       proposals[id].outcome # "pending" => proposals'[id] = proposals[id]

LEMMA GovernanceNext ==
  PoolInv /\ GovernanceInv /\ [Next]_vars => GovernanceInv' /\ GovernedStep
<1> SUFFICES ASSUME PoolInv, GovernanceInv, [Next]_vars
             PROVE  GovernanceInv' /\ GovernedStep
  OBVIOUS
<1>1. ASSUME UNCHANGED <<nonce, pending, governed, proposals>>
      PROVE  GovernanceInv' /\ GovernedStep
  BY <1>1 DEF GovernanceInv, PendingIsRecorded, TimelockHonoured, GovernedStep
<1>2. ASSUME NEW caller \in Accounts, NEW action \in Proposals,
             ProposeGovernance(caller, action)
      PROVE  GovernanceInv' /\ GovernedStep
  <2>1. governed' = governed
    BY <1>2 DEF ProposeGovernance
  <2>2. QED
    BY <1>2, <2>1, ProposeKeepsRecords DEF GovernedStep
<1>3. ASSUME NEW caller \in Accounts, NEW id \in 1..nonce, ExecuteGovernance(caller, id)
      PROVE  GovernanceInv' /\ GovernedStep
  <2>1. /\ pending # None /\ TimelockElapsed(pending) /\ Close(caller, "executed")
        /\ pending.action.kind = "SetAdmin" => caller = pending.action.value
        /\ governed' = Applied(pending.action, governed) /\ nonce' = nonce
    BY <1>3 DEF ExecuteGovernance
  <2>2. GovernanceInv'
    BY <2>1, ClosePreserves
  <2>3. /\ pending' = None /\ proposals'[pending.id].outcome = "executed"
        /\ proposals[pending.id].outcome = "pending"
        /\ \A i \in DOMAIN proposals : i # pending.id => proposals'[i] = proposals[i]
    BY <2>1, CloseFacts
  <2>4. proposals[pending.id].action = pending.action
    BY <2>1 DEF GovernanceInv, PendingIsRecorded
  <2>5. QED
    BY <2>1, <2>2, <2>3, <2>4 DEF GovernedStep
<1>4. ASSUME NEW caller \in Accounts, NEW id \in 1..nonce, CancelGovernance(caller, id)
      PROVE  GovernanceInv' /\ GovernedStep
  <2>1. /\ pending # None /\ Close(caller, "cancelled")
        /\ governed' = governed /\ nonce' = nonce
    BY <1>4 DEF CancelGovernance
  <2>2. GovernanceInv'
    BY <2>1, ClosePreserves
  <2>3. /\ proposals[pending.id].outcome = "pending"
        /\ \A i \in DOMAIN proposals : i # pending.id => proposals'[i] = proposals[i]
    BY <2>1, CloseFacts
  <2>4. QED
    BY <2>1, <2>2, <2>3 DEF GovernedStep
<1>5. CASE SomeGovernance
  <2>1. ASSUME NEW caller \in Accounts, NEW value \in BOOLEAN, SetPaused(caller, value)
        PROVE  UNCHANGED <<nonce, pending, governed, proposals>>
    BY <2>1 DEF SetPaused, governanceVars
  <2>2. QED
    BY <1>1, <1>2, <1>3, <1>4, <1>5, <2>1 DEF SomeGovernance
<1>6. CASE \/ Tick \/ SomeDeposit \/ UNCHANGED vars
           \/ \E t \in Templates, issuedAt \in now..(now + ServerClockLead) :
                SignQuote(t, issuedAt)
           \/ \E i \in 1..Len(leaves) : SomeWithdraw(i)
  <2>1. UNCHANGED governanceVars
    <3>1. CASE Tick \/ UNCHANGED vars
      BY <3>1 DEF Tick, vars
    <3>2. CASE SomeDeposit
      BY <3>2 DEF SomeDeposit, Deposit
    <3>3. CASE \E t \in Templates, issuedAt \in now..(now + ServerClockLead) :
                 SignQuote(t, issuedAt)
      BY <3>3 DEF SignQuote
    <3>4. CASE \E i \in 1..Len(leaves) : SomeWithdraw(i)
      BY <3>4 DEF SomeWithdraw, Withdraw
    <3>5. QED
      BY <1>6, <3>1, <3>2, <3>3, <3>4
  <2>2. QED
    BY <1>1, <2>1 DEF governanceVars
<1>7. QED
  BY <1>5, <1>6 DEF Next

LEMMA GovernanceInvariant == Spec => [](PoolInv /\ GovernanceInv)
<1>1. Init => GovernanceInv
  BY DEF Init, GovernanceInv, PendingIsRecorded, TimelockHonoured
<1>2. QED
  BY <1>1, PoolInvInit, PoolInvNext, GovernanceNext, PTL DEF Spec

\* No proposal takes effect before its delay, after it was cancelled, or twice,
\* and no admin is installed without its own signature, whatever several admins
\* propose and cancel around one another.
THEOREM PoolTimelockHonoured == Spec => []TimelockHonoured
<1>1. GovernanceInv => TimelockHonoured
  BY DEF GovernanceInv
<1>2. QED
  BY <1>1, GovernanceInvariant, PTL

\* The admin, the fee recipient, the quote signer, the verifier keys and the
\* code change only by executing the pending proposal.
THEOREM PoolGovernedByProposals == Spec => GovernedByProposals
<1>1. PoolInv /\ GovernanceInv /\ [Next]_vars => [GovernedStep]_<<governed, proposals>>
  BY GovernanceNext
<1>2. QED
  BY <1>1, GovernanceInvariant, PTL DEF Spec, GovernedByProposals, GovernedStep
-----------------------------------------------------------------------------
(* Payments in. That a quote is settled once needs the ids in the events to *)
(* be the ids that deposit refuses, across re-signing and changes of key.  *)

FeeRecords == [payer : Accounts, recipient : Accounts, quoteId : {t.id : t \in Templates},
               amount : Nat, fee : Nat, total : Nat]

FeesInv ==
  /\ fees \in Seq(FeeRecords)
  /\ \A k \in DOMAIN fees : fees[k].quoteId \in usedQuotes
  /\ EachLeafSettlesOnePayment

\* A deposit's event names the signed payment, unused so far, that its leaf is.
LEMMA DepositSettlesOnePayment ==
  ASSUME PoolInv, FeesInv, SomeDeposit
  PROVE  FeesInv'
<1>1. PICK from \in Accounts \ {Pool}, s \in signatures, amount \in Amounts,
           owner \in Owners, opening \in Amounts :
             Deposit(from, [owner |-> owner, amount |-> opening], amount, s)
  BY DEF SomeDeposit
<1> DEFINE note == [owner |-> owner, amount |-> opening]
           event == [payer |-> from, recipient |-> governed.feeRecipient,
                     quoteId |-> s.quote.id, amount |-> amount,
                     fee |-> s.quote.fee, total |-> s.quote.total]
<1>2. /\ amount \in Nat /\ opening = amount /\ note \in Notes
      /\ leaves' = Append(leaves, note)
  <2>1. amount \in Amounts \ {0} /\ opening = amount /\ note \in Notes
        /\ leaves' = Append(leaves, note)
    BY <1>1, DepositFacts
  <2>2. QED
    BY <2>1, ParameterAssumption
<1>3. /\ fees' = Append(fees, event)
      /\ usedQuotes' = usedQuotes \union {s.quote.id}
      /\ s.quote.id \notin usedQuotes
      /\ UNCHANGED signatures
      /\ s.quote.depositor = from /\ s.quote.commitment = note
      /\ s.quote.fee = FeeOf(amount) /\ s.quote.total = TotalOf(amount)
  <2>1. ValidQuote(from, note, amount, s)
    BY <1>1 DEF Deposit
  <2>2. /\ s.quote.depositor = from /\ s.quote.commitment = note
        /\ s.quote.fee = FeeOf(amount) /\ s.quote.total = TotalOf(amount)
    BY <2>1 DEF ValidQuote
  <2>3. QED
    BY <1>1, <2>2 DEF Deposit, QuoteUnused
<1>4. /\ FeeOf(amount) \in Nat /\ TotalOf(amount) \in Nat
      /\ TotalOf(amount) - FeeOf(amount) = amount
  <2>1. FeeOf(amount) \in Nat
    BY <1>2, FeeType
  <2>2. TotalOf(amount) = amount + FeeOf(amount)
    BY DEF TotalOf
  <2>3. QED
    BY <1>2, <2>1, <2>2
<1>5. /\ leaves \in Seq(Notes) /\ fees \in Seq(FeeRecords) /\ Len(fees) = Len(leaves)
      /\ Len(fees) \in Nat
      /\ governed.feeRecipient \in Accounts \ {Pool} /\ s.quote \in Templates
  BY DEF PoolInv, TypeOK, CustodyInv, Governed, FeesInv, EachLeafSettlesOnePayment
<1>6. /\ event \in FeeRecords
      /\ event.payer = from /\ event.quoteId = s.quote.id /\ event.amount = amount
      /\ event.total - event.fee = amount /\ event.recipient # Pool
  BY <1>2, <1>3, <1>4, <1>5 DEF FeeRecords
<1>7. note.amount = amount
  BY <1>2
<1> HIDE DEF event, note
<1>8. /\ fees' \in Seq(FeeRecords) /\ Len(fees') = Len(fees) + 1
      /\ DOMAIN fees = 1..Len(fees) /\ DOMAIN fees' = 1..(Len(fees) + 1)
      /\ \A k \in DOMAIN fees : fees'[k] = fees[k]
      /\ fees'[Len(fees) + 1] = event
  BY <1>3, <1>5, <1>6
<1>9. /\ Len(leaves') = Len(fees) + 1
      /\ \A k \in DOMAIN fees : leaves'[k] = leaves[k]
      /\ leaves'[Len(fees) + 1] = note
  BY <1>2, <1>5, <1>8
<1>10. \A k \in DOMAIN fees' : k \in DOMAIN fees \/ k = Len(fees) + 1
  BY <1>5, <1>8
<1>11. \A k \in DOMAIN fees' : fees'[k].quoteId \in usedQuotes'
  BY <1>3, <1>6, <1>8, <1>10 DEF FeesInv
<1>12. ASSUME NEW k \in DOMAIN fees'
       PROVE  /\ \E q \in signatures' :
                   /\ q.quote.id = fees'[k].quoteId
                   /\ q.quote.depositor = fees'[k].payer
                   /\ q.quote.commitment = leaves'[k]
              /\ fees'[k].amount = leaves'[k].amount
              /\ fees'[k].total - fees'[k].fee = leaves'[k].amount
              /\ fees'[k].recipient # Pool
              /\ \A j \in DOMAIN fees' : fees'[j].quoteId = fees'[k].quoteId => j = k
  <2>1. CASE k \in DOMAIN fees
    <3>1. /\ \E q \in signatures :
               /\ q.quote.id = fees[k].quoteId
               /\ q.quote.depositor = fees[k].payer
               /\ q.quote.commitment = leaves[k]
          /\ fees[k].amount = leaves[k].amount
          /\ fees[k].total - fees[k].fee = leaves[k].amount
          /\ fees[k].recipient # Pool
          /\ \A j \in DOMAIN fees : fees[j].quoteId = fees[k].quoteId => j = k
          /\ fees[k].quoteId \in usedQuotes
      BY <2>1 DEF FeesInv, EachLeafSettlesOnePayment
    <3>2. fees'[k] = fees[k] /\ leaves'[k] = leaves[k]
      BY <1>8, <1>9, <2>1
    <3>3. \A j \in DOMAIN fees' : fees'[j].quoteId = fees'[k].quoteId => j = k
      BY <1>3, <1>6, <1>8, <1>10, <3>1, <3>2
    <3>4. QED
      BY <1>3, <3>1, <3>2, <3>3
  <2>2. CASE k = Len(fees) + 1
    <3>1. fees'[k] = event /\ leaves'[k] = note
      BY <1>8, <1>9, <2>2
    <3>2. \A j \in DOMAIN fees' : fees'[j].quoteId = fees'[k].quoteId => j = k
      BY <1>3, <1>6, <1>8, <1>10, <2>2, <3>1 DEF FeesInv
    <3>3. QED
      BY <1>3, <1>6, <1>7, <3>1, <3>2
  <2>3. QED
    BY <1>10, <2>1, <2>2
<1>13. EachLeafSettlesOnePayment'
  BY <1>8, <1>9, <1>12 DEF EachLeafSettlesOnePayment
<1>14. QED
  BY <1>8, <1>11, <1>13 DEF FeesInv

\* Every leaf was paid for by a signed payment of its own, which the pool kept
\* in full, although one payment may be signed again and the key may rotate.
THEOREM PoolSettlesEachPaymentOnce == Spec => []EachLeafSettlesOnePayment
<1>1. Init => FeesInv
  BY DEF Init, FeesInv, EachLeafSettlesOnePayment
<1>2. PoolInv /\ FeesInv /\ [Next]_vars => FeesInv'
  <2> SUFFICES ASSUME PoolInv, FeesInv, [Next]_vars PROVE FeesInv'
    OBVIOUS
  <2>1. ASSUME UNCHANGED <<fees, leaves, usedQuotes>> PROVE FeesInv'
    <3>1. signatures \subseteq signatures'
      BY NotesMoveByNoteSteps
    <3>2. EachLeafSettlesOnePayment'
      BY <2>1, <3>1 DEF FeesInv, EachLeafSettlesOnePayment
    <3>3. QED
      BY <2>1, <3>2 DEF FeesInv
  <2>2. CASE UNCHANGED noteVars
    BY <2>1, <2>2 DEF noteVars
  <2>3. CASE \E i \in 1..Len(leaves) : SomeWithdraw(i)
    BY <2>1, <2>3 DEF SomeWithdraw, Withdraw
  <2>4. QED
    BY <2>2, <2>3, NotesMoveByNoteSteps, DepositSettlesOnePayment DEF NoteStep
<1>3. FeesInv => EachLeafSettlesOnePayment
  BY DEF FeesInv
<1>4. QED
  BY <1>1, <1>2, <1>3, PoolInvariant, PTL DEF Spec
=============================================================================
