-------------------------- MODULE SettlementsProofs --------------------------
(***************************************************************************)
(* What the books promise, for any number of payments, invoices, refunds   *)
(* and calls that overlap at every read and write: types, and each safety  *)
(* property, the last of them about where recomputations end.              *)
(***************************************************************************)
EXTENDS Settlements, PartialSumsProofs, FiniteSetTheorems
-----------------------------------------------------------------------------
(* Sums over finite sets. The fold that Total is made of is a recursive    *)
(* function over subsets; these lemmas say what it computes.               *)

\* The element the fold takes next.
Pick(s) == CHOOSE x \in s : TRUE

\* h adds up f over every subset of U, one element at a time.
AddsUp(h, f, U) ==
  h = [s \in SUBSET U |-> IF s = {} THEN 0 ELSE f[Pick(s)] + h[s \ {Pick(s)}]]

LEMMA PickFacts ==
  ASSUME NEW s, s # {}, IsFiniteSet(s)
  PROVE  /\ Pick(s) \in s
         /\ IsFiniteSet(s \ {Pick(s)})
         /\ Cardinality(s) \in Nat
         /\ Cardinality(s \ {Pick(s)}) \in Nat
         /\ Cardinality(s \ {Pick(s)}) < Cardinality(s)
<1>1. Pick(s) \in s
  BY DEF Pick
<1>2. /\ IsFiniteSet(s \ {Pick(s)})
      /\ Cardinality(s \ {Pick(s)}) = Cardinality(s) - 1
  BY <1>1, FS_RemoveElement
<1>3. Cardinality(s) \in Nat /\ Cardinality(s \ {Pick(s)}) \in Nat
  BY <1>2, FS_CardinalityType
<1>4. QED
  BY <1>1, <1>2, <1>3

\* Induction over the subsets of a finite set, the smaller ones first.
LEMMA SubsetInduction ==
  ASSUME NEW U, IsFiniteSet(U), NEW G,
         ASSUME NEW s \in SUBSET U,
                \A t \in SUBSET U : Cardinality(t) < Cardinality(s) => t \in G
         PROVE  s \in G
  PROVE  \A s \in SUBSET U : s \in G
<1> DEFINE N == {n \in Nat : \A s \in SUBSET U : Cardinality(s) < n => s \in G}
<1>1. \A s \in SUBSET U : Cardinality(s) \in Nat
  BY FS_Subset, FS_CardinalityType
<1>2. 0 \in N
  BY <1>1
<1>3. ASSUME NEW n \in Nat, n \in N PROVE n + 1 \in N
  <2>1. ASSUME NEW s \in SUBSET U, Cardinality(s) < n + 1 PROVE s \in G
    <3>1. \A t \in SUBSET U : Cardinality(t) < Cardinality(s) => t \in G
      BY <1>1, <1>3, <2>1
    <3>2. QED
      BY <3>1
  <2>2. QED
    BY <2>1
<1>4. \A n \in Nat : n \in N
  <2> HIDE DEF N
  <2>1. QED
    BY <1>2, <1>3, NatSetInduction
<1>5. QED
  <2> TAKE s \in SUBSET U
  <2>1. Cardinality(s) + 1 \in N
    BY <1>1, <1>4
  <2>2. QED
    BY <1>1, <2>1

\* Two functions that add up the same terms agree where both are defined.
LEMMA AddsUpAgree ==
  ASSUME NEW f, NEW e, NEW U, NEW V, NEW g, NEW h, AddsUp(g, f, U), AddsUp(h, e, V),
         NEW S, IsFiniteSet(S), S \subseteq U, S \subseteq V, \A x \in S : f[x] = e[x]
  PROVE  g[S] = h[S]
<1> DEFINE G == {s \in SUBSET S : g[s] = h[s]}
<1>1. ASSUME NEW s \in SUBSET S,
             \A t \in SUBSET S : Cardinality(t) < Cardinality(s) => t \in G
      PROVE  s \in G
  <2>1. /\ g[s] = IF s = {} THEN 0 ELSE f[Pick(s)] + g[s \ {Pick(s)}]
        /\ h[s] = IF s = {} THEN 0 ELSE e[Pick(s)] + h[s \ {Pick(s)}]
    BY DEF AddsUp
  <2>2. CASE s = {}
    BY <2>1, <2>2
  <2>3. CASE s # {}
    <3>1. IsFiniteSet(s)
      BY FS_Subset
    <3>2. Pick(s) \in s /\ Cardinality(s \ {Pick(s)}) < Cardinality(s)
      BY <2>3, <3>1, PickFacts
    <3>3. g[s \ {Pick(s)}] = h[s \ {Pick(s)}]
      BY <1>1, <3>2
    <3>4. f[Pick(s)] = e[Pick(s)]
      BY <3>2
    <3>5. QED
      BY <2>1, <2>3, <3>3, <3>4
  <2>4. QED
    BY <2>2, <2>3
<1>2. \A s \in SUBSET S : s \in G
  <2> HIDE DEF G
  <2>1. QED
    BY <1>1, SubsetInduction
<1>3. QED
  BY <1>2

\* Such a function exists: right for sets below some size, it can be made right
\* for those of one element more.
LEMMA AddsUpExists ==
  ASSUME NEW f, NEW U, IsFiniteSet(U)
  PROVE  \E h : AddsUp(h, f, U)
<1> DEFINE Next1(h) ==
             [s \in SUBSET U |-> IF s = {} THEN 0 ELSE f[Pick(s)] + h[s \ {Pick(s)}]]
           Right(h, n) ==
             /\ h = [s \in SUBSET U |-> h[s]]
             /\ \A s \in SUBSET U : Cardinality(s) < n => h[s] = Next1(h)[s]
           N == {n \in Nat : \E h : Right(h, n)}
<1>1. \A s \in SUBSET U : IsFiniteSet(s) /\ Cardinality(s) \in Nat
  BY FS_Subset, FS_CardinalityType
<1>2. 0 \in N
  <2>1. Right([s \in SUBSET U |-> 0], 0)
    BY <1>1
  <2>2. QED
    BY <2>1
<1>3. ASSUME NEW n \in Nat, n \in N PROVE n + 1 \in N
  <2>1. PICK h : Right(h, n)
    BY <1>3
  <2>2. ASSUME NEW s \in SUBSET U, Cardinality(s) < n + 1
        PROVE  Next1(h)[s] = Next1(Next1(h))[s]
    <3>1. CASE s = {}
      BY <3>1
    <3>2. CASE s # {}
      <4>1. Cardinality(s \ {Pick(s)}) < Cardinality(s) /\ s \ {Pick(s)} \in SUBSET U
            /\ Cardinality(s \ {Pick(s)}) \in Nat /\ Cardinality(s) \in Nat
        BY <1>1, <3>2, PickFacts
      <4>2. Cardinality(s \ {Pick(s)}) < n
        BY <2>2, <4>1
      <4>3. h[s \ {Pick(s)}] = Next1(h)[s \ {Pick(s)}]
        BY <2>1, <4>1, <4>2
      <4>4. QED
        BY <3>2, <4>1, <4>3
    <3>3. QED
      BY <3>1, <3>2
  <2>3. Next1(h) = [s \in SUBSET U |-> Next1(h)[s]]
    OBVIOUS
  <2>4. QED
    <3> DEFINE k == Next1(h)
    <3>1. /\ k = [s \in SUBSET U |-> k[s]]
          /\ \A s \in SUBSET U : Cardinality(s) < n + 1 => k[s] = Next1(k)[s]
      BY <2>2, <2>3
    <3> HIDE DEF k
    <3>2. Right(k, n + 1)
      BY <3>1
    <3>3. \E h1 : Right(h1, n + 1)
      <4> HIDE DEF Right
      <4>1. QED
        BY <3>2
    <3>4. n + 1 \in Nat
      OBVIOUS
    <3>5. QED
      <4> HIDE DEF Right
      <4>1. QED
        BY <3>3, <3>4
<1>4. \A n \in Nat : n \in N
  <2> HIDE DEF N
  <2>1. QED
    BY <1>2, <1>3, NatSetInduction
<1>5. Cardinality(U) + 1 \in N
  <2>1. U \in SUBSET U
    OBVIOUS
  <2>2. Cardinality(U) + 1 \in Nat
    BY <1>1, <2>1
  <2> HIDE DEF N
  <2>3. QED
    BY <1>4, <2>2
<1>6. PICK h : Right(h, Cardinality(U) + 1)
  BY <1>5
<1>7. \A s \in SUBSET U : Cardinality(s) < Cardinality(U) + 1
  BY <1>1, FS_Subset
<1>8. \A s \in SUBSET U : h[s] = Next1(h)[s]
  BY <1>6, <1>7
<1>9. h = Next1(h)
  BY <1>6, <1>8
<1>10. QED
  BY <1>9 DEF AddsUp

\* Total is the sum, one element at a time.
LEMMA TotalDef ==
  ASSUME NEW f, NEW S, IsFiniteSet(S)
  PROVE  /\ Total(f, {}) = 0
         /\ S # {} => Total(f, S) = f[Pick(S)] + Total(f, S \ {Pick(S)})
<1>1. ASSUME NEW T, IsFiniteSet(T), NEW h, AddsUp(h, f, T)
      PROVE  Total(f, T) = h[T]
  <2>1. Total(f, T) = (CHOOSE g : AddsUp(g, f, T))[T]
    BY DEF Total, MapThenSumSet, MapThenFoldSet, AddsUp, Pick
  <2>2. AddsUp((CHOOSE g : AddsUp(g, f, T)), f, T)
    BY <1>1
  <2> DEFINE g == CHOOSE g : AddsUp(g, f, T)
  <2> HIDE DEF g
  <2>3. AddsUp(g, f, T)
    BY <2>2 DEF g
  <2>4. g[T] = h[T]
    BY <1>1, <2>3, AddsUpAgree
  <2>5. QED
    BY <2>1, <2>4 DEF g
<1>2. Total(f, {}) = 0
  <2>1. IsFiniteSet({})
    BY FS_EmptySet
  <2>2. PICK h : AddsUp(h, f, {})
    BY <2>1, AddsUpExists
  <2>3. h[{}] = 0
    BY <2>2 DEF AddsUp
  <2>4. QED
    BY <1>1, <2>1, <2>2, <2>3
<1>3. ASSUME S # {} PROVE Total(f, S) = f[Pick(S)] + Total(f, S \ {Pick(S)})
  <2> DEFINE R == S \ {Pick(S)}
  <2>1. IsFiniteSet(R) /\ R \subseteq S
    BY <1>3, PickFacts
  <2>2. PICK h : AddsUp(h, f, S)
    BY AddsUpExists
  <2>3. PICK k : AddsUp(k, f, R)
    BY <2>1, AddsUpExists
  <2>4. h[S] = f[Pick(S)] + h[R]
    BY <1>3, <2>2 DEF AddsUp
  <2>5. h[R] = k[R]
    <3> HIDE DEF R
    <3>1. QED
      BY <2>1, <2>2, <2>3, AddsUpAgree
  <2>6. Total(f, S) = h[S] /\ Total(f, R) = k[R]
    <3> HIDE DEF R
    <3>1. QED
      BY <1>1, <2>1, <2>2, <2>3
  <2>7. QED
    BY <2>4, <2>5, <2>6
<1>4. QED
  BY <1>2, <1>3


LEMMA NothingAdds == \A f : Total(f, {}) = 0
<1>1. IsFiniteSet({})
  BY FS_EmptySet
<1>2. QED
  BY <1>1, TotalDef

\* A sum of naturals is a natural.
LEMMA TotalType ==
  ASSUME NEW U, IsFiniteSet(U), NEW f, \A x \in U : f[x] \in Nat
  PROVE  \A s \in SUBSET U : Total(f, s) \in Nat
<1> DEFINE G == {s \in SUBSET U : Total(f, s) \in Nat}
<1>1. ASSUME NEW s \in SUBSET U,
             \A t \in SUBSET U : Cardinality(t) < Cardinality(s) => t \in G
      PROVE  s \in G
  <2>1. IsFiniteSet(s)
    BY FS_Subset
  <2>2. CASE s = {}
    <3>1. Total(f, {}) = 0
      BY <2>1, TotalDef
    <3>2. QED
      BY <2>2, <3>1
  <2>3. CASE s # {}
    <3>1. Pick(s) \in s /\ Cardinality(s \ {Pick(s)}) < Cardinality(s)
      BY <2>1, <2>3, PickFacts
    <3>2. Total(f, s \ {Pick(s)}) \in Nat
      BY <1>1, <3>1
    <3>3. f[Pick(s)] \in Nat
      BY <3>1
    <3>4. Total(f, s) = f[Pick(s)] + Total(f, s \ {Pick(s)})
      BY <2>1, <2>3, TotalDef
    <3>5. QED
      BY <3>2, <3>3, <3>4
  <2>4. QED
    BY <2>2, <2>3
<1>2. \A s \in SUBSET U : s \in G
  <2> HIDE DEF G
  <2>1. QED
    BY <1>1, SubsetInduction
<1>3. QED
  BY <1>2

\* Smaller terms have a smaller sum.
LEMMA TotalMonotone ==
  ASSUME NEW U, IsFiniteSet(U), NEW f, NEW g,
         \A x \in U : f[x] \in Nat /\ g[x] \in Nat /\ f[x] <= g[x]
  PROVE  Total(f, U) <= Total(g, U)
<1> DEFINE G == {s \in SUBSET U : Total(f, s) <= Total(g, s)}
<1>1. ASSUME NEW s \in SUBSET U,
             \A t \in SUBSET U : Cardinality(t) < Cardinality(s) => t \in G
      PROVE  s \in G
  <2>1. IsFiniteSet(s)
    BY FS_Subset
  <2>2. CASE s = {}
    <3>1. Total(f, {}) = 0 /\ Total(g, {}) = 0
      BY <2>1, TotalDef
    <3>2. QED
      BY <2>2, <3>1
  <2>3. CASE s # {}
    <3> DEFINE r == s \ {Pick(s)}
    <3>1. Pick(s) \in s /\ Cardinality(r) < Cardinality(s) /\ r \in SUBSET U
      BY <2>1, <2>3, PickFacts
    <3>2. Total(f, r) <= Total(g, r)
      BY <1>1, <3>1
    <3>3. Total(f, r) \in Nat /\ Total(g, r) \in Nat
      <4> HIDE DEF r
      <4>1. QED
        BY <3>1, TotalType
    <3>4. f[Pick(s)] \in Nat /\ g[Pick(s)] \in Nat /\ f[Pick(s)] <= g[Pick(s)]
      BY <3>1
    <3>5. Total(f, s) = f[Pick(s)] + Total(f, r) /\ Total(g, s) = g[Pick(s)] + Total(g, r)
      BY <2>1, <2>3, TotalDef
    <3> HIDE DEF r
    <3>6. Total(f, s) <= Total(g, s)
      BY <3>2, <3>3, <3>4, <3>5
    <3>7. QED
      BY <3>6
  <2>4. QED
    BY <2>2, <2>3
<1>2. \A s \in SUBSET U : s \in G
  <2> HIDE DEF G
  <2>1. QED
    BY <1>1, SubsetInduction
<1>3. QED
  BY <1>2

\* Equal terms have equal sums.
LEMMA TotalAgree ==
  ASSUME NEW U, IsFiniteSet(U), NEW f, NEW g,
         \A x \in U : f[x] \in Nat /\ f[x] = g[x]
  PROVE  Total(f, U) = Total(g, U)
<1>1. Total(f, U) <= Total(g, U) /\ Total(g, U) <= Total(f, U)
  BY TotalMonotone
<1>2. Total(f, U) \in Nat /\ Total(g, U) \in Nat
  BY TotalType
<1>3. QED
  BY <1>1, <1>2

\* A new element adds its term, whichever element the fold takes first.
LEMMA TotalAdd ==
  ASSUME NEW U, IsFiniteSet(U), NEW f, \A x \in U : f[x] \in Nat
  PROVE  \A s \in SUBSET U, x \in U :
           x \notin s => Total(f, s \union {x}) = Total(f, s) + f[x]
<1> DEFINE G == {s \in SUBSET U :
                  \A x \in U : x \notin s => Total(f, s \union {x}) = Total(f, s) + f[x]}
<1>1. ASSUME NEW s \in SUBSET U,
             \A t \in SUBSET U : Cardinality(t) < Cardinality(s) => t \in G
      PROVE  s \in G
  <2> SUFFICES ASSUME NEW x \in U, x \notin s
               PROVE  Total(f, s \union {x}) = Total(f, s) + f[x]
    OBVIOUS
  <2> DEFINE t == s \union {x}
             y == Pick(t)
             r == s \ {y}
  <2>1. IsFiniteSet(s) /\ IsFiniteSet(t) /\ t \in SUBSET U /\ t # {}
    <3>1. t \in SUBSET U /\ t # {}
      OBVIOUS
    <3>2. QED
      BY <3>1, FS_Subset
  <2>2. y \in t /\ Total(f, t) = f[y] + Total(f, t \ {y})
    <3> HIDE DEF t
    <3>1. QED
      BY <2>1, PickFacts, TotalDef
  <2>3. /\ Total(f, s) \in Nat /\ f[x] \in Nat /\ f[y] \in Nat
        /\ \A z \in SUBSET U : Total(f, z) \in Nat
    BY <2>1, <2>2, TotalType
  <2>4. CASE y = x
    <3>1. t \ {y} = s
      BY <2>4
    <3>2. QED
      BY <2>2, <2>3, <2>4, <3>1
  <2>5. CASE y # x
    <3>1. y \in s /\ r \in SUBSET U /\ t \ {y} = r \union {x} /\ x \notin r /\ y \notin r
          /\ s = r \union {y}
      BY <2>2, <2>5
    <3>2. Cardinality(r) < Cardinality(s)
      <4>1. Cardinality(r) = Cardinality(s) - 1 /\ Cardinality(s) \in Nat
        BY <2>1, <3>1, FS_RemoveElement, FS_CardinalityType
      <4>2. QED
        BY <4>1
    <3>3. r \in G
      BY <1>1, <3>1, <3>2
    <3>4. /\ Total(f, r \union {x}) = Total(f, r) + f[x]
          /\ Total(f, r \union {y}) = Total(f, r) + f[y]
      <4>1. y \in U
        BY <3>1
      <4>2. \A z \in U : z \notin r => Total(f, r \union {z}) = Total(f, r) + f[z]
        BY <3>3
      <4> HIDE DEF r, y
      <4>3. QED
        BY <3>1, <4>1, <4>2
    <3>5. Total(f, r) \in Nat
      BY <2>3, <3>1
    <3> HIDE DEF r, y, t
    <3>6. Total(f, t) = Total(f, s) + f[x]
      <4>1. Total(f, s) = Total(f, r) + f[y]
        BY <3>1, <3>4
      <4>2. Total(f, t) = f[y] + (Total(f, r) + f[x])
        BY <2>2, <3>1, <3>4
      <4>3. QED
        BY <2>3, <3>5, <4>1, <4>2
    <3>7. QED
      BY <3>6 DEF t
  <2>6. QED
    BY <2>4, <2>5
<1>2. \A s \in SUBSET U : s \in G
  <2> HIDE DEF G
  <2>1. QED
    BY <1>1, SubsetInduction
<1>3. QED
  BY <1>2
-----------------------------------------------------------------------------
(* Types. A call is at a step only with what that step works on.           *)

CallRecords ==
  [at : Steps,
   op : {"none", "quote", "settle", "repair", "refund", "revise", "issue", "cancel"},
   pay : Payments \union {None}, inv : Invoices \union {None},
   wd : Withdrawals \union {None}, then : {"end", "insert"},
   head : InvoicesOver(Nat), picked : SUBSET Payments,
   shown : Nat \X Nat, tries : 1..5, counted : BOOLEAN]

SettlementRecords ==
  [exists : BOOLEAN, holds : BOOLEAN, refunded : Nat, refunds : SUBSET Withdrawals,
   counted : BOOLEAN]
AllocationRecords ==
  [exists : BOOLEAN, amount : Nat, applied : BOOLEAN, reversed : BOOLEAN]

PaySteps ==
  {"intent", "settle", "find", "insert", "applySettlement", "checkSettlement",
   "applyInvoice", "checkInvoice", "undo", "reverse", "mark", "adjust", "refund",
   "checkRefund", "unadjust", "requalify", "qualify", "spread"}
VersionSteps == {"countAllocations", "countIntents", "version", "publish", "unversion"}
InvoiceSteps == VersionSteps \union {"head", "allocations", "settlements", "write", "cancel"}
RefundSteps == {"adjust", "refund", "checkRefund", "unadjust"}

Knows(k) ==
  /\ k.at \in PaySteps \/ k.op = "settle" \/ k.then = "insert" => k.pay \in Payments
  /\ k.at \in InvoiceSteps => k.inv \in Invoices
  /\ k.at \in RefundSteps => k.wd \in Withdrawals
  /\ k.at \in VersionSteps => k.head.version < MaxVersion /\ k.head.due \in Dues

Known == {k \in CallRecords : Knows(k)}

BooksTyped ==
  /\ invoice \in [Invoices -> InvoicesOver(Dues)]
  /\ versions \subseteq Invoices \X (1..MaxVersion)
  /\ intent \in [Payments -> [state : {"none", "open", "settled"}, version : 0..MaxVersion,
                              lapsed : BOOLEAN, paid : BOOLEAN]]
  /\ settlement \in [Payments -> SettlementRecords]
  /\ alloc \in [Payments -> AllocationRecords]
  /\ adjust \in [Withdrawals -> Payments \union {None}]

TypeInv ==
  /\ BooksTyped
  /\ call \in [Calls -> Known]
  /\ reconciled \subseteq Payments
  /\ crashes \in 0..MaxCrashes

LEMMA TypeInvImpliesTypeOK == TypeInv => TypeOK
<1>1. Known \subseteq CallRecords
  BY DEF Known
<1>2. QED
  BY <1>1 DEF TypeInv, BooksTyped, TypeOK, CallRecords, SettlementRecords,
     AllocationRecords

LEMMA NewInvoiceTyped ==
  ASSUME NEW dues \in SUBSET Nat, NEW d \in dues, NEW s \in Revisable
  PROVE  NewInvoice(d, s) \in InvoicesOver(dues)
<1>1. 1 \in 1..MaxVersion
  BY SettlementsAssumption
<1>2. s \in InvoiceStates
  BY DEF InvoiceStates
<1>3. QED
  BY <1>1, <1>2 DEF NewInvoice, InvoicesOver

LEMMA NoCallKnown == NoCall \in Known
<1>1. NewInvoice(1, "draft") \in InvoicesOver(Nat)
  BY NewInvoiceTyped DEF Revisable
<1>2. NoCall \in CallRecords
  BY <1>1 DEF NoCall, CallRecords, Steps
<1>3. Knows(NoCall)
  BY DEF NoCall, Knows, PaySteps, VersionSteps, InvoiceSteps, RefundSteps
<1>4. QED
  BY <1>2, <1>3 DEF Known

LEMMA WiderDues == InvoicesOver(Dues) \subseteq InvoicesOver(Nat)
  BY SettlementsAssumption DEF InvoicesOver

LEMMA CallTyped ==
  ASSUME TypeInv, NEW c \in Calls
  PROVE  /\ call[c] \in CallRecords
         /\ Knows(call[c])
         /\ call[c].at \in PaySteps => Pay(c) \in Payments /\ InvoiceOf[Pay(c)] \in Invoices
  BY SettlementsAssumption DEF TypeInv, Known, Knows, Pay

LEMMA GotoKnown ==
  ASSUME TypeInv, NEW c \in Calls, NEW step \in Steps, Goto(c, step),
         step \in PaySteps => call[c].at \in PaySteps,
         step \in InvoiceSteps => call[c].at \in InvoiceSteps,
         step \in RefundSteps => call[c].at \in RefundSteps,
         step \in VersionSteps => call[c].at \in VersionSteps
  PROVE  call' \in [Calls -> Known] /\ reconciled' \subseteq Payments
<1> DEFINE k == [call[c] EXCEPT !.at = step]
<1>1. call[c] \in CallRecords /\ Knows(call[c])
  BY CallTyped
<1>2. k \in CallRecords
  BY <1>1 DEF CallRecords
<1>3. k.at = step /\ k.op = call[c].op /\ k.then = call[c].then /\ k.pay = call[c].pay
      /\ k.inv = call[c].inv /\ k.wd = call[c].wd /\ k.head = call[c].head
  BY <1>1 DEF CallRecords
<1> HIDE DEF k
<1>4. Knows(k)
  BY <1>1, <1>3 DEF Knows
<1>5. k \in Known
  BY <1>2, <1>4 DEF Known
<1>6. call' = [call EXCEPT ![c] = k] /\ reconciled' = reconciled
  BY DEF Goto, k
<1>7. QED
  BY <1>5, <1>6 DEF TypeInv

LEMMA StartKnown ==
  ASSUME TypeInv, NEW c \in Calls, NEW with \in Known, Start(c, with)
  PROVE  call' \in [Calls -> Known] /\ reconciled' \subseteq Payments
  BY DEF TypeInv, Start

LEMMA ReturnKnown ==
  ASSUME TypeInv, NEW c \in Calls, Return(c)
  PROVE  call' \in [Calls -> Known] /\ reconciled' \subseteq Payments
<1>1. call[c].op = "settle" => Pay(c) \in Payments
  BY CallTyped DEF Knows, Pay
<1>2. QED
  BY <1>1, NoCallKnown DEF TypeInv, Return

LEMMA RecomputeKnown ==
  ASSUME TypeInv, NEW c \in Calls, NEW i \in Invoices, NEW then \in {"end", "insert"},
         call[c].at \in PaySteps, Recompute(c, i, then)
  PROVE  call' \in [Calls -> Known] /\ reconciled' \subseteq Payments
<1> DEFINE k == [call[c] EXCEPT !.at = "head", !.inv = i, !.then = then]
<1>1. call[c] \in CallRecords /\ Pay(c) \in Payments
  BY CallTyped
<1>2. k \in CallRecords
  <2>1. "head" \in Steps
    BY DEF Steps
  <2>2. QED
    BY <1>1, <2>1 DEF CallRecords
<1>3. k.at = "head" /\ k.pay = call[c].pay /\ k.inv = i
  BY <1>1 DEF CallRecords
<1> HIDE DEF k
<1>4. Knows(k)
  BY <1>1, <1>3 DEF Knows, Pay, RefundSteps, VersionSteps
<1>5. k \in Known
  BY <1>2, <1>4 DEF Known
<1>6. call' = [call EXCEPT ![c] = k] /\ reconciled' = reconciled
  BY DEF Recompute, k
<1>7. QED
  BY <1>5, <1>6 DEF TypeInv

LEMMA BooksStay ==
  ASSUME TypeInv, UNCHANGED books
  PROVE  BooksTyped'
  BY DEF TypeInv, BooksTyped, books

LEMMA SettlementTyped ==
  ASSUME TypeInv, NEW p \in Payments
  PROVE  /\ settlement[p].exists \in BOOLEAN /\ settlement[p].holds \in BOOLEAN
         /\ settlement[p].refunded \in Nat /\ settlement[p].refunds \in SUBSET Withdrawals
         /\ alloc[p].exists \in BOOLEAN /\ alloc[p].applied \in BOOLEAN
         /\ alloc[p].reversed \in BOOLEAN /\ alloc[p].amount \in Nat
         /\ Paid[p] \in Nat /\ Allocated(p) \in Nat
         /\ Share(p) \in Nat /\ Share(p) <= alloc[p].amount
<1>1. /\ settlement[p].exists \in BOOLEAN /\ settlement[p].holds \in BOOLEAN
      /\ settlement[p].refunded \in Nat /\ settlement[p].refunds \in SUBSET Withdrawals
  BY DEF TypeInv, BooksTyped, SettlementRecords
<1>2. /\ alloc[p].exists \in BOOLEAN /\ alloc[p].applied \in BOOLEAN
      /\ alloc[p].reversed \in BOOLEAN /\ alloc[p].amount \in Nat
  BY DEF TypeInv, BooksTyped, AllocationRecords
<1>3. Paid[p] \in Nat
  BY SettlementsAssumption
<1>4. Allocated(p) \in Nat
  BY <1>2 DEF Allocated
<1>5. Share(p) \in Nat /\ Share(p) <= alloc[p].amount
  BY <1>1, <1>2, <1>3 DEF Share, Least, Less
<1>6. QED
  BY <1>1, <1>2, <1>3, <1>4, <1>5

LEMMA QuoteTypes ==
  ASSUME TypeInv, NEW c \in Calls, NEW p \in Payments
  PROVE  /\ BeginQuote(c, p) => TypeInv'
         /\ InsertIntent(c) => TypeInv'
         /\ Lapse(p) => TypeInv'
         /\ Publish(p) => TypeInv'
<1>1. ASSUME BeginQuote(c, p) PROVE TypeInv'
  <2> DEFINE k == [NoCall EXCEPT !.at = "intent", !.op = "quote", !.pay = p,
                                 !.head = invoice[InvoiceOf[p]]]
  <2>1. invoice[InvoiceOf[p]] \in InvoicesOver(Nat)
    BY SettlementsAssumption, WiderDues DEF TypeInv, BooksTyped
  <2>2. k \in CallRecords
    <3>1. "intent" \in Steps
      BY DEF Steps
    <3>2. QED
      BY <2>1, <3>1, NoCallKnown DEF Known, CallRecords
  <2>3. k.at = "intent" /\ k.pay = p
    BY DEF NoCall
  <2> HIDE DEF k
  <2>4. k \in Known
    BY <2>2, <2>3 DEF Known, Knows, InvoiceSteps, RefundSteps, VersionSteps
  <2>5. call' \in [Calls -> Known] /\ reconciled' \subseteq Payments
    BY <1>1, <2>4, StartKnown DEF BeginQuote, k
  <2>6. QED
    BY <1>1, <2>5, BooksStay DEF BeginQuote, TypeInv
<1>2. ASSUME InsertIntent(c) PROVE TypeInv'
  <2>1. call'  \in [Calls -> Known] /\ reconciled' \subseteq Payments
    BY <1>2, ReturnKnown DEF InsertIntent
  <2>2. call[c].head.version \in 0..MaxVersion
    BY SettlementsAssumption, CallTyped DEF CallRecords, InvoicesOver
  <2>3. BooksTyped'
    BY <1>2, <2>2 DEF InsertIntent, TypeInv, BooksTyped, NoIntent
  <2>4. QED
    BY <1>2, <2>1, <2>3 DEF InsertIntent, TypeInv
<1>3. ASSUME Lapse(p) PROVE TypeInv'
  BY <1>3 DEF Lapse, TypeInv, BooksTyped
<1>4. ASSUME Publish(p) PROVE TypeInv'
  BY <1>4 DEF Publish, TypeInv, BooksTyped
<1>5. QED
  BY <1>1, <1>2, <1>3, <1>4

LEMMA AllocationTypes ==
  ASSUME TypeInv, NEW c \in Calls
  PROVE  /\ SettleIntent(c) => TypeInv'
         /\ FindAllocation(c) => TypeInv'
         /\ InsertAllocation(c) => TypeInv'
         /\ ApplyToSettlement(c) => TypeInv'
         /\ CheckSettlement(c) => TypeInv'
         /\ ApplyToInvoice(c) => TypeInv'
         /\ CheckInvoice(c) => TypeInv'
         /\ Undo(c) => TypeInv'
         /\ ReverseAllocation(c) => TypeInv'
         /\ MarkApplied(c) => TypeInv'
<1>1. ASSUME SettleIntent(c) PROVE TypeInv'
  <2>1. Pay(c) \in Payments /\ InvoiceOf[Pay(c)] \in Invoices
    BY <1>1, CallTyped DEF SettleIntent, At, PaySteps
  <2>2. call' \in [Calls -> Known] /\ reconciled' \subseteq Payments
    BY <1>1, <2>1, GotoKnown
       DEF SettleIntent, At, Steps, PaySteps, InvoiceSteps, RefundSteps, VersionSteps
  <2>3. BooksTyped'
    BY <1>1, <2>1 DEF SettleIntent, TypeInv, BooksTyped
  <2>4. QED
    BY <1>1, <2>2, <2>3 DEF SettleIntent, TypeInv
<1>2. ASSUME FindAllocation(c) PROVE TypeInv'
  <2>1. Pay(c) \in Payments /\ InvoiceOf[Pay(c)] \in Invoices
    BY <1>2, CallTyped DEF FindAllocation, At, PaySteps
  <2>2. call' \in [Calls -> Known] /\ reconciled' \subseteq Payments
    BY <1>2, <2>1, GotoKnown, ReturnKnown, RecomputeKnown
       DEF FindAllocation, At, Steps, PaySteps, InvoiceSteps, RefundSteps, VersionSteps
  <2>3. BooksTyped'
    BY <1>2, BooksStay DEF FindAllocation
  <2>4. QED
    BY <1>2, <2>2, <2>3 DEF FindAllocation, TypeInv
<1>3. ASSUME InsertAllocation(c) PROVE TypeInv'
  <2>1. Pay(c) \in Payments /\ InvoiceOf[Pay(c)] \in Invoices
    BY <1>3, CallTyped DEF InsertAllocation, At, PaySteps
  <2>2. Least(Paid[Pay(c)] - Allocated(Pay(c)), RemainingDue(call[c].head)) > 0
        => Least(Paid[Pay(c)] - Allocated(Pay(c)), RemainingDue(call[c].head)) \in Nat
    BY <1>3, <2>1, SettlementTyped, CallTyped
       DEF CallRecords, InvoicesOver, Least, RemainingDue, Less
  <2>3. call' \in [Calls -> Known] /\ reconciled' \subseteq Payments
    BY <1>3, <2>1, <2>2, GotoKnown, ReturnKnown
       DEF InsertAllocation, At, Steps, PaySteps, InvoiceSteps, RefundSteps, VersionSteps
  <2>4. BooksTyped'
    <3>1. alloc' \in [Payments -> AllocationRecords]
      <4> DEFINE amount == Least(Paid[Pay(c)] - Allocated(Pay(c)), RemainingDue(call[c].head))
      <4>1. \/ alloc' = alloc
            \/ amount \in Nat /\ alloc' = [alloc EXCEPT ![Pay(c)] =
                                [NoAllocation EXCEPT !.exists = TRUE, !.amount = amount]]
        BY <1>3, <2>2 DEF InsertAllocation
      <4> HIDE DEF amount
      <4>2. amount \in Nat
              => [NoAllocation EXCEPT !.exists = TRUE, !.amount = amount] \in AllocationRecords
        BY DEF NoAllocation, AllocationRecords
      <4>3. QED
        BY <2>1, <4>1, <4>2 DEF TypeInv, BooksTyped
    <3>2. QED
      BY <1>3, <3>1 DEF InsertAllocation, TypeInv, BooksTyped
  <2>5. QED
    BY <1>3, <2>3, <2>4 DEF InsertAllocation, TypeInv
<1>4. ASSUME ApplyToSettlement(c) PROVE TypeInv'
  <2>1. Pay(c) \in Payments /\ InvoiceOf[Pay(c)] \in Invoices
    BY <1>4, CallTyped DEF ApplyToSettlement, At, PaySteps
  <2>2. call' \in [Calls -> Known] /\ reconciled' \subseteq Payments
    BY <1>4, <2>1, GotoKnown
       DEF ApplyToSettlement, At, Steps, PaySteps, InvoiceSteps, RefundSteps, VersionSteps
  <2>3. BooksTyped'
    <3>1. settlement' \in [Payments -> SettlementRecords]
      <4> DEFINE k == [settlement[Pay(c)] EXCEPT !.holds = TRUE]
      <4>1. settlement' = settlement \/ settlement' = [settlement EXCEPT ![Pay(c)] = k]
        BY <1>4 DEF ApplyToSettlement
      <4>2. k \in SettlementRecords
        BY <2>1 DEF TypeInv, BooksTyped, SettlementRecords
      <4> HIDE DEF k
      <4>3. QED
        BY <2>1, <4>1, <4>2 DEF TypeInv, BooksTyped
    <3>2. QED
      BY <1>4, <3>1 DEF ApplyToSettlement, TypeInv, BooksTyped
  <2>4. QED
    BY <1>4, <2>2, <2>3 DEF ApplyToSettlement, TypeInv
<1>5. ASSUME CheckSettlement(c) PROVE TypeInv'
  <2>1. call' \in [Calls -> Known] /\ reconciled' \subseteq Payments
    BY <1>5, GotoKnown
       DEF CheckSettlement, At, Steps, PaySteps, InvoiceSteps, RefundSteps, VersionSteps
  <2>2. BooksTyped'
    BY <1>5, BooksStay DEF CheckSettlement
  <2>3. QED
    BY <1>5, <2>1, <2>2 DEF CheckSettlement, TypeInv
<1>6. ASSUME ApplyToInvoice(c) PROVE TypeInv'
  <2>1. Pay(c) \in Payments /\ InvoiceOf[Pay(c)] \in Invoices
    BY <1>6, CallTyped DEF ApplyToInvoice, At, PaySteps
  <2>2. alloc[Pay(c)].amount \in Nat
    BY <1>6, <2>1, SettlementTyped
  <2>3. call' \in [Calls -> Known] /\ reconciled' \subseteq Payments
    BY <1>6, <2>1, <2>2, GotoKnown
       DEF ApplyToInvoice, At, Steps, PaySteps, InvoiceSteps, RefundSteps, VersionSteps
  <2>4. BooksTyped'
    <3>1. invoice' \in [Invoices -> InvoicesOver(Dues)]
      <4> DEFINE i == InvoiceOf[Pay(c)]
                 k == [invoice[i] EXCEPT !.applied = @ \union {Pay(c)}, !.rev = @ + 1,
                                         !.allocated = @ + alloc[Pay(c)].amount]
      <4>1. invoice' \in {invoice, [invoice EXCEPT ![i] = k]}
        BY <1>6 DEF ApplyToInvoice
      <4>2. invoice[i] \in InvoicesOver(Dues)
        BY <2>1 DEF TypeInv, BooksTyped
      <4>3. /\ invoice[i].applied \union {Pay(c)} \in SUBSET Payments
            /\ invoice[i].rev + 1 \in Nat
            /\ invoice[i].allocated + alloc[Pay(c)].amount \in Nat
        BY <2>1, <2>2, <4>2 DEF InvoicesOver
      <4>4. k \in InvoicesOver(Dues)
        BY <4>2, <4>3 DEF InvoicesOver
      <4> HIDE DEF k
      <4>5. QED
        BY <2>1, <4>1, <4>4 DEF TypeInv, BooksTyped
    <3>2. QED
      BY <1>6, <3>1 DEF ApplyToInvoice, TypeInv, BooksTyped
  <2>5. QED
    BY <1>6, <2>3, <2>4 DEF ApplyToInvoice, TypeInv
<1>7. ASSUME CheckInvoice(c) PROVE TypeInv'
  <2>1. call' \in [Calls -> Known] /\ reconciled' \subseteq Payments
    BY <1>7, GotoKnown
       DEF CheckInvoice, At, Steps, PaySteps, InvoiceSteps, RefundSteps, VersionSteps
  <2>2. BooksTyped'
    BY <1>7, BooksStay DEF CheckInvoice
  <2>3. QED
    BY <1>7, <2>1, <2>2 DEF CheckInvoice, TypeInv
<1>8. ASSUME Undo(c) PROVE TypeInv'
  <2>1. Pay(c) \in Payments /\ InvoiceOf[Pay(c)] \in Invoices
    BY <1>8, CallTyped DEF Undo, At, PaySteps
  <2>2. call' \in [Calls -> Known] /\ reconciled' \subseteq Payments
    BY <1>8, <2>1, GotoKnown
       DEF Undo, At, Steps, PaySteps, InvoiceSteps, RefundSteps, VersionSteps
  <2>3. BooksTyped'
    BY <1>8, <2>1 DEF Undo, TypeInv, BooksTyped, SettlementRecords
  <2>4. QED
    BY <1>8, <2>2, <2>3 DEF Undo, TypeInv
<1>9. ASSUME ReverseAllocation(c) PROVE TypeInv'
  <2>1. Pay(c) \in Payments /\ InvoiceOf[Pay(c)] \in Invoices
    BY <1>9, CallTyped DEF ReverseAllocation, At, PaySteps
  <2>2. call' \in [Calls -> Known] /\ reconciled' \subseteq Payments
    BY <1>9, <2>1, ReturnKnown
       DEF ReverseAllocation, At, Steps, PaySteps, InvoiceSteps, RefundSteps, VersionSteps
  <2>3. BooksTyped'
    BY <1>9, <2>1 DEF ReverseAllocation, TypeInv, BooksTyped, AllocationRecords
  <2>4. QED
    BY <1>9, <2>2, <2>3 DEF ReverseAllocation, TypeInv
<1>10. ASSUME MarkApplied(c) PROVE TypeInv'
  <2>1. Pay(c) \in Payments /\ InvoiceOf[Pay(c)] \in Invoices
    BY <1>10, CallTyped DEF MarkApplied, At, PaySteps
  <2>2. call' \in [Calls -> Known] /\ reconciled' \subseteq Payments
    BY <1>10, <2>1, RecomputeKnown
       DEF MarkApplied, At, Steps, PaySteps, InvoiceSteps, RefundSteps, VersionSteps
  <2>3. BooksTyped'
    BY <1>10, <2>1 DEF MarkApplied, TypeInv, BooksTyped, AllocationRecords
  <2>4. QED
    BY <1>10, <2>2, <2>3 DEF MarkApplied, TypeInv
<1>11. QED
  BY <1>1, <1>2, <1>3, <1>4, <1>5, <1>6, <1>7, <1>8, <1>9, <1>10

LEMMA RefundTypes ==
  ASSUME TypeInv, NEW c \in Calls
  PROVE  /\ Adjust(c) => TypeInv'
         /\ ApplyRefund(c) => TypeInv'
         /\ CheckRefund(c) => TypeInv'
         /\ Unadjust(c) => TypeInv'
         /\ Qualify(c) => TypeInv'
         /\ SpreadRefund(c) => TypeInv'
<1>1. ASSUME Adjust(c) PROVE TypeInv'
  <2>1. Pay(c) \in Payments /\ InvoiceOf[Pay(c)] \in Invoices
    BY <1>1, CallTyped DEF Adjust, At, PaySteps
  <2>2. call' \in [Calls -> Known] /\ reconciled' \subseteq Payments
    BY <1>1, <2>1, GotoKnown, ReturnKnown
       DEF Adjust, At, Steps, PaySteps, InvoiceSteps, RefundSteps, VersionSteps
  <2>3. BooksTyped'
    BY <1>1, <2>1 DEF Adjust, TypeInv, BooksTyped
  <2>4. QED
    BY <1>1, <2>2, <2>3 DEF Adjust, TypeInv
<1>2. ASSUME ApplyRefund(c) PROVE TypeInv'
  <2>1. Pay(c) \in Payments /\ InvoiceOf[Pay(c)] \in Invoices
    BY <1>2, CallTyped DEF ApplyRefund, At, PaySteps
  <2>2. /\ call[c].wd \in Withdrawals /\ Withdrawn[call[c].wd] \in Nat
        /\ settlement[Pay(c)].refunded \in Nat
    BY <1>2, <2>1, CallTyped, SettlementsAssumption, SettlementTyped
       DEF ApplyRefund, At, Knows, RefundSteps
  <2>3. call' \in [Calls -> Known] /\ reconciled' \subseteq Payments
    BY <1>2, <2>1, <2>2, GotoKnown
       DEF ApplyRefund, At, Steps, PaySteps, InvoiceSteps, RefundSteps, VersionSteps
  <2>4. BooksTyped'
    <3>1. settlement' \in [Payments -> SettlementRecords]
      <4> DEFINE k == [settlement[Pay(c)] EXCEPT !.refunded = @ + Withdrawn[call[c].wd],
                                                 !.refunds = @ \union {call[c].wd}]
      <4>1. settlement' \in {settlement, [settlement EXCEPT ![Pay(c)] = k]}
        BY <1>2 DEF ApplyRefund
      <4>2. settlement[Pay(c)] \in SettlementRecords
        BY <2>1 DEF TypeInv, BooksTyped
      <4>3. /\ settlement[Pay(c)].refunded + Withdrawn[call[c].wd] \in Nat
            /\ settlement[Pay(c)].refunds \union {call[c].wd} \in SUBSET Withdrawals
        BY <2>2, <4>2 DEF SettlementRecords
      <4>4. k \in SettlementRecords
        BY <4>2, <4>3 DEF SettlementRecords
      <4> HIDE DEF k
      <4>5. QED
        BY <2>1, <4>1, <4>4 DEF TypeInv, BooksTyped
    <3>2. QED
      BY <1>2, <3>1 DEF ApplyRefund, TypeInv, BooksTyped
  <2>5. QED
    BY <1>2, <2>3, <2>4 DEF ApplyRefund, TypeInv
<1>3. ASSUME CheckRefund(c) PROVE TypeInv'
  <2>1. call' \in [Calls -> Known] /\ reconciled' \subseteq Payments
    BY <1>3, GotoKnown
       DEF CheckRefund, At, Steps, PaySteps, InvoiceSteps, RefundSteps, VersionSteps
  <2>2. BooksTyped'
    BY <1>3, BooksStay DEF CheckRefund
  <2>3. QED
    BY <1>3, <2>1, <2>2 DEF CheckRefund, TypeInv
<1>4. ASSUME Unadjust(c) PROVE TypeInv'
  <2>1. Pay(c) \in Payments /\ InvoiceOf[Pay(c)] \in Invoices
    BY <1>4, CallTyped DEF Unadjust, At, PaySteps
  <2>2. call' \in [Calls -> Known] /\ reconciled' \subseteq Payments
    BY <1>4, <2>1, ReturnKnown
       DEF Unadjust, At, Steps, PaySteps, InvoiceSteps, RefundSteps, VersionSteps
  <2>3. BooksTyped'
    BY <1>4, <2>1 DEF Unadjust, TypeInv, BooksTyped
  <2>4. QED
    BY <1>4, <2>2, <2>3 DEF Unadjust, TypeInv
<1>5. ASSUME Qualify(c) PROVE TypeInv'
  <2>1. Pay(c) \in Payments /\ InvoiceOf[Pay(c)] \in Invoices
    BY <1>5, CallTyped DEF Qualify, At, PaySteps
  <2>2. call[c].counted \in BOOLEAN
    BY <1>5, CallTyped DEF CallRecords
  <2>3. call' \in [Calls -> Known] /\ reconciled' \subseteq Payments
    BY <1>5, <2>1, <2>2, GotoKnown
       DEF Qualify, At, Steps, PaySteps, InvoiceSteps, RefundSteps, VersionSteps
  <2>4. BooksTyped'
    BY <1>5, <2>1, <2>2 DEF Qualify, TypeInv, BooksTyped, SettlementRecords
  <2>5. QED
    BY <1>5, <2>3, <2>4 DEF Qualify, TypeInv
<1>6. ASSUME SpreadRefund(c) PROVE TypeInv'
  <2>1. Pay(c) \in Payments /\ InvoiceOf[Pay(c)] \in Invoices
    BY <1>6, CallTyped DEF SpreadRefund, At, PaySteps
  <2>2. call' \in [Calls -> Known] /\ reconciled' \subseteq Payments
    BY <1>6, <2>1, ReturnKnown, RecomputeKnown
       DEF SpreadRefund, At, Steps, PaySteps, InvoiceSteps, RefundSteps, VersionSteps
  <2>3. BooksTyped'
    BY <1>6, BooksStay DEF SpreadRefund
  <2>4. QED
    BY <1>6, <2>2, <2>3 DEF SpreadRefund, TypeInv
<1>7. QED
  BY <1>1, <1>2, <1>3, <1>4, <1>5, <1>6

\* What a call begins with, for the three kinds of calls.
LEMMA PaymentCallKnown ==
  ASSUME NEW at \in {"settle", "applySettlement"}, NEW op \in {"settle", "repair"},
         NEW p \in Payments
  PROVE  [NoCall EXCEPT !.at = at, !.op = op, !.pay = p] \in Known
<1> DEFINE k == [NoCall EXCEPT !.at = at, !.op = op, !.pay = p]
<1>1. k \in CallRecords
  <2>1. at \in Steps
    BY DEF Steps
  <2>2. QED
    BY <2>1, NoCallKnown DEF Known, CallRecords
<1>2. k.at = at /\ k.pay = p
  BY DEF NoCall
<1> HIDE DEF k
<1>3. Knows(k)
  BY <1>2 DEF Knows, InvoiceSteps, RefundSteps, VersionSteps
<1>4. k \in Known
  BY <1>1, <1>3 DEF Known
<1>5. QED
  BY <1>4 DEF k

LEMMA RefundCallKnown ==
  ASSUME NEW at \in {"adjust", "refund"}, NEW p \in Payments, NEW w \in Withdrawals
  PROVE  [NoCall EXCEPT !.at = at, !.op = "refund", !.pay = p, !.wd = w] \in Known
<1> DEFINE k == [NoCall EXCEPT !.at = at, !.op = "refund", !.pay = p, !.wd = w]
<1>1. k \in CallRecords
  <2>1. at \in Steps
    BY DEF Steps
  <2>2. QED
    BY <2>1, NoCallKnown DEF Known, CallRecords
<1>2. k.at = at /\ k.pay = p /\ k.wd = w
  BY DEF NoCall
<1> HIDE DEF k
<1>3. Knows(k)
  BY <1>2 DEF Knows, InvoiceSteps, VersionSteps
<1>4. k \in Known
  BY <1>1, <1>3 DEF Known
<1>5. QED
  BY <1>4 DEF k

LEMMA InvoiceCallKnown ==
  ASSUME NEW at \in {"countAllocations", "version", "cancel"},
         NEW op \in {"revise", "issue", "cancel"}, NEW i \in Invoices,
         NEW head \in InvoicesOver(Nat),
         at # "cancel" => head.version < MaxVersion /\ head.due \in Dues
  PROVE  [NoCall EXCEPT !.at = at, !.op = op, !.inv = i, !.head = head] \in Known
<1> DEFINE k == [NoCall EXCEPT !.at = at, !.op = op, !.inv = i, !.head = head]
<1>1. k \in CallRecords
  <2>1. at \in Steps
    BY DEF Steps
  <2>2. QED
    BY <2>1, NoCallKnown DEF Known, CallRecords
<1>2. k.at = at /\ k.inv = i /\ k.head = head /\ k.op = op /\ k.then = "end"
  BY DEF NoCall
<1> HIDE DEF k
<1>3. Knows(k)
  BY <1>2 DEF Knows, PaySteps, RefundSteps, VersionSteps
<1>4. k \in Known
  BY <1>1, <1>3 DEF Known
<1>5. QED
  BY <1>4 DEF k

LEMMA BeginTypes ==
  ASSUME TypeInv, NEW c \in Calls
  PROVE  /\ \A p \in Payments : Reconcile(c, p) => TypeInv'
         /\ \A p \in Payments : Repair(c, p) => TypeInv'
         /\ \A p \in Payments, w \in Withdrawals : BeginRefund(c, p, w) => TypeInv'
         /\ \A i \in Invoices, op \in {"revise", "issue"} : BeginVersion(c, i, op) => TypeInv'
         /\ \A i \in Invoices : BeginCancel(c, i) => TypeInv'
<1>1. ASSUME NEW p \in Payments, Reconcile(c, p) PROVE TypeInv'
  <2>1. [NoCall EXCEPT !.at = "settle", !.op = "settle", !.pay = p] \in Known
    BY PaymentCallKnown
  <2>3. call' \in [Calls -> Known] /\ reconciled' \subseteq Payments
    BY <1>1, <2>1, StartKnown DEF Reconcile
  <2>4. settlement' \in [Payments -> SettlementRecords]
    <3> DEFINE k == [NoSettlement EXCEPT !.exists = TRUE, !.counted = TRUE]
    <3>1. settlement' = settlement \/ settlement' = [settlement EXCEPT ![p] = k]
      BY <1>1 DEF Reconcile
    <3>2. k \in SettlementRecords
      BY DEF SettlementRecords, NoSettlement
    <3> HIDE DEF k
    <3>3. QED
      BY <3>1, <3>2 DEF TypeInv, BooksTyped
  <2>5. QED
    BY <1>1, <2>3, <2>4 DEF Reconcile, TypeInv, BooksTyped
<1>2. ASSUME NEW p \in Payments, Repair(c, p) PROVE TypeInv'
  <2>1. [NoCall EXCEPT !.at = "applySettlement", !.op = "repair", !.pay = p] \in Known
    BY PaymentCallKnown
  <2>3. call' \in [Calls -> Known] /\ reconciled' \subseteq Payments
    BY <1>2, <2>1, StartKnown DEF Repair
  <2>4. QED
    BY <1>2, <2>3, BooksStay DEF Repair, TypeInv
<1>3. ASSUME NEW p \in Payments, NEW w \in Withdrawals, BeginRefund(c, p, w) PROVE TypeInv'
  <2> DEFINE at == IF adjust[w] = p THEN "refund" ELSE "adjust"
  <2>1. at \in {"adjust", "refund"}
    OBVIOUS
  <2>2. Start(c, [NoCall EXCEPT !.at = at, !.op = "refund", !.pay = p, !.wd = w])
    BY <1>3 DEF BeginRefund
  <2> HIDE DEF at
  <2>3. [NoCall EXCEPT !.at = at, !.op = "refund", !.pay = p, !.wd = w] \in Known
    BY <2>1, RefundCallKnown
  <2>4. call' \in [Calls -> Known] /\ reconciled' \subseteq Payments
    BY <2>2, <2>3, StartKnown
  <2>5. QED
    BY <1>3, <2>4, BooksStay DEF BeginRefund, TypeInv
<1>4. ASSUME NEW i \in Invoices, NEW op \in {"revise", "issue"}, BeginVersion(c, i, op)
      PROVE  TypeInv'
  <2> DEFINE at == IF op = "revise" THEN "countAllocations" ELSE "version"
  <2>1. at \in {"countAllocations", "version"} /\ invoice[i].version < MaxVersion
    BY <1>4 DEF BeginVersion
  <2>2. Start(c, [NoCall EXCEPT !.at = at, !.op = op, !.inv = i, !.head = invoice[i]])
    BY <1>4 DEF BeginVersion
  <2> HIDE DEF at
  <2>3. invoice[i] \in InvoicesOver(Nat) /\ invoice[i].due \in Dues
    BY WiderDues DEF TypeInv, BooksTyped, InvoicesOver
  <2>4. [NoCall EXCEPT !.at = at, !.op = op, !.inv = i, !.head = invoice[i]] \in Known
    BY <2>1, <2>3, InvoiceCallKnown
  <2>5. call' \in [Calls -> Known] /\ reconciled' \subseteq Payments
    BY <2>2, <2>4, StartKnown
  <2>6. QED
    BY <1>4, <2>5, BooksStay DEF BeginVersion, TypeInv
<1>5. ASSUME NEW i \in Invoices, BeginCancel(c, i) PROVE TypeInv'
  <2>1. invoice[i] \in InvoicesOver(Nat)
    BY WiderDues DEF TypeInv, BooksTyped
  <2>2. [NoCall EXCEPT !.at = "cancel", !.op = "cancel", !.inv = i, !.head = invoice[i]] \in Known
    BY <2>1, InvoiceCallKnown
  <2>3. call' \in [Calls -> Known] /\ reconciled' \subseteq Payments
    BY <1>5, <2>2, StartKnown DEF BeginCancel
  <2>4. QED
    BY <1>5, <2>3, BooksStay DEF BeginCancel, TypeInv
<1>6. QED
  BY <1>1, <1>2, <1>3, <1>4, <1>5

LEMMA VersionTypes ==
  ASSUME TypeInv, NEW c \in Calls
  PROVE  /\ CountAllocations(c) => TypeInv'
         /\ CountIntents(c) => TypeInv'
         /\ InsertVersion(c) => TypeInv'
         /\ PublishVersion(c) => TypeInv'
         /\ DropVersion(c) => TypeInv'
         /\ Cancel(c) => TypeInv'
<1>1. ASSUME CountAllocations(c) PROVE TypeInv'
  <2>1. call' \in [Calls -> Known] /\ reconciled' \subseteq Payments
    BY <1>1, GotoKnown, ReturnKnown
       DEF CountAllocations, At, Steps, PaySteps, InvoiceSteps, RefundSteps, VersionSteps
  <2>2. QED
    BY <1>1, <2>1, BooksStay DEF CountAllocations, TypeInv
<1>2. ASSUME CountIntents(c) PROVE TypeInv'
  <2>1. call' \in [Calls -> Known] /\ reconciled' \subseteq Payments
    BY <1>2, GotoKnown, ReturnKnown
       DEF CountIntents, At, Steps, PaySteps, InvoiceSteps, RefundSteps, VersionSteps
  <2>2. QED
    BY <1>2, <2>1, BooksStay DEF CountIntents, TypeInv
<1>3. ASSUME InsertVersion(c) PROVE TypeInv'
  <2>1. call' \in [Calls -> Known] /\ reconciled' \subseteq Payments
    BY <1>3, GotoKnown, ReturnKnown
       DEF InsertVersion, At, Steps, PaySteps, InvoiceSteps, RefundSteps, VersionSteps
  <2>2. call[c].inv \in Invoices /\ call[c].head.version + 1 \in 1..MaxVersion
    BY <1>3, CallTyped, SettlementsAssumption
       DEF InsertVersion, At, Knows, VersionSteps, InvoiceSteps, CallRecords, InvoicesOver
  <2>3. versions' \subseteq Invoices \X (1..MaxVersion)
    BY <1>3, <2>2 DEF InsertVersion, TypeInv, BooksTyped
  <2>4. QED
    BY <1>3, <2>1, <2>3 DEF InsertVersion, TypeInv, BooksTyped
<1>4. ASSUME PublishVersion(c) PROVE TypeInv'
  <2> DEFINE i == call[c].inv
             k(due) == [invoice[i] EXCEPT !.version = @ + 1, !.due = due, !.rev = @ + 1,
                          !.state = IF call[c].op = "issue" THEN "issued" ELSE @,
                          !.issued = @ \/ call[c].op = "issue"]
  <2>1. call' \in [Calls -> Known] /\ reconciled' \subseteq Payments
    BY <1>4, GotoKnown, ReturnKnown
       DEF PublishVersion, At, Steps, PaySteps, InvoiceSteps, RefundSteps, VersionSteps
  <2>2. i \in Invoices /\ call[c].head.version < MaxVersion
    BY <1>4, CallTyped DEF PublishVersion, At, Knows, VersionSteps, InvoiceSteps
  <2>3. invoice[i] \in InvoicesOver(Dues)
    BY <2>2 DEF TypeInv, BooksTyped
  <2>4. \/ invoice' = invoice
        \/ /\ Unmoved(i, c)
           /\ \E due \in IF call[c].op = "revise" THEN Dues ELSE {call[c].head.due} :
                invoice' = [invoice EXCEPT ![i] = k(due)]
    BY <1>4 DEF PublishVersion
  <2>5. \A due \in Dues : Unmoved(i, c) => k(due) \in InvoicesOver(Dues)
    <3> TAKE due \in Dues
    <3> HAVE Unmoved(i, c)
    <3>1. invoice[i].version + 1 \in 1..MaxVersion /\ invoice[i].rev + 1 \in Nat
      BY <2>2, <2>3, SettlementsAssumption DEF InvoicesOver, Unmoved
    <3>2. (IF call[c].op = "issue" THEN "issued" ELSE invoice[i].state) \in InvoiceStates
      BY <2>3 DEF InvoicesOver, InvoiceStates, Open, Revisable
    <3>3. QED
      BY <2>3, <3>1, <3>2 DEF InvoicesOver
  <2> HIDE DEF k
  <2>6. invoice' \in [Invoices -> InvoicesOver(Dues)]
    <3>1. CASE invoice' = invoice
      BY <3>1 DEF TypeInv, BooksTyped
    <3>2. CASE invoice' # invoice
      <4>1. call[c].head.due \in Dues
        BY <1>4, CallTyped DEF PublishVersion, At, Knows, VersionSteps
      <4>2. PICK due \in Dues : Unmoved(i, c) /\ invoice' = [invoice EXCEPT ![i] = k(due)]
        BY <2>4, <3>2, <4>1
      <4>3. QED
        BY <2>2, <2>5, <4>2 DEF TypeInv, BooksTyped
    <3>3. QED
      BY <3>1, <3>2
  <2>7. QED
    BY <1>4, <2>1, <2>6 DEF PublishVersion, TypeInv, BooksTyped
<1>5. ASSUME DropVersion(c) PROVE TypeInv'
  <2>1. call' \in [Calls -> Known] /\ reconciled' \subseteq Payments
    BY <1>5, ReturnKnown DEF DropVersion
  <2>2. QED
    BY <1>5, <2>1 DEF DropVersion, TypeInv, BooksTyped
<1>6. ASSUME Cancel(c) PROVE TypeInv'
  <2> DEFINE i == call[c].inv
             closed == IF call[c].head.state = "draft" THEN "void" ELSE "cancelled"
             k == [invoice[i] EXCEPT !.state = closed, !.closed = closed, !.rev = @ + 1]
  <2>1. call' \in [Calls -> Known] /\ reconciled' \subseteq Payments
    BY <1>6, ReturnKnown DEF Cancel
  <2>2. i \in Invoices
    BY <1>6, CallTyped DEF Cancel, At, Knows, InvoiceSteps
  <2>3. invoice[i] \in InvoicesOver(Dues)
    BY <2>2 DEF TypeInv, BooksTyped
  <2>4. invoice' = invoice \/ invoice' = [invoice EXCEPT ![i] = k]
    BY <1>6 DEF Cancel
  <2>5. closed \in {"no", "cancelled", "void"} /\ closed \in InvoiceStates
    BY DEF InvoiceStates
  <2>6. k \in InvoicesOver(Dues)
    <3> HIDE DEF closed
    <3>1. invoice[i].rev + 1 \in Nat
      BY <2>3 DEF InvoicesOver
    <3>2. QED
      BY <2>3, <2>5, <3>1 DEF InvoicesOver
  <2> HIDE DEF k
  <2>7. invoice' \in [Invoices -> InvoicesOver(Dues)]
    BY <2>2, <2>4, <2>6 DEF TypeInv, BooksTyped
  <2>8. QED
    BY <1>6, <2>1, <2>7 DEF Cancel, TypeInv, BooksTyped
<1>7. QED
  BY <1>1, <1>2, <1>3, <1>4, <1>5, <1>6

\* What a recomputation adds up are natural numbers.
LEMMA ShownTyped ==
  ASSUME TypeInv, NEW picked \in SUBSET Payments
  PROVE  /\ Total([p \in picked |-> alloc[p].amount], picked) \in Nat
         /\ Total([p \in picked |-> Share(p)], picked) \in Nat
<1>1. IsFiniteSet(picked)
  BY SettlementsAssumption, FS_Subset
<1> DEFINE f == [p \in picked |-> alloc[p].amount]
           g == [p \in picked |-> Share(p)]
<1>2. \A p \in picked : f[p] \in Nat /\ g[p] \in Nat
  BY SettlementTyped
<1> HIDE DEF f, g
<1>3. Total(f, picked) \in Nat /\ Total(g, picked) \in Nat
  BY <1>1, <1>2, TotalType
<1>4. QED
  BY <1>3 DEF f, g

LEMMA ProjectedTyped ==
  ASSUME NEW head \in InvoicesOver(Nat), NEW shown \in Nat \X Nat
  PROVE  /\ Projected(head, shown) \in InvoicesOver(Nat)
         /\ Projected(head, shown).allocated = shown[1]
         /\ Projected(head, shown).refunded = shown[2]
         /\ Projected(head, shown).state = Derived(head, shown[1], shown[2])
         /\ Projected(head, shown).due = head.due
         /\ Projected(head, shown).version = head.version
         /\ Projected(head, shown).applied = head.applied
         /\ Projected(head, shown).closed = head.closed
         /\ Projected(head, shown).issued = head.issued
         /\ Projected(head, shown).rev = head.rev
<1>1. Derived(head, shown[1], shown[2]) \in InvoiceStates
  BY DEF Derived, InvoiceStates, InvoicesOver, Open, Revisable
<1>2. shown[1] \in Nat /\ shown[2] \in Nat
  OBVIOUS
<1>3. Projected(head, shown) \in InvoicesOver(Nat)
  BY <1>1, <1>2 DEF Projected, InvoicesOver
<1>4. QED
  BY <1>3 DEF Projected, InvoicesOver

LEMMA RecomputeTypes ==
  ASSUME TypeInv, NEW c \in Calls
  PROVE  /\ ReadHead(c) => TypeInv'
         /\ ReadAllocations(c) => TypeInv'
         /\ ReadSettlements(c) => TypeInv'
         /\ WriteProjection(c) => TypeInv'
         /\ Requalify(c) => TypeInv'
<1>1. ASSUME ReadHead(c) PROVE TypeInv'
  <2> DEFINE k == [call[c] EXCEPT !.at = "allocations", !.head = invoice[call[c].inv]]
  <2>1. call[c] \in CallRecords /\ Knows(call[c]) /\ call[c].inv \in Invoices
    BY <1>1, CallTyped DEF ReadHead, At, Knows, InvoiceSteps
  <2>2. invoice[call[c].inv] \in InvoicesOver(Nat)
    BY <2>1, WiderDues DEF TypeInv, BooksTyped
  <2>3. k \in CallRecords
    <3>1. "allocations" \in Steps
      BY DEF Steps
    <3>2. QED
      BY <2>1, <2>2, <3>1 DEF CallRecords
  <2>4. k.at = "allocations" /\ k.op = call[c].op /\ k.then = call[c].then
        /\ k.pay = call[c].pay /\ k.inv = call[c].inv
    BY <2>1 DEF CallRecords
  <2>5. call' = [call EXCEPT ![c] = k] /\ UNCHANGED <<books, reconciled, crashes>>
    BY <1>1 DEF ReadHead
  <2> HIDE DEF k
  <2>6. k \in Known
    BY <2>1, <2>3, <2>4 DEF Known, Knows, PaySteps, RefundSteps, VersionSteps
  <2>7. QED
    BY <2>5, <2>6, BooksStay DEF TypeInv
<1>2. ASSUME ReadAllocations(c) PROVE TypeInv'
  <2> DEFINE q == {p \in call[c].head.applied : ~alloc[p].reversed}
             k == [call[c] EXCEPT !.at = "settlements", !.picked = q]
  <2>1. call[c] \in CallRecords /\ Knows(call[c]) /\ call[c].inv \in Invoices
    BY <1>2, CallTyped DEF ReadAllocations, At, Knows, InvoiceSteps
  <2>2. q \in SUBSET Payments
    BY <2>1 DEF CallRecords, InvoicesOver
  <2> HIDE DEF q
  <2>3. k \in CallRecords
    <3>1. "settlements" \in Steps
      BY DEF Steps
    <3>2. QED
      BY <2>1, <2>2, <3>1 DEF CallRecords
  <2>4. k.at = "settlements" /\ k.op = call[c].op /\ k.then = call[c].then
        /\ k.pay = call[c].pay /\ k.inv = call[c].inv
    BY <2>1 DEF CallRecords
  <2>5. call' = [call EXCEPT ![c] = k] /\ UNCHANGED <<books, reconciled, crashes>>
    BY <1>2 DEF ReadAllocations, q
  <2> HIDE DEF k
  <2>6. k \in Known
    BY <2>1, <2>3, <2>4 DEF Known, Knows, PaySteps, RefundSteps, VersionSteps
  <2>7. QED
    BY <2>5, <2>6, BooksStay DEF TypeInv
<1>3. ASSUME ReadSettlements(c) PROVE TypeInv'
  <2> DEFINE q == call[c].picked
             s == <<Total([p \in q |-> alloc[p].amount], q), Total([p \in q |-> Share(p)], q)>>
             k == [call[c] EXCEPT !.at = "write", !.picked = {}, !.shown = s]
  <2>1. call[c] \in CallRecords /\ Knows(call[c]) /\ call[c].inv \in Invoices
    BY <1>3, CallTyped DEF ReadSettlements, At, Knows, InvoiceSteps
  <2>2. s \in Nat \X Nat
    <3>1. q \in SUBSET Payments
      BY <2>1 DEF CallRecords
    <3> HIDE DEF q
    <3>2. QED
      BY <3>1, ShownTyped
  <2> HIDE DEF s
  <2>3. k \in CallRecords
    <3>1. "write" \in Steps
      BY DEF Steps
    <3>2. QED
      BY <2>1, <2>2, <3>1 DEF CallRecords
  <2>4. k.at = "write" /\ k.op = call[c].op /\ k.then = call[c].then
        /\ k.pay = call[c].pay /\ k.inv = call[c].inv
    BY <2>1 DEF CallRecords
  <2>5. call' = [call EXCEPT ![c] = k] /\ UNCHANGED <<books, reconciled, crashes>>
    BY <1>3 DEF ReadSettlements, s
  <2> HIDE DEF k
  <2>6. k \in Known
    BY <2>1, <2>3, <2>4 DEF Known, Knows, PaySteps, RefundSteps, VersionSteps
  <2>7. QED
    BY <2>5, <2>6, BooksStay DEF TypeInv
<1>4. ASSUME WriteProjection(c) PROVE TypeInv'
  <2> DEFINE i == call[c].inv
             read == call[c].head
             head == Projected(read, call[c].shown)
             on == [call[c] EXCEPT !.at = "insert", !.inv = None, !.then = "end",
                                   !.head = head, !.shown = <<0, 0>>, !.tries = 1]
             again == [call[c] EXCEPT !.at = "head", !.tries = @ + 1]
             written == [invoice[i] EXCEPT !.allocated = head.allocated,
                           !.refunded = head.refunded, !.state = head.state, !.rev = @ + 1]
  <2>1. /\ call[c] \in CallRecords /\ Knows(call[c]) /\ i \in Invoices
        /\ read \in InvoicesOver(Nat) /\ call[c].shown \in Nat \X Nat
        /\ invoice[i] \in InvoicesOver(Dues)
    BY <1>4, CallTyped
       DEF WriteProjection, At, Knows, InvoiceSteps, CallRecords, TypeInv, BooksTyped
  <2>2. head \in InvoicesOver(Nat)
    BY <2>1, ProjectedTyped
  <2>3. /\ invoice' = invoice \/ invoice' = [invoice EXCEPT ![i] = written]
        /\ \/ Return(c)
           \/ /\ call[c].then # "end" /\ call' = [call EXCEPT ![c] = on]
              /\ reconciled' = reconciled
           \/ /\ call[c].tries < 5 /\ call' = [call EXCEPT ![c] = again]
              /\ reconciled' = reconciled
           \/ call' = [call EXCEPT ![c] = NoCall] /\ reconciled' = reconciled
        /\ UNCHANGED <<versions, intent, settlement, alloc, adjust, crashes>>
    BY <1>4 DEF WriteProjection
  <2> HIDE DEF head
  <2>4. written \in InvoicesOver(Dues)
    <3>1. invoice[i].rev + 1 \in Nat
      BY <2>1 DEF InvoicesOver
    <3>2. head.allocated \in Nat /\ head.refunded \in Nat /\ head.state \in InvoiceStates
      BY <2>2 DEF InvoicesOver
    <3>3. QED
      BY <2>1, <3>1, <3>2 DEF InvoicesOver
  <2>5. call[c].then # "end" => on \in Known
    <3>1. "insert" \in Steps /\ <<0, 0>> \in Nat \X Nat /\ 1 \in 1..5
      BY DEF Steps
    <3>2. on \in CallRecords
      BY <2>1, <2>2, <3>1 DEF CallRecords
    <3>3. on.at = "insert" /\ on.op = call[c].op /\ on.then = "end" /\ on.pay = call[c].pay
      BY <2>1 DEF CallRecords
    <3>4. call[c].then # "end" => call[c].pay \in Payments
      BY <2>1 DEF CallRecords, Knows
    <3> HIDE DEF on
    <3>5. QED
      BY <2>1, <3>2, <3>3, <3>4
         DEF Known, Knows, PaySteps, RefundSteps, VersionSteps, InvoiceSteps
  <2>6. call[c].tries < 5 => again \in Known
    <3> HAVE call[c].tries < 5
    <3>1. "head" \in Steps /\ call[c].tries + 1 \in 1..5
      BY <2>1 DEF Steps, CallRecords
    <3>2. again \in CallRecords
      BY <2>1, <3>1 DEF CallRecords
    <3>3. again.at = "head" /\ again.op = call[c].op /\ again.then = call[c].then
          /\ again.pay = call[c].pay /\ again.inv = i
      BY <2>1 DEF CallRecords
    <3> HIDE DEF again
    <3>4. QED
      BY <2>1, <3>2, <3>3 DEF Known, Knows, PaySteps, RefundSteps, VersionSteps
  <2> HIDE DEF on, again, written
  <2>7. call' \in [Calls -> Known] /\ reconciled' \subseteq Payments
    <3>1. CASE Return(c)
      BY <3>1, ReturnKnown
    <3>2. CASE ~Return(c)
      BY <2>3, <2>5, <2>6, <3>2, NoCallKnown DEF TypeInv
    <3>3. QED
      BY <3>1, <3>2
  <2>8. invoice' \in [Invoices -> InvoicesOver(Dues)]
    BY <2>1, <2>3, <2>4 DEF TypeInv, BooksTyped
  <2>9. QED
    BY <2>3, <2>7, <2>8 DEF TypeInv, BooksTyped
<1>5. ASSUME Requalify(c) PROVE TypeInv'
  <2> DEFINE b == settlement[Pay(c)].refunded < Paid[Pay(c)]
             k == [call[c] EXCEPT !.at = "qualify", !.counted = b]
  <2>1. call[c] \in CallRecords /\ Knows(call[c]) /\ call[c].pay \in Payments
    BY <1>5, CallTyped DEF Requalify, At, PaySteps, Pay
  <2>2. k \in CallRecords
    <3>1. "qualify" \in Steps /\ b \in BOOLEAN
      BY DEF Steps
    <3> HIDE DEF b
    <3>2. QED
      BY <2>1, <3>1 DEF CallRecords
  <2>3. k.at = "qualify" /\ k.pay = call[c].pay
    BY <2>1 DEF CallRecords
  <2>4. call' = [call EXCEPT ![c] = k] /\ UNCHANGED <<books, reconciled, crashes>>
    BY <1>5 DEF Requalify
  <2> HIDE DEF k
  <2>5. k \in Known
    BY <2>1, <2>2, <2>3 DEF Known, Knows, InvoiceSteps, RefundSteps, VersionSteps
  <2>6. QED
    BY <2>4, <2>5, BooksStay DEF TypeInv
<1>6. QED
  BY <1>1, <1>2, <1>3, <1>4, <1>5

LEMMA InitTypes == Init => TypeInv
<1> HAVE Init
<1>1. \A d \in Dues, s \in Revisable : NewInvoice(d, s) \in InvoicesOver(Dues)
  BY NewInvoiceTyped, SettlementsAssumption
<1>2. invoice \in [Invoices -> InvoicesOver(Dues)]
  BY <1>1 DEF Init
<1>3. versions \subseteq Invoices \X (1..MaxVersion)
  BY SettlementsAssumption DEF Init
<1>4. settlement \in [Payments -> SettlementRecords] /\ alloc \in [Payments -> AllocationRecords]
  BY DEF Init, NoSettlement, NoAllocation, SettlementRecords, AllocationRecords
<1>5. intent \in [Payments -> [state : {"none", "open", "settled"}, version : 0..MaxVersion,
                               lapsed : BOOLEAN, paid : BOOLEAN]]
  BY SettlementsAssumption DEF Init, NoIntent
<1>6. QED
  BY <1>2, <1>3, <1>4, <1>5, NoCallKnown, SettlementsAssumption
     DEF Init, TypeInv, BooksTyped

LEMMA CrashTypes ==
  ASSUME TypeInv, NEW c \in Calls, Crash(c)
  PROVE  TypeInv'
<1>1. crashes' \in 0..MaxCrashes
  BY SettlementsAssumption DEF TypeInv, Crash
<1>2. QED
  BY <1>1, NoCallKnown, BooksStay DEF Crash, TypeInv

LEMMA NextTypes == TypeInv /\ [Next]_vars => TypeInv'
<1> SUFFICES ASSUME TypeInv, [Next]_vars PROVE TypeInv'
  OBVIOUS
<1>1. ASSUME NEW c \in Calls, Begin(c) PROVE TypeInv'
  BY <1>1, QuoteTypes, BeginTypes DEF Begin
<1>2. ASSUME NEW c \in Calls, Proceed(c) PROVE TypeInv'
  <2>1. CASE InsertIntent(c)
    <3>1. call[c].at \in PaySteps
      BY <2>1 DEF InsertIntent, At, PaySteps
    <3>2. QED
      BY <2>1, <3>1, CallTyped, QuoteTypes
  <2>2. CASE ~InsertIntent(c)
    BY <1>2, <2>2, AllocationTypes, RefundTypes, VersionTypes, RecomputeTypes DEF Proceed
  <2>3. QED
    BY <2>1, <2>2
<1>3. ASSUME NEW p \in Payments, Lapse(p) PROVE TypeInv'
  BY <1>3 DEF Lapse, TypeInv, BooksTyped
<1>4. ASSUME NEW p \in Payments, Publish(p) PROVE TypeInv'
  BY <1>4 DEF Publish, TypeInv, BooksTyped
<1>5. CASE UNCHANGED vars
  BY <1>5 DEF vars, books, TypeInv, BooksTyped
<1>6. QED
  BY <1>1, <1>2, <1>3, <1>4, <1>5, CrashTypes DEF Next

\* Types, and what a call at each step is known to work on.
THEOREM SettlementsType == Spec => []TypeOK
<1>1. TypeInv => TypeOK
  BY TypeInvImpliesTypeOK
<1>2. QED
  BY <1>1, InitTypes, NextTypes, PTL DEF Spec
-----------------------------------------------------------------------------
(* Who writes what. A step that changes one of the books is one of a few   *)
(* actions, and the others leave it alone.                                 *)

LEMMA BeginFrame ==
  ASSUME NEW c \in Calls, Begin(c)
  PROVE  /\ UNCHANGED <<invoice, versions, intent, alloc, adjust, crashes>>
         /\ settlement' = settlement \/ \E p \in Payments : Reconcile(c, p)
  BY DEF Begin, BeginQuote, Reconcile, Repair, BeginRefund, BeginVersion, BeginCancel, books

LEMMA ProceedFrame ==
  ASSUME NEW c \in Calls, Proceed(c)
  PROVE  /\ UNCHANGED crashes
         /\ \/ UNCHANGED invoice
            \/ ApplyToInvoice(c) \/ WriteProjection(c) \/ PublishVersion(c) \/ Cancel(c)
         /\ \/ UNCHANGED settlement
            \/ ApplyToSettlement(c) \/ Undo(c) \/ ApplyRefund(c) \/ Qualify(c)
         /\ \/ UNCHANGED alloc
            \/ InsertAllocation(c) \/ ReverseAllocation(c) \/ MarkApplied(c)
         /\ UNCHANGED adjust \/ Adjust(c) \/ Unadjust(c)
         /\ UNCHANGED versions \/ InsertVersion(c) \/ DropVersion(c)
<1>1. CASE InsertIntent(c) \/ SettleIntent(c) \/ FindAllocation(c) \/ InsertAllocation(c)
           \/ ApplyToSettlement(c) \/ CheckSettlement(c) \/ ApplyToInvoice(c)
           \/ CheckInvoice(c) \/ Undo(c) \/ ReverseAllocation(c) \/ MarkApplied(c)
  BY <1>1
     DEF InsertIntent, SettleIntent, FindAllocation, InsertAllocation, ApplyToSettlement,
     CheckSettlement, ApplyToInvoice, CheckInvoice, Undo, ReverseAllocation, MarkApplied, books
<1>2. CASE ReadHead(c) \/ ReadAllocations(c) \/ ReadSettlements(c) \/ WriteProjection(c)
           \/ Adjust(c) \/ ApplyRefund(c) \/ CheckRefund(c) \/ Unadjust(c)
           \/ Requalify(c) \/ Qualify(c) \/ SpreadRefund(c)
  BY <1>2
     DEF ReadHead, ReadAllocations, ReadSettlements, WriteProjection, Adjust, ApplyRefund,
     CheckRefund, Unadjust, Requalify, Qualify, SpreadRefund, books
<1>3. CASE CountAllocations(c) \/ CountIntents(c) \/ InsertVersion(c) \/ PublishVersion(c)
           \/ DropVersion(c) \/ Cancel(c)
  BY <1>3 DEF CountAllocations, CountIntents, InsertVersion, PublishVersion, DropVersion,
     Cancel, books
<1>4. QED
  BY <1>1, <1>2, <1>3 DEF Proceed

\* A step moves the call that takes it and no other.
LEMMA OthersStay ==
  ASSUME TypeInv, NEW c \in Calls, Begin(c) \/ Proceed(c) \/ Crash(c),
         NEW d \in Calls, d # c
  PROVE  call'[d] = call[d]
<1>0. \A k : call' = [call EXCEPT ![c] = k] => call'[d] = call[d]
  BY DEF TypeInv
<1>1. CASE Begin(c)
  <2>1. \A with : Start(c, with) => call'[d] = call[d]
    BY <1>0 DEF Start
  <2>2. QED
    BY <1>1, <2>1
       DEF Begin, BeginQuote, Reconcile, Repair, BeginRefund, BeginVersion, BeginCancel
<1>2. CASE Crash(c)
  BY <1>0, <1>2 DEF Crash
<1>3. CASE Proceed(c)
  <2>1. \A step : Goto(c, step) => call'[d] = call[d]
    BY DEF Goto, TypeInv
  <2>2. Return(c) => call'[d] = call[d]
    BY <1>0 DEF Return
  <2>3. \A i, then : Recompute(c, i, then) => call'[d] = call[d]
    BY DEF Recompute, TypeInv
  <2>4. CASE InsertIntent(c) \/ SettleIntent(c) \/ FindAllocation(c) \/ InsertAllocation(c)
             \/ ApplyToSettlement(c) \/ CheckSettlement(c) \/ ApplyToInvoice(c)
             \/ CheckInvoice(c) \/ Undo(c) \/ ReverseAllocation(c) \/ MarkApplied(c)
    BY <2>1, <2>2, <2>3, <2>4
       DEF InsertIntent, SettleIntent, FindAllocation, InsertAllocation, ApplyToSettlement,
       CheckSettlement, ApplyToInvoice, CheckInvoice, Undo, ReverseAllocation, MarkApplied
  <2>5. CASE Adjust(c) \/ ApplyRefund(c) \/ CheckRefund(c) \/ Unadjust(c)
             \/ Qualify(c) \/ SpreadRefund(c)
    BY <2>1, <2>2, <2>3, <2>5
       DEF Adjust, ApplyRefund, CheckRefund, Unadjust, Qualify, SpreadRefund
  <2>6. CASE CountAllocations(c) \/ CountIntents(c) \/ InsertVersion(c) \/ PublishVersion(c)
             \/ DropVersion(c) \/ Cancel(c)
    BY <2>1, <2>2, <2>6
       DEF CountAllocations, CountIntents, InsertVersion, PublishVersion, DropVersion, Cancel
  <2>7. CASE ReadHead(c) \/ ReadAllocations(c) \/ ReadSettlements(c) \/ Requalify(c)
    BY <2>7 DEF ReadHead, ReadAllocations, ReadSettlements, Requalify, TypeInv
  <2>8. CASE WriteProjection(c)
    <3>1. \E k : call' = [call EXCEPT ![c] = k]
      <4>1. Return(c) => call' = [call EXCEPT ![c] = NoCall]
        BY DEF Return
      <4>2. \/ Return(c)
            \/ \E k : call' = [call EXCEPT ![c] = k]
        BY <2>8 DEF WriteProjection
      <4>3. QED
        BY <4>1, <4>2
    <3>2. QED
      BY <1>0, <3>1
  <2>9. QED
    BY <1>3, <2>4, <2>5, <2>6, <2>7, <2>8 DEF Proceed
<1>4. QED
  BY <1>1, <1>2, <1>3

LEMMA WhoMoves ==
  ASSUME TypeInv, [Next]_vars, NEW d \in Calls
  PROVE  call'[d] = call[d] \/ Begin(d) \/ Proceed(d) \/ Crash(d)
<1>1. CASE \E c \in Calls : Begin(c) \/ Proceed(c) \/ Crash(c)
  BY <1>1, OthersStay
<1>2. CASE \E p \in Payments : Lapse(p) \/ Publish(p)
  BY <1>2 DEF Lapse, Publish
<1>3. CASE UNCHANGED vars
  BY <1>3 DEF vars
<1>4. QED
  BY <1>1, <1>2, <1>3 DEF Next

\* What a step makes of the call that takes it: where it was, where it is now.
LEMMA Moved ==
  ASSUME TypeInv, NEW c \in Calls
  PROVE  /\ \A step : Goto(c, step) => call'[c] = [call[c] EXCEPT !.at = step]
         /\ Return(c) => call'[c] = NoCall
         /\ \A with : Start(c, with) => At(c, "idle") /\ call'[c] = with
         /\ \A i, then : Recompute(c, i, then)
              => call'[c] = [call[c] EXCEPT !.at = "head", !.inv = i, !.then = then]
         /\ Crash(c) => call'[c] = NoCall
<1>1. call \in [Calls -> Known]
  BY DEF TypeInv
<1>2. \A step : Goto(c, step) => call'[c] = [call[c] EXCEPT !.at = step]
  BY <1>1 DEF Goto
<1>3. Return(c) => call'[c] = NoCall
  BY <1>1 DEF Return
<1>4. \A with : Start(c, with) => At(c, "idle") /\ call'[c] = with
  BY <1>1 DEF Start
<1>5. \A i, then : Recompute(c, i, then)
        => call'[c] = [call[c] EXCEPT !.at = "head", !.inv = i, !.then = then]
  BY <1>1 DEF Recompute
<1>6. Crash(c) => call'[c] = NoCall
  BY <1>1 DEF Crash
<1>7. QED
  BY <1>2, <1>3, <1>4, <1>5, <1>6
-----------------------------------------------------------------------------
(* What exists. An allocation is made of a settlement, and a call that     *)
(* works on either has seen it.                                            *)

ApplySteps ==
  {"applySettlement", "checkSettlement", "applyInvoice", "checkInvoice", "undo", "reverse",
   "mark"}
SettleSteps ==
  ApplySteps \union {"settle", "find", "insert", "adjust", "refund", "checkRefund", "unadjust",
                     "requalify", "qualify", "spread"}

HasSeen(k) ==
  /\ k.at \in SettleSteps \/ k.then = "insert" => settlement[k.pay].exists
  /\ k.at \in ApplySteps => alloc[k.pay].exists

ExistsInv ==
  /\ \A p \in Payments :
       /\ alloc[p].exists => settlement[p].exists
       /\ alloc[p].reversed => alloc[p].exists
       /\ ~settlement[p].exists =>
            ~settlement[p].holds /\ settlement[p].refunded = 0 /\ settlement[p].refunds = {}
  /\ \A c \in Calls : HasSeen(call[c])

\* The fields of a call after a step of each kind.
LEMMA Fields ==
  ASSUME TypeInv, NEW c \in Calls
  PROVE  /\ \A step : Goto(c, step) =>
              /\ call'[c].at = step /\ call'[c].pay = Pay(c) /\ call'[c].inv = call[c].inv
              /\ call'[c].wd = call[c].wd /\ call'[c].then = call[c].then
              /\ call'[c].head = call[c].head /\ call'[c].picked = call[c].picked
              /\ call'[c].shown = call[c].shown /\ call'[c].op = call[c].op
         /\ Return(c) \/ Crash(c) => call'[c].at = "idle" /\ call'[c].then = "end"
         /\ \A i, then : Recompute(c, i, then) =>
              /\ call'[c].at = "head" /\ call'[c].pay = Pay(c) /\ call'[c].inv = i
              /\ call'[c].then = then
<1>1. call[c] \in CallRecords
  BY CallTyped
<1>2. \A step : Goto(c, step) =>
              /\ call'[c].at = step /\ call'[c].pay = Pay(c) /\ call'[c].inv = call[c].inv
              /\ call'[c].wd = call[c].wd /\ call'[c].then = call[c].then
              /\ call'[c].head = call[c].head /\ call'[c].picked = call[c].picked
              /\ call'[c].shown = call[c].shown /\ call'[c].op = call[c].op
  <2> TAKE step
  <2> HAVE Goto(c, step)
  <2>1. call'[c] = [call[c] EXCEPT !.at = step]
    BY Moved
  <2>2. QED
    BY <1>1, <2>1 DEF CallRecords, Pay
<1>3. Return(c) \/ Crash(c) => call'[c].at = "idle" /\ call'[c].then = "end"
  <2>1. Return(c) \/ Crash(c) => call'[c] = NoCall
    BY Moved
  <2>2. QED
    BY <2>1 DEF NoCall
<1>4. \A i, then : Recompute(c, i, then) =>
              /\ call'[c].at = "head" /\ call'[c].pay = Pay(c) /\ call'[c].inv = i
              /\ call'[c].then = then
  <2> TAKE i, then
  <2> HAVE Recompute(c, i, then)
  <2>1. call'[c] = [call[c] EXCEPT !.at = "head", !.inv = i, !.then = then]
    BY DEF Recompute, TypeInv
  <2> DEFINE k == [call[c] EXCEPT !.at = "head", !.inv = i, !.then = then]
  <2>2. k.at = "head" /\ k.pay = Pay(c) /\ k.inv = i
    BY <1>1 DEF CallRecords, Pay
  <2>3. k.then = then
    BY <1>1 DEF CallRecords
  <2>4. QED
    BY <2>1, <2>2, <2>3
<1>5. QED
  BY <1>2, <1>3, <1>4

\* What a payment's settlement and allocation may become in a step.
LEMMA SettlementMoves ==
  ASSUME TypeInv, [Next]_vars, NEW p \in Payments
  PROVE  \/ settlement'[p] = settlement[p]
         \/ /\ ~settlement[p].exists
            /\ settlement'[p] = [NoSettlement EXCEPT !.exists = TRUE, !.counted = TRUE]
         \/ \E c \in Calls :
              /\ Pay(c) = p
              /\ \/ /\ ApplyToSettlement(c)
                    /\ settlement'[p] = [settlement[p] EXCEPT !.holds = TRUE]
                 \/ Undo(c) /\ settlement'[p] = [settlement[p] EXCEPT !.holds = FALSE]
                 \/ /\ ApplyRefund(c)
                    /\ call[c].wd \notin settlement[p].refunds /\ FitsRefund(p, call[c].wd)
                    /\ settlement'[p] =
                         [settlement[p] EXCEPT !.refunded = @ + Withdrawn[call[c].wd],
                                               !.refunds = @ \union {call[c].wd}]
                 \/ /\ Qualify(c)
                    /\ settlement'[p] = [settlement[p] EXCEPT !.counted = call[c].counted]
<1> DEFINE G == \/ settlement'[p] = settlement[p]
                \/ /\ ~settlement[p].exists
                   /\ settlement'[p] = [NoSettlement EXCEPT !.exists = TRUE, !.counted = TRUE]
<1>0. settlement \in [Payments -> SettlementRecords]
  BY DEF TypeInv, BooksTyped
<1>1. ASSUME NEW c \in Calls, Begin(c) PROVE G
  BY <1>0, <1>1, BeginFrame DEF Reconcile
<1>2. ASSUME NEW c \in Calls, Crash(c) PROVE G
  BY <1>2 DEF Crash, books
<1>3. ASSUME NEW q \in Payments, Lapse(q) \/ Publish(q) PROVE G
  BY <1>3 DEF Lapse, Publish
<1>4. CASE UNCHANGED vars
  BY <1>4 DEF vars, books
<1>5. ASSUME NEW c \in Calls, Proceed(c), ApplyToSettlement(c)
      PROVE  G \/ (Pay(c) = p /\ settlement'[p] = [settlement[p] EXCEPT !.holds = TRUE])
  BY <1>0, <1>5 DEF ApplyToSettlement
<1>6. ASSUME NEW c \in Calls, Proceed(c), Undo(c)
      PROVE  G \/ (Pay(c) = p /\ settlement'[p] = [settlement[p] EXCEPT !.holds = FALSE])
  BY <1>0, <1>6 DEF Undo
<1>7. ASSUME NEW c \in Calls, Proceed(c), ApplyRefund(c)
      PROVE  G \/ /\ Pay(c) = p
                  /\ call[c].wd \notin settlement[p].refunds /\ FitsRefund(p, call[c].wd)
                  /\ settlement'[p] =
                       [settlement[p] EXCEPT !.refunded = @ + Withdrawn[call[c].wd],
                                             !.refunds = @ \union {call[c].wd}]
  <2>1. CASE call[c].wd \notin settlement[Pay(c)].refunds /\ FitsRefund(Pay(c), call[c].wd)
    <3>1. settlement' = [settlement EXCEPT ![Pay(c)].refunded = @ + Withdrawn[call[c].wd],
                                           ![Pay(c)].refunds = @ \union {call[c].wd}]
      BY <1>7, <2>1 DEF ApplyRefund
    <3>2. QED
      BY <1>0, <2>1, <3>1
  <2>2. CASE ~(call[c].wd \notin settlement[Pay(c)].refunds /\ FitsRefund(Pay(c), call[c].wd))
    BY <1>7, <2>2 DEF ApplyRefund
  <2>3. QED
    BY <2>1, <2>2
<1>8. ASSUME NEW c \in Calls, Proceed(c), Qualify(c)
      PROVE  G \/ /\ Pay(c) = p
                  /\ settlement'[p] = [settlement[p] EXCEPT !.counted = call[c].counted]
  BY <1>0, <1>8 DEF Qualify
<1>9. ASSUME NEW c \in Calls, Proceed(c), UNCHANGED settlement PROVE G
  BY <1>9
<1> HIDE DEF G
<1>10. CASE \E c \in Calls : Proceed(c)
  <2>1. PICK c \in Calls : Proceed(c)
    BY <1>10
  <2>2. \/ UNCHANGED settlement
        \/ ApplyToSettlement(c) \/ Undo(c) \/ ApplyRefund(c) \/ Qualify(c)
    BY <2>1, ProceedFrame
  <2>3. QED
    BY <2>1, <2>2, <1>5, <1>6, <1>7, <1>8, <1>9 DEF G
<1>11. QED
  BY <1>1, <1>2, <1>3, <1>4, <1>10 DEF Next, G

LEMMA AllocationMoves ==
  ASSUME TypeInv, [Next]_vars, NEW p \in Payments
  PROVE  \/ alloc'[p] = alloc[p]
         \/ \E c \in Calls :
              /\ Pay(c) = p
              /\ \/ /\ InsertAllocation(c) /\ ~alloc[p].exists
                    /\ \E n \in Nat :
                         alloc'[p] = [NoAllocation EXCEPT !.exists = TRUE, !.amount = n]
                 \/ ReverseAllocation(c) /\ alloc'[p] = [alloc[p] EXCEPT !.reversed = TRUE]
                 \/ MarkApplied(c) /\ alloc'[p] = [alloc[p] EXCEPT !.applied = TRUE]
<1> DEFINE G == alloc'[p] = alloc[p]
<1>0. alloc \in [Payments -> AllocationRecords]
  BY DEF TypeInv, BooksTyped
<1>1. ASSUME NEW c \in Calls, Begin(c) PROVE G
  BY <1>1, BeginFrame
<1>2. ASSUME NEW c \in Calls, Crash(c) PROVE G
  BY <1>2 DEF Crash, books
<1>3. ASSUME NEW q \in Payments, Lapse(q) \/ Publish(q) PROVE G
  BY <1>3 DEF Lapse, Publish
<1>4. CASE UNCHANGED vars
  BY <1>4 DEF vars, books
<1>5. ASSUME NEW c \in Calls, Proceed(c), InsertAllocation(c)
      PROVE  G \/ /\ Pay(c) = p /\ ~alloc[p].exists
                  /\ \E n \in Nat :
                         alloc'[p] = [NoAllocation EXCEPT !.exists = TRUE, !.amount = n]
  <2>1. Pay(c) \in Payments
    BY <1>5, CallTyped DEF InsertAllocation, At, PaySteps
  <2> DEFINE n == Least(Paid[Pay(c)] - Allocated(Pay(c)), RemainingDue(call[c].head))
  <2>2. n > 0 => n \in Nat
    BY <2>1, SettlementTyped, CallTyped
       DEF CallRecords, InvoicesOver, Least, RemainingDue, Less
  <2>3. \/ alloc' = alloc
        \/ /\ n > 0 /\ ~alloc[Pay(c)].exists
           /\ alloc' = [alloc EXCEPT ![Pay(c)] =
                          [NoAllocation EXCEPT !.exists = TRUE, !.amount = n]]
    BY <1>5 DEF InsertAllocation
  <2> HIDE DEF n
  <2>4. QED
    BY <1>0, <2>1, <2>2, <2>3
<1>6. ASSUME NEW c \in Calls, Proceed(c), ReverseAllocation(c)
      PROVE  G \/ (Pay(c) = p /\ alloc'[p] = [alloc[p] EXCEPT !.reversed = TRUE])
  BY <1>0, <1>6 DEF ReverseAllocation
<1>7. ASSUME NEW c \in Calls, Proceed(c), MarkApplied(c)
      PROVE  G \/ (Pay(c) = p /\ alloc'[p] = [alloc[p] EXCEPT !.applied = TRUE])
  BY <1>0, <1>7 DEF MarkApplied
<1>8. ASSUME NEW c \in Calls, Proceed(c), UNCHANGED alloc PROVE G
  BY <1>8
<1> HIDE DEF G
<1>9. CASE \E c \in Calls : Proceed(c)
  <2>1. PICK c \in Calls : Proceed(c)
    BY <1>9
  <2>2. UNCHANGED alloc \/ InsertAllocation(c) \/ ReverseAllocation(c) \/ MarkApplied(c)
    BY <2>1, ProceedFrame
  <2>3. QED
    BY <2>1, <2>2, <1>5, <1>6, <1>7, <1>8 DEF G
<1>10. QED
  BY <1>1, <1>2, <1>3, <1>4, <1>9 DEF Next, G

LEMMA ExistingStays ==
  ASSUME TypeInv, [Next]_vars, NEW p \in Payments
  PROVE  /\ settlement[p].exists => settlement'[p].exists
         /\ alloc[p].exists => alloc'[p].exists /\ alloc'[p].amount = alloc[p].amount
                               /\ (alloc[p].reversed => alloc'[p].reversed)
                               /\ (alloc[p].applied => alloc'[p].applied)
<1>1. settlement[p] \in SettlementRecords /\ alloc[p] \in AllocationRecords
  BY DEF TypeInv, BooksTyped
<1>2. settlement[p].exists => settlement'[p].exists
  BY <1>1, SettlementMoves DEF SettlementRecords
<1>3. alloc[p].exists => /\ alloc'[p].exists /\ alloc'[p].amount = alloc[p].amount
                         /\ alloc[p].reversed => alloc'[p].reversed
                         /\ alloc[p].applied => alloc'[p].applied
  BY <1>1, AllocationMoves DEF AllocationRecords
<1>4. QED
  BY <1>2, <1>3

LEMMA InitExists == Init => ExistsInv
  BY
     DEF Init, ExistsInv, HasSeen, NoSettlement, NoAllocation, NoCall, ApplySteps,
     SettleSteps

\* The records of payments.
LEMMA RecordsExist ==
  ASSUME TypeInv, ExistsInv, [Next]_vars, NEW p \in Payments
  PROVE  /\ alloc'[p].exists => settlement'[p].exists
         /\ alloc'[p].reversed => alloc'[p].exists
         /\ ~settlement'[p].exists =>
              ~settlement'[p].holds /\ settlement'[p].refunded = 0 /\ settlement'[p].refunds = {}
<1>1. settlement[p] \in SettlementRecords /\ alloc[p] \in AllocationRecords
  BY DEF TypeInv, BooksTyped
<1>2. \A c \in Calls : HasSeen(call[c])
  BY DEF ExistsInv
<1>3. /\ alloc[p].exists => settlement[p].exists
      /\ alloc[p].reversed => alloc[p].exists
      /\ ~settlement[p].exists =>
           ~settlement[p].holds /\ settlement[p].refunded = 0 /\ settlement[p].refunds = {}
  BY DEF ExistsInv
<1>4. CASE alloc'[p] = alloc[p]
  <2>1. settlement[p].exists => settlement'[p].exists
    BY ExistingStays
  <2>2. /\ alloc'[p].exists => settlement'[p].exists
        /\ alloc'[p].reversed => alloc'[p].exists
    BY <1>3, <1>4, <2>1
  <2>3. ~settlement'[p].exists => settlement'[p] = settlement[p]
    <3>1. ASSUME NEW c \in Calls, Pay(c) = p,
                 ApplyToSettlement(c) \/ Undo(c) \/ ApplyRefund(c) \/ Qualify(c)
          PROVE  settlement[p].exists
      BY <1>2, <3>1
         DEF HasSeen, SettleSteps, ApplySteps, At, Pay, ApplyToSettlement, Undo, ApplyRefund, Qualify
    <3>2. [NoSettlement EXCEPT !.exists = TRUE, !.counted = TRUE].exists
      BY DEF NoSettlement
    <3>3. QED
      BY <3>1, <3>2, <2>1, SettlementMoves
  <2>4. QED
    BY <1>3, <2>2, <2>3
<1>5. CASE alloc'[p] # alloc[p]
  <2>1. PICK c \in Calls :
          /\ Pay(c) = p
          /\ \/ /\ InsertAllocation(c)
                /\ \E n \in Nat :
                         alloc'[p] = [NoAllocation EXCEPT !.exists = TRUE, !.amount = n]
             \/ ReverseAllocation(c) /\ alloc'[p] = [alloc[p] EXCEPT !.reversed = TRUE]
             \/ MarkApplied(c) /\ alloc'[p] = [alloc[p] EXCEPT !.applied = TRUE]
    BY <1>5, AllocationMoves
  <2>2. /\ settlement[p].exists
        /\ ReverseAllocation(c) \/ MarkApplied(c) => alloc[p].exists
        /\ settlement' = settlement
    BY <1>2, <2>1
       DEF HasSeen, SettleSteps, ApplySteps, At, Pay, InsertAllocation, ReverseAllocation, MarkApplied
  <2>3. alloc'[p].exists /\ (alloc'[p].reversed => alloc'[p].exists)
    BY <1>1, <2>1, <2>2 DEF AllocationRecords, NoAllocation
  <2>4. QED
    BY <1>3, <2>2, <2>3
<1>6. QED
  BY <1>4, <1>5

\* What a call begins with.
LEMMA Began ==
  ASSUME TypeInv, NEW c \in Calls
  PROVE  /\ \A p \in Payments : BeginQuote(c, p) =>
              call'[c].at = "intent" /\ call'[c].then = "end"
         /\ \A p \in Payments : Reconcile(c, p) =>
              call'[c].at = "settle" /\ call'[c].then = "end" /\ call'[c].pay = p
         /\ \A p \in Payments : Repair(c, p) =>
              call'[c].at = "applySettlement" /\ call'[c].then = "end" /\ call'[c].pay = p
         /\ \A p \in Payments, w \in Withdrawals : BeginRefund(c, p, w) =>
              /\ call'[c].at = (IF adjust[w] = p THEN "refund" ELSE "adjust")
              /\ call'[c].then = "end" /\ call'[c].pay = p /\ call'[c].wd = w
         /\ \A i \in Invoices, op \in {"revise", "issue"} : BeginVersion(c, i, op) =>
              call'[c].at \in {"countAllocations", "version"} /\ call'[c].then = "end"
         /\ \A i \in Invoices : BeginCancel(c, i) =>
              call'[c].at = "cancel" /\ call'[c].then = "end"
<1>0. call \in [Calls -> Known]
  BY DEF TypeInv
<1>1. \A p \in Payments : BeginQuote(c, p) => call'[c].at = "intent" /\ call'[c].then = "end"
  BY <1>0 DEF BeginQuote, Start, NoCall
<1>2. \A p \in Payments : Reconcile(c, p) =>
        call'[c].at = "settle" /\ call'[c].then = "end" /\ call'[c].pay = p
  BY <1>0 DEF Reconcile, Start, NoCall
<1>3. \A p \in Payments : Repair(c, p) =>
        call'[c].at = "applySettlement" /\ call'[c].then = "end" /\ call'[c].pay = p
  BY <1>0 DEF Repair, Start, NoCall
<1>4. \A p \in Payments, w \in Withdrawals : BeginRefund(c, p, w) =>
        /\ call'[c].at = (IF adjust[w] = p THEN "refund" ELSE "adjust")
        /\ call'[c].then = "end" /\ call'[c].pay = p /\ call'[c].wd = w
  BY <1>0 DEF BeginRefund, Start, NoCall
<1>5. \A i \in Invoices, op \in {"revise", "issue"} : BeginVersion(c, i, op) =>
        call'[c].at \in {"countAllocations", "version"} /\ call'[c].then = "end"
  BY <1>0 DEF BeginVersion, Start, NoCall
<1>6. \A i \in Invoices : BeginCancel(c, i) => call'[c].at = "cancel" /\ call'[c].then = "end"
  BY <1>0 DEF BeginCancel, Start, NoCall
<1>7. QED
  BY <1>1, <1>2, <1>3, <1>4, <1>5, <1>6

LEMMA BeginSees ==
  ASSUME TypeInv, ExistsInv, NEW c \in Calls, Begin(c)
  PROVE  HasSeen(call[c])'
<1>1. CASE \E p \in Payments : BeginQuote(c, p)
  BY <1>1, Began DEF HasSeen, SettleSteps, ApplySteps
<1>2. CASE \E p \in Payments : Reconcile(c, p)
  <2>1. PICK p \in Payments : Reconcile(c, p)
    BY <1>2
  <2>2. settlement \in [Payments -> SettlementRecords]
    BY DEF TypeInv, BooksTyped
  <2>3. settlement'[p].exists
    BY <2>1, <2>2 DEF Reconcile, NoSettlement
  <2>4. QED
    BY <2>1, <2>3, Began DEF HasSeen, SettleSteps, ApplySteps
<1>3. CASE \E p \in Payments : Repair(c, p)
  <2>1. PICK p \in Payments : Repair(c, p)
    BY <1>3
  <2>2. settlement'[p].exists /\ alloc'[p].exists
    BY <2>1 DEF Repair, ExistsInv, Live, books
  <2>3. QED
    BY <2>1, <2>2, Began DEF HasSeen, SettleSteps, ApplySteps
<1>4. CASE \E p \in Payments, w \in Withdrawals : BeginRefund(c, p, w)
  <2>1. PICK p \in Payments, w \in Withdrawals : BeginRefund(c, p, w)
    BY <1>4
  <2>2. settlement'[p].exists
    BY <2>1 DEF BeginRefund, books
  <2>3. QED
    BY <2>1, <2>2, Began DEF HasSeen, SettleSteps, ApplySteps
<1>5. CASE \E i \in Invoices, op \in {"revise", "issue"} : BeginVersion(c, i, op)
  BY <1>5, Began DEF HasSeen, SettleSteps, ApplySteps
<1>6. CASE \E i \in Invoices : BeginCancel(c, i)
  BY <1>6, Began DEF HasSeen, SettleSteps, ApplySteps
<1>7. QED
  BY <1>1, <1>2, <1>3, <1>4, <1>5, <1>6 DEF Begin

LEMMA ProceedSees ==
  ASSUME TypeInv, ExistsInv, [Next]_vars, NEW c \in Calls, Proceed(c)
  PROVE  HasSeen(call[c])'
<1> DEFINE p == Pay(c)
<1>1. HasSeen(call[c]) /\ Knows(call[c])
  BY CallTyped DEF ExistsInv
<1>2. p \in Payments /\ settlement[p].exists => settlement'[p].exists
  BY ExistingStays
<1>3. p \in Payments /\ alloc[p].exists => alloc'[p].exists
  BY ExistingStays
<1>4. /\ call[c].at \in SettleSteps \/ call[c].then = "insert" =>
           p \in Payments /\ settlement'[p].exists
      /\ call[c].at \in ApplySteps => alloc'[p].exists
  BY <1>1, <1>2, <1>3 DEF HasSeen, Knows, Pay, SettleSteps, ApplySteps, PaySteps
<1>5. \A step : Goto(c, step) =>
        call'[c].at = step /\ call'[c].pay = p /\ call'[c].then = call[c].then
  BY Fields
<1>6. Return(c) => call'[c].at = "idle" /\ call'[c].then = "end"
  BY Fields
<1>7. \A i, then : Recompute(c, i, then) =>
        call'[c].at = "head" /\ call'[c].pay = p /\ call'[c].then = then
  BY Fields
<1>8. call \in [Calls -> Known] /\ call[c] \in CallRecords
  BY CallTyped DEF TypeInv
<1> HIDE DEF p
<1>9. CASE InsertIntent(c)
  BY <1>6, <1>9 DEF InsertIntent, HasSeen, SettleSteps, ApplySteps
<1>10. CASE SettleIntent(c) \/ CheckSettlement(c) \/ ApplyToSettlement(c) \/ ApplyToInvoice(c)
            \/ CheckInvoice(c) \/ Undo(c) \/ ReverseAllocation(c) \/ MarkApplied(c)
  BY <1>4, <1>5, <1>6, <1>7, <1>10
     DEF At, SettleIntent, CheckSettlement, ApplyToSettlement, ApplyToInvoice, CheckInvoice,
     Undo, ReverseAllocation, MarkApplied, HasSeen, SettleSteps, ApplySteps
<1>11. CASE FindAllocation(c)
  <2>1. Goto(c, "applySettlement") => alloc'[p].exists
    <3> HAVE Goto(c, "applySettlement")
    <3>1. call'[c].at = "applySettlement"
      BY <1>5
    <3>2. Live(p)
      BY <1>6, <1>7, <1>11, <3>1 DEF FindAllocation, p
    <3>3. QED
      BY <1>3, <1>4, <1>11, <3>2 DEF Live, FindAllocation, At, SettleSteps
  <2>2. QED
    BY <1>4, <1>5, <1>6, <1>7, <1>11, <2>1
       DEF FindAllocation, At, HasSeen, SettleSteps, ApplySteps
<1>12. CASE InsertAllocation(c)
  <2>1. Goto(c, "applySettlement") => alloc'[p].exists
    <3> HAVE Goto(c, "applySettlement")
    <3>1. call'[c].at = "applySettlement"
      BY <1>5
    <3>2. p \in Payments
      BY <1>4, <1>12 DEF InsertAllocation, At, SettleSteps
    <3>3. \/ alloc[p].exists
          \/ \E n : alloc' = [alloc EXCEPT ![p] =
                                [NoAllocation EXCEPT !.exists = TRUE, !.amount = n]]
      BY <1>6, <1>12, <3>1 DEF InsertAllocation, p
    <3>4. alloc \in [Payments -> AllocationRecords]
      BY DEF TypeInv, BooksTyped
    <3>5. QED
      BY <1>3, <3>2, <3>3, <3>4 DEF NoAllocation
  <2>2. QED
    BY <1>4, <1>5, <1>6, <1>12, <2>1
       DEF InsertAllocation, At, HasSeen, SettleSteps, ApplySteps
<1>13. CASE Adjust(c) \/ ApplyRefund(c) \/ CheckRefund(c) \/ Unadjust(c) \/ Qualify(c)
            \/ SpreadRefund(c)
  BY <1>4, <1>5, <1>6, <1>7, <1>13
     DEF At, Adjust, ApplyRefund, CheckRefund, Unadjust, Qualify, SpreadRefund, HasSeen,
     SettleSteps, ApplySteps
<1>14. CASE Requalify(c)
  <2>1. call'[c].at = "qualify" /\ call'[c].pay = p /\ call'[c].then = call[c].then
    BY <1>8, <1>14 DEF Requalify, CallRecords, p, Pay
  <2>2. QED
    BY <1>4, <1>14, <2>1 DEF Requalify, At, HasSeen, SettleSteps, ApplySteps
<1>15. CASE ReadHead(c) \/ ReadAllocations(c) \/ ReadSettlements(c)
  <2>1. /\ call'[c].at \in {"allocations", "settlements", "write"} /\ call'[c].pay = p
        /\ call'[c].then = call[c].then
    BY <1>8, <1>15 DEF ReadHead, ReadAllocations, ReadSettlements, CallRecords, p, Pay
  <2>2. QED
    BY <1>4, <2>1 DEF HasSeen, SettleSteps, ApplySteps
<1>16. CASE WriteProjection(c)
  <2>1. \/ call'[c].at = "idle" /\ call'[c].then = "end"
        \/ /\ call[c].then # "end" /\ call'[c].at = "insert" /\ call'[c].pay = p
           /\ call'[c].then = "end"
        \/ call'[c].at = "head" /\ call'[c].pay = p /\ call'[c].then = call[c].then
    <3> DEFINE head == Projected(call[c].head, call[c].shown)
               on == [call[c] EXCEPT !.at = "insert", !.inv = None, !.then = "end",
                                     !.head = head, !.shown = <<0, 0>>, !.tries = 1]
               again == [call[c] EXCEPT !.at = "head", !.tries = @ + 1]
    <3>1. \/ Return(c)
          \/ call[c].then # "end" /\ call' = [call EXCEPT ![c] = on]
          \/ call' = [call EXCEPT ![c] = again]
          \/ call' = [call EXCEPT ![c] = NoCall]
      BY <1>16 DEF WriteProjection
    <3>2. on.at = "insert" /\ on.pay = p /\ on.then = "end"
      BY <1>8 DEF CallRecords, p, Pay
    <3>3. again.at = "head" /\ again.pay = p /\ again.then = call[c].then
      BY <1>8 DEF CallRecords, p, Pay
    <3>4. NoCall.at = "idle" /\ NoCall.then = "end"
      BY DEF NoCall
    <3> HIDE DEF on, again
    <3>5. QED
      BY <1>6, <1>8, <3>1, <3>2, <3>3, <3>4
  <2>2. call[c].then # "end" => call[c].then = "insert"
    BY <1>8 DEF CallRecords
  <2>3. QED
    BY <1>4, <2>1, <2>2 DEF HasSeen, SettleSteps, ApplySteps
<1>17. CASE CountAllocations(c) \/ CountIntents(c) \/ InsertVersion(c) \/ PublishVersion(c)
            \/ DropVersion(c) \/ Cancel(c)
  <2>1. Return(c) \/ \E step \in VersionSteps : Goto(c, step)
    BY <1>17 DEF CountAllocations, CountIntents, InsertVersion, PublishVersion, DropVersion,
       Cancel, VersionSteps
  <2>2. QED
    BY <1>4, <1>5, <1>6, <2>1 DEF HasSeen, SettleSteps, ApplySteps, VersionSteps
<1>18. QED
  BY <1>9, <1>10, <1>11, <1>12, <1>13, <1>14, <1>15, <1>16, <1>17 DEF Proceed

LEMMA NextExists == TypeInv /\ ExistsInv /\ [Next]_vars => ExistsInv'
<1> SUFFICES ASSUME TypeInv, ExistsInv, [Next]_vars PROVE ExistsInv'
  OBVIOUS
<1>1. ASSUME NEW c \in Calls PROVE HasSeen(call[c])'
  <2>1. CASE call'[c] = call[c]
    <3>1. HasSeen(call[c]) /\ Knows(call[c])
      BY CallTyped DEF ExistsInv
    <3>2. \A p \in Payments : /\ settlement[p].exists => settlement'[p].exists
                              /\ alloc[p].exists => alloc'[p].exists
      BY ExistingStays
    <3>3. QED
      BY <2>1, <3>1, <3>2 DEF HasSeen, Knows, SettleSteps, ApplySteps, PaySteps
  <2>2. CASE Crash(c)
    BY <2>2, Fields DEF HasSeen, SettleSteps, ApplySteps
  <2>3. QED
    BY <2>1, <2>2, WhoMoves, BeginSees, ProceedSees
<1>2. QED
  BY <1>1, RecordsExist DEF ExistsInv
-----------------------------------------------------------------------------
(* Invoices and those who read them.                                       *)

\* What an invoice may become in a step; each change takes a new revision.
Takes(c, i) ==
  /\ ApplyToInvoice(c) /\ Pay(c) \in Payments /\ InvoiceOf[Pay(c)] = i
  /\ Pay(c) \notin invoice[i].applied /\ FitsInvoice(Pay(c))
  /\ invoice'[i] = [invoice[i] EXCEPT !.applied = @ \union {Pay(c)}, !.rev = @ + 1,
                                      !.allocated = @ + alloc[Pay(c)].amount]
Writes(c, i) ==
  /\ WriteProjection(c) /\ call[c].inv = i /\ invoice[i].rev = call[c].head.rev
  /\ invoice'[i] =
       [invoice[i] EXCEPT !.allocated = call[c].shown[1], !.refunded = call[c].shown[2],
          !.state = Derived(call[c].head, call[c].shown[1], call[c].shown[2]), !.rev = @ + 1]
Publishes(c, i) ==
  /\ PublishVersion(c) /\ call[c].inv = i /\ Unmoved(i, c)
  /\ \E due \in Dues :
       invoice'[i] = [invoice[i] EXCEPT !.version = @ + 1, !.due = due, !.rev = @ + 1,
                        !.state = IF call[c].op = "issue" THEN "issued" ELSE @,
                        !.issued = @ \/ call[c].op = "issue"]
Cancels(c, i) ==
  /\ Cancel(c) /\ call[c].inv = i
  /\ \E s \in {"void", "cancelled"} :
       invoice'[i] = [invoice[i] EXCEPT !.state = s, !.closed = s, !.rev = @ + 1]

LEMMA InvoiceMoves ==
  ASSUME TypeInv, [Next]_vars, NEW i \in Invoices
  PROVE  \/ invoice'[i] = invoice[i]
         \/ \E c \in Calls : Takes(c, i) \/ Writes(c, i) \/ Publishes(c, i) \/ Cancels(c, i)
<1> DEFINE G == invoice'[i] = invoice[i]
<1>0. invoice \in [Invoices -> InvoicesOver(Dues)]
  BY DEF TypeInv, BooksTyped
<1>1. ASSUME NEW c \in Calls, Begin(c) PROVE G
  BY <1>1, BeginFrame
<1>2. ASSUME NEW c \in Calls, Crash(c) PROVE G
  BY <1>2 DEF Crash, books
<1>3. ASSUME NEW q \in Payments, Lapse(q) \/ Publish(q) PROVE G
  BY <1>3 DEF Lapse, Publish
<1>4. CASE UNCHANGED vars
  BY <1>4 DEF vars, books
<1>5. ASSUME NEW c \in Calls, ApplyToInvoice(c) PROVE G \/ Takes(c, i)
  <2>1. Pay(c) \in Payments /\ InvoiceOf[Pay(c)] \in Invoices
    BY <1>5, CallTyped DEF ApplyToInvoice, At, PaySteps
  <2>2. QED
    BY <1>0, <1>5, <2>1 DEF ApplyToInvoice, Takes
<1>6. ASSUME NEW c \in Calls, WriteProjection(c) PROVE G \/ Writes(c, i)
  <2> DEFINE head == Projected(call[c].head, call[c].shown)
             k == [invoice[call[c].inv] EXCEPT !.allocated = head.allocated,
                     !.refunded = head.refunded, !.state = head.state, !.rev = @ + 1]
  <2>1. /\ call[c].inv \in Invoices /\ call[c].head \in InvoicesOver(Nat)
        /\ call[c].shown \in Nat \X Nat
    BY <1>6, CallTyped DEF WriteProjection, At, Knows, InvoiceSteps, CallRecords
  <2>2. \/ invoice' = invoice
        \/ /\ SameRevision(call[c].inv, call[c].head)
           /\ invoice' = [invoice EXCEPT ![call[c].inv] = k]
    BY <1>6 DEF WriteProjection
  <2>3. /\ head.allocated = call[c].shown[1] /\ head.refunded = call[c].shown[2]
        /\ head.state = Derived(call[c].head, call[c].shown[1], call[c].shown[2])
    BY <2>1, ProjectedTyped
  <2> HIDE DEF head
  <2>4. QED
    BY <1>0, <1>6, <2>1, <2>2, <2>3 DEF SameRevision, Writes
<1>7. ASSUME NEW c \in Calls, PublishVersion(c) PROVE G \/ Publishes(c, i)
  <2> DEFINE k(due) == [invoice[call[c].inv] EXCEPT
                          !.version = @ + 1, !.due = due, !.rev = @ + 1,
                          !.state = IF call[c].op = "issue" THEN "issued" ELSE @,
                          !.issued = @ \/ call[c].op = "issue"]
  <2>1. call[c].inv \in Invoices /\ call[c].head.due \in Dues
    BY <1>7, CallTyped DEF PublishVersion, At, Knows, VersionSteps, InvoiceSteps
  <2>2. \/ invoice' = invoice
        \/ /\ Unmoved(call[c].inv, c)
           /\ \E due \in IF call[c].op = "revise" THEN Dues ELSE {call[c].head.due} :
                invoice' = [invoice EXCEPT ![call[c].inv] = k(due)]
    BY <1>7 DEF PublishVersion
  <2> HIDE DEF k
  <2>3. \/ invoice' = invoice
        \/ /\ Unmoved(call[c].inv, c)
           /\ \E due \in Dues : invoice' = [invoice EXCEPT ![call[c].inv] = k(due)]
    BY <2>1, <2>2
  <2>4. CASE invoice' = invoice
    BY <2>4
  <2>5. CASE invoice' # invoice
    <3>1. PICK due \in Dues : invoice' = [invoice EXCEPT ![call[c].inv] = k(due)]
      BY <2>3, <2>5
    <3>2. Unmoved(call[c].inv, c)
      BY <2>3, <2>5
    <3>3. CASE call[c].inv = i
      <4>1. invoice'[i] = k(due)
        BY <1>0, <3>1, <3>3
      <4>2. QED
        BY <1>7, <3>2, <3>3, <4>1 DEF k, Publishes
    <3>4. CASE call[c].inv # i
      BY <1>0, <3>1, <3>4
    <3>5. QED
      BY <3>3, <3>4
  <2>6. QED
    BY <2>4, <2>5
<1>8. ASSUME NEW c \in Calls, Cancel(c) PROVE G \/ Cancels(c, i)
  <2>1. call[c].inv \in Invoices
    BY <1>8, CallTyped DEF Cancel, At, Knows, InvoiceSteps
  <2>2. \/ invoice' = invoice
        \/ \E s \in {"void", "cancelled"} :
             invoice' = [invoice EXCEPT ![call[c].inv] =
                [invoice[call[c].inv] EXCEPT !.state = s, !.closed = s, !.rev = @ + 1]]
    BY <1>8 DEF Cancel
  <2>3. QED
    BY <1>0, <1>8, <2>1, <2>2 DEF Cancels
<1>9. ASSUME NEW c \in Calls, UNCHANGED invoice PROVE G
  BY <1>9
<1> HIDE DEF G
<1>10. CASE \E c \in Calls : Proceed(c)
  <2>1. PICK c \in Calls : Proceed(c)
    BY <1>10
  <2>2. \/ UNCHANGED invoice
        \/ ApplyToInvoice(c) \/ WriteProjection(c) \/ PublishVersion(c) \/ Cancel(c)
    BY <2>1, ProceedFrame
  <2>3. QED
    BY <2>2, <1>5, <1>6, <1>7, <1>8, <1>9 DEF G
<1>11. QED
  BY <1>1, <1>2, <1>3, <1>4, <1>10 DEF Next, G

\* A call that is in the middle of reading has been there, or has just read.
Reading == {"allocations", "settlements", "write"}

LEMMA Readers ==
  ASSUME TypeInv, [Next]_vars, NEW c \in Calls, call'[c].at \in Reading, call'[c] # call[c]
  PROVE  /\ call'[c].inv = call[c].inv /\ call[c].inv \in Invoices
         /\ invoice' = invoice /\ alloc' = alloc /\ settlement' = settlement
         /\ \/ /\ call'[c].at = "allocations"
               /\ call'[c].head = invoice[call[c].inv]
            \/ /\ At(c, "allocations") /\ call'[c].at = "settlements"
               /\ call'[c].head = call[c].head
               /\ call'[c].picked = {p \in call[c].head.applied : ~alloc[p].reversed}
            \/ /\ At(c, "settlements") /\ call'[c].at = "write"
               /\ call'[c].head = call[c].head
               /\ call'[c].shown =
                    <<Total([p \in call[c].picked |-> alloc[p].amount], call[c].picked),
                      Total([p \in call[c].picked |-> Share(p)], call[c].picked)>>
<1>1. call \in [Calls -> Known] /\ call[c] \in CallRecords /\ Knows(call[c])
  BY CallTyped DEF TypeInv
<1>2. ~Crash(c)
  BY Fields DEF Reading
<1>3. ~Begin(c)
  <2>1. Begin(c) => call'[c].at \notin Reading
    BY Began DEF Begin, Reading
  <2>2. QED
    BY <2>1
<1>4. Proceed(c)
  BY <1>2, <1>3, WhoMoves
<1>5. \A step : Goto(c, step) => step \in Reading
  BY Fields
<1>6. ~Return(c) /\ \A i, then : ~Recompute(c, i, then)
  BY Fields DEF Reading
<1>7. ~(InsertIntent(c) \/ SettleIntent(c) \/ FindAllocation(c) \/ InsertAllocation(c)
           \/ ApplyToSettlement(c) \/ CheckSettlement(c) \/ ApplyToInvoice(c)
           \/ CheckInvoice(c) \/ Undo(c) \/ ReverseAllocation(c) \/ MarkApplied(c))
  BY <1>5, <1>6
     DEF InsertIntent, SettleIntent, FindAllocation, InsertAllocation, ApplyToSettlement,
     CheckSettlement, ApplyToInvoice, CheckInvoice, Undo, ReverseAllocation, MarkApplied, Reading
<1>8. ~(Adjust(c) \/ ApplyRefund(c) \/ CheckRefund(c) \/ Unadjust(c) \/ Qualify(c)
           \/ SpreadRefund(c))
  BY <1>5, <1>6
     DEF Adjust, ApplyRefund, CheckRefund, Unadjust, Qualify, SpreadRefund, Reading
<1>9. ~(CountAllocations(c) \/ CountIntents(c) \/ InsertVersion(c) \/ PublishVersion(c)
           \/ DropVersion(c) \/ Cancel(c))
  <2>1. CASE CountAllocations(c) \/ CountIntents(c) \/ InsertVersion(c) \/ PublishVersion(c)
             \/ DropVersion(c) \/ Cancel(c)
    <3>1. Return(c) \/ \E step \in VersionSteps : Goto(c, step)
      BY <2>1
         DEF CountAllocations, CountIntents, InsertVersion, PublishVersion, DropVersion,
         Cancel, VersionSteps
    <3>2. QED
      BY <1>5, <1>6, <3>1 DEF VersionSteps, Reading
  <2>2. QED
    BY <2>1
<1>10. ~Requalify(c)
  <2>1. Requalify(c) => call'[c].at = "qualify"
    BY <1>1 DEF Requalify, CallRecords
  <2>2. QED
    BY <2>1 DEF Reading
<1>11. ~WriteProjection(c)
  <2> DEFINE head == Projected(call[c].head, call[c].shown)
             on == [call[c] EXCEPT !.at = "insert", !.inv = None, !.then = "end",
                                   !.head = head, !.shown = <<0, 0>>, !.tries = 1]
             again == [call[c] EXCEPT !.at = "head", !.tries = @ + 1]
  <2>1. WriteProjection(c) =>
          call'[c] = on \/ call'[c] = again \/ call'[c] = NoCall
    BY <1>1, <1>6 DEF WriteProjection
  <2>2. on.at = "insert" /\ again.at = "head" /\ NoCall.at = "idle"
    BY <1>1 DEF CallRecords, NoCall
  <2> HIDE DEF on, again
  <2>3. QED
    BY <2>1, <2>2 DEF Reading
<1>12. ReadHead(c) \/ ReadAllocations(c) \/ ReadSettlements(c)
  BY <1>4, <1>7, <1>8, <1>9, <1>10, <1>11 DEF Proceed
<1>13. call[c].inv \in Invoices /\ invoice' = invoice /\ alloc' = alloc /\ settlement' = settlement
  BY <1>1, <1>12
     DEF ReadHead, ReadAllocations, ReadSettlements, At, Knows, InvoiceSteps, books
<1>14. CASE ReadHead(c)
  BY <1>1, <1>13, <1>14 DEF ReadHead, CallRecords
<1>15. CASE ReadAllocations(c)
  BY <1>1, <1>13, <1>15 DEF ReadAllocations, CallRecords
<1>16. CASE ReadSettlements(c)
  BY <1>1, <1>13, <1>16 DEF ReadSettlements, CallRecords
<1>17. QED
  BY <1>12, <1>14, <1>15, <1>16
-----------------------------------------------------------------------------
(* Closed invoices. What a recomputation writes comes from the revision it *)
(* writes over, since every change of an invoice takes a new revision.     *)

HeadIsKnown(k) ==
  k.at \in Reading => /\ k.head.rev <= invoice[k.inv].rev
                      /\ k.head.rev = invoice[k.inv].rev => k.head = invoice[k.inv]
HeadsInv == \A c \in Calls : HeadIsKnown(call[c])
ClosedInv == HeadsInv /\ ClosedStaysClosed

LEMMA RevisionsGrow ==
  ASSUME TypeInv, [Next]_vars, NEW i \in Invoices
  PROVE  /\ invoice[i].rev \in Nat
         /\ invoice'[i] = invoice[i] \/ invoice'[i].rev = invoice[i].rev + 1
<1>1. invoice[i] \in InvoicesOver(Dues)
  BY DEF TypeInv, BooksTyped
<1>2. \A c : Takes(c, i) => invoice'[i].rev = invoice[i].rev + 1
  BY <1>1 DEF InvoicesOver, Takes
<1>3. \A c : Writes(c, i) => invoice'[i].rev = invoice[i].rev + 1
  BY <1>1 DEF InvoicesOver, Writes
<1>4. \A c : Publishes(c, i) => invoice'[i].rev = invoice[i].rev + 1
  BY <1>1 DEF InvoicesOver, Publishes
<1>5. \A c : Cancels(c, i) => invoice'[i].rev = invoice[i].rev + 1
  BY <1>1 DEF InvoicesOver, Cancels
<1>6. invoice[i].rev \in Nat
  BY <1>1 DEF InvoicesOver
<1>7. QED
  BY <1>2, <1>3, <1>4, <1>5, <1>6, InvoiceMoves

LEMMA NextHeads ==
  ASSUME TypeInv, HeadsInv, [Next]_vars
  PROVE  HeadsInv'
<1> SUFFICES ASSUME NEW c \in Calls PROVE HeadIsKnown(call[c])'
  BY DEF HeadsInv
<1> SUFFICES ASSUME call'[c].at \in Reading
    PROVE  /\ call'[c].head.rev <= invoice'[call'[c].inv].rev
           /\ call'[c].head.rev = invoice'[call'[c].inv].rev
                => call'[c].head = invoice'[call'[c].inv]
  BY DEF HeadIsKnown
<1>1. CASE call'[c] = call[c]
  <2> DEFINE i == call[c].inv
  <2>1. i \in Invoices /\ call[c].head.rev \in Nat
    BY <1>1, CallTyped DEF Knows, Reading, InvoiceSteps, CallRecords, InvoicesOver
  <2>2. /\ call[c].head.rev <= invoice[i].rev
        /\ call[c].head.rev = invoice[i].rev => call[c].head = invoice[i]
    BY <1>1 DEF HeadsInv, HeadIsKnown
  <2>3. /\ invoice[i].rev \in Nat
        /\ invoice'[i] = invoice[i] \/ invoice'[i].rev = invoice[i].rev + 1
    BY <2>1, RevisionsGrow
  <2> HIDE DEF i
  <2>4. QED
    BY <1>1, <2>1, <2>2, <2>3 DEF i
<1>2. CASE call'[c] # call[c]
  <2>1. /\ call'[c].inv = call[c].inv /\ call[c].inv \in Invoices /\ invoice' = invoice
        /\ \/ call'[c].head = invoice[call[c].inv]
           \/ call[c].at \in Reading /\ call'[c].head = call[c].head
    BY <1>2, Readers DEF At, Reading
  <2>2. invoice[call[c].inv].rev \in Nat
    BY <2>1, RevisionsGrow
  <2>3. QED
    BY <2>1, <2>2 DEF HeadsInv, HeadIsKnown
<1>3. QED
  BY <1>1, <1>2

LEMMA NextClosed == TypeInv /\ ClosedInv /\ [Next]_vars => ClosedInv'
<1> SUFFICES ASSUME TypeInv, ClosedInv, [Next]_vars PROVE ClosedInv'
  OBVIOUS
<1>1. HeadsInv'
  BY NextHeads DEF ClosedInv
<1>2. ASSUME NEW i \in Invoices, invoice'[i].closed # "no"
      PROVE  invoice'[i].state = invoice'[i].closed
  <2>0. /\ invoice[i] \in InvoicesOver(Dues)
        /\ invoice[i].closed # "no" => invoice[i].state = invoice[i].closed
    BY DEF TypeInv, BooksTyped, ClosedInv, ClosedStaysClosed
  <2>1. CASE invoice'[i] = invoice[i]
    BY <1>2, <2>0, <2>1
  <2>2. CASE invoice'[i] # invoice[i]
    <3>1. PICK c \in Calls : Takes(c, i) \/ Writes(c, i) \/ Publishes(c, i) \/ Cancels(c, i)
      BY <2>2, InvoiceMoves
    <3>2. CASE Takes(c, i)
      BY <1>2, <2>0, <3>2 DEF InvoicesOver, Takes
    <3>3. CASE Cancels(c, i)
      BY <2>0, <3>3 DEF InvoicesOver, Cancels
    <3>4. CASE Writes(c, i)
      <4>1. call[c].head = invoice[i]
        BY <3>4 DEF Writes, WriteProjection, At, Reading, ClosedInv, HeadsInv, HeadIsKnown
      <4>2. /\ invoice'[i].closed = invoice[i].closed
            /\ invoice'[i].state = Derived(invoice[i], call[c].shown[1], call[c].shown[2])
        BY <2>0, <3>4, <4>1 DEF InvoicesOver, Writes
      <4>3. QED
        BY <1>2, <4>2 DEF Derived
    <3>5. CASE Publishes(c, i)
      <4>1. invoice'[i].closed = invoice[i].closed
        BY <2>0, <3>5 DEF InvoicesOver, Publishes
      <4>2. invoice[i].state \in {"draft", "issued"}
        BY <3>5 DEF Unmoved, Revisable, Publishes
      <4>3. invoice[i].closed \in {"no", "cancelled", "void"}
        BY <2>0 DEF InvoicesOver
      <4>4. QED
        BY <1>2, <2>0, <4>1, <4>2, <4>3
    <3>6. QED
      BY <3>1, <3>2, <3>3, <3>4, <3>5
  <2>3. QED
    BY <2>1, <2>2
<1>3. QED
  BY <1>1, <1>2 DEF ClosedInv, ClosedStaysClosed

LEMMA InitClosed == Init => ClosedInv
<1> HAVE Init
<1>1. HeadsInv
  BY DEF Init, HeadsInv, HeadIsKnown, NoCall, Reading
<1>2. ClosedStaysClosed
  BY DEF Init, ClosedStaysClosed, NewInvoice
<1>3. QED
  BY <1>1, <1>2 DEF ClosedInv

\* A cancelled or discarded invoice is not brought back by a recomputation that
\* read it before.
THEOREM SettlementsClosed == Spec => []ClosedStaysClosed
<1>1. Spec => [](TypeInv /\ ClosedInv)
  BY InitTypes, NextTypes, InitClosed, NextClosed, PTL DEF Spec
<1>2. ClosedInv => ClosedStaysClosed
  BY DEF ClosedInv
<1>3. QED
  BY <1>1, <1>2, PTL

\* The one or two steps that lead to each step in the middle of a call.
Middle ==
  {"applyInvoice", "checkInvoice", "undo", "reverse", "mark", "checkRefund", "unadjust",
   "publish", "unversion"}

LEMMA Arrivals ==
  ASSUME TypeInv, [Next]_vars, NEW c \in Calls, call'[c].at \in Middle \union {"refund"},
         call'[c] # call[c]
  PROVE  \/ /\ call'[c].at = "refund"
            /\ \E p \in Payments, w \in Withdrawals : BeginRefund(c, p, w)
         \/ /\ call'[c].pay = Pay(c) /\ call'[c].inv = call[c].inv /\ call'[c].wd = call[c].wd
            /\ call'[c].head = call[c].head /\ call'[c].op = call[c].op
            /\ crashes' = crashes
            /\ \/ call'[c].at = "applyInvoice" /\ (ApplyToSettlement(c) \/ CheckSettlement(c))
               \/ call'[c].at = "checkInvoice" /\ ApplyToInvoice(c)
               \/ call'[c].at = "mark" /\ (ApplyToInvoice(c) \/ CheckInvoice(c))
               \/ call'[c].at = "undo" /\ CheckInvoice(c)
               \/ call'[c].at = "reverse" /\ (CheckSettlement(c) \/ Undo(c))
               \/ call'[c].at = "refund" /\ Adjust(c)
               \/ call'[c].at = "checkRefund" /\ ApplyRefund(c)
               \/ call'[c].at = "unadjust" /\ CheckRefund(c)
               \/ call'[c].at = "publish" /\ InsertVersion(c)
               \/ call'[c].at = "unversion" /\ PublishVersion(c)
<1> DEFINE s == call'[c].at
<1>1. call \in [Calls -> Known] /\ call[c] \in CallRecords
  BY CallTyped DEF TypeInv
<1>2. ~Crash(c)
  BY Fields DEF Middle
<1>3. CASE Begin(c)
  BY <1>3, Began DEF Begin, Middle
<1>4. CASE Proceed(c)
  <2>1. \A step : Goto(c, step) => step = s
    BY Fields
  <2>2. ~Return(c) /\ \A i, then : ~Recompute(c, i, then)
    BY Fields DEF Middle
  <2>3. ~(ReadHead(c) \/ ReadAllocations(c) \/ ReadSettlements(c))
    <3>1. ReadHead(c) \/ ReadAllocations(c) \/ ReadSettlements(c)
            => s \in {"allocations", "settlements", "write"}
      BY <1>1 DEF ReadHead, ReadAllocations, ReadSettlements, CallRecords
    <3>2. QED
      BY <3>1 DEF Middle
  <2>4. ~Requalify(c)
    <3>1. Requalify(c) => s = "qualify"
      BY <1>1 DEF Requalify, CallRecords
    <3>2. QED
      BY <3>1 DEF Middle
  <2>5. ~WriteProjection(c)
    <3> DEFINE head == Projected(call[c].head, call[c].shown)
               on == [call[c] EXCEPT !.at = "insert", !.inv = None, !.then = "end",
                                     !.head = head, !.shown = <<0, 0>>, !.tries = 1]
               again == [call[c] EXCEPT !.at = "head", !.tries = @ + 1]
    <3>1. WriteProjection(c) => call'[c] = on \/ call'[c] = again \/ call'[c] = NoCall
      BY <1>1, <2>2 DEF WriteProjection
    <3>2. on.at = "insert" /\ again.at = "head" /\ NoCall.at = "idle"
      BY <1>1 DEF CallRecords, NoCall
    <3> HIDE DEF on, again
    <3>3. QED
      BY <3>1, <3>2 DEF Middle
  <2>6. \A step : Goto(c, step) =>
          /\ call'[c].pay = Pay(c) /\ call'[c].inv = call[c].inv /\ call'[c].wd = call[c].wd
          /\ call'[c].head = call[c].head /\ call'[c].op = call[c].op
    BY Fields
  <2>7. crashes' = crashes
    BY <1>4, ProceedFrame
  <2> HIDE DEF s
  <2>8. CASE InsertIntent(c) \/ SettleIntent(c) \/ FindAllocation(c) \/ InsertAllocation(c)
             \/ ReverseAllocation(c) \/ MarkApplied(c) \/ Unadjust(c) \/ Qualify(c)
             \/ SpreadRefund(c) \/ DropVersion(c) \/ Cancel(c)
    <3>1. s \in {"find", "applySettlement", "spread"}
      BY <2>1, <2>2, <2>8
         DEF InsertIntent, SettleIntent, FindAllocation, InsertAllocation, ReverseAllocation,
         MarkApplied, Unadjust, Qualify, SpreadRefund, DropVersion, Cancel
    <3>2. QED
      BY <3>1 DEF Middle, s
  <2>9. CASE CountAllocations(c) \/ CountIntents(c)
    <3>1. s \in {"countIntents", "version"}
      BY <2>1, <2>2, <2>9 DEF CountAllocations, CountIntents
    <3>2. QED
      BY <3>1 DEF Middle, s
  <2>10. CASE ApplyToSettlement(c) \/ CheckSettlement(c) \/ ApplyToInvoice(c) \/ CheckInvoice(c)
              \/ Undo(c)
    <3>1. \/ s = "checkSettlement"
          \/ s = "applyInvoice" /\ (ApplyToSettlement(c) \/ CheckSettlement(c))
          \/ s = "checkInvoice" /\ ApplyToInvoice(c)
          \/ s = "mark" /\ (ApplyToInvoice(c) \/ CheckInvoice(c))
          \/ s = "undo" /\ CheckInvoice(c)
          \/ s = "reverse" /\ (CheckSettlement(c) \/ Undo(c))
      BY <2>1, <2>10
         DEF ApplyToSettlement, CheckSettlement, ApplyToInvoice, CheckInvoice, Undo
    <3>2. \E step : Goto(c, step)
      BY <2>10 DEF ApplyToSettlement, CheckSettlement, ApplyToInvoice, CheckInvoice, Undo
    <3>3. QED
      BY <2>6, <2>7, <3>1, <3>2 DEF Middle, s
  <2>11. CASE Adjust(c) \/ ApplyRefund(c) \/ CheckRefund(c)
    <3>1. \/ s = "requalify"
          \/ s = "refund" /\ Adjust(c)
          \/ s = "checkRefund" /\ ApplyRefund(c)
          \/ s = "unadjust" /\ CheckRefund(c)
      BY <2>1, <2>2, <2>11 DEF Adjust, ApplyRefund, CheckRefund
    <3>2. \E step : Goto(c, step)
      BY <2>2, <2>11 DEF Adjust, ApplyRefund, CheckRefund
    <3>3. QED
      BY <2>6, <2>7, <3>1, <3>2 DEF Middle, s
  <2>12. CASE InsertVersion(c) \/ PublishVersion(c)
    <3>1. \/ s = "publish" /\ InsertVersion(c)
          \/ s = "unversion" /\ PublishVersion(c)
      BY <2>1, <2>2, <2>12 DEF InsertVersion, PublishVersion
    <3>2. \E step : Goto(c, step)
      BY <2>2, <2>12 DEF InsertVersion, PublishVersion
    <3>3. QED
      BY <2>6, <2>7, <3>1, <3>2 DEF s
  <2>13. QED
    BY <1>4, <2>3, <2>4, <2>5, <2>8, <2>9, <2>10, <2>11, <2>12 DEF Proceed
<1>5. QED
  BY <1>2, <1>3, <1>4, WhoMoves

\* And the steps that lead on from there.
LEMMA Departures ==
  ASSUME TypeInv, [Next]_vars, NEW c \in Calls, call'[c] # call[c], crashes' = 0
  PROVE  /\ crashes = 0
         /\ At(c, "undo") => Undo(c)
         /\ At(c, "reverse") => ReverseAllocation(c)
         /\ At(c, "publish") => PublishVersion(c)
         /\ At(c, "unversion") => DropVersion(c)
<1>1. ~Crash(c)
  BY DEF Crash, TypeInv
<1>2. Begin(c) => At(c, "idle") /\ crashes' = crashes
  <2>1. Begin(c) => At(c, "idle")
    BY
       DEF Begin, BeginQuote, Reconcile, Repair, BeginRefund, BeginVersion, BeginCancel,
       Start
  <2>2. QED
    BY <2>1, BeginFrame
<1>3. Proceed(c) =>
        /\ crashes' = crashes
        /\ At(c, "undo") => Undo(c)
        /\ At(c, "reverse") => ReverseAllocation(c)
        /\ At(c, "publish") => PublishVersion(c)
        /\ At(c, "unversion") => DropVersion(c)
  <2>1. CASE InsertIntent(c) \/ SettleIntent(c) \/ FindAllocation(c) \/ InsertAllocation(c)
           \/ ApplyToSettlement(c) \/ CheckSettlement(c) \/ ApplyToInvoice(c)
           \/ CheckInvoice(c) \/ Undo(c) \/ ReverseAllocation(c) \/ MarkApplied(c)
    BY <2>1, ProceedFrame
       DEF InsertIntent, SettleIntent, FindAllocation, InsertAllocation, ApplyToSettlement,
       CheckSettlement, ApplyToInvoice, CheckInvoice, Undo, ReverseAllocation, MarkApplied, At
  <2>2. CASE ReadHead(c) \/ ReadAllocations(c) \/ ReadSettlements(c) \/ WriteProjection(c)
           \/ Adjust(c) \/ ApplyRefund(c) \/ CheckRefund(c) \/ Unadjust(c)
           \/ Requalify(c) \/ Qualify(c) \/ SpreadRefund(c)
    BY <2>2, ProceedFrame
       DEF ReadHead, ReadAllocations, ReadSettlements, WriteProjection, Adjust, ApplyRefund,
       CheckRefund, Unadjust, Requalify, Qualify, SpreadRefund, At
  <2>3. CASE CountAllocations(c) \/ CountIntents(c) \/ InsertVersion(c) \/ PublishVersion(c)
           \/ DropVersion(c) \/ Cancel(c)
    BY <2>3, ProceedFrame
       DEF CountAllocations, CountIntents, InsertVersion, PublishVersion, DropVersion, Cancel, At
  <2>4. Proceed(c) => crashes' = crashes
    BY ProceedFrame
  <2>5. QED
    BY <2>1, <2>2, <2>3, <2>4 DEF Proceed
<1>4. QED
  BY <1>1, <1>2, <1>3, WhoMoves DEF At

LEMMA CrashesCount ==
  ASSUME TypeInv, [Next]_vars, crashes' = 0
  PROVE  crashes = 0 /\ \A c \in Calls : ~Crash(c)
<1>1. \A c \in Calls : ~Crash(c)
  BY DEF Crash, TypeInv
<1>2. CASE \E c \in Calls : Begin(c) \/ Proceed(c)
  BY <1>1, <1>2, BeginFrame, ProceedFrame
<1>3. CASE \E p \in Payments : Lapse(p) \/ Publish(p)
  BY <1>1, <1>3 DEF Lapse, Publish
<1>4. CASE UNCHANGED vars
  BY <1>1, <1>4 DEF vars
<1>5. QED
  BY <1>1, <1>2, <1>3, <1>4 DEF Next
-----------------------------------------------------------------------------
(* Versions. A version document that is ahead of its invoice belongs to a  *)
(* call that will publish or drop it, as long as calls do not die.         *)

Owed(i, n) ==
  \E c \in Calls : /\ call[c].at \in {"publish", "unversion"}
                   /\ call[c].inv = i /\ call[c].head.version + 1 = n
VersionsInv ==
  crashes = 0 => \A i \in Invoices, n \in 1..MaxVersion :
    <<i, n>> \in versions => n <= invoice[i].version \/ Owed(i, n)

LEMMA VersionsGrow ==
  ASSUME TypeInv, [Next]_vars, NEW i \in Invoices
  PROVE  invoice[i].version \in 1..MaxVersion /\ invoice'[i].version \in 1..MaxVersion
         /\ invoice[i].version <= invoice'[i].version
<1>1. TypeInv'
  BY NextTypes
<1>2. invoice[i] \in InvoicesOver(Dues) /\ invoice'[i] \in InvoicesOver(Dues)
  BY <1>1 DEF TypeInv, BooksTyped, InvoicesOver
<1>3. \A c : Takes(c, i) => invoice'[i].version = invoice[i].version
  BY <1>2 DEF InvoicesOver, Takes
<1>4. \A c : Writes(c, i) => invoice'[i].version = invoice[i].version
  BY <1>2 DEF InvoicesOver, Writes
<1>5. \A c : Publishes(c, i) => invoice'[i].version = invoice[i].version + 1
  BY <1>2 DEF InvoicesOver, Publishes
<1>6. \A c : Cancels(c, i) => invoice'[i].version = invoice[i].version
  BY <1>2 DEF InvoicesOver, Cancels
<1>7. invoice[i].version \in 1..MaxVersion /\ invoice'[i].version \in 1..MaxVersion
  BY <1>2 DEF InvoicesOver
<1>8. QED
  BY <1>3, <1>4, <1>5, <1>6, <1>7, InvoiceMoves, SettlementsAssumption

LEMMA NewVersions ==
  ASSUME TypeInv, [Next]_vars, NEW i \in Invoices, NEW n \in 1..MaxVersion,
         <<i, n>> \in versions', <<i, n>> \notin versions
  PROVE  \E c \in Calls : /\ InsertVersion(c) /\ Goto(c, "publish")
                          /\ call[c].inv = i /\ call[c].head.version + 1 = n
<1>1. \A c \in Calls : ~Begin(c) /\ ~Crash(c)
  BY BeginFrame DEF Crash, books
<1>2. \A p \in Payments : ~Lapse(p) /\ ~Publish(p)
  BY DEF Lapse, Publish
<1>3. PICK c \in Calls : Proceed(c)
  BY <1>1, <1>2 DEF Next, vars, books
<1>4. InsertVersion(c) \/ DropVersion(c)
  BY <1>3, ProceedFrame
<1>5. ~DropVersion(c)
  BY DEF DropVersion
<1>6. /\ versions' = versions \union {<<call[c].inv, call[c].head.version + 1>>}
      /\ Goto(c, "publish")
  BY <1>4, <1>5 DEF InsertVersion
<1>7. QED
  BY <1>4, <1>5, <1>6

LEMMA NextVersions == TypeInv /\ VersionsInv /\ [Next]_vars => VersionsInv'
<1> SUFFICES ASSUME TypeInv, VersionsInv, [Next]_vars, crashes' = 0,
                    NEW i \in Invoices, NEW n \in 1..MaxVersion, <<i, n>> \in versions'
             PROVE  n <= invoice'[i].version \/ Owed(i, n)'
  BY DEF VersionsInv
<1>1. crashes = 0
  BY CrashesCount
<1>2. CASE <<i, n>> \notin versions
  <2>1. PICK c \in Calls : /\ InsertVersion(c) /\ Goto(c, "publish")
                           /\ call[c].inv = i /\ call[c].head.version + 1 = n
    BY <1>2, NewVersions
  <2>2. call'[c].at = "publish" /\ call'[c].inv = i /\ call'[c].head.version + 1 = n
    BY <2>1, Fields
  <2>3. QED
    BY <2>2 DEF Owed
<1>3. CASE <<i, n>> \in versions /\ n <= invoice[i].version
  BY <1>3, VersionsGrow, SettlementsAssumption
<1>4. CASE <<i, n>> \in versions /\ ~(n <= invoice[i].version)
  <2>1. PICK c \in Calls : /\ call[c].at \in {"publish", "unversion"}
                           /\ call[c].inv = i /\ call[c].head.version + 1 = n
    BY <1>1, <1>4 DEF VersionsInv, Owed
  <2>2. CASE call'[c] = call[c]
    BY <2>1, <2>2 DEF Owed
  <2>3. CASE call'[c] # call[c] /\ At(c, "publish")
    <3>1. PublishVersion(c)
      BY <2>3, Departures
    <3>2. CASE Unmoved(i, c)
      <4>1. invoice[i].version + 1 = n
        BY <2>1, <3>2 DEF Unmoved
      <4>2. \E due : invoice' = [invoice EXCEPT ![i] =
               [invoice[i] EXCEPT !.version = @ + 1, !.due = due, !.rev = @ + 1,
                                  !.state = IF call[c].op = "issue" THEN "issued" ELSE @,
                                  !.issued = @ \/ call[c].op = "issue"]]
        BY <2>1, <3>1, <3>2 DEF PublishVersion
      <4>3. invoice \in [Invoices -> InvoicesOver(Dues)]
        BY DEF TypeInv, BooksTyped
      <4>4. invoice'[i].version = invoice[i].version + 1
        BY <4>2, <4>3 DEF InvoicesOver
      <4>5. QED
        BY <4>1, <4>4
    <3>3. CASE ~Unmoved(i, c)
      <4>1. Goto(c, "unversion")
        BY <2>1, <3>1, <3>3 DEF PublishVersion
      <4>2. call'[c].at = "unversion" /\ call'[c].inv = i /\ call'[c].head.version + 1 = n
        BY <2>1, <4>1, Fields
      <4>3. QED
        BY <4>2 DEF Owed
    <3>4. QED
      BY <3>2, <3>3
  <2>4. CASE call'[c] # call[c] /\ At(c, "unversion")
    <3>1. DropVersion(c)
      BY <2>4, Departures
    <3>2. QED
      BY <2>1, <3>1 DEF DropVersion
  <2>5. QED
    BY <2>1, <2>2, <2>3, <2>4 DEF At
<1>5. QED
  BY <1>2, <1>3, <1>4

\* The next version number of an invoice is free once all calls have ended and
\* none has died.
THEOREM SettlementsVersions == Spec => []NextVersionFree
<1>1. Init => VersionsInv
  BY DEF Init, VersionsInv, NewInvoice
<1>2. Spec => [](TypeInv /\ VersionsInv)
  BY <1>1, InitTypes, NextTypes, NextVersions, PTL DEF Spec
<1>3. TypeInv /\ VersionsInv => NextVersionFree
  <2> SUFFICES ASSUME TypeInv, VersionsInv, AtRest, NEW i \in Invoices,
                      <<i, invoice[i].version + 1>> \in versions
               PROVE  FALSE
    BY DEF NextVersionFree
  <2>1. invoice[i].version \in Nat /\ invoice[i].version + 1 \in 1..MaxVersion
    BY DEF TypeInv, BooksTyped, InvoicesOver
  <2>2. Owed(i, invoice[i].version + 1)
    BY <2>1 DEF VersionsInv, AtRest
  <2>3. QED
    BY <2>2 DEF Owed, AtRest, At
<1>4. QED
  BY <1>2, <1>3, PTL
-----------------------------------------------------------------------------
(* Both sides of an allocation. The settlement holds an allocation that an *)
(* invoice took, unless it is being taken back: and the call that took it  *)
(* back is then about to reverse it, as long as calls do not die.          *)

InInvoice(p) == p \in invoice[InvoiceOf[p]].applied
HeldOrTakenBack(p) ==
  \/ settlement[p].holds
  \/ alloc[p].reversed
  \/ \E c \in Calls : At(c, "reverse") /\ Pay(c) = p

SidesInv ==
  /\ \A p \in Payments : alloc[p].applied => InInvoice(p)
  /\ \A c \in Calls : At(c, "mark") => InInvoice(Pay(c))
  /\ crashes = 0 =>
       /\ \A p \in Payments : InInvoice(p) => HeldOrTakenBack(p)
       /\ \A c \in Calls :
            call[c].at \in {"applyInvoice", "checkInvoice", "mark"} => HeldOrTakenBack(Pay(c))

LEMMA AppliedGrows ==
  ASSUME TypeInv, [Next]_vars, NEW i \in Invoices
  PROVE  /\ invoice[i].applied \subseteq invoice'[i].applied
         /\ \A p : p \in invoice'[i].applied /\ p \notin invoice[i].applied =>
              \E c \in Calls : Takes(c, i) /\ Pay(c) = p
<1>1. invoice[i] \in InvoicesOver(Dues)
  BY DEF TypeInv, BooksTyped
<1>2. \A c : Takes(c, i) => invoice'[i].applied = invoice[i].applied \union {Pay(c)}
  BY <1>1 DEF InvoicesOver, Takes
<1>3. \A c : Writes(c, i) => invoice'[i].applied = invoice[i].applied
  BY <1>1 DEF InvoicesOver, Writes
<1>4. \A c : Publishes(c, i) => invoice'[i].applied = invoice[i].applied
  BY <1>1 DEF InvoicesOver, Publishes
<1>5. \A c : Cancels(c, i) => invoice'[i].applied = invoice[i].applied
  BY <1>1 DEF InvoicesOver, Cancels
<1>6. CASE invoice'[i] = invoice[i]
  BY <1>6
<1>7. CASE invoice'[i] # invoice[i]
  <2>1. PICK c \in Calls : Takes(c, i) \/ Writes(c, i) \/ Publishes(c, i) \/ Cancels(c, i)
    BY <1>7, InvoiceMoves
  <2>2. CASE Takes(c, i)
    BY <1>2, <2>2
  <2>3. CASE Writes(c, i) \/ Publishes(c, i) \/ Cancels(c, i)
    BY <1>3, <1>4, <1>5, <2>3
  <2>4. QED
    BY <2>1, <2>2, <2>3
<1>8. QED
  BY <1>6, <1>7

LEMMA InInvoiceStays ==
  ASSUME TypeInv, [Next]_vars, NEW p \in Payments, InInvoice(p)
  PROVE  InInvoice(p)'
<1>1. InvoiceOf[p] \in Invoices
  BY SettlementsAssumption
<1>2. QED
  BY <1>1, AppliedGrows DEF InInvoice

LEMMA HeldStays ==
  ASSUME TypeInv, ExistsInv, [Next]_vars, crashes' = 0, NEW p \in Payments, HeldOrTakenBack(p)
  PROVE  HeldOrTakenBack(p)'
<1>1. settlement[p] \in SettlementRecords /\ alloc[p] \in AllocationRecords
  BY DEF TypeInv, BooksTyped
<1>2. CASE alloc[p].reversed
  <2>1. alloc[p].exists
    BY <1>2 DEF ExistsInv
  <2>2. alloc'[p].reversed
    BY <1>2, <2>1, ExistingStays
  <2>3. QED
    BY <2>2 DEF HeldOrTakenBack
<1>3. CASE \E c \in Calls : At(c, "reverse") /\ Pay(c) = p
  <2>1. PICK c \in Calls : At(c, "reverse") /\ Pay(c) = p
    BY <1>3
  <2>2. CASE call'[c] = call[c]
    BY <2>1, <2>2 DEF HeldOrTakenBack, At, Pay
  <2>3. CASE call'[c] # call[c]
    <3>1. ReverseAllocation(c)
      BY <2>1, <2>3, Departures
    <3>2. alloc \in [Payments -> AllocationRecords]
      BY DEF TypeInv, BooksTyped
    <3>3. alloc'[p].reversed
      BY <2>1, <3>1, <3>2 DEF ReverseAllocation, AllocationRecords
    <3>4. QED
      BY <3>3 DEF HeldOrTakenBack
  <2>4. QED
    BY <2>2, <2>3
<1>4. CASE settlement[p].holds
  <2>1. CASE settlement'[p].holds
    BY <2>1 DEF HeldOrTakenBack
  <2>2. CASE ~settlement'[p].holds
    <3>1. PICK c \in Calls : Pay(c) = p /\ Undo(c)
      <4>1. settlement[p].exists
        BY <1>4 DEF ExistsInv
      <4>2. QED
        BY <1>1, <1>4, <2>2, <4>1, SettlementMoves DEF SettlementRecords
    <3>2. call'[c].at = "reverse" /\ call'[c].pay = p
      BY <3>1, Fields DEF Undo
    <3>3. QED
      BY <3>2 DEF HeldOrTakenBack, At, Pay
  <2>3. QED
    BY <2>1, <2>2
<1>5. QED
  BY <1>2, <1>3, <1>4 DEF HeldOrTakenBack

LEMMA NextSides == TypeInv /\ ExistsInv /\ SidesInv /\ [Next]_vars => SidesInv'
<1> SUFFICES ASSUME TypeInv, ExistsInv, SidesInv, [Next]_vars PROVE SidesInv'
  OBVIOUS
<1>0. TypeInv'
  BY NextTypes
<1>1. ASSUME NEW p \in Payments, alloc'[p].applied PROVE InInvoice(p)'
  <2>1. CASE alloc[p].applied
    BY <2>1, InInvoiceStays DEF SidesInv
  <2>2. CASE ~alloc[p].applied
    <3>1. alloc[p] \in AllocationRecords
      BY DEF TypeInv, BooksTyped
    <3>2. PICK c \in Calls : Pay(c) = p /\ MarkApplied(c)
      BY <1>1, <2>2, <3>1, AllocationMoves DEF AllocationRecords, NoAllocation
    <3>3. InInvoice(p)
      BY <3>2 DEF SidesInv, MarkApplied
    <3>4. QED
      BY <3>3, InInvoiceStays
  <2>3. QED
    BY <2>1, <2>2
<1>2. ASSUME NEW c \in Calls, call'[c].at = "mark", NEW p, call'[c].pay = p
      PROVE  InInvoice(p)'
  <2>1. CASE call'[c] = call[c]
    <3>1. Pay(c) = p /\ p \in Payments /\ InInvoice(p)
      BY <1>2, <2>1, CallTyped DEF SidesInv, At, PaySteps, Pay
    <3>2. QED
      BY <3>1, InInvoiceStays
  <2>2. CASE call'[c] # call[c]
    <3>1. Pay(c) = p /\ (ApplyToInvoice(c) \/ CheckInvoice(c))
      BY <1>2, <2>2, Arrivals DEF Middle
    <3>2. Pay(c) \in Payments /\ InvoiceOf[Pay(c)] \in Invoices
      BY <3>1, CallTyped DEF ApplyToInvoice, CheckInvoice, At, PaySteps
    <3>3. \A step : Goto(c, step) => step = "mark"
      BY <1>2, Fields
    <3>4. CASE ApplyToInvoice(c)
      <4>1. invoice' = [invoice EXCEPT ![InvoiceOf[Pay(c)]] =
               [invoice[InvoiceOf[Pay(c)]] EXCEPT !.applied = @ \union {Pay(c)}, !.rev = @ + 1,
                                     !.allocated = @ + alloc[Pay(c)].amount]]
        BY <3>3, <3>4 DEF ApplyToInvoice
      <4>2. invoice \in [Invoices -> InvoicesOver(Dues)]
        BY DEF TypeInv, BooksTyped
      <4>3. invoice'[InvoiceOf[Pay(c)]].applied =
              invoice[InvoiceOf[Pay(c)]].applied \union {Pay(c)}
        BY <3>2, <4>1, <4>2 DEF InvoicesOver
      <4>4. QED
        BY <3>1, <4>3 DEF InInvoice
    <3>5. CASE CheckInvoice(c)
      <4>1. Pay(c) \in invoice[InvoiceOf[Pay(c)]].applied
        BY <3>3, <3>5 DEF CheckInvoice
      <4>2. QED
        BY <3>1, <3>2, <4>1, InInvoiceStays DEF InInvoice
    <3>6. QED
      BY <3>1, <3>4, <3>5
  <2>3. QED
    BY <2>1, <2>2
<1>3. ASSUME NEW c \in Calls, crashes' = 0,
             call'[c].at \in {"applyInvoice", "checkInvoice", "mark"}, NEW p, call'[c].pay = p
      PROVE  HeldOrTakenBack(p)'
  <2>0. crashes = 0
    BY <1>3, CrashesCount
  <2>1. CASE call'[c] = call[c]
    <3>1. Pay(c) = p /\ p \in Payments /\ HeldOrTakenBack(p)
      BY <1>3, <2>0, <2>1, CallTyped DEF SidesInv, At, PaySteps, Pay
    <3>2. QED
      BY <1>3, <3>1, HeldStays
  <2>2. CASE call'[c] # call[c]
    <3>1. /\ Pay(c) = p
          /\ \/ call'[c].at = "applyInvoice" /\ (ApplyToSettlement(c) \/ CheckSettlement(c))
             \/ ApplyToInvoice(c) \/ CheckInvoice(c)
      BY <1>3, <2>2, Arrivals DEF Middle
    <3>2. Pay(c) \in Payments
      BY <3>1, CallTyped
         DEF ApplyToInvoice, CheckInvoice, ApplyToSettlement, CheckSettlement, At, PaySteps
    <3>3. CASE ApplyToInvoice(c) \/ CheckInvoice(c)
      <4>1. HeldOrTakenBack(Pay(c))
        BY <2>0, <3>3 DEF SidesInv, ApplyToInvoice, CheckInvoice, At
      <4>2. QED
        BY <1>3, <3>1, <3>2, <4>1, HeldStays
    <3>4. CASE call'[c].at = "applyInvoice" /\ (ApplyToSettlement(c) \/ CheckSettlement(c))
      <4>1. \A step : Goto(c, step) => step = "applyInvoice"
        BY <3>4, Fields
      <4>2. settlement \in [Payments -> SettlementRecords]
        BY DEF TypeInv, BooksTyped
      <4>3. CASE ApplyToSettlement(c)
        <5>1. settlement' = [settlement EXCEPT ![Pay(c)].holds = TRUE]
          BY <4>1, <4>3 DEF ApplyToSettlement
        <5>2. settlement'[Pay(c)].holds
          BY <3>2, <4>2, <5>1 DEF SettlementRecords
        <5>3. QED
          BY <3>1, <5>2 DEF HeldOrTakenBack
      <4>4. CASE CheckSettlement(c)
        <5>1. settlement[Pay(c)].holds
          BY <4>1, <4>4 DEF CheckSettlement
        <5>2. QED
          BY <1>3, <3>1, <3>2, <5>1, HeldStays DEF HeldOrTakenBack
      <4>5. QED
        BY <3>4, <4>3, <4>4
    <3>5. QED
      BY <3>1, <3>3, <3>4
  <2>3. QED
    BY <2>1, <2>2
<1>4. ASSUME NEW p \in Payments, crashes' = 0, InInvoice(p)' PROVE HeldOrTakenBack(p)'
  <2>0. crashes = 0
    BY <1>4, CrashesCount
  <2>1. CASE InInvoice(p)
    <3>1. HeldOrTakenBack(p)
      BY <2>0, <2>1 DEF SidesInv
    <3>2. QED
      BY <1>4, <3>1, HeldStays
  <2>2. CASE ~InInvoice(p)
    <3>1. PICK c \in Calls : Takes(c, InvoiceOf[p]) /\ Pay(c) = p
      <4>1. InvoiceOf[p] \in Invoices
        BY SettlementsAssumption
      <4>2. QED
        BY <1>4, <2>2, <4>1, AppliedGrows DEF InInvoice
    <3>2. HeldOrTakenBack(p)
      BY <2>0, <3>1 DEF Takes, ApplyToInvoice, At, SidesInv
    <3>3. QED
      BY <1>4, <3>2, HeldStays
  <2>3. QED
    BY <2>1, <2>2
<1>5. QED
  BY <1>1, <1>2, <1>3, <1>4 DEF SidesInv, At, Pay

LEMMA InitSides == Init => SidesInv
<1> HAVE Init
<1>1. \A p \in Payments : ~alloc[p].applied /\ ~InInvoice(p)
  BY SettlementsAssumption DEF Init, NoAllocation, InInvoice, NewInvoice
<1>2. \A c \in Calls : call[c].at = "idle"
  BY DEF Init, NoCall
<1>3. QED
  BY <1>1, <1>2 DEF SidesInv, At

\* An allocation that counts is in both documents once all calls have ended and
\* none has died, however many calls applied it at once.
THEOREM SettlementsBothSides == Spec => []AppliedOnBothSides
<1>1. Spec => [](TypeInv /\ ExistsInv /\ SidesInv)
  BY InitTypes, NextTypes, InitExists, NextExists, InitSides, NextSides, PTL DEF Spec
<1>2. SidesInv => AppliedOnBothSides
  <2> SUFFICES ASSUME SidesInv, AtRest, NEW p \in Payments, Live(p), alloc[p].applied
               PROVE  settlement[p].holds /\ p \in invoice[InvoiceOf[p]].applied
    BY DEF AppliedOnBothSides
  <2>1. InInvoice(p) /\ HeldOrTakenBack(p)
    BY DEF SidesInv, AtRest
  <2>2. QED
    BY <2>1 DEF InInvoice, HeldOrTakenBack, AtRest, At, Live
<1>3. QED
  BY <1>1, <1>2, PTL
-----------------------------------------------------------------------------
(* Refunds. A call about to count a refund holds the withdrawal's claim, or *)
(* the refund does not fit any more, and never will.                        *)

Refused(p, w) == w \notin settlement[p].refunds /\ ~FitsRefund(p, w)
RefundOf(c) ==
  /\ At(c, "refund") => adjust[call[c].wd] = Pay(c) \/ Refused(Pay(c), call[c].wd)
  /\ At(c, "checkRefund") =>
       call[c].wd \in settlement[Pay(c)].refunds \/ ~FitsRefund(Pay(c), call[c].wd)
  /\ At(c, "unadjust") => Refused(Pay(c), call[c].wd)
RefundInv == RefundsAreClaimed /\ \A c \in Calls : RefundOf(c)

LEMMA RefundMoves ==
  ASSUME TypeInv, ExistsInv, [Next]_vars, NEW p \in Payments
  PROVE  \/ /\ settlement'[p].refunded = settlement[p].refunded
            /\ settlement'[p].refunds = settlement[p].refunds
         \/ \E c \in Calls :
              /\ ApplyRefund(c) /\ Pay(c) = p
              /\ call[c].wd \notin settlement[p].refunds /\ FitsRefund(p, call[c].wd)
              /\ settlement'[p].refunded = settlement[p].refunded + Withdrawn[call[c].wd]
              /\ settlement'[p].refunds = settlement[p].refunds \union {call[c].wd}
<1>1. settlement[p] \in SettlementRecords
  BY DEF TypeInv, BooksTyped
<1>2. ~settlement[p].exists => settlement[p].refunded = 0 /\ settlement[p].refunds = {}
  BY DEF ExistsInv
<1>3. CASE settlement'[p] = [NoSettlement EXCEPT !.exists = TRUE, !.counted = TRUE]
           /\ ~settlement[p].exists
  BY <1>2, <1>3 DEF NoSettlement
<1>4. CASE settlement'[p] = settlement[p]
  BY <1>4
<1>5. ASSUME NEW c \in Calls, Pay(c) = p, NEW b \in BOOLEAN,
             \/ settlement'[p] = [settlement[p] EXCEPT !.holds = b]
             \/ settlement'[p] = [settlement[p] EXCEPT !.counted = b]
      PROVE  /\ settlement'[p].refunded = settlement[p].refunded
             /\ settlement'[p].refunds = settlement[p].refunds
  BY <1>1, <1>5 DEF SettlementRecords
<1>6. ASSUME NEW c \in Calls,
             settlement'[p] = [settlement[p] EXCEPT !.refunded = @ + Withdrawn[call[c].wd],
                                                    !.refunds = @ \union {call[c].wd}]
      PROVE  /\ settlement'[p].refunded = settlement[p].refunded + Withdrawn[call[c].wd]
             /\ settlement'[p].refunds = settlement[p].refunds \union {call[c].wd}
  BY <1>1, <1>6 DEF SettlementRecords
<1>7. \A c \in Calls : call[c].counted \in BOOLEAN
  BY CallTyped DEF CallRecords
<1>8. QED
  BY <1>3, <1>4, <1>5, <1>6, <1>7, SettlementMoves

LEMMA ClaimMoves ==
  ASSUME TypeInv, [Next]_vars, NEW w \in Withdrawals
  PROVE  \/ adjust'[w] = adjust[w]
         \/ \E c \in Calls :
              /\ call[c].wd = w
              /\ \/ Adjust(c) /\ adjust[w] \in {None, Pay(c)} /\ adjust'[w] = Pay(c)
                 \/ Unadjust(c) /\ adjust[w] = Pay(c) /\ adjust'[w] = None
<1>0. adjust \in [Withdrawals -> Payments \union {None}]
  BY DEF TypeInv, BooksTyped
<1>1. CASE \E c \in Calls : Begin(c)
  BY <1>1, BeginFrame
<1>2. CASE \E c \in Calls : Crash(c)
  BY <1>2 DEF Crash, books
<1>3. CASE \E q \in Payments : Lapse(q) \/ Publish(q)
  BY <1>3 DEF Lapse, Publish
<1>4. CASE UNCHANGED vars
  BY <1>4 DEF vars, books
<1>5. CASE \E c \in Calls : Proceed(c)
  <2>1. PICK c \in Calls : Proceed(c)
    BY <1>5
  <2>2. UNCHANGED adjust \/ Adjust(c) \/ Unadjust(c)
    BY <2>1, ProceedFrame
  <2>3. CASE UNCHANGED adjust
    BY <2>3
  <2>4. CASE Adjust(c)
    BY <1>0, <2>4 DEF Adjust
  <2>5. CASE Unadjust(c)
    BY <1>0, <2>5 DEF Unadjust
  <2>6. QED
    BY <2>2, <2>3, <2>4, <2>5
<1>6. QED
  BY <1>1, <1>2, <1>3, <1>4, <1>5 DEF Next

\* What does not fit will not fit later, and what is counted stays counted.
LEMMA RefusedStays ==
  ASSUME TypeInv, ExistsInv, [Next]_vars, NEW p \in Payments, NEW w \in Withdrawals
  PROVE  /\ ~FitsRefund(p, w) => ~FitsRefund(p, w)'
         /\ w \in settlement[p].refunds => w \in settlement'[p].refunds
         /\ Refused(p, w) => Refused(p, w)'
<1>1. settlement[p].refunded \in Nat /\ Paid[p] \in Nat
  BY SettlementTyped
<1>2. \A v \in Withdrawals : Withdrawn[v] \in Nat
  BY SettlementsAssumption
<1>3. CASE /\ settlement'[p].refunded = settlement[p].refunded
           /\ settlement'[p].refunds = settlement[p].refunds
  BY <1>3 DEF FitsRefund, Refused
<1>4. ASSUME NEW c \in Calls, ApplyRefund(c), Pay(c) = p,
             FitsRefund(p, call[c].wd),
             settlement'[p].refunded = settlement[p].refunded + Withdrawn[call[c].wd],
             settlement'[p].refunds = settlement[p].refunds \union {call[c].wd}
      PROVE  /\ ~FitsRefund(p, w) => ~FitsRefund(p, w)'
             /\ w \in settlement[p].refunds => w \in settlement'[p].refunds
             /\ Refused(p, w) => Refused(p, w)'
  <2>1. call[c].wd \in Withdrawals
    BY <1>4, CallTyped DEF ApplyRefund, At, Knows, RefundSteps
  <2>2. Withdrawn[call[c].wd] \in Nat /\ Withdrawn[w] \in Nat
    BY <1>2, <2>1
  <2>3. ~FitsRefund(p, w) => ~FitsRefund(p, w)'
    BY <1>1, <1>4, <2>2 DEF FitsRefund
  <2>4. QED
    BY <1>4, <2>3 DEF Refused
<1>5. QED
  BY <1>3, <1>4, RefundMoves

LEMMA NextClaims ==
  ASSUME TypeInv, ExistsInv, RefundInv, [Next]_vars
  PROVE  RefundsAreClaimed'
<1> SUFFICES ASSUME NEW p \in Payments
             PROVE  /\ settlement'[p].refunded <= Paid[p]
                    /\ settlement'[p].refunded = Total(Withdrawn, settlement'[p].refunds)
                    /\ \A w \in settlement'[p].refunds : adjust'[w] = p
  BY DEF RefundsAreClaimed
<1>1. /\ settlement[p].refunded \in Nat /\ Paid[p] \in Nat
      /\ settlement[p].refunds \in SUBSET Withdrawals
  BY SettlementTyped
<1>2. /\ settlement[p].refunded <= Paid[p]
      /\ settlement[p].refunded = Total(Withdrawn, settlement[p].refunds)
      /\ \A w \in settlement[p].refunds : adjust[w] = p
  BY DEF RefundInv, RefundsAreClaimed
<1>3. \A w \in settlement[p].refunds : adjust'[w] = p
  <2> TAKE w \in settlement[p].refunds
  <2>1. w \in Withdrawals /\ adjust[w] = p /\ p # None
    BY <1>1, <1>2, SettlementsAssumption
  <2>2. \A c \in Calls : Unadjust(c) /\ call[c].wd = w => Pay(c) # p
    BY DEF RefundInv, RefundOf, Refused, Unadjust
  <2>3. QED
    BY <2>1, <2>2, ClaimMoves
<1>4. CASE /\ settlement'[p].refunded = settlement[p].refunded
           /\ settlement'[p].refunds = settlement[p].refunds
  BY <1>2, <1>3, <1>4
<1>5. ASSUME NEW c \in Calls, ApplyRefund(c), Pay(c) = p,
             call[c].wd \notin settlement[p].refunds, FitsRefund(p, call[c].wd),
             settlement'[p].refunded = settlement[p].refunded + Withdrawn[call[c].wd],
             settlement'[p].refunds = settlement[p].refunds \union {call[c].wd}
      PROVE  /\ settlement'[p].refunded <= Paid[p]
             /\ settlement'[p].refunded = Total(Withdrawn, settlement'[p].refunds)
             /\ \A w \in settlement'[p].refunds : adjust'[w] = p
  <2>1. call[c].wd \in Withdrawals
    BY <1>5, CallTyped DEF ApplyRefund, At, Knows, RefundSteps
  <2>2. adjust[call[c].wd] = p /\ adjust' = adjust
    BY <1>5 DEF RefundInv, RefundOf, Refused, ApplyRefund
  <2>3. IsFiniteSet(Withdrawals) /\ \A w \in Withdrawals : Withdrawn[w] \in Nat
    BY SettlementsAssumption
  <2>4. Total(Withdrawn, settlement[p].refunds \union {call[c].wd})
          = Total(Withdrawn, settlement[p].refunds) + Withdrawn[call[c].wd]
    BY <1>1, <1>5, <2>1, <2>3, TotalAdd
  <2>5. settlement'[p].refunded <= Paid[p]
    BY <1>5 DEF FitsRefund
  <2>6. QED
    BY <1>2, <1>3, <1>5, <2>2, <2>4, <2>5
<1>6. QED
  BY <1>4, <1>5, RefundMoves

LEMMA NextRefunds == TypeInv /\ ExistsInv /\ RefundInv /\ [Next]_vars => RefundInv'
<1> SUFFICES ASSUME TypeInv, ExistsInv, RefundInv, [Next]_vars PROVE RefundInv'
  OBVIOUS
<1>1. RefundsAreClaimed'
  BY NextClaims
<1>2. ASSUME NEW c \in Calls PROVE RefundOf(c)'
  <2>1. CASE call'[c] = call[c]
    <3> DEFINE p == Pay(c)
               w == call[c].wd
    <3>1. call[c].at \in {"refund", "checkRefund", "unadjust"} =>
            p \in Payments /\ w \in Withdrawals /\ p # None
      BY CallTyped, SettlementsAssumption DEF Knows, RefundSteps, PaySteps
    <3>2. RefundOf(c)
      BY DEF RefundInv
    <3>4. call'[c].at = call[c].at
      BY <2>1
    <3> HIDE DEF p, w
    <3>3. p \in Payments /\ w \in Withdrawals =>
            /\ ~FitsRefund(p, w) => ~(settlement'[p].refunded + Withdrawn[w] <= Paid[p])
            /\ w \in settlement[p].refunds => w \in settlement'[p].refunds
            /\ Refused(p, w) => w \notin settlement'[p].refunds
                                /\ ~(settlement'[p].refunded + Withdrawn[w] <= Paid[p])
      <4>1. \A q \in Payments, v \in Withdrawals :
            /\ ~FitsRefund(q, v) => ~(settlement'[q].refunded + Withdrawn[v] <= Paid[q])
            /\ v \in settlement[q].refunds => v \in settlement'[q].refunds
            /\ Refused(q, v) => v \notin settlement'[q].refunds
                                /\ ~(settlement'[q].refunded + Withdrawn[v] <= Paid[q])
        BY RefusedStays DEF Refused, FitsRefund
      <4>2. QED
        BY <4>1
    <3>5. p \in Payments /\ w \in Withdrawals /\ adjust[w] = p =>
            \/ adjust'[w] = p
            \/ /\ w \notin settlement'[p].refunds
               /\ ~(settlement'[p].refunded + Withdrawn[w] <= Paid[p])
      <4> HAVE p \in Payments /\ w \in Withdrawals /\ adjust[w] = p
      <4>1. CASE \E d \in Calls : Unadjust(d) /\ call[d].wd = w /\ Pay(d) = p
        <5>1. Refused(p, w)
          BY <4>1 DEF RefundInv, RefundOf, Unadjust
        <5>2. QED
          BY <3>3, <5>1
      <4>2. CASE ~\E d \in Calls : Unadjust(d) /\ call[d].wd = w /\ Pay(d) = p
        <5>1. p # None
          BY SettlementsAssumption
        <5>2. QED
          BY <4>2, <5>1, ClaimMoves
      <4>3. QED
        BY <4>1, <4>2
    <3>6. CASE At(c, "refund")
      <4>1. \/ adjust'[w] = p
            \/ /\ w \notin settlement'[p].refunds
               /\ ~(settlement'[p].refunded + Withdrawn[w] <= Paid[p])
        BY <3>1, <3>2, <3>3, <3>5, <3>6 DEF At, RefundOf, p, w
      <4>2. QED
        BY <2>1, <3>6, <4>1 DEF RefundOf, At, Refused, FitsRefund, p, w, Pay
    <3>7. CASE At(c, "checkRefund")
      <4>1. w \in settlement'[p].refunds \/ ~(settlement'[p].refunded + Withdrawn[w] <= Paid[p])
        BY <3>1, <3>2, <3>3, <3>7 DEF At, RefundOf, p, w
      <4>2. QED
        BY <2>1, <3>7, <4>1 DEF RefundOf, At, FitsRefund, p, w, Pay
    <3>8. CASE At(c, "unadjust")
      <4>1. /\ w \notin settlement'[p].refunds
            /\ ~(settlement'[p].refunded + Withdrawn[w] <= Paid[p])
        BY <3>1, <3>2, <3>3, <3>8 DEF At, RefundOf, p, w
      <4>2. QED
        BY <2>1, <3>8, <4>1 DEF RefundOf, At, Refused, FitsRefund, p, w, Pay
    <3>9. QED
      BY <3>4, <3>6, <3>7, <3>8 DEF RefundOf, At
  <2>2. CASE call'[c] # call[c] /\ call'[c].at \in {"refund", "checkRefund", "unadjust"}
    <3>1. \/ /\ call'[c].at = "refund"
             /\ \E p \in Payments, w \in Withdrawals : BeginRefund(c, p, w)
          \/ /\ call'[c].pay = Pay(c) /\ call'[c].wd = call[c].wd
             /\ \/ call'[c].at = "refund" /\ Adjust(c)
                \/ call'[c].at = "checkRefund" /\ ApplyRefund(c)
                \/ call'[c].at = "unadjust" /\ CheckRefund(c)
      BY <2>2, Arrivals DEF Middle
    <3>2. \A step : Goto(c, step) => step = call'[c].at
      BY Fields
    <3>3. \/ call'[c].at = "refund" /\ adjust'[call'[c].wd] = call'[c].pay
          \/ /\ call'[c].at = "checkRefund"
             /\ \/ call'[c].wd \in settlement'[call'[c].pay].refunds
                \/ ~(settlement'[call'[c].pay].refunded + Withdrawn[call'[c].wd]
                       <= Paid[call'[c].pay])
          \/ /\ call'[c].at = "unadjust"
             /\ call'[c].wd \notin settlement'[call'[c].pay].refunds
             /\ ~(settlement'[call'[c].pay].refunded + Withdrawn[call'[c].wd]
                       <= Paid[call'[c].pay])
      <4>1. CASE \E p \in Payments, w \in Withdrawals :
                   BeginRefund(c, p, w) /\ call'[c].at = "refund"
        <5>1. PICK p \in Payments, w \in Withdrawals :
                   BeginRefund(c, p, w) /\ call'[c].at = "refund"
          BY <4>1
        <5>2. call'[c].pay = p /\ call'[c].wd = w /\ adjust[w] = p
          BY <5>1, Began
        <5>3. adjust' = adjust
          BY <5>1 DEF BeginRefund, books
        <5>4. QED
          BY <5>1, <5>2, <5>3
      <4>2. CASE /\ call'[c].pay = Pay(c) /\ call'[c].wd = call[c].wd
                 /\ call'[c].at = "refund" /\ Adjust(c)
        <5>1. adjust' = [adjust EXCEPT ![call[c].wd] = Pay(c)]
          <6>1. ~Return(c)
            BY <4>2, Fields
          <6>2. QED
            BY <4>2, <6>1 DEF Adjust
        <5>2. call[c].wd \in Withdrawals
          BY <4>2, CallTyped DEF Adjust, At, Knows, RefundSteps
        <5>3. QED
          BY <4>2, <5>1, <5>2 DEF TypeInv, BooksTyped
      <4>3. CASE /\ call'[c].pay = Pay(c) /\ call'[c].wd = call[c].wd
                 /\ call'[c].at = "checkRefund" /\ ApplyRefund(c)
        BY <3>2, <4>3 DEF ApplyRefund, FitsRefund
      <4>4. CASE /\ call'[c].pay = Pay(c) /\ call'[c].wd = call[c].wd
                 /\ call'[c].at = "unadjust" /\ CheckRefund(c)
        <5>1. call[c].wd \notin settlement[Pay(c)].refunds
          BY <3>2, <4>4 DEF CheckRefund
        <5>2. ~FitsRefund(Pay(c), call[c].wd)
          BY <4>4, <5>1 DEF RefundInv, RefundOf, CheckRefund
        <5>3. settlement' = settlement
          BY <4>4 DEF CheckRefund, books
        <5>4. QED
          BY <4>4, <5>1, <5>2, <5>3 DEF FitsRefund
      <4>5. QED
        BY <3>1, <4>1, <4>2, <4>3, <4>4
    <3>4. QED
      BY <3>3 DEF RefundOf, At, Pay, Refused, FitsRefund
  <2>3. QED
    BY <2>1, <2>2 DEF RefundOf, At
<1>3. QED
  BY <1>1, <1>2 DEF RefundInv

\* No payment is refunded by more than it paid, what is refunded is the sum of its
\* withdrawals, and each withdrawal refunds at most the payment that claims it.
THEOREM SettlementsRefundsClaimed == Spec => []RefundsAreClaimed
<1>1. Init => RefundInv
  <2> HAVE Init
  <2>1. Total(Withdrawn, {}) = 0
    BY FS_EmptySet, TotalDef
  <2>2. \A p \in Payments :
          settlement[p].refunded = 0 /\ settlement[p].refunds = {} /\ Paid[p] \in Nat
    BY SettlementsAssumption DEF Init, NoSettlement
  <2>3. RefundsAreClaimed
    <3> SUFFICES ASSUME NEW p \in Payments
                 PROVE  /\ settlement[p].refunded <= Paid[p]
                        /\ settlement[p].refunded = Total(Withdrawn, settlement[p].refunds)
                        /\ \A w \in settlement[p].refunds : adjust[w] = p
      BY DEF RefundsAreClaimed
    <3>1. settlement[p].refunded = 0 /\ settlement[p].refunds = {} /\ 0 <= Paid[p]
      BY <2>2
    <3>2. QED
      BY <2>1, <3>1
  <2>4. \A c \in Calls : call[c].at = "idle"
    BY DEF Init, NoCall
  <2>5. QED
    BY <2>3, <2>4 DEF RefundInv, RefundOf, At
<1>2. Spec => [](TypeInv /\ ExistsInv /\ RefundInv)
  BY <1>1, InitTypes, NextTypes, InitExists, NextExists, NextRefunds, PTL DEF Spec
<1>3. RefundInv => RefundsAreClaimed
  BY DEF RefundInv
<1>4. QED
  BY <1>2, <1>3, PTL

\* A sum over one set is at most a sum over another when each term that counts in
\* the first has a term at least as large in the second.
LEMMA TotalLess ==
  ASSUME NEW U, IsFiniteSet(U), NEW f, NEW g, NEW S \in SUBSET U, NEW T \in SUBSET U,
         \A x \in U : f[x] \in Nat /\ g[x] \in Nat,
         \A x \in S : f[x] = 0 \/ (x \in T /\ f[x] <= g[x])
  PROVE  Total(f, S) <= Total(g, T)
<1> DEFINE G == {w \in SUBSET U : Total(f, S \intersect w) <= Total(g, T \intersect w)}
<1>0. /\ \A z \in SUBSET U : Total(f, z) \in Nat /\ Total(g, z) \in Nat
      /\ \A z \in SUBSET U, x \in U :
           x \notin z => /\ Total(f, z \union {x}) = Total(f, z) + f[x]
                         /\ Total(g, z \union {x}) = Total(g, z) + g[x]
  BY TotalType, TotalAdd
<1>1. ASSUME NEW w \in SUBSET U,
             \A t \in SUBSET U : Cardinality(t) < Cardinality(w) => t \in G
      PROVE  w \in G
  <2>1. IsFiniteSet(w)
    BY FS_Subset
  <2>2. CASE w = {}
    <3>1. S \intersect w = {} /\ T \intersect w = {} /\ Total(f, {}) = 0 /\ Total(g, {}) = 0
      BY <2>1, <2>2, TotalDef
    <3>2. QED
      BY <3>1
  <2>3. CASE w # {}
    <3> DEFINE x == Pick(w)
               r == w \ {x}
               s == S \intersect r
               t == T \intersect r
    <3>1. x \in w /\ Cardinality(r) < Cardinality(w) /\ r \in SUBSET U
      BY <2>1, <2>3, PickFacts
    <3>2. Total(f, s) <= Total(g, t)
      BY <1>1, <3>1
    <3>3. s \in SUBSET U /\ t \in SUBSET U /\ x \in U /\ x \notin s /\ x \notin t
      BY <3>1
    <3>4. /\ x \in S => S \intersect w = s \union {x}
          /\ x \notin S => S \intersect w = s
          /\ x \in T => T \intersect w = t \union {x}
          /\ x \notin T => T \intersect w = t
      BY <3>1
    <3> HIDE DEF x, r, s, t
    <3>5. /\ x \in S => Total(f, S \intersect w) = Total(f, s) + f[x]
          /\ x \notin S => Total(f, S \intersect w) = Total(f, s)
      BY <1>0, <3>3, <3>4
    <3>6. /\ x \in T => Total(g, T \intersect w) = Total(g, t) + g[x]
          /\ x \notin T => Total(g, T \intersect w) = Total(g, t)
      BY <1>0, <3>3, <3>4
    <3>7. /\ Total(f, s) \in Nat /\ Total(g, t) \in Nat /\ f[x] \in Nat /\ g[x] \in Nat
          /\ x \in S => f[x] = 0 \/ (x \in T /\ f[x] <= g[x])
      BY <1>0, <3>3
    <3>8. Total(f, S \intersect w) <= Total(g, T \intersect w)
      <4>1. CASE x \in S /\ x \in T
        BY <3>2, <3>5, <3>6, <3>7, <4>1
      <4>2. CASE x \in S /\ x \notin T
        BY <3>2, <3>5, <3>6, <3>7, <4>2
      <4>3. CASE x \notin S /\ x \in T
        BY <3>2, <3>5, <3>6, <3>7, <4>3
      <4>4. CASE x \notin S /\ x \notin T
        BY <3>2, <3>5, <3>6, <4>4
      <4>5. QED
        BY <4>1, <4>2, <4>3, <4>4
    <3>9. QED
      BY <3>8
  <2>4. QED
    BY <2>2, <2>3
<1>2. \A w \in SUBSET U : w \in G
  <2> HIDE DEF G
  <2>1. QED
    BY <1>1, SubsetInduction
<1>3. Total(f, S \intersect U) <= Total(g, T \intersect U)
  BY <1>2
<1>4. S \intersect U = S /\ T \intersect U = T
  OBVIOUS
<1>5. QED
  BY <1>3, <1>4
-----------------------------------------------------------------------------
(* What an invoice shows. It never shows less allocated than what counts,  *)
(* nor more refunded than is refunded of that; a recomputation that will   *)
(* be written lies between the two, since it read what only shrinks and    *)
(* what only grows.                                                        *)

Amounts == [p \in Payments |-> alloc[p].amount]
Shares == [p \in Payments |-> Share(p)]
Counted(i) == {p \in invoice[i].applied : ~alloc[p].reversed}
FirstTerms(i) ==
  /\ invoice[i].version = 1
  /\ \A p \in Payments : InvoiceOf[p] = i /\ settlement[p].refunded > 0 =>
       crashes = 0 /\ ~TakenBack(p)

AmountsFit == \A p \in Payments : alloc[p].amount <= Paid[p]
HasAllocations(i) ==
  /\ \A p \in invoice[i].applied : InvoiceOf[p] = i /\ alloc[p].exists
  /\ Total(Amounts, Counted(i)) <= invoice[i].allocated
Within(i) ==
  FirstTerms(i) => /\ invoice[i].refunded <= Total(Shares, Counted(i))
                   /\ invoice[i].allocated - invoice[i].refunded <= invoice[i].due
Between(k) ==
  /\ k.at = "settlements" /\ k.head.rev = invoice[k.inv].rev =>
       /\ Counted(k.inv) \subseteq k.picked /\ k.picked \subseteq invoice[k.inv].applied
       /\ Total(Amounts, k.picked) <= invoice[k.inv].allocated
  /\ k.at = "write" /\ k.head.rev = invoice[k.inv].rev =>
       /\ Total(Amounts, Counted(k.inv)) <= k.shown[1]
       /\ k.shown[1] <= invoice[k.inv].allocated
       /\ FirstTerms(k.inv) => /\ invoice[k.inv].refunded <= k.shown[2]
                               /\ k.shown[2] <= Total(Shares, Counted(k.inv))
BookedInv ==
  /\ AmountsFit
  /\ \A i \in Invoices : HasAllocations(i) /\ Within(i)
  /\ \A c \in Calls : Between(call[c])

LEMMA NextAmounts == TypeInv /\ AmountsFit /\ [Next]_vars => AmountsFit'
<1> SUFFICES ASSUME TypeInv, AmountsFit, [Next]_vars, NEW p \in Payments
             PROVE  alloc'[p].amount <= Paid[p]
  BY DEF AmountsFit
<1>1. /\ alloc[p] \in AllocationRecords /\ alloc \in [Payments -> AllocationRecords]
      /\ Paid[p] \in Nat /\ alloc[p].amount <= Paid[p]
  BY SettlementTyped DEF TypeInv, BooksTyped, AmountsFit
<1>2. ASSUME NEW c \in Calls, Pay(c) = p, InsertAllocation(c) PROVE alloc'[p].amount <= Paid[p]
  <2> DEFINE n == Least(Paid[p] - Allocated(p), RemainingDue(call[c].head))
  <2>1. n <= Paid[p]
    BY SettlementTyped, CallTyped DEF CallRecords, InvoicesOver, Least, RemainingDue, Less
  <2>2. \/ alloc' = alloc
        \/ alloc' = [alloc EXCEPT ![p] = [NoAllocation EXCEPT !.exists = TRUE, !.amount = n]]
    BY <1>2 DEF InsertAllocation
  <2> HIDE DEF n
  <2>3. QED
    BY <1>1, <2>1, <2>2 DEF NoAllocation
<1>3. ASSUME NEW c \in Calls, alloc'[p] = [alloc[p] EXCEPT !.reversed = TRUE]
                              \/ alloc'[p] = [alloc[p] EXCEPT !.applied = TRUE]
      PROVE  alloc'[p].amount <= Paid[p]
  BY <1>1, <1>3 DEF AllocationRecords
<1>4. QED
  BY <1>1, <1>2, <1>3, AllocationMoves

LEMMA TakenBackStays ==
  ASSUME TypeInv, ExistsInv, [Next]_vars, crashes' = 0, NEW p \in Payments, TakenBack(p)
  PROVE  TakenBack(p)'
<1>1. CASE alloc[p].reversed
  <2>1. alloc[p].exists
    BY <1>1 DEF ExistsInv
  <2>2. alloc'[p].reversed
    BY <1>1, <2>1, ExistingStays
  <2>3. QED
    BY <2>2 DEF TakenBack
<1>2. ASSUME NEW c \in Calls, Pay(c) = p, call[c].at \in {"undo", "reverse"}
      PROVE  TakenBack(p)'
  <2>1. CASE call'[c] = call[c]
    BY <1>2, <2>1 DEF TakenBack, Pay
  <2>2. CASE call'[c] # call[c] /\ At(c, "undo")
    <3>1. Goto(c, "reverse")
      BY <2>2, Departures DEF Undo
    <3>2. call'[c].at = "reverse" /\ call'[c].pay = p
      BY <1>2, <3>1, Fields
    <3>3. QED
      BY <3>2 DEF TakenBack, Pay
  <2>3. CASE call'[c] # call[c] /\ At(c, "reverse")
    <3>1. alloc' = [alloc EXCEPT ![p].reversed = TRUE]
      BY <1>2, <2>3, Departures DEF ReverseAllocation
    <3>2. alloc \in [Payments -> AllocationRecords]
      BY DEF TypeInv, BooksTyped
    <3>3. alloc'[p].reversed
      BY <3>1, <3>2 DEF AllocationRecords
    <3>4. QED
      BY <3>3 DEF TakenBack
  <2>4. QED
    BY <1>2, <2>1, <2>2, <2>3 DEF At
<1>3. QED
  BY <1>1, <1>2 DEF TakenBack

LEMMA RefundedGrows ==
  ASSUME TypeInv, ExistsInv, [Next]_vars, NEW p \in Payments
  PROVE  settlement[p].refunded \in Nat /\ settlement'[p].refunded \in Nat
         /\ settlement[p].refunded <= settlement'[p].refunded
<1>1. settlement[p].refunded \in Nat
  BY SettlementTyped
<1>2. \A c \in Calls : ApplyRefund(c) => Withdrawn[call[c].wd] \in Nat
  BY CallTyped, SettlementsAssumption DEF ApplyRefund, At, Knows, RefundSteps
<1>3. settlement'[p].refunded = settlement[p].refunded
      \/ \E c \in Calls : /\ Withdrawn[call[c].wd] \in Nat
                          /\ settlement'[p].refunded
                               = settlement[p].refunded + Withdrawn[call[c].wd]
  BY <1>2, RefundMoves
<1>4. QED
  BY <1>1, <1>3

LEMMA TermsKept ==
  ASSUME TypeInv, ExistsInv, [Next]_vars, NEW i \in Invoices, FirstTerms(i)'
  PROVE  FirstTerms(i) /\ invoice'[i].version = invoice[i].version
<1>1. invoice[i].version = 1 /\ invoice'[i].version = 1
  BY VersionsGrow, SettlementsAssumption DEF FirstTerms
<1>2. ASSUME NEW p \in Payments, InvoiceOf[p] = i, settlement[p].refunded > 0
      PROVE  crashes = 0 /\ ~TakenBack(p)
  <2>1. settlement'[p].refunded > 0
    BY <1>2, RefundedGrows
  <2>2. crashes' = 0 /\ ~TakenBack(p)'
    BY <1>2, <2>1 DEF FirstTerms
  <2>3. QED
    BY <2>2, CrashesCount, TakenBackStays
<1>3. QED
  BY <1>1, <1>2 DEF FirstTerms

\* A refund share counts until its allocation is taken back, and then it was
\* nothing.
LEMMA ShareKept ==
  ASSUME TypeInv, ExistsInv, AmountsFit, [Next]_vars, NEW i \in Invoices, FirstTerms(i)',
         NEW p \in Payments, InvoiceOf[p] = i, alloc[p].exists
  PROVE  Share(p) = 0 \/ (~alloc'[p].reversed /\ Share(p) <= Share(p)')
<1>1. /\ settlement[p].refunded \in Nat /\ settlement'[p].refunded \in Nat
      /\ settlement[p].refunded <= settlement'[p].refunded
      /\ alloc[p].amount \in Nat /\ Paid[p] \in Nat /\ alloc[p].amount <= Paid[p]
      /\ settlement[p].holds \in BOOLEAN
  BY SettlementTyped, RefundedGrows DEF AmountsFit
<1>2. CASE settlement[p].refunded = 0
  BY <1>1, <1>2 DEF Share, Least, Less
<1>3. CASE settlement[p].refunded > 0 /\ (alloc[p].reversed \/ ~settlement[p].holds)
  BY <1>3 DEF Share, Live
<1>4. CASE settlement[p].refunded > 0 /\ ~alloc[p].reversed /\ settlement[p].holds
  <2>1. crashes' = 0 /\ ~TakenBack(p)'
    BY <1>1, <1>4 DEF FirstTerms
  <2>2. alloc'[p].exists /\ alloc'[p].amount = alloc[p].amount /\ ~alloc'[p].reversed
    BY <2>1, ExistingStays DEF TakenBack
  <2>3. settlement'[p].holds
    <3>1. settlement[p] \in SettlementRecords
      BY DEF TypeInv, BooksTyped
    <3>2. settlement[p].exists
      BY DEF ExistsInv
    <3>3. ASSUME NEW c \in Calls, Pay(c) = p, Undo(c) PROVE FALSE
      <4>1. call'[c].at = "reverse" /\ call'[c].pay = p
        BY <3>3, Fields DEF Undo
      <4>2. QED
        BY <2>1, <4>1 DEF TakenBack, Pay
    <3>4. QED
      BY <1>4, <3>1, <3>2, <3>3, SettlementMoves DEF SettlementRecords
  <2>4. Share(p) = Least(Less(settlement[p].refunded, Paid[p] - alloc[p].amount), alloc[p].amount)
    BY <1>4 DEF Share, Live
  <2>5. Share(p)' = Least(Less(settlement'[p].refunded, Paid[p] - alloc[p].amount), alloc[p].amount)
    BY <2>2, <2>3 DEF Share, Live
  <2>6. QED
    BY <1>1, <2>2, <2>4, <2>5 DEF Least, Less
<1>5. QED
  BY <1>1, <1>2, <1>3, <1>4

LEMMA SharesTyped == TypeInv => \A p \in Payments : Share(p) \in Nat
  BY SettlementTyped

\* The sums as numbers.
LEMMA SumsTyped ==
  ASSUME TypeInv
  PROVE  /\ IsFiniteSet(Payments)
         /\ \A p \in Payments : Amounts[p] = alloc[p].amount /\ Amounts[p] \in Nat
                                /\ Shares[p] = Share(p) /\ Shares[p] \in Nat
         /\ \A S \in SUBSET Payments : Total(Amounts, S) \in Nat /\ Total(Shares, S) \in Nat
<1>1. IsFiniteSet(Payments)
  BY SettlementsAssumption
<1>2. \A p \in Payments : Amounts[p] = alloc[p].amount /\ Amounts[p] \in Nat
                          /\ Shares[p] = Share(p) /\ Shares[p] \in Nat
  BY SettlementTyped DEF Amounts, Shares
<1>3. QED
  BY <1>1, <1>2, TotalType

LEMMA AmountsTyped == TypeInv => \A p \in Payments : Amounts[p] \in Nat
  BY SumsTyped

CountedSums ==
  \A i \in Invoices : Total(Amounts, Counted(i)) \in Nat /\ Total(Shares, Counted(i)) \in Nat
LEMMA CountedTyped == TypeInv => CountedSums
<1> SUFFICES ASSUME TypeInv, NEW i \in Invoices
             PROVE  Total(Amounts, Counted(i)) \in Nat /\ Total(Shares, Counted(i)) \in Nat
  BY DEF CountedSums
<1>1. Counted(i) \in SUBSET Payments
  BY DEF TypeInv, BooksTyped, InvoicesOver, Counted
<1>2. QED
  BY <1>1, SumsTyped

\* What the recomputation adds up is the sum of these.
LEMMA AddedUp ==
  ASSUME TypeInv, NEW S \in SUBSET Payments
  PROVE  /\ Total([p \in S |-> alloc[p].amount], S) = Total(Amounts, S)
         /\ Total([p \in S |-> Share(p)], S) = Total(Shares, S)
<1>1. IsFiniteSet(S)
  BY SumsTyped, FS_Subset
<1>2. \A p \in S : /\ [q \in S |-> alloc[q].amount][p] \in Nat
                   /\ [q \in S |-> alloc[q].amount][p] = Amounts[p]
                   /\ [q \in S |-> Share(q)][p] \in Nat
                   /\ [q \in S |-> Share(q)][p] = Shares[p]
  BY SumsTyped
<1> DEFINE f == [q \in S |-> alloc[q].amount]
           g == [q \in S |-> Share(q)]
<1> HIDE DEF f, g
<1>3. Total(f, S) = Total(Amounts, S) /\ Total(g, S) = Total(Shares, S)
  BY <1>1, <1>2, TotalAgree DEF f, g
<1>4. QED
  BY <1>3 DEF f, g

\* Where an invoice took nothing new, what counts of it only shrinks, and its
\* refund shares only grow.
LEMMA CountedMoves ==
  ASSUME TypeInv, ExistsInv, AmountsFit, [Next]_vars, NEW i \in Invoices, HasAllocations(i)
  PROVE  /\ invoice'[i].applied = invoice[i].applied => Counted(i)' \subseteq Counted(i)
         /\ \A p \in Counted(i)' \ Counted(i) : \E c \in Calls : Takes(c, i) /\ Pay(c) = p
         /\ Counted(i) \in SUBSET Payments /\ Counted(i)' \in SUBSET Payments
         /\ \A p \in Counted(i) : Amounts'[p] = Amounts[p]
         /\ FirstTerms(i)' => Total(Shares, Counted(i)) <= Total(Shares, Counted(i))'
<1>1. TypeInv'
  BY NextTypes
<1>2. invoice[i].applied \in SUBSET Payments /\ invoice'[i].applied \in SUBSET Payments
  BY <1>1 DEF TypeInv, BooksTyped, InvoicesOver
<1>3. \A p \in invoice[i].applied :
         /\ InvoiceOf[p] = i /\ alloc[p].exists
         /\ alloc[p].reversed => alloc'[p].reversed
         /\ alloc'[p].amount = alloc[p].amount
  BY <1>2, ExistingStays DEF HasAllocations
<1>4. invoice[i].applied \subseteq invoice'[i].applied
  BY AppliedGrows
<1>5. /\ \A p \in Payments : Amounts[p] = alloc[p].amount /\ Amounts'[p] = alloc'[p].amount
                             /\ Shares[p] = Share(p) /\ Shares'[p] = Share(p)'
                             /\ Shares[p] \in Nat /\ Shares'[p] \in Nat
      /\ IsFiniteSet(Payments)
  <2>1. \A p \in Payments : Share(p) \in Nat
    BY SettlementTyped
  <2>2. (\A p \in Payments : Share(p) \in Nat)'
    BY <1>1, SharesTyped, PTL
  <2>3. \A p \in Payments : Amounts[p] = alloc[p].amount /\ Amounts'[p] = alloc'[p].amount
    BY DEF Amounts
  <2>4. \A p \in Payments : Shares[p] = Share(p)
    BY Zenon DEF Shares
  <2>5. \A p \in Payments : Shares'[p] = Share(p)'
    BY Zenon DEF Shares
  <2>6. \A p \in Payments : Shares[p] \in Nat /\ Shares'[p] \in Nat
    BY Zenon, <2>1, <2>2, <2>4, <2>5
  <2>7. QED
    BY <2>3, <2>4, <2>5, <2>6, SettlementsAssumption
<1>6. \A p \in Counted(i)' \ Counted(i) : \E c \in Calls : Takes(c, i) /\ Pay(c) = p
  <2> SUFFICES ASSUME NEW p, p \in invoice'[i].applied, ~alloc'[p].reversed,
                      ~(p \in invoice[i].applied /\ ~alloc[p].reversed)
               PROVE  \E c \in Calls : Takes(c, i) /\ Pay(c) = p
    BY DEF Counted
  <2>1. p \notin invoice[i].applied
    BY <1>3
  <2>2. QED
    BY <2>1, AppliedGrows
<1>7. ASSUME FirstTerms(i)' PROVE Total(Shares, Counted(i)) <= Total(Shares, Counted(i))'
  <2>1. \A p \in Counted(i) : Shares[p] = 0 \/ (p \in Counted(i)' /\ Shares[p] <= Shares'[p])
    <3> SUFFICES ASSUME NEW p \in invoice[i].applied
                 PROVE  Share(p) = 0
                        \/ /\ p \in invoice'[i].applied /\ ~alloc'[p].reversed
                           /\ Share(p) <= Share(p)'
      BY <1>2, <1>5 DEF Counted
    <3>1. p \in Payments /\ InvoiceOf[p] = i /\ alloc[p].exists
      BY <1>2, <1>3
    <3>2. Share(p) = 0 \/ (~alloc'[p].reversed /\ Share(p) <= Share(p)')
      BY <1>7, <3>1, ShareKept
    <3>3. QED
      BY <1>4, <3>2
  <2> DEFINE f == Shares
             g == Shares'
             S == Counted(i)
             T == Counted(i)'
  <2>2. S \in SUBSET Payments /\ T \in SUBSET Payments
    BY <1>2 DEF Counted
  <2>3. /\ \A p \in Payments : f[p] \in Nat /\ g[p] \in Nat
        /\ \A p \in S : f[p] = 0 \/ (p \in T /\ f[p] <= g[p])
    BY <1>5, <2>1
  <2> HIDE DEF f, g, S, T
  <2>4. Total(f, S) <= Total(g, T)
    BY <1>5, <2>2, <2>3, TotalLess
  <2>5. QED
    BY <2>4 DEF f, g, S, T
<1>8. QED
  BY <1>2, <1>3, <1>5, <1>6, <1>7 DEF Counted

\* An invoice that took nothing new has no more allocated to it that counts.
LEMMA CountedShrinks ==
  ASSUME TypeInv, ExistsInv, AmountsFit, [Next]_vars, NEW i \in Invoices, HasAllocations(i),
         invoice'[i].applied = invoice[i].applied
  PROVE  Total(Amounts, Counted(i))' <= Total(Amounts, Counted(i))
<1>1. TypeInv' /\ (IsFiniteSet(Payments) /\ \A p \in Payments : Amounts[p] \in Nat)
  BY NextTypes, SumsTyped
<1>2. (\A p \in Payments : Amounts[p] \in Nat)'
  BY <1>1, AmountsTyped, PTL
<1>3. Counted(i)' \subseteq Counted(i) /\ Counted(i) \in SUBSET Payments
      /\ \A p \in Counted(i) : Amounts'[p] = Amounts[p]
  BY CountedMoves
<1> DEFINE f == Amounts'
           g == Amounts
           S == Counted(i)'
           T == Counted(i)
<1>4. /\ \A p \in Payments : f[p] \in Nat /\ g[p] \in Nat
      /\ S \in SUBSET Payments /\ T \in SUBSET Payments
      /\ \A p \in S : p \in T /\ f[p] <= g[p]
  BY <1>1, <1>2, <1>3
<1> HIDE DEF f, g, S, T
<1>5. Total(f, S) <= Total(g, T)
  BY <1>1, <1>4, TotalLess
<1>6. QED
  BY <1>5 DEF f, g, S, T

LEMMA NextHasAllocations ==
  ASSUME TypeInv, ExistsInv, BookedInv, [Next]_vars, NEW i \in Invoices
  PROVE  HasAllocations(i)'
<1>1. /\ invoice[i] \in InvoicesOver(Dues) /\ invoice \in [Invoices -> InvoicesOver(Dues)]
      /\ HasAllocations(i) /\ AmountsFit
  BY DEF TypeInv, BooksTyped, BookedInv
<1>2. ASSUME NEW p \in invoice'[i].applied PROVE InvoiceOf[p] = i /\ alloc'[p].exists
  <2>1. CASE p \in invoice[i].applied
    <3>1. p \in Payments /\ InvoiceOf[p] = i /\ alloc[p].exists
      BY <1>1, <2>1 DEF InvoicesOver, HasAllocations
    <3>2. QED
      BY <3>1, ExistingStays
  <2>2. CASE p \notin invoice[i].applied
    <3>1. PICK c \in Calls : Takes(c, i) /\ Pay(c) = p
      BY <2>2, AppliedGrows
    <3>2. p \in Payments /\ InvoiceOf[p] = i /\ At(c, "applyInvoice")
      BY <3>1 DEF Takes, ApplyToInvoice
    <3>3. alloc[p].exists
      BY <3>1, <3>2 DEF ExistsInv, HasSeen, ApplySteps, At, Pay
    <3>4. QED
      BY <3>2, <3>3, ExistingStays
  <2>3. QED
    BY <2>1, <2>2
<1>3. /\ Total(Amounts, Counted(i)) \in Nat /\ Counted(i) \in SUBSET Payments
      /\ Total(Amounts, Counted(i)) <= invoice[i].allocated /\ invoice[i].allocated \in Nat
  BY <1>1, SumsTyped, CountedMoves DEF HasAllocations, InvoicesOver
<1>4. ASSUME invoice'[i].applied = invoice[i].applied
      PROVE  /\ Total(Amounts, Counted(i))' <= Total(Amounts, Counted(i))
             /\ Total(Amounts, Counted(i))' \in Nat
  <2>1. (Total(Amounts, Counted(i)) \in Nat)'
    <3>1. TypeInv'
      BY NextTypes
    <3>2. CountedSums'
      BY <3>1, CountedTyped, PTL
    <3>3. QED
      BY <3>2 DEF CountedSums
  <2>2. QED
    BY <1>1, <1>4, <2>1, CountedShrinks
<1>5. CASE invoice'[i].applied = invoice[i].applied /\ invoice'[i].allocated = invoice[i].allocated
  BY <1>2, <1>3, <1>4, <1>5 DEF HasAllocations
<1>6. ASSUME NEW c \in Calls, Writes(c, i) PROVE HasAllocations(i)'
  <2>1. invoice'[i].applied = invoice[i].applied /\ invoice'[i].allocated = call[c].shown[1]
    BY <1>1, <1>6 DEF InvoicesOver, Writes
  <2>2. Total(Amounts, Counted(i)) <= call[c].shown[1] /\ call[c].shown[1] \in Nat
    BY <1>6, CallTyped DEF Writes, WriteProjection, At, BookedInv, Between, CallRecords
  <2>3. QED
    BY <1>2, <1>3, <1>4, <2>1, <2>2 DEF HasAllocations
<1>7. ASSUME NEW c \in Calls, Takes(c, i) PROVE HasAllocations(i)'
  <2> DEFINE p == Pay(c)
             S == Counted(i)
             T == Counted(i)'
  <2>1. /\ alloc' = alloc /\ p \in Payments /\ p \notin S
        /\ invoice'[i].applied = invoice[i].applied \union {p}
        /\ invoice'[i].allocated = invoice[i].allocated + alloc[p].amount
    BY <1>1, <1>7 DEF Takes, ApplyToInvoice, InvoicesOver, Counted
  <2>2. Amounts' = Amounts
    BY <2>1 DEF Amounts
  <2>3. T \subseteq S \union {p} /\ S \subseteq Payments
    BY <1>3, <2>1 DEF Counted
  <2> HIDE DEF p, S, T
  <2>4. IsFiniteSet(Payments) /\ \A q \in Payments : Amounts[q] \in Nat
    BY SumsTyped
  <2>5. Total(Amounts, S \union {p}) = Total(Amounts, S) + Amounts[p]
    BY <2>1, <2>3, <2>4, TotalAdd
  <2>6. Total(Amounts, T) <= Total(Amounts, S \union {p})
    <3>1. S \union {p} \in SUBSET Payments /\ T \in SUBSET Payments
      BY <2>1, <2>3
    <3>2. \A x \in T : Amounts[x] = 0 \/ (x \in S \union {p} /\ Amounts[x] <= Amounts[x])
      BY <2>1, <2>3, <2>4
    <3>3. QED
      BY <2>4, <3>1, <3>2, TotalLess
  <2>7. Amounts[p] = alloc[p].amount /\ Amounts[p] \in Nat /\ Total(Amounts, S) \in Nat
        /\ Total(Amounts, T) \in Nat
    BY <2>1, <2>3, <2>4, SumsTyped
  <2>8. Total(Amounts, T) <= invoice'[i].allocated
    BY <1>3, <2>1, <2>5, <2>6, <2>7 DEF S
  <2>9. QED
    BY <1>2, <2>2, <2>8 DEF HasAllocations, T
<1>8. ASSUME NEW c \in Calls, Publishes(c, i) \/ Cancels(c, i) PROVE HasAllocations(i)'
  <2>1. invoice'[i].applied = invoice[i].applied /\ invoice'[i].allocated = invoice[i].allocated
    BY <1>1, <1>8 DEF InvoicesOver, Publishes, Cancels
  <2>2. QED
    BY <1>5, <2>1
<1>9. QED
  BY <1>5, <1>6, <1>7, <1>8, InvoiceMoves

LEMMA NextWithin ==
  ASSUME TypeInv, ExistsInv, BookedInv, [Next]_vars, NEW i \in Invoices
  PROVE  Within(i)'
<1> SUFFICES ASSUME FirstTerms(i)'
             PROVE  /\ invoice'[i].refunded <= Total(Shares, Counted(i))'
                    /\ invoice'[i].allocated - invoice'[i].refunded <= invoice'[i].due
  BY DEF Within
<1>1. /\ invoice[i] \in InvoicesOver(Dues) /\ AmountsFit /\ HasAllocations(i)
      /\ FirstTerms(i) /\ invoice'[i].version = invoice[i].version
  BY TermsKept DEF TypeInv, BooksTyped, BookedInv
<1>2. /\ invoice[i].refunded <= Total(Shares, Counted(i))
      /\ invoice[i].allocated - invoice[i].refunded <= invoice[i].due
      /\ invoice[i].allocated \in Nat /\ invoice[i].refunded \in Nat
      /\ invoice[i].due \in Nat
  BY <1>1, SettlementsAssumption DEF BookedInv, Within, InvoicesOver
<1>3. /\ Total(Shares, Counted(i)) <= Total(Shares, Counted(i))'
      /\ Total(Shares, Counted(i)) \in Nat
  BY <1>1, CountedMoves, SumsTyped
<1>4. Total(Shares, Counted(i))' \in Nat
  <2>1. TypeInv'
    BY NextTypes
  <2>2. CountedSums'
    BY <2>1, CountedTyped, PTL
  <2>3. QED
    BY <2>2 DEF CountedSums
<1>5. CASE /\ invoice'[i].refunded = invoice[i].refunded
           /\ invoice'[i].allocated = invoice[i].allocated
           /\ invoice'[i].due = invoice[i].due
  BY <1>2, <1>3, <1>4, <1>5
<1>6. ASSUME NEW c \in Calls, Takes(c, i)
      PROVE  /\ invoice'[i].refunded <= Total(Shares, Counted(i))'
             /\ invoice'[i].allocated - invoice'[i].refunded <= invoice'[i].due
  <2>1. /\ invoice'[i].refunded = invoice[i].refunded /\ invoice'[i].due = invoice[i].due
        /\ invoice'[i].allocated = invoice[i].allocated + alloc[Pay(c)].amount
    BY <1>1, <1>6 DEF Takes, InvoicesOver
  <2>2. invoice[i].allocated - invoice[i].refunded + alloc[Pay(c)].amount <= invoice[i].due
        /\ alloc[Pay(c)].amount \in Nat
    BY <1>6, SettlementTyped DEF Takes, FitsInvoice
  <2>3. QED
    BY <1>2, <1>3, <1>4, <2>1, <2>2
<1>7. ASSUME NEW c \in Calls, Writes(c, i)
      PROVE  /\ invoice'[i].refunded <= Total(Shares, Counted(i))'
             /\ invoice'[i].allocated - invoice'[i].refunded <= invoice'[i].due
  <2>1. /\ invoice'[i].refunded = call[c].shown[2] /\ invoice'[i].due = invoice[i].due
        /\ invoice'[i].allocated = call[c].shown[1]
    BY <1>1, <1>7 DEF Writes, InvoicesOver
  <2>2. /\ call[c].shown[1] <= invoice[i].allocated
        /\ invoice[i].refunded <= call[c].shown[2]
        /\ call[c].shown[2] <= Total(Shares, Counted(i))
    BY <1>1, <1>7 DEF Writes, WriteProjection, At, BookedInv, Between
  <2>3. call[c].shown[1] \in Nat /\ call[c].shown[2] \in Nat
    BY CallTyped DEF CallRecords
  <2>4. QED
    BY <1>2, <1>3, <1>4, <2>1, <2>2, <2>3
<1>8. ASSUME NEW c \in Calls, Cancels(c, i)
      PROVE  /\ invoice'[i].refunded = invoice[i].refunded
             /\ invoice'[i].allocated = invoice[i].allocated
             /\ invoice'[i].due = invoice[i].due
  BY <1>1, <1>8 DEF Cancels, InvoicesOver
<1>9. \A c \in Calls : ~Publishes(c, i)
  <2> SUFFICES ASSUME NEW c \in Calls, Publishes(c, i) PROVE FALSE
    OBVIOUS
  <2>1. invoice'[i].version = invoice[i].version + 1 /\ invoice[i].version \in Nat
    BY <1>1 DEF Publishes, InvoicesOver
  <2>2. QED
    BY <1>1, <2>1
<1>10. QED
  BY <1>5, <1>6, <1>7, <1>8, <1>9, InvoiceMoves

LEMMA SameRevisionSameInvoice ==
  ASSUME TypeInv, HeadsInv, [Next]_vars, NEW c \in Calls, call[c].at \in Reading,
         call'[c] = call[c], call[c].head.rev = invoice'[call[c].inv].rev
  PROVE  /\ call[c].inv \in Invoices /\ invoice'[call[c].inv] = invoice[call[c].inv]
         /\ call[c].head.rev = invoice[call[c].inv].rev
<1> DEFINE i == call[c].inv
<1>1. i \in Invoices /\ call[c].head.rev \in Nat
  BY CallTyped DEF Knows, Reading, InvoiceSteps, CallRecords, InvoicesOver
<1>2. call[c].head.rev <= invoice[i].rev
  BY DEF HeadsInv, HeadIsKnown
<1>3. /\ invoice[i].rev \in Nat
      /\ invoice'[i] = invoice[i] \/ invoice'[i].rev = invoice[i].rev + 1
  BY <1>1, RevisionsGrow
<1> HIDE DEF i
<1>4. QED
  BY <1>1, <1>2, <1>3 DEF i

\* A call that goes on with its recomputation while others go on with theirs.
LEMMA BetweenStays ==
  ASSUME TypeInv, ExistsInv, HeadsInv, BookedInv, [Next]_vars, NEW c \in Calls,
         call'[c] = call[c]
  PROVE  Between(call[c])'
<1> DEFINE i == call[c].inv
<1>1. Between(call[c]) /\ AmountsFit /\ \A j \in Invoices : HasAllocations(j)
  BY DEF BookedInv
<1>2. CASE call[c].at = "settlements" /\ call[c].head.rev = invoice'[i].rev
  <2>1. i \in Invoices /\ invoice'[i] = invoice[i] /\ call[c].head.rev = invoice[i].rev
    BY <1>2, SameRevisionSameInvoice DEF Reading
  <2>2. /\ Counted(i) \subseteq call[c].picked /\ call[c].picked \subseteq invoice[i].applied
        /\ Total(Amounts, call[c].picked) <= invoice[i].allocated
    BY <1>1, <1>2, <2>1 DEF Between
  <2> DEFINE S == call[c].picked
  <2>3. Counted(i)' \subseteq S
    <3>1. Counted(i)' \subseteq Counted(i)
      BY <1>1, <2>1, CountedMoves
    <3>2. QED
      BY <2>2, <3>1
  <2>4. S \in SUBSET Payments
    BY CallTyped DEF CallRecords
  <2>5. \A p \in S : alloc'[p].amount = alloc[p].amount
    BY <1>1, <2>1, <2>2, <2>4, ExistingStays DEF HasAllocations
  <2>6. Total(Amounts, S)' = Total(Amounts, S)
    <3> DEFINE f == Amounts
               g == Amounts'
    <3>1. IsFiniteSet(S)
      BY <2>4, SumsTyped, FS_Subset
    <3>2. \A p \in S : f[p] \in Nat /\ f[p] = g[p]
      BY <2>4, <2>5, SettlementTyped DEF Amounts
    <3>3. S' = S
      OBVIOUS
    <3> HIDE DEF f, g, S
    <3>4. Total(f, S) = Total(g, S)
      BY <3>1, <3>2, TotalAgree
    <3>5. QED
      BY <3>3, <3>4 DEF f, g
  <2>7. call'[c].inv = i /\ call'[c].picked = S /\ call'[c].at = "settlements"
    BY <1>2
  <2>8. /\ Counted(i)' \subseteq S /\ S \subseteq invoice'[i].applied
        /\ Total(Amounts, S)' <= invoice'[i].allocated
    BY <2>1, <2>2, <2>3, <2>6
  <2>9. QED
    BY <2>7, <2>8 DEF Between
<1>3. CASE call[c].at = "write" /\ call[c].head.rev = invoice'[i].rev
  <2>1. i \in Invoices /\ invoice'[i] = invoice[i] /\ call[c].head.rev = invoice[i].rev
    BY <1>3, SameRevisionSameInvoice DEF Reading
  <2>2. /\ Total(Amounts, Counted(i)) <= call[c].shown[1]
        /\ call[c].shown[1] <= invoice[i].allocated
        /\ FirstTerms(i) => /\ invoice[i].refunded <= call[c].shown[2]
                            /\ call[c].shown[2] <= Total(Shares, Counted(i))
    BY <1>1, <1>3, <2>1 DEF Between
  <2>3. /\ Total(Amounts, Counted(i))' <= Total(Amounts, Counted(i))
        /\ FirstTerms(i)' => FirstTerms(i)
        /\ FirstTerms(i)' => Total(Shares, Counted(i)) <= Total(Shares, Counted(i))'
    BY <1>1, <2>1, CountedShrinks, CountedMoves, TermsKept
  <2>4. /\ Total(Amounts, Counted(i)) \in Nat /\ Total(Shares, Counted(i)) \in Nat
        /\ Total(Amounts, Counted(i))' \in Nat /\ Total(Shares, Counted(i))' \in Nat
    <3>1. TypeInv'
      BY NextTypes
    <3>2. CountedSums'
      BY <3>1, CountedTyped, PTL
    <3>3. QED
      BY <2>1, <3>2, CountedTyped DEF CountedSums
  <2>5. call[c].shown[1] \in Nat /\ call[c].shown[2] \in Nat
    BY CallTyped DEF CallRecords
  <2>6. /\ Total(Amounts, Counted(i))' <= call[c].shown[1]
        /\ FirstTerms(i)' => /\ invoice'[i].refunded <= call[c].shown[2]
                             /\ call[c].shown[2] <= Total(Shares, Counted(i))'
    BY <2>1, <2>2, <2>3, <2>4, <2>5
  <2>7. call'[c].inv = i /\ call'[c].at = "write" /\ call'[c].shown = call[c].shown
        /\ call[c].shown[1] <= invoice'[i].allocated
    BY <1>3, <2>1, <2>2
  <2>8. QED
    BY <2>6, <2>7 DEF Between
<1>4. CASE ~(call[c].at \in {"settlements", "write"} /\ call[c].head.rev = invoice'[i].rev)
  BY <1>4 DEF Between
<1>5. QED
  BY <1>2, <1>3, <1>4

\* A call that has just read the next part.
LEMMA BetweenRead ==
  ASSUME TypeInv, ExistsInv, HeadsInv, BookedInv, [Next]_vars, NEW c \in Calls,
         call'[c] # call[c]
  PROVE  Between(call[c])'
<1> DEFINE i == call[c].inv
<1>0. SUFFICES ASSUME call'[c].at \in {"settlements", "write"},
                      call'[c].head.rev = invoice'[call'[c].inv].rev
               PROVE  Between(call[c])'
  BY DEF Between
<1>1. /\ call'[c].inv = i /\ i \in Invoices
      /\ invoice' = invoice /\ alloc' = alloc /\ settlement' = settlement
      /\ \/ /\ At(c, "allocations") /\ call'[c].at = "settlements"
            /\ call'[c].head = call[c].head
            /\ call'[c].picked = {p \in call[c].head.applied : ~alloc[p].reversed}
         \/ /\ At(c, "settlements") /\ call'[c].at = "write"
            /\ call'[c].head = call[c].head
            /\ call'[c].shown =
                 <<Total([p \in call[c].picked |-> alloc[p].amount], call[c].picked),
                   Total([p \in call[c].picked |-> Share(p)], call[c].picked)>>
  BY <1>0, Readers DEF Reading
<1>2. Between(call[c]) /\ AmountsFit /\ HasAllocations(i) /\ Within(i)
  BY <1>1 DEF BookedInv
<1>3. call[c].head = invoice[i]
  BY <1>0, <1>1 DEF HeadsInv, HeadIsKnown, At, Reading
<1>4. Amounts' = Amounts /\ Counted(i)' = Counted(i)
  BY <1>1 DEF Amounts, Counted
<1>5. Counted(i) \in SUBSET Payments
  BY <1>1, <1>2, CountedMoves
<1>6. CASE At(c, "allocations") /\ call'[c].at = "settlements"
  <2>1. call'[c].picked = Counted(i)
    BY <1>1, <1>3, <1>6 DEF At, Counted
  <2>2. /\ Total(Amounts, Counted(i)) <= invoice[i].allocated
        /\ Counted(i) \subseteq invoice[i].applied
    BY <1>2 DEF HasAllocations, Counted
  <2>3. QED
    BY <1>1, <1>4, <1>6, <2>1, <2>2 DEF Between
<1>7. CASE At(c, "settlements") /\ call'[c].at = "write"
  <2> DEFINE S == call[c].picked
             T == Counted(i)
  <2>1. /\ T \subseteq S /\ S \subseteq invoice[i].applied
        /\ Total(Amounts, S) <= invoice[i].allocated
    BY <1>0, <1>1, <1>2, <1>7 DEF Between, At
  <2>2. S \in SUBSET Payments /\ T \in SUBSET Payments
    BY <1>5, CallTyped DEF CallRecords
  <2>3. call'[c].shown[1] = Total(Amounts, S) /\ call'[c].shown[2] = Total(Shares, S)
    <3>1. call'[c].shown = <<Total([p \in S |-> alloc[p].amount], S),
                             Total([p \in S |-> Share(p)], S)>>
      BY <1>1, <1>7 DEF At
    <3> HIDE DEF S
    <3>2. QED
      BY <2>2, <3>1, AddedUp
  <2>4. \A p \in S : p \in T \/ Shares[p] = 0
    <3> SUFFICES ASSUME NEW p \in S, p \notin T PROVE Shares[p] = 0
      OBVIOUS
    <3>1. alloc[p].reversed /\ p \in Payments
      BY <2>1, <2>2 DEF Counted
    <3>2. Share(p) = 0
      BY <3>1 DEF Share, Live
    <3>3. QED
      BY <3>1, <3>2 DEF Shares
  <2>5. /\ IsFiniteSet(Payments)
        /\ \A p \in Payments : Amounts[p] \in Nat /\ Shares[p] \in Nat
        /\ Total(Amounts, S) \in Nat /\ Total(Amounts, T) \in Nat
        /\ Total(Shares, S) \in Nat /\ Total(Shares, T) \in Nat
    <3> HIDE DEF S, T
    <3>1. QED
      BY <2>2, SumsTyped
  <2>6. T \subseteq S
    BY <2>1
  <2>7. Total(Amounts, T) <= Total(Amounts, S) /\ Total(Shares, T) <= Total(Shares, S)
        /\ Total(Shares, S) <= Total(Shares, T)
    <3> HIDE DEF S, T
    <3>1. /\ \A p \in T : Amounts[p] = 0 \/ (p \in S /\ Amounts[p] <= Amounts[p])
          /\ \A p \in T : Shares[p] = 0 \/ (p \in S /\ Shares[p] <= Shares[p])
          /\ \A p \in S : Shares[p] = 0 \/ (p \in T /\ Shares[p] <= Shares[p])
      BY <2>2, <2>4, <2>5, <2>6
    <3>2. QED
      BY <2>2, <2>5, <3>1, TotalLess
  <2>8. FirstTerms(i)' => FirstTerms(i)
    BY <1>1, TermsKept
  <2>9. FirstTerms(i)' => /\ invoice[i].refunded <= Total(Shares, T)
                          /\ Total(Shares, T) <= Total(Shares, Counted(i))'
    BY <1>1, <1>2, <2>8, CountedMoves DEF Within
  <2>10. Total(Shares, Counted(i))' \in Nat /\ invoice[i].refunded \in Nat
    <3>1. TypeInv'
      BY NextTypes
    <3>2. CountedSums'
      BY <3>1, CountedTyped, PTL
    <3>3. QED
      BY <1>1, <3>2 DEF CountedSums, TypeInv, BooksTyped, InvoicesOver
  <2>11. FirstTerms(i)' => /\ invoice'[i].refunded <= call'[c].shown[2]
                           /\ call'[c].shown[2] <= Total(Shares, Counted(i))'
    <3> HIDE DEF S, T
    <3>1. QED
      BY <1>1, <2>3, <2>5, <2>7, <2>9, <2>10
  <2>12. /\ Total(Amounts, Counted(i))' <= call'[c].shown[1]
         /\ call'[c].shown[1] <= invoice'[i].allocated
    BY <1>1, <1>4, <2>1, <2>3, <2>7
  <2>13. QED
    BY <1>1, <1>7, <2>11, <2>12 DEF Between
<1>8. QED
  BY <1>1, <1>6, <1>7

LEMMA NextBooked == TypeInv /\ ExistsInv /\ HeadsInv /\ BookedInv /\ [Next]_vars => BookedInv'
<1> SUFFICES ASSUME TypeInv, ExistsInv, HeadsInv, BookedInv, [Next]_vars PROVE BookedInv'
  OBVIOUS
<1>1. AmountsFit'
  BY NextAmounts DEF BookedInv
<1>2. \A i \in Invoices : HasAllocations(i)' /\ Within(i)'
  BY NextHasAllocations, NextWithin
<1>3. \A c \in Calls : Between(call[c])'
  BY BetweenStays, BetweenRead
<1>4. QED
  BY <1>1, <1>2, <1>3 DEF BookedInv

LEMMA InitBooked == Init => BookedInv
<1> HAVE Init
<1>1. AmountsFit
  BY SettlementsAssumption DEF Init, AmountsFit, NoAllocation
<1>2. ASSUME NEW i \in Invoices PROVE HasAllocations(i) /\ Within(i)
  <2>1. invoice[i].applied = {} /\ invoice[i].allocated = 0 /\ invoice[i].refunded = 0
        /\ invoice[i].due \in Nat
    BY SettlementsAssumption DEF Init, NewInvoice
  <2>2. Counted(i) = {} /\ Total(Amounts, {}) = 0 /\ Total(Shares, {}) = 0
    BY <2>1, FS_EmptySet, TotalDef DEF Counted
  <2>3. QED
    BY <2>1, <2>2 DEF HasAllocations, Within
<1>3. \A c \in Calls : Between(call[c])
  BY DEF Init, NoCall, Between
<1>4. QED
  BY <1>1, <1>2, <1>3 DEF BookedInv

\* What an invoice with its first terms shows as paid never exceeds what is due,
\* as long as no refunded payment is taken back from it: neither an allocation
\* checked against a projection nor the projection itself overbooks it.
THEOREM SettlementsNotOverbooked == Spec => []InvoiceNotOverbooked
<1>1. Spec => [](TypeInv /\ ExistsInv /\ ClosedInv /\ BookedInv)
  <2>1. ClosedInv => HeadsInv
    BY DEF ClosedInv
  <2>2. QED
    BY <2>1, InitTypes, NextTypes, InitExists, NextExists, InitClosed, NextClosed, InitBooked,
       NextBooked, PTL DEF Spec
<1>2. BookedInv => InvoiceNotOverbooked
  BY DEF BookedInv, Within, FirstTerms, InvoiceNotOverbooked
<1>3. QED
  BY <1>1, <1>2, PTL
-----------------------------------------------------------------------------
(* What was issued. Only an issued invoice takes payments, and an issued   *)
(* invoice is no draft again. A recomputation counts its tries, nobody else.*)

\* What a call keeps of what it read of an invoice, and how often it tried.
Remembers(k) ==
  /\ k.at \notin Reading \union {"head"} => k.tries = 1
  /\ k.at = "intent" => invoice[InvoiceOf[k.pay]].issued
  /\ k.at = "cancel" => k.head.state \in Open \union {"draft"}
  /\ k.at \in VersionSteps => k.head.version <= invoice[k.inv].version

IssuedInv ==
  /\ \A i \in Invoices :
       /\ invoice[i].state \in Open => invoice[i].issued
       /\ invoice[i].issued => invoice[i].state # "draft"
       /\ invoice[i].applied # {} => invoice[i].issued
  /\ \A p \in Payments :
       /\ intent[p].paid \/ settlement[p].exists => intent[p].state # "none"
       /\ intent[p].state # "none" => invoice[InvoiceOf[p]].issued
  /\ \A c \in Calls : Remembers(call[c])

LEMMA InitIssued == Init => IssuedInv
<1> HAVE Init
<1>1. \A i \in Invoices :
        /\ invoice[i].state \in Open => invoice[i].issued
        /\ invoice[i].issued => invoice[i].state # "draft"
        /\ invoice[i].applied # {} => invoice[i].issued
  <2> TAKE i \in Invoices
  <2>1. PICK d \in Dues, s \in Revisable : invoice[i] = NewInvoice(d, s)
    BY DEF Init
  <2>2. /\ invoice[i].state = s /\ invoice[i].issued = (s = "issued")
        /\ invoice[i].applied = {}
    BY <2>1 DEF NewInvoice
  <2>3. QED
    BY Zenon, <2>2 DEF Revisable, Open
<1>2. \A p \in Payments : /\ ~intent[p].paid /\ ~settlement[p].exists
                          /\ intent[p].state = "none"
  BY DEF Init, NoIntent, NoSettlement
<1>3. \A c \in Calls : Remembers(call[c])
  BY DEF Init, Remembers, NoCall, VersionSteps
<1>4. QED
  BY <1>1, <1>2, <1>3 DEF IssuedInv

\* Issued is for good.
LEMMA IssuedStays ==
  ASSUME TypeInv, [Next]_vars, NEW i \in Invoices, invoice[i].issued
  PROVE  invoice'[i].issued
<1>1. invoice[i] \in InvoicesOver(Dues)
  BY DEF TypeInv, BooksTyped
<1>2. \A c : Takes(c, i) => invoice'[i].issued
  BY <1>1 DEF Takes, InvoicesOver
<1>3. \A c : Writes(c, i) => invoice'[i].issued
  BY <1>1 DEF Writes, InvoicesOver
<1>4. \A c : Cancels(c, i) => invoice'[i].issued
  BY <1>1 DEF Cancels, InvoicesOver
<1>5. \A c : Publishes(c, i) => invoice'[i].issued
  BY <1>1 DEF Publishes, InvoicesOver
<1>6. QED
  BY <1>2, <1>3, <1>4, <1>5, InvoiceMoves

\* The steps that write intents.
LEMMA IntentMoves ==
  ASSUME TypeInv, [Next]_vars, NEW p \in Payments
  PROVE  \/ intent'[p] = intent[p]
         \/ /\ intent'[p].state # "none"
            /\ \/ intent[p].state # "none"
               \/ \E c \in Calls : Pay(c) = p /\ (InsertIntent(c) \/ SettleIntent(c))
<1>0. intent \in [Payments -> [state : {"none", "open", "settled"}, version : 0..MaxVersion,
                              lapsed : BOOLEAN, paid : BOOLEAN]]
  BY DEF TypeInv, BooksTyped
<1>1. ASSUME NEW c \in Calls, Begin(c) \/ Crash(c) PROVE intent' = intent
  BY <1>1, BeginFrame DEF Crash, books
<1>2. ASSUME NEW q \in Payments, Lapse(q) \/ Publish(q)
      PROVE  \/ intent'[p] = intent[p]
             \/ intent'[p].state # "none" /\ intent[p].state # "none"
  BY <1>0, <1>2 DEF Lapse, Publish
<1>3. ASSUME NEW c \in Calls, InsertIntent(c)
      PROVE  \/ intent'[p] = intent[p]
             \/ intent'[p].state # "none" /\ Pay(c) = p
  <2>1. intent' = [intent EXCEPT ![Pay(c)] =
          [NoIntent EXCEPT !.state = "open", !.version = call[c].head.version]]
    BY <1>3 DEF InsertIntent
  <2>2. QED
    BY <1>0, <2>1 DEF NoIntent
<1>4. ASSUME NEW c \in Calls, SettleIntent(c)
      PROVE  \/ intent'[p] = intent[p]
             \/ intent'[p].state # "none" /\ Pay(c) = p
  BY <1>0, <1>4 DEF SettleIntent
<1>5. ASSUME NEW c \in Calls, Proceed(c), ~InsertIntent(c), ~SettleIntent(c)
      PROVE  intent' = intent
  <2>1. CASE FindAllocation(c) \/ InsertAllocation(c)
           \/ ApplyToSettlement(c) \/ CheckSettlement(c) \/ ApplyToInvoice(c)
           \/ CheckInvoice(c) \/ Undo(c) \/ ReverseAllocation(c) \/ MarkApplied(c)
    BY <2>1
       DEF FindAllocation, InsertAllocation, ApplyToSettlement, CheckSettlement,
       ApplyToInvoice, CheckInvoice, Undo, ReverseAllocation, MarkApplied, books
  <2>2. CASE ReadHead(c) \/ ReadAllocations(c) \/ ReadSettlements(c) \/ WriteProjection(c)
           \/ Adjust(c) \/ ApplyRefund(c) \/ CheckRefund(c) \/ Unadjust(c)
           \/ Requalify(c) \/ Qualify(c) \/ SpreadRefund(c)
    BY <2>2
       DEF ReadHead, ReadAllocations, ReadSettlements, WriteProjection, Adjust, ApplyRefund,
       CheckRefund, Unadjust, Requalify, Qualify, SpreadRefund, books
  <2>3. CASE CountAllocations(c) \/ CountIntents(c) \/ InsertVersion(c) \/ PublishVersion(c)
           \/ DropVersion(c) \/ Cancel(c)
    BY <2>3 DEF CountAllocations, CountIntents, InsertVersion, PublishVersion, DropVersion,
       Cancel, books
  <2>4. QED
    BY <1>5, <2>1, <2>2, <2>3 DEF Proceed
<1>6. CASE UNCHANGED vars
  BY <1>6 DEF vars, books
<1>7. QED
  BY <1>1, <1>2, <1>3, <1>4, <1>5, <1>6 DEF Next

\* The rest of what a step makes of a call.
LEMMA OtherFields ==
  ASSUME TypeInv, NEW c \in Calls
  PROVE  /\ \A step : Goto(c, step) => call'[c].tries = call[c].tries
         /\ Return(c) \/ Crash(c) => call'[c].tries = 1
         /\ \A i, then : Recompute(c, i, then) => call'[c].tries = call[c].tries
         /\ Begin(c) => call'[c].tries = 1
<1>1. call[c] \in CallRecords
  BY CallTyped
<1>2. \A step : Goto(c, step) => call'[c].tries = call[c].tries
  <2> TAKE step
  <2> HAVE Goto(c, step)
  <2>1. call'[c] = [call[c] EXCEPT !.at = step]
    BY Moved
  <2>2. QED
    BY <1>1, <2>1 DEF CallRecords
<1>3. Return(c) \/ Crash(c) => call'[c].tries = 1
  <2>1. Return(c) \/ Crash(c) => call'[c] = NoCall
    BY Moved
  <2>2. QED
    BY <2>1 DEF NoCall
<1>4. \A i, then : Recompute(c, i, then) => call'[c].tries = call[c].tries
  <2> TAKE i, then
  <2> HAVE Recompute(c, i, then)
  <2>1. call'[c] = [call[c] EXCEPT !.at = "head", !.inv = i, !.then = then]
    BY DEF Recompute, TypeInv
  <2>2. QED
    BY <1>1, <2>1 DEF CallRecords
<1>5. Begin(c) => call'[c].tries = 1
  <2>1. \A with : Start(c, with) /\ with.tries = 1 => call'[c].tries = 1
    <3> TAKE with
    <3> HAVE Start(c, with) /\ with.tries = 1
    <3>1. call'[c] = with
      BY Moved
    <3>2. QED
      BY <3>1
  <2>2. ASSUME NEW p \in Payments, BeginQuote(c, p) \/ Reconcile(c, p) \/ Repair(c, p)
        PROVE  call'[c].tries = 1
    BY <2>1, <2>2 DEF BeginQuote, Reconcile, Repair, NoCall
  <2>3. ASSUME NEW p \in Payments, NEW w \in Withdrawals, BeginRefund(c, p, w)
        PROVE  call'[c].tries = 1
    BY <2>1, <2>3 DEF BeginRefund, NoCall
  <2>4. ASSUME NEW i \in Invoices, NEW op \in {"revise", "issue"}, BeginVersion(c, i, op)
        PROVE  call'[c].tries = 1
    BY <2>1, <2>4 DEF BeginVersion, NoCall
  <2>5. ASSUME NEW i \in Invoices, BeginCancel(c, i)
        PROVE  call'[c].tries = 1
    BY <2>1, <2>5 DEF BeginCancel, NoCall
  <2>6. QED
    BY <2>2, <2>3, <2>4, <2>5 DEF Begin
<1>6. QED
  BY <1>2, <1>3, <1>4, <1>5

\* A projection that is written, or given up, ends its call or sends it on.
LEMMA AfterWrite ==
  ASSUME TypeInv, NEW c \in Calls, WriteProjection(c)
  PROVE  \/ /\ call'[c].at \in {"idle", "insert"} /\ call'[c].tries = 1
         \/ /\ call'[c].at = "head" /\ call'[c].inv = call[c].inv
            /\ call[c].tries < 5 /\ call'[c].tries = call[c].tries + 1
            /\ Projected(call[c].head, call[c].shown) # call[c].head
            /\ ~SameRevision(call[c].inv, call[c].head)
            /\ invoice' = invoice
<1>1. call \in [Calls -> Known] /\ call[c] \in CallRecords
  BY CallTyped DEF TypeInv
<1> DEFINE head == Projected(call[c].head, call[c].shown)
           on == [call[c] EXCEPT !.at = "insert", !.inv = None, !.then = "end",
                                 !.head = head, !.shown = <<0, 0>>, !.tries = 1]
           again == [call[c] EXCEPT !.at = "head", !.tries = @ + 1]
<1>2. \/ call'[c] = on \/ Return(c) \/ call'[c] = NoCall
      \/ /\ call'[c] = again /\ call[c].tries < 5 /\ head # call[c].head
         /\ ~SameRevision(call[c].inv, call[c].head) /\ invoice' = invoice
  <2>1. CASE head = call[c].head
    BY <1>1, <2>1 DEF WriteProjection
  <2>2. CASE head # call[c].head /\ SameRevision(call[c].inv, call[c].head)
    BY <1>1, <2>2 DEF WriteProjection
  <2>3. CASE head # call[c].head /\ ~SameRevision(call[c].inv, call[c].head)
    BY <1>1, <2>3 DEF WriteProjection
  <2>4. QED
    BY <2>1, <2>2, <2>3
<1>3. Return(c) => call'[c] = NoCall
  BY Moved
<1>4. NoCall.at = "idle" /\ NoCall.tries = 1
  BY DEF NoCall
<1>5. on.at = "insert" /\ on.tries = 1
  BY <1>1 DEF CallRecords
<1>6. again.at = "head" /\ again.inv = call[c].inv /\ again.tries = call[c].tries + 1
  BY <1>1 DEF CallRecords
<1> HIDE DEF on, again
<1>7. QED
  BY <1>2, <1>3, <1>4, <1>5, <1>6

\* What a recomputation is at makes way for the next read only.
LEMMA ReadSteps ==
  ASSUME TypeInv, NEW c \in Calls
  PROVE  /\ ReadHead(c) => /\ call'[c].at = "allocations" /\ call'[c].inv = call[c].inv
                           /\ call'[c].head = invoice[call[c].inv]
                           /\ call'[c].tries = call[c].tries
         /\ ReadAllocations(c) =>
              /\ call'[c].at = "settlements" /\ call'[c].inv = call[c].inv
              /\ call'[c].head = call[c].head /\ call'[c].tries = call[c].tries
              /\ call'[c].picked = {p \in call[c].head.applied : ~alloc[p].reversed}
         /\ ReadSettlements(c) =>
              /\ call'[c].at = "write" /\ call'[c].inv = call[c].inv
              /\ call'[c].head = call[c].head /\ call'[c].tries = call[c].tries
              /\ call'[c].shown =
                   <<Total([p \in call[c].picked |-> alloc[p].amount], call[c].picked),
                     Total([p \in call[c].picked |-> Share(p)], call[c].picked)>>
         /\ Requalify(c) => /\ call'[c].at = "qualify" /\ call'[c].pay = Pay(c)
                            /\ call'[c].tries = call[c].tries
<1>1. call \in [Calls -> Known] /\ call[c] \in CallRecords
  BY CallTyped DEF TypeInv
<1>2. ReadHead(c) => /\ call'[c].at = "allocations" /\ call'[c].inv = call[c].inv
                     /\ call'[c].head = invoice[call[c].inv]
                     /\ call'[c].tries = call[c].tries
  BY <1>1 DEF ReadHead, CallRecords
<1>3. ReadAllocations(c) =>
              /\ call'[c].at = "settlements" /\ call'[c].inv = call[c].inv
              /\ call'[c].head = call[c].head /\ call'[c].tries = call[c].tries
              /\ call'[c].picked = {p \in call[c].head.applied : ~alloc[p].reversed}
  BY <1>1 DEF ReadAllocations, CallRecords
<1>4. ReadSettlements(c) =>
              /\ call'[c].at = "write" /\ call'[c].inv = call[c].inv
              /\ call'[c].head = call[c].head /\ call'[c].tries = call[c].tries
              /\ call'[c].shown =
                   <<Total([p \in call[c].picked |-> alloc[p].amount], call[c].picked),
                     Total([p \in call[c].picked |-> Share(p)], call[c].picked)>>
  BY <1>1 DEF ReadSettlements, CallRecords
<1>5. Requalify(c) => /\ call'[c].at = "qualify" /\ call'[c].pay = Pay(c)
                      /\ call'[c].tries = call[c].tries
  BY <1>1 DEF Requalify, CallRecords, Pay
<1>6. QED
  BY <1>2, <1>3, <1>4, <1>5

\* Who tries more than once is recomputing.
LEMMA TriesKept ==
  ASSUME TypeInv, [Next]_vars, NEW c \in Calls, Remembers(call[c]),
         call'[c].at \notin Reading \union {"head"}
  PROVE  call'[c].tries = 1
<1>1. CASE call'[c] = call[c]
  BY <1>1 DEF Remembers
<1>2. CASE Begin(c) \/ Crash(c)
  BY <1>2, OtherFields
<1>3. CASE Proceed(c)
  <2>1. ASSUME call[c].at \notin Reading \union {"head"},
               (\E step : Goto(c, step)) \/ Return(c) \/ Requalify(c)
        PROVE  call'[c].tries = 1
    BY <2>1, OtherFields, ReadSteps DEF Remembers
  <2>2. \A i, then : ~Recompute(c, i, then)
    BY Fields DEF Reading
  <2>3. CASE InsertIntent(c) \/ SettleIntent(c) \/ FindAllocation(c) \/ InsertAllocation(c)
             \/ ApplyToSettlement(c) \/ CheckSettlement(c)
    BY <2>1, <2>2, <2>3
       DEF InsertIntent, SettleIntent, FindAllocation, InsertAllocation, ApplyToSettlement,
       CheckSettlement, At, Reading
  <2>4. CASE ApplyToInvoice(c)
             \/ CheckInvoice(c) \/ Undo(c) \/ ReverseAllocation(c) \/ MarkApplied(c)
    BY <2>1, <2>2, <2>4
       DEF ApplyToInvoice, CheckInvoice, Undo, ReverseAllocation, MarkApplied, At, Reading
  <2>5. CASE Adjust(c) \/ ApplyRefund(c) \/ CheckRefund(c) \/ Unadjust(c)
             \/ Requalify(c) \/ Qualify(c) \/ SpreadRefund(c)
    BY <2>1, <2>2, <2>5
       DEF Adjust, ApplyRefund, CheckRefund, Unadjust, Requalify, Qualify, SpreadRefund, At,
       Reading
  <2>6. CASE CountAllocations(c) \/ CountIntents(c) \/ InsertVersion(c) \/ PublishVersion(c)
             \/ DropVersion(c) \/ Cancel(c)
    BY <2>1, <2>6
       DEF CountAllocations, CountIntents, InsertVersion, PublishVersion, DropVersion, Cancel,
       At, Reading
  <2>7. CASE ReadHead(c) \/ ReadAllocations(c) \/ ReadSettlements(c)
    BY <2>7, ReadSteps DEF Reading
  <2>8. CASE WriteProjection(c)
    BY <2>8, AfterWrite
  <2>9. QED
    BY <1>3, <2>3, <2>4, <2>5, <2>6, <2>7, <2>8 DEF Proceed
<1>4. QED
  BY <1>1, <1>2, <1>3, WhoMoves

\* Who gets to a step at the front of a call.
LEMMA FrontArrivals ==
  ASSUME TypeInv, [Next]_vars, NEW c \in Calls, call'[c] # call[c],
         call'[c].at \in {"intent", "cancel", "countAllocations", "countIntents", "version"}
  PROVE  \/ /\ call'[c].at = "intent" /\ call'[c].pay \in Payments
            /\ invoice[InvoiceOf[call'[c].pay]].state \in Open
         \/ /\ call'[c].at = "cancel" /\ call'[c].head.state \in Open \union {"draft"}
         \/ /\ call'[c].at = "countAllocations"
            /\ call'[c].inv \in Invoices /\ call'[c].head = invoice[call'[c].inv]
         \/ /\ call'[c].at = "version" /\ call'[c].op = "issue"
            /\ call'[c].inv \in Invoices /\ call'[c].head = invoice[call'[c].inv]
         \/ /\ call'[c].inv = call[c].inv /\ call'[c].head = call[c].head
            /\ call'[c].op = call[c].op
            /\ \/ /\ call'[c].at = "countIntents" /\ At(c, "countAllocations")
                  /\ ~\E p \in Payments : InvoiceOf[p] = call[c].inv /\ Live(p)
               \/ call'[c].at = "version" /\ At(c, "countIntents")
<1> DEFINE s == call'[c].at
<1>1. call \in [Calls -> Known] /\ call[c] \in CallRecords
  BY CallTyped DEF TypeInv
<1>2. ~Crash(c)
  BY Fields
<1>3. ASSUME Begin(c)
      PROVE  \/ /\ s = "intent" /\ call'[c].pay \in Payments
                /\ invoice[InvoiceOf[call'[c].pay]].state \in Open
             \/ /\ s = "cancel" /\ call'[c].head.state \in Open \union {"draft"}
             \/ /\ s = "countAllocations"
                /\ call'[c].inv \in Invoices /\ call'[c].head = invoice[call'[c].inv]
             \/ /\ s = "version" /\ call'[c].op = "issue"
                /\ call'[c].inv \in Invoices /\ call'[c].head = invoice[call'[c].inv]
  <2>1. \A with : Start(c, with) => call'[c] = with
    BY Moved
  <2>2. ASSUME NEW p \in Payments, BeginQuote(c, p)
        PROVE  s = "intent" /\ call'[c].pay \in Payments
               /\ invoice[InvoiceOf[call'[c].pay]].state \in Open
    <3>1. call'[c] = [NoCall EXCEPT !.at = "intent", !.op = "quote", !.pay = p,
                                    !.head = invoice[InvoiceOf[p]]]
      BY <2>1, <2>2 DEF BeginQuote
    <3>2. s = "intent" /\ call'[c].pay = p
      BY <3>1 DEF NoCall
    <3>3. QED
      BY <2>2, <3>2 DEF BeginQuote
  <2>3. ASSUME NEW p \in Payments, Reconcile(c, p) \/ Repair(c, p) PROVE FALSE
    BY <2>3, Began
  <2>4. ASSUME NEW p \in Payments, NEW w \in Withdrawals, BeginRefund(c, p, w) PROVE FALSE
    BY <2>4, Began
  <2>5. ASSUME NEW i \in Invoices, BeginCancel(c, i)
        PROVE  s = "cancel" /\ call'[c].head.state \in Open \union {"draft"}
    <3>1. call'[c] = [NoCall EXCEPT !.at = "cancel", !.op = "cancel", !.inv = i,
                                    !.head = invoice[i]]
      BY <2>1, <2>5 DEF BeginCancel
    <3>2. s = "cancel" /\ call'[c].head = invoice[i]
      BY <3>1 DEF NoCall
    <3>3. QED
      BY <2>5, <3>2 DEF BeginCancel
  <2>6. ASSUME NEW i \in Invoices, NEW op \in {"revise", "issue"}, BeginVersion(c, i, op)
        PROVE  /\ s = "countAllocations" \/ (s = "version" /\ call'[c].op = "issue")
               /\ call'[c].inv \in Invoices /\ call'[c].head = invoice[call'[c].inv]
    <3>1. call'[c] = [NoCall EXCEPT
              !.at = IF op = "revise" THEN "countAllocations" ELSE "version",
              !.op = op, !.inv = i, !.head = invoice[i]]
      BY <2>1, <2>6 DEF BeginVersion
    <3>2. /\ s = (IF op = "revise" THEN "countAllocations" ELSE "version")
          /\ call'[c].op = op /\ call'[c].inv = i /\ call'[c].head = invoice[i]
      BY <3>1 DEF NoCall
    <3>3. QED
      BY <3>2
  <2>7. QED
    BY <1>3, <2>2, <2>3, <2>4, <2>5, <2>6 DEF Begin
<1>4. ASSUME Proceed(c)
      PROVE  /\ call'[c].inv = call[c].inv /\ call'[c].head = call[c].head
             /\ call'[c].op = call[c].op
             /\ \/ /\ s = "countIntents" /\ At(c, "countAllocations")
                   /\ ~\E p \in Payments : InvoiceOf[p] = call[c].inv /\ Live(p)
                \/ s = "version" /\ At(c, "countIntents")
  <2>1. \A step : Goto(c, step) =>
          /\ step = s
          /\ call'[c].inv = call[c].inv /\ call'[c].head = call[c].head
          /\ call'[c].op = call[c].op
    BY Fields
  <2>2. ~Return(c) /\ \A i, then : ~Recompute(c, i, then)
    BY Fields
  <2>3. ~(ReadHead(c) \/ ReadAllocations(c) \/ ReadSettlements(c) \/ Requalify(c))
    BY ReadSteps
  <2>4. ~WriteProjection(c)
    BY AfterWrite
  <2> HIDE DEF s
  <2>5. s \in {"intent", "cancel", "countAllocations", "countIntents", "version"}
    BY DEF s
  <2>6. ~(InsertIntent(c) \/ SettleIntent(c) \/ FindAllocation(c) \/ InsertAllocation(c)
             \/ ReverseAllocation(c) \/ MarkApplied(c) \/ Unadjust(c) \/ Qualify(c)
             \/ SpreadRefund(c) \/ DropVersion(c) \/ Cancel(c))
    BY <2>1, <2>2, <2>5
       DEF InsertIntent, SettleIntent, FindAllocation, InsertAllocation, ReverseAllocation,
       MarkApplied, Unadjust, Qualify, SpreadRefund, DropVersion, Cancel
  <2>7. ~(ApplyToSettlement(c) \/ CheckSettlement(c) \/ ApplyToInvoice(c) \/ CheckInvoice(c)
              \/ Undo(c))
    BY <2>1, <2>5
       DEF ApplyToSettlement, CheckSettlement, ApplyToInvoice, CheckInvoice, Undo
  <2>8. ~(Adjust(c) \/ ApplyRefund(c) \/ CheckRefund(c)) /\ ~InsertVersion(c)
        /\ ~PublishVersion(c)
    <3>1. ~(Adjust(c) \/ ApplyRefund(c) \/ CheckRefund(c))
      BY <2>1, <2>2, <2>5 DEF Adjust, ApplyRefund, CheckRefund
    <3>2. ~InsertVersion(c)
      <4>1. InsertVersion(c) => Return(c) \/ Goto(c, "publish")
        BY DEF InsertVersion
      <4>2. QED
        BY <2>1, <2>2, <2>5, <4>1
    <3>3. ~PublishVersion(c)
      <4>1. PublishVersion(c) => Return(c) \/ Goto(c, "unversion")
        BY DEF PublishVersion
      <4>2. QED
        BY <2>1, <2>2, <2>5, <4>1
    <3>4. QED
      BY <3>1, <3>2, <3>3
  <2>9. CountAllocations(c) \/ CountIntents(c)
    BY <1>4, <2>3, <2>4, <2>6, <2>7, <2>8 DEF Proceed
  <2>10. QED
    BY <2>1, <2>2, <2>9 DEF CountAllocations, CountIntents
<1>5. QED
  BY <1>2, <1>3, <1>4, WhoMoves

LEMMA NextRemembers ==
  ASSUME TypeInv, IssuedInv, [Next]_vars, NEW c \in Calls
  PROVE  Remembers(call[c])'
<1>1. Remembers(call[c]) /\ TypeInv'
  BY NextTypes DEF IssuedInv
<1>2. call'[c].at \notin Reading \union {"head"} => call'[c].tries = 1
  BY <1>1, TriesKept
<1>3. ASSUME call'[c].at = "intent" PROVE invoice'[InvoiceOf[call'[c].pay]].issued
  <2>1. CASE call'[c] = call[c]
    <3>1. InvoiceOf[Pay(c)] \in Invoices /\ invoice[InvoiceOf[Pay(c)]].issued
      BY <1>1, <1>3, <2>1, CallTyped DEF Remembers, PaySteps, Pay
    <3>2. QED
      BY <2>1, <3>1, IssuedStays DEF Pay
  <2>2. CASE call'[c] # call[c]
    <3>1. call'[c].pay \in Payments /\ invoice[InvoiceOf[call'[c].pay]].state \in Open
      BY <1>3, <2>2, FrontArrivals
    <3>2. InvoiceOf[call'[c].pay] \in Invoices
      BY <3>1, SettlementsAssumption
    <3>3. invoice[InvoiceOf[call'[c].pay]].issued
      BY <3>1, <3>2 DEF IssuedInv
    <3>4. QED
      BY <3>2, <3>3, IssuedStays
  <2>3. QED
    BY <2>1, <2>2
<1>4. ASSUME call'[c].at = "cancel" PROVE call'[c].head.state \in Open \union {"draft"}
  <2>1. CASE call'[c] = call[c]
    BY <1>1, <1>4, <2>1 DEF Remembers
  <2>2. CASE call'[c] # call[c]
    BY <1>4, <2>2, FrontArrivals
  <2>3. QED
    BY <2>1, <2>2
<1>5. ASSUME call'[c].at \in VersionSteps
      PROVE  call'[c].head.version <= invoice'[call'[c].inv].version
  <2>1. ASSUME call[c].at \in VersionSteps, call'[c].head = call[c].head,
               call'[c].inv = call[c].inv
        PROVE  call'[c].head.version <= invoice'[call'[c].inv].version
    <3>1. call[c].inv \in Invoices /\ call[c].head.version <= invoice[call[c].inv].version
      BY <1>1, <2>1, CallTyped DEF Remembers, Knows, InvoiceSteps
    <3>2. call[c].head.version \in Nat
      BY SettlementsAssumption, CallTyped DEF CallRecords, InvoicesOver
    <3>3. /\ invoice[call[c].inv].version \in 1..MaxVersion
          /\ invoice'[call[c].inv].version \in 1..MaxVersion
          /\ invoice[call[c].inv].version <= invoice'[call[c].inv].version
      BY <3>1, VersionsGrow
    <3>4. QED
      BY <2>1, <3>1, <3>2, <3>3
  <2>2. ASSUME call'[c].inv \in Invoices, call'[c].head = invoice[call'[c].inv]
        PROVE  call'[c].head.version <= invoice'[call'[c].inv].version
    BY <2>2, VersionsGrow
  <2>3. CASE call'[c] = call[c]
    BY <1>5, <2>1, <2>3
  <2>4. CASE call'[c] # call[c] /\ call'[c].at \in {"publish", "unversion"}
    <3>1. /\ call'[c].head = call[c].head /\ call'[c].inv = call[c].inv
          /\ InsertVersion(c) \/ PublishVersion(c)
      BY <2>4, Arrivals DEF Middle
    <3>2. QED
      BY <2>1, <3>1 DEF InsertVersion, PublishVersion, At, VersionSteps
  <2>5. CASE call'[c] # call[c] /\ call'[c].at \notin {"publish", "unversion"}
    BY <1>5, <2>1, <2>2, <2>5, FrontArrivals DEF VersionSteps, At
  <2>6. QED
    BY <2>3, <2>4, <2>5
<1>6. QED
  BY <1>2, <1>3, <1>4, <1>5 DEF Remembers

LEMMA NextIssued ==
  TypeInv /\ ExistsInv /\ HeadsInv /\ IssuedInv /\ [Next]_vars => IssuedInv'
<1> SUFFICES ASSUME TypeInv, ExistsInv, HeadsInv, IssuedInv, [Next]_vars PROVE IssuedInv'
  OBVIOUS
<1>1. \A c \in Calls : Remembers(call[c])'
  BY NextRemembers
<1>2. ASSUME NEW p \in Payments
      PROVE  /\ intent'[p].paid \/ settlement'[p].exists => intent'[p].state # "none"
             /\ intent'[p].state # "none" => invoice'[InvoiceOf[p]].issued
  <2>1. /\ InvoiceOf[p] \in Invoices
        /\ intent[p].paid \/ settlement[p].exists => intent[p].state # "none"
        /\ intent[p].state # "none" => invoice[InvoiceOf[p]].issued
    BY SettlementsAssumption DEF IssuedInv
  <2>2. intent[p].state # "none" => intent'[p].state # "none"
    BY IntentMoves
  <2>3. intent'[p].paid => intent'[p].state # "none"
    BY <2>1, IntentMoves
  <2>4. ASSUME settlement'[p].exists, ~settlement[p].exists PROVE intent[p].state # "none"
    <3>1. settlement[p] \in SettlementRecords
      BY DEF TypeInv, BooksTyped
    <3>2. ASSUME NEW c \in Calls, Pay(c) = p,
                 ApplyToSettlement(c) \/ Undo(c) \/ ApplyRefund(c) \/ Qualify(c)
          PROVE  FALSE
      <4>1. call[c].at \in SettleSteps
        BY <3>2 DEF ApplyToSettlement, Undo, ApplyRefund, Qualify, At, SettleSteps, ApplySteps
      <4>2. QED
        BY <2>4, <3>2, <4>1 DEF ExistsInv, HasSeen, Pay
    <3>3. settlement' # settlement
      BY <2>4
    <3>4. PICK c \in Calls : Begin(c)
      <4>1. ~UNCHANGED vars /\ (\A q \in Payments : ~Lapse(q) /\ ~Publish(q))
            /\ (\A d \in Calls : ~Crash(d))
        BY <3>3 DEF vars, books, Lapse, Publish, Crash
      <4>2. \A d \in Calls : ~Proceed(d)
        <5>1. SUFFICES ASSUME NEW d \in Calls, Proceed(d) PROVE FALSE
          OBVIOUS
        <5>2. ApplyToSettlement(d) \/ Undo(d) \/ ApplyRefund(d) \/ Qualify(d)
          BY <3>3, <5>1, ProceedFrame
        <5>3. Pay(d) # p
          BY <3>2, <5>2
        <5>4. Pay(d) \in Payments /\ settlement \in [Payments -> SettlementRecords]
          BY <5>2, CallTyped
             DEF ApplyToSettlement, Undo, ApplyRefund, Qualify, At, PaySteps, TypeInv, BooksTyped
        <5>5. settlement'[p] = settlement[p]
          BY <5>2, <5>3, <5>4 DEF ApplyToSettlement, Undo, ApplyRefund, Qualify
        <5>6. QED
          BY <2>4, <5>5
      <4>3. QED
        BY <4>1, <4>2 DEF Next
    <3>5. PICK q \in Payments : Reconcile(c, q)
      BY <3>3, <3>4, BeginFrame
    <3>6. q = p
      <4>1. settlement \in [Payments -> SettlementRecords]
        BY DEF TypeInv, BooksTyped
      <4>2. QED
        BY <2>4, <3>5, <4>1 DEF Reconcile
    <3>7. QED
      BY <2>1, <3>5, <3>6 DEF Reconcile
  <2>5. ASSUME intent'[p].state # "none" PROVE invoice'[InvoiceOf[p]].issued
    <3>1. CASE intent[p].state # "none"
      BY <2>1, <3>1, IssuedStays
    <3>2. CASE intent[p].state = "none"
      <4>1. PICK c \in Calls : Pay(c) = p /\ (InsertIntent(c) \/ SettleIntent(c))
        BY <2>5, <3>2, IntentMoves
      <4>2. CASE InsertIntent(c)
        <5>1. invoice[InvoiceOf[p]].issued
          BY <4>1, <4>2 DEF IssuedInv, Remembers, InsertIntent, At, Pay
        <5>2. QED
          BY <2>1, <5>1, IssuedStays
      <4>3. CASE SettleIntent(c)
        <5>1. settlement[p].exists
          BY <4>1, <4>3 DEF ExistsInv, HasSeen, SettleIntent, At, Pay, SettleSteps
        <5>2. QED
          BY <2>1, <3>2, <5>1
      <4>4. QED
        BY <4>1, <4>2, <4>3
    <3>3. QED
      BY <3>1, <3>2
  <2>6. QED
    BY <2>1, <2>2, <2>3, <2>4, <2>5
<1>3. ASSUME NEW i \in Invoices
      PROVE  /\ invoice'[i].state \in Open => invoice'[i].issued
             /\ invoice'[i].issued => invoice'[i].state # "draft"
             /\ invoice'[i].applied # {} => invoice'[i].issued
  <2>1. /\ invoice[i] \in InvoicesOver(Dues)
        /\ invoice[i].state \in Open => invoice[i].issued
        /\ invoice[i].issued => invoice[i].state # "draft"
        /\ invoice[i].applied # {} => invoice[i].issued
    BY DEF TypeInv, BooksTyped, IssuedInv
  <2>2. CASE invoice'[i] = invoice[i]
    BY <2>1, <2>2
  <2>3. ASSUME NEW c \in Calls, Takes(c, i)
        PROVE  invoice'[i].issued /\ invoice'[i].state # "draft"
    <3>1. Pay(c) \in Payments /\ InvoiceOf[Pay(c)] = i /\ At(c, "applyInvoice")
      BY <2>3 DEF Takes, ApplyToInvoice
    <3>2. alloc[Pay(c)].exists
      BY <3>1 DEF ExistsInv, HasSeen, ApplySteps, At, Pay
    <3>3. settlement[Pay(c)].exists
      BY <3>1, <3>2 DEF ExistsInv
    <3>4. invoice[i].issued
      BY <3>1, <3>3 DEF IssuedInv
    <3>5. invoice'[i].state = invoice[i].state
      BY <2>1, <2>3 DEF Takes, InvoicesOver
    <3>6. QED
      BY <2>1, <3>4, <3>5, IssuedStays
  <2>4. ASSUME NEW c \in Calls, Writes(c, i)
        PROVE  /\ invoice'[i].issued = invoice[i].issued
               /\ invoice'[i].applied = invoice[i].applied
               /\ invoice'[i].state \in Open => invoice[i].issued
               /\ invoice[i].issued => invoice'[i].state # "draft"
    <3>1. call[c].head = invoice[i]
      BY <2>4 DEF Writes, WriteProjection, At, Reading, HeadsInv, HeadIsKnown
    <3>2. /\ invoice'[i].applied = invoice[i].applied
          /\ invoice'[i].state = Derived(invoice[i], call[c].shown[1], call[c].shown[2])
      BY <2>1, <2>4, <3>1 DEF InvoicesOver, Writes
    <3>3. invoice'[i].issued = invoice[i].issued
      BY <2>1, <2>4 DEF InvoicesOver, Writes
    <3>4. invoice[i].closed \in {"no", "cancelled", "void"}
      BY <2>1 DEF InvoicesOver
    <3>5. /\ Derived(invoice[i], call[c].shown[1], call[c].shown[2]) \in Open => invoice[i].issued
          /\ invoice[i].issued =>
                Derived(invoice[i], call[c].shown[1], call[c].shown[2]) # "draft"
      BY <3>4 DEF Derived, Open
    <3>6. QED
      BY <3>2, <3>3, <3>5
  <2>5. ASSUME NEW c \in Calls, Publishes(c, i)
        PROVE  /\ invoice'[i].applied = invoice[i].applied
               /\ \/ invoice'[i].issued /\ invoice'[i].state = "issued"
                  \/ /\ invoice'[i].issued = invoice[i].issued
                     /\ invoice'[i].state = invoice[i].state
    <3>1. invoice'[i].applied = invoice[i].applied
      BY <2>1, <2>5 DEF InvoicesOver, Publishes
    <3>2. CASE call[c].op = "issue"
      BY <2>1, <2>5, <3>2 DEF InvoicesOver, Publishes
    <3>3. CASE call[c].op # "issue"
      BY <2>1, <2>5, <3>3 DEF InvoicesOver, Publishes
    <3>4. QED
      BY <3>1, <3>2, <3>3
  <2>6. ASSUME NEW c \in Calls, Cancels(c, i)
        PROVE  /\ invoice'[i].issued = invoice[i].issued
               /\ invoice'[i].applied = invoice[i].applied
               /\ invoice'[i].state \in {"void", "cancelled"}
    BY <2>1, <2>6 DEF InvoicesOver, Cancels
  <2>7. CASE \E c \in Calls : Takes(c, i)
    BY <2>3, <2>7
  <2>8. CASE \E c \in Calls : Writes(c, i)
    BY <2>1, <2>4, <2>8
  <2>9. CASE \E c \in Calls : Publishes(c, i)
    BY <2>1, <2>5, <2>9 DEF Open
  <2>10. CASE \E c \in Calls : Cancels(c, i)
    BY <2>1, <2>6, <2>10 DEF Open
  <2>11. QED
    BY <2>2, <2>7, <2>8, <2>9, <2>10, InvoiceMoves
<1>4. QED
  BY <1>1, <1>2, <1>3 DEF IssuedInv

-----------------------------------------------------------------------------
(* Where recomputations end. An invoice that does not show its allocations *)
(* is owed a recomputation by some running call, and that call will not    *)
(* give up before it has written: overtaken by a projection from old reads *)
(* it is at its first try, since only a refund after those reads makes     *)
(* them old; overtaken by a revision or by a cancellation, there is no     *)
(* second of the kind, and five tries are more than it needs.              *)

\* Nobody died, and nothing the invoice took is taken back.
Kept(i) == crashes = 0 /\ \A p \in invoice[i].applied : ~TakenBack(p)

\* What an invoice that took S should show, and whether it does.
SumsOf(S) == <<Total(Amounts, S), Total(Shares, S)>>
IsShown(i) == invoice[i] = Projected(invoice[i], SumsOf(invoice[i].applied))

\* Calls that will recompute i, from before the first read to the write.
Sent(c, i) ==
  call[c].at \in {"mark", "requalify", "qualify", "spread"} /\ Pay(c) \in invoice[i].applied
Heads(c, i) == At(c, "head") /\ call[c].inv = i
Reads(c, i) == call[c].at \in Reading /\ call[c].inv = i

\* Reads of the revision the invoice is at, the sum of refunds still as it is.
Current(c, i) ==
  /\ Reads(c, i) /\ call[c].head.rev = invoice[i].rev
  /\ At(c, "write") => call[c].shown[2] = Total(Shares, invoice[i].applied)

\* Reads of an older revision, whose head needs another projection: it is not
\* written, and the call starts again.
Behind(c, i) ==
  /\ Reads(c, i) /\ call[c].head.rev < invoice[i].rev
  /\ call[c].head # Projected(call[c].head, IF At(c, "write") THEN call[c].shown
                                            ELSE SumsOf(call[c].head.applied))
Fresh(c, i) == Sent(c, i) \/ (call[c].tries = 1 /\ (Heads(c, i) \/ Current(c, i)))

\* How often the invoice can still be changed by a call that recomputes nothing.
Revising(c, i) ==
  /\ call[c].op = "revise" /\ call[c].at \in {"countIntents", "version", "publish"}
  /\ call[c].inv = i /\ call[c].head.version = invoice[i].version
CanClose(i) == IF invoice[i].closed = "no" THEN 1 ELSE 0
CanRevise(i) == IF \E c \in Calls : Revising(c, i) THEN 1 ELSE 0
Turns(i) == CanClose(i) + CanRevise(i)

WillShow(c, i) ==
  \/ Sent(c, i)
  \/ (Heads(c, i) \/ Current(c, i)) /\ call[c].tries + Turns(i) <= 5
  \/ Behind(c, i) /\ call[c].tries + Turns(i) < 5

Exact(i) ==
  /\ invoice[i].allocated = Total(Amounts, invoice[i].applied)
  /\ invoice[i].refunded <= Total(Shares, invoice[i].applied)
RightReads(c, i) ==
  Reads(c, i) =>
    /\ call[c].head.applied \subseteq invoice[i].applied
    /\ At(c, "settlements") => call[c].picked = call[c].head.applied
    /\ At(c, "write") /\ call[c].head.rev = invoice[i].rev =>
         /\ call[c].shown[1] = Total(Amounts, invoice[i].applied)
         /\ invoice[i].refunded <= call[c].shown[2]
         /\ call[c].shown[2] <= Total(Shares, invoice[i].applied)
OldIsOwed(c, i) ==
  /\ Reads(c, i) /\ At(c, "write") /\ call[c].head.rev = invoice[i].rev
  /\ call[c].shown[2] < Total(Shares, invoice[i].applied)
  => \E d \in Calls : Fresh(d, i)
ShownOrOwed(i) == IsShown(i) \/ (invoice[i].applied # {} /\ \E c \in Calls : WillShow(c, i))
EndsRight(i) ==
  /\ Exact(i)
  /\ \A c \in Calls : RightReads(c, i) /\ OldIsOwed(c, i)
  /\ ShownOrOwed(i)
RestInv == \A i \in Invoices : Kept(i) => EndsRight(i)

\* All the invariants before this one.
Established == TypeInv /\ ExistsInv /\ SidesInv /\ ClosedInv /\ BookedInv /\ IssuedInv
LEMMA KeptBefore ==
  ASSUME Established, [Next]_vars, NEW i \in Invoices, Kept(i)'
  PROVE  Kept(i) /\ crashes' = 0
<1>0. TypeInv /\ ExistsInv
  BY DEF Established
<1>1. crashes' = 0 /\ crashes = 0
  BY <1>0, CrashesCount DEF Kept
<1>2. ASSUME NEW p \in invoice[i].applied, TakenBack(p) PROVE FALSE
  <2>1. p \in Payments
    BY <1>0 DEF TypeInv, BooksTyped, InvoicesOver
  <2>2. TakenBack(p)'
    BY <1>0, <1>1, <1>2, <2>1, TakenBackStays
  <2>3. p \in invoice'[i].applied
    BY <1>0, AppliedGrows
  <2>4. QED
    BY <2>2, <2>3 DEF Kept
<1>3. QED
  BY <1>1, <1>2 DEF Kept

\* What such an invoice took is held by the settlement, and counts.
LEMMA KeptPayments ==
  ASSUME Established, NEW i \in Invoices, Kept(i), NEW p \in invoice[i].applied
  PROVE  /\ p \in Payments /\ InvoiceOf[p] = i
         /\ alloc[p].exists /\ ~alloc[p].reversed /\ settlement[p].holds
         /\ Share(p) = Least(Less(settlement[p].refunded, Paid[p] - alloc[p].amount),
                             alloc[p].amount)
<1>1. p \in Payments
  BY DEF Established, TypeInv, BooksTyped, InvoicesOver
<1>2. InvoiceOf[p] = i /\ alloc[p].exists
  BY DEF Established, BookedInv, HasAllocations
<1>3. ~alloc[p].reversed /\ crashes = 0
      /\ \A c \in Calls : ~(At(c, "reverse") /\ Pay(c) = p)
  BY DEF Kept, TakenBack, At
<1>4. settlement[p].holds
  BY <1>1, <1>2, <1>3 DEF Established, SidesInv, InInvoice, HeldOrTakenBack
<1>5. QED
  BY <1>1, <1>2, <1>3, <1>4 DEF Share, Live

\* A refund of it may count for more, and then it is on its way to the invoice.
LEMMA ShareMoves ==
  ASSUME Established, [Next]_vars, NEW i \in Invoices, Kept(i)', NEW p \in invoice[i].applied
  PROVE  /\ alloc'[p].amount = alloc[p].amount
         /\ Share(p) <= Share(p)'
         /\ Share(p)' = Share(p) \/ \E c \in Calls : Sent(c, i)'
<1>0. TypeInv /\ ExistsInv /\ AmountsFit
  BY DEF Established, BookedInv
<1>1. Kept(i) /\ crashes' = 0
  BY KeptBefore
<1>2. /\ p \in Payments /\ InvoiceOf[p] = i
      /\ alloc[p].exists /\ ~alloc[p].reversed /\ settlement[p].holds
      /\ Share(p) = Least(Less(settlement[p].refunded, Paid[p] - alloc[p].amount),
                          alloc[p].amount)
  BY <1>1, KeptPayments
<1>3. p \in invoice'[i].applied /\ ~TakenBack(p)'
  BY <1>0, AppliedGrows DEF Kept
<1>4. /\ settlement[p].refunded \in Nat /\ settlement'[p].refunded \in Nat
      /\ settlement[p].refunded <= settlement'[p].refunded
      /\ alloc[p].amount \in Nat /\ Paid[p] \in Nat /\ alloc[p].amount <= Paid[p]
  BY <1>0, <1>2, SettlementTyped, RefundedGrows DEF AmountsFit
<1>5. alloc'[p].exists /\ alloc'[p].amount = alloc[p].amount /\ ~alloc'[p].reversed
  BY <1>0, <1>2, <1>3, ExistingStays DEF TakenBack
<1>6. settlement'[p].holds
  <2>1. settlement[p] \in SettlementRecords /\ settlement[p].exists
    BY <1>0, <1>2 DEF TypeInv, BooksTyped, ExistsInv
  <2>2. ASSUME NEW c \in Calls, Pay(c) = p, Undo(c) PROVE FALSE
    <3>1. call'[c].at = "reverse" /\ call'[c].pay = p
      BY <1>0, <2>2, Fields DEF Undo
    <3>2. QED
      BY <1>3, <3>1 DEF TakenBack, Pay
  <2>3. QED
    BY <1>0, <1>2, <2>1, <2>2, SettlementMoves DEF SettlementRecords
<1>7. Share(p)' = Least(Less(settlement'[p].refunded, Paid[p] - alloc[p].amount), alloc[p].amount)
  BY <1>5, <1>6 DEF Share, Live
<1>8. settlement'[p].refunded = settlement[p].refunded \/ \E c \in Calls : Sent(c, i)'
  <2>1. SUFFICES ASSUME settlement'[p].refunded # settlement[p].refunded
                 PROVE  \E c \in Calls : Sent(c, i)'
    OBVIOUS
  <2>2. PICK c \in Calls : /\ ApplyRefund(c) /\ Pay(c) = p
                           /\ call[c].wd \notin settlement[p].refunds
                           /\ FitsRefund(p, call[c].wd)
    BY <1>0, <1>2, <2>1, RefundMoves
  <2>3. Goto(c, "requalify")
    BY <2>2 DEF ApplyRefund
  <2>4. call'[c].at = "requalify" /\ call'[c].pay = p
    BY <1>0, <2>2, <2>3, Fields
  <2>5. Sent(c, i)'
    BY <1>3, <2>4 DEF Sent, Pay
  <2>6. QED
    BY <2>5
<1>9. QED
  BY <1>2, <1>4, <1>5, <1>7, <1>8 DEF Least, Less

\* The sums over what such an invoice took.
LEMMA SumsMove ==
  ASSUME Established, [Next]_vars, NEW i \in Invoices, Kept(i)',
         NEW S, S \subseteq invoice[i].applied
  PROVE  /\ S \in SUBSET Payments
         /\ Total(Amounts, S) \in Nat /\ Total(Shares, S) \in Nat /\ Total(Shares', S) \in Nat
         /\ Total(Amounts', S) = Total(Amounts, S)
         /\ Total(Shares, S) <= Total(Shares', S)
         /\ Total(Shares', S) = Total(Shares, S) \/ \E c \in Calls : Sent(c, i)'
<1>0. TypeInv /\ TypeInv'
  BY NextTypes DEF Established
<1>1. S \in SUBSET Payments /\ IsFiniteSet(S)
  <2>1. S \in SUBSET Payments
    BY <1>0 DEF TypeInv, BooksTyped, InvoicesOver
  <2>2. QED
    BY <1>0, <2>1, SumsTyped, FS_Subset
<1>2. \A p \in S : /\ alloc'[p].amount = alloc[p].amount /\ Share(p) <= Share(p)'
                   /\ Share(p)' = Share(p) \/ \E c \in Calls : Sent(c, i)'
  BY ShareMoves
<1>3. \A p \in Payments : Shares'[p] \in Nat /\ Shares'[p] = Share(p)'
  <2>1. (\A p \in Payments : Share(p) \in Nat)'
    BY <1>0, SharesTyped, PTL
  <2>2. \A p \in Payments : Shares'[p] = Share(p)'
    BY Zenon DEF Shares
  <2>3. QED
    BY Zenon, <2>1, <2>2
<1>4. \A p \in Payments : Amounts[p] \in Nat /\ Shares[p] \in Nat /\ Shares[p] = Share(p)
  BY <1>0, SumsTyped
<1>5. \A p \in Payments : Amounts'[p] = alloc'[p].amount /\ Amounts[p] = alloc[p].amount
  BY DEF Amounts
<1> DEFINE a == Amounts
           b == Amounts'
           f == Shares
           g == Shares'
<1>6. \A p \in S : /\ a[p] \in Nat /\ a[p] = b[p] /\ f[p] \in Nat /\ g[p] \in Nat /\ f[p] <= g[p]
                   /\ f[p] = g[p] \/ \E c \in Calls : Sent(c, i)'
  BY <1>1, <1>2, <1>3, <1>4, <1>5
<1> HIDE DEF a, b, f, g
<1>7. Total(a, S) = Total(b, S) /\ Total(a, S) \in Nat /\ Total(f, S) \in Nat /\ Total(g, S) \in Nat
      /\ Total(f, S) <= Total(g, S)
  BY <1>1, <1>6, TotalAgree, TotalMonotone, TotalType
<1>8. Total(g, S) = Total(f, S) \/ \E c \in Calls : Sent(c, i)'
  <2>1. SUFFICES ASSUME \A c \in Calls : ~Sent(c, i)'
                 PROVE  Total(f, S) = Total(g, S)
    OBVIOUS
  <2>2. \A p \in S : f[p] \in Nat /\ f[p] = g[p]
    BY <1>6, <2>1
  <2>3. QED
    BY <1>1, <2>2, TotalAgree
<1>9. QED
  BY <1>1, <1>7, <1>8 DEF a, b, f, g

\* Who changes an invoice changes no payment.
LEMMA PaymentsStay ==
  ASSUME NEW c \in Calls, NEW i \in Invoices,
         Takes(c, i) \/ Writes(c, i) \/ Publishes(c, i) \/ Cancels(c, i)
  PROVE  settlement' = settlement /\ alloc' = alloc /\ Amounts' = Amounts /\ Shares' = Shares
<1>1. ApplyToInvoice(c) \/ WriteProjection(c) \/ PublishVersion(c) \/ Cancel(c)
  BY DEF Takes, Writes, Publishes, Cancels
<1>2. settlement' = settlement /\ alloc' = alloc
  BY <1>1 DEF ApplyToInvoice, WriteProjection, PublishVersion, Cancel
<1>3. Amounts' = Amounts
  BY <1>2 DEF Amounts
<1>4. Shares' = Shares
  BY <1>2 DEF Shares, Share, Live
<1>5. QED
  BY <1>2, <1>3, <1>4

\* What changes of an invoice, by the kind of the step.
LEMMA Taken ==
  ASSUME Established, [Next]_vars, NEW i \in Invoices, NEW c \in Calls, Takes(c, i)
  PROVE  /\ Pay(c) \in Payments /\ Pay(c) \notin invoice[i].applied
         /\ invoice'[i].applied = invoice[i].applied \union {Pay(c)}
         /\ invoice'[i].allocated = invoice[i].allocated + alloc[Pay(c)].amount
         /\ invoice'[i].refunded = invoice[i].refunded
         /\ Sent(c, i)'
<1>1. invoice[i] \in InvoicesOver(Dues) /\ TypeInv
  BY DEF Established, TypeInv, BooksTyped
<1>2. /\ Pay(c) \in Payments /\ Pay(c) \notin invoice[i].applied
      /\ InvoiceOf[Pay(c)] = i /\ FitsInvoice(Pay(c)) /\ ApplyToInvoice(c)
  BY DEF Takes
<1>3. /\ invoice'[i].applied = invoice[i].applied \union {Pay(c)}
      /\ invoice'[i].allocated = invoice[i].allocated + alloc[Pay(c)].amount
      /\ invoice'[i].refunded = invoice[i].refunded
  BY <1>1 DEF Takes, InvoicesOver
<1>4. Goto(c, "mark")
  BY <1>2 DEF ApplyToInvoice
<1>5. call'[c].at = "mark" /\ call'[c].pay = Pay(c)
  BY <1>1, <1>4, Fields
<1>6. Sent(c, i)'
  BY <1>3, <1>5 DEF Sent, Pay
<1>7. QED
  BY <1>2, <1>3, <1>6

LEMMA Written ==
  ASSUME Established, [Next]_vars, NEW i \in Invoices, NEW c \in Calls, Writes(c, i)
  PROVE  /\ Reads(c, i) /\ At(c, "write") /\ call[c].head = invoice[i]
         /\ call[c].shown \in Nat \X Nat
         /\ invoice'[i] =
              [invoice[i] EXCEPT !.allocated = call[c].shown[1], !.refunded = call[c].shown[2],
                 !.state = Derived(invoice[i], call[c].shown[1], call[c].shown[2]), !.rev = @ + 1]
         /\ invoice'[i].applied = invoice[i].applied
         /\ invoice'[i].allocated = call[c].shown[1]
         /\ invoice'[i].refunded = call[c].shown[2]
         /\ invoice'[i].rev = invoice[i].rev + 1
<1>1. invoice[i] \in InvoicesOver(Dues) /\ call[c].shown \in Nat \X Nat
  BY CallTyped DEF Established, TypeInv, BooksTyped, CallRecords
<1>2. Reads(c, i) /\ At(c, "write")
  BY DEF Writes, WriteProjection, At, Reads, Reading
<1>3. call[c].head = invoice[i]
  BY <1>2 DEF Writes, Reads, Established, ClosedInv, HeadsInv, HeadIsKnown
<1>4. invoice'[i] =
        [invoice[i] EXCEPT !.allocated = call[c].shown[1], !.refunded = call[c].shown[2],
           !.state = Derived(invoice[i], call[c].shown[1], call[c].shown[2]), !.rev = @ + 1]
  BY <1>3 DEF Writes
<1>5. /\ invoice'[i].applied = invoice[i].applied
      /\ invoice'[i].allocated = call[c].shown[1]
      /\ invoice'[i].refunded = call[c].shown[2]
      /\ invoice'[i].rev = invoice[i].rev + 1
  BY <1>1, <1>4 DEF InvoicesOver
<1>6. QED
  BY <1>1, <1>2, <1>3, <1>4, <1>5

LEMMA Termed ==
  ASSUME Established, [Next]_vars, NEW i \in Invoices, NEW c \in Calls,
         Publishes(c, i) \/ Cancels(c, i)
  PROVE  /\ invoice'[i].applied = invoice[i].applied
         /\ invoice'[i].allocated = invoice[i].allocated
         /\ invoice'[i].refunded = invoice[i].refunded
         /\ invoice'[i].rev = invoice[i].rev + 1
<1>1. invoice[i] \in InvoicesOver(Dues)
  BY DEF Established, TypeInv, BooksTyped
<1>2. CASE Publishes(c, i)
  BY <1>1, <1>2 DEF Publishes, InvoicesOver
<1>3. CASE Cancels(c, i)
  BY <1>1, <1>3 DEF Cancels, InvoicesOver
<1>4. QED
  BY <1>2, <1>3

LEMMA NextExact ==
  ASSUME Established, [Next]_vars, NEW i \in Invoices, Kept(i)', EndsRight(i)
  PROVE  Exact(i)'
<1>1. PICK S : S = invoice[i].applied
  OBVIOUS
<1>2. PICK T : T = invoice'[i].applied
  OBVIOUS
<1>3. /\ Total(Amounts, S) \in Nat /\ Total(Shares, S) \in Nat /\ Total(Shares', S) \in Nat
      /\ Total(Amounts', S) = Total(Amounts, S) /\ Total(Shares, S) <= Total(Shares', S)
      /\ S \in SUBSET Payments
  BY <1>1, SumsMove
<1>4. /\ invoice[i].allocated = Total(Amounts, S) /\ invoice[i].refunded <= Total(Shares, S)
      /\ invoice[i].refunded \in Nat
  BY <1>1 DEF EndsRight, Exact, Established, TypeInv, BooksTyped, InvoicesOver
<1>5. SUFFICES /\ invoice'[i].allocated = Total(Amounts', T)
               /\ invoice'[i].refunded <= Total(Shares', T)
  BY <1>2 DEF Exact
<1>6. CASE invoice'[i] = invoice[i]
  BY <1>1, <1>2, <1>3, <1>4, <1>6
<1>7. ASSUME NEW c \in Calls, Takes(c, i)
      PROVE  /\ invoice'[i].allocated = Total(Amounts', T)
             /\ invoice'[i].refunded <= Total(Shares', T)
  <2>1. PICK p : p = Pay(c)
    OBVIOUS
  <2>2. /\ p \in Payments /\ p \notin S /\ T = S \union {p}
        /\ invoice'[i].allocated = invoice[i].allocated + alloc[p].amount
        /\ invoice'[i].refunded = invoice[i].refunded
    BY <1>1, <1>2, <1>7, <2>1, Taken
  <2>3. Amounts' = Amounts /\ Shares' = Shares
    BY <1>7, PaymentsStay
  <2>4. /\ IsFiniteSet(Payments)
        /\ \A q \in Payments : Amounts[q] \in Nat /\ Shares[q] \in Nat
        /\ Amounts[p] = alloc[p].amount
    BY <2>2, SumsTyped DEF Established
  <2>5. /\ Total(Amounts, S \union {p}) = Total(Amounts, S) + Amounts[p]
        /\ Total(Shares, S \union {p}) = Total(Shares, S) + Shares[p]
    BY <1>3, <2>2, <2>4, TotalAdd
  <2>6. Shares[p] \in Nat
    BY <2>2, <2>4
  <2>7. Total(Amounts', T) = Total(Amounts, S \union {p})
        /\ Total(Shares', T) = Total(Shares, S \union {p})
    BY <2>2, <2>3
  <2>8. QED
    BY <1>3, <1>4, <2>2, <2>4, <2>5, <2>6, <2>7
<1>8. ASSUME NEW c \in Calls, Writes(c, i)
      PROVE  /\ invoice'[i].allocated = Total(Amounts', T)
             /\ invoice'[i].refunded <= Total(Shares', T)
  <2>1. /\ Reads(c, i) /\ At(c, "write") /\ call[c].head = invoice[i] /\ T = S
        /\ invoice'[i].allocated = call[c].shown[1] /\ invoice'[i].refunded = call[c].shown[2]
    BY <1>1, <1>2, <1>8, Written
  <2>2. /\ call[c].shown[1] = Total(Amounts, S)
        /\ call[c].shown[2] <= Total(Shares, S)
    BY <1>1, <2>1 DEF EndsRight, RightReads
  <2>3. Amounts' = Amounts /\ Shares' = Shares
    BY <1>8, PaymentsStay
  <2>4. QED
    BY <2>1, <2>2, <2>3
<1>9. ASSUME NEW c \in Calls, Publishes(c, i) \/ Cancels(c, i)
      PROVE  /\ invoice'[i].allocated = Total(Amounts', T)
             /\ invoice'[i].refunded <= Total(Shares', T)
  <2>1. T = S /\ invoice'[i].allocated = invoice[i].allocated
        /\ invoice'[i].refunded = invoice[i].refunded
    BY <1>1, <1>2, <1>9, Termed
  <2>2. QED
    BY <1>3, <1>4, <2>1
<1>10. QED
  BY <1>6, <1>7, <1>8, <1>9, InvoiceMoves DEF Established

LEMMA NextRightReads ==
  ASSUME Established, [Next]_vars, NEW i \in Invoices, Kept(i)', EndsRight(i), NEW c \in Calls
  PROVE  RightReads(c, i)'
<1>0. TypeInv /\ HeadsInv
  BY DEF Established, ClosedInv
<1>1. PICK S : S = invoice[i].applied
  OBVIOUS
<1>2. PICK T : T = invoice'[i].applied
  OBVIOUS
<1>3. S \subseteq T
  BY <1>0, <1>1, <1>2, AppliedGrows
<1>4. /\ Total(Amounts, S) \in Nat /\ Total(Shares, S) \in Nat /\ Total(Shares', S) \in Nat
      /\ Total(Amounts', S) = Total(Amounts, S) /\ Total(Shares, S) <= Total(Shares', S)
      /\ S \in SUBSET Payments
  BY <1>1, SumsMove
<1>5. SUFFICES ASSUME call'[c].at \in Reading, call'[c].inv = i
      PROVE  /\ call'[c].head.applied \subseteq T
             /\ call'[c].at = "settlements" => call'[c].picked = call'[c].head.applied
             /\ call'[c].at = "write" /\ call'[c].head.rev = invoice'[i].rev =>
                  /\ call'[c].shown[1] = Total(Amounts', T)
                  /\ invoice'[i].refunded <= call'[c].shown[2]
                  /\ call'[c].shown[2] <= Total(Shares', T)
  BY <1>2 DEF RightReads, Reads, At
<1>6. CASE call'[c] = call[c]
  <2>1. /\ Reads(c, i) /\ call[c].head.applied \subseteq S
        /\ At(c, "settlements") => call[c].picked = call[c].head.applied
        /\ At(c, "write") /\ call[c].head.rev = invoice[i].rev =>
             /\ call[c].shown[1] = Total(Amounts, S)
             /\ invoice[i].refunded <= call[c].shown[2]
             /\ call[c].shown[2] <= Total(Shares, S)
    BY <1>1, <1>5, <1>6 DEF EndsRight, RightReads, Reads
  <2>2. call[c].shown[2] \in Nat
    BY <1>0, CallTyped DEF CallRecords
  <2>3. call[c].head.rev = invoice'[i].rev =>
          invoice'[i] = invoice[i] /\ call[c].head.rev = invoice[i].rev
    BY <1>0, <1>6, <2>1, SameRevisionSameInvoice DEF Reads
  <2>4. invoice'[i] = invoice[i] => T = S
    BY <1>1, <1>2
  <2>5. QED
    BY <1>3, <1>4, <1>6, <2>1, <2>2, <2>3, <2>4 DEF At
<1>7. CASE call'[c] # call[c]
  <2>1. /\ call'[c].inv = call[c].inv /\ call[c].inv = i
        /\ invoice' = invoice /\ alloc' = alloc /\ settlement' = settlement
        /\ \/ /\ call'[c].at = "allocations"
              /\ call'[c].head = invoice[i]
           \/ /\ At(c, "allocations") /\ call'[c].at = "settlements"
              /\ call'[c].head = call[c].head
              /\ call'[c].picked = {p \in call[c].head.applied : ~alloc[p].reversed}
           \/ /\ At(c, "settlements") /\ call'[c].at = "write"
              /\ call'[c].head = call[c].head
              /\ call'[c].shown =
                   <<Total([p \in call[c].picked |-> alloc[p].amount], call[c].picked),
                     Total([p \in call[c].picked |-> Share(p)], call[c].picked)>>
    BY <1>0, <1>5, <1>7, Readers
  <2>2. T = S /\ Amounts' = Amounts /\ Shares' = Shares
    BY <1>1, <1>2, <2>1 DEF Amounts, Shares, Share, Live
  <2>3. CASE call'[c].at = "allocations"
    BY <1>1, <2>1, <2>2, <2>3
  <2>4. CASE At(c, "allocations") /\ call'[c].at = "settlements"
    <3>1. call[c].head.applied \subseteq S /\ call'[c].head = call[c].head
          /\ call'[c].picked = {p \in call[c].head.applied : ~alloc[p].reversed}
      BY <1>1, <2>1, <2>4 DEF EndsRight, RightReads, Reads, Reading, At
    <3>2. \A p \in S : ~alloc[p].reversed
      BY <1>1, KeptBefore, KeptPayments
    <3>3. call'[c].picked = call[c].head.applied
      BY <3>1, <3>2
    <3>4. QED
      BY <2>2, <2>4, <3>1, <3>3
  <2>5. CASE At(c, "settlements") /\ call'[c].at = "write"
    <3>1. PICK R : R = call[c].head.applied
      OBVIOUS
    <3>2. /\ R \subseteq S /\ call[c].picked = R /\ call'[c].head = call[c].head
          /\ call'[c].shown = <<Total([p \in R |-> alloc[p].amount], R),
                                Total([p \in R |-> Share(p)], R)>>
      BY <1>1, <2>1, <2>5, <3>1 DEF EndsRight, RightReads, Reads, Reading, At
    <3>3. R \in SUBSET Payments
      BY <1>4, <3>2
    <3>4. call'[c].shown = <<Total(Amounts, R), Total(Shares, R)>>
      BY <1>0, <3>2, <3>3, AddedUp
    <3>5. call[c].head.rev = invoice[i].rev => R = S
      BY <1>0, <1>1, <2>1, <2>5, <3>1 DEF HeadsInv, HeadIsKnown, Reading, At
    <3>6. invoice[i].refunded <= Total(Shares, S)
      BY <1>1 DEF EndsRight, Exact
    <3>7. QED
      BY <1>4, <2>1, <2>2, <2>5, <3>1, <3>2, <3>4, <3>5, <3>6
  <2>6. QED
    BY <2>1, <2>3, <2>4, <2>5
<1>8. QED
  BY <1>6, <1>7

\* How calls leave the steps from a change of a payment to the projection.
LEMMA Leaves ==
  ASSUME TypeInv, [Next]_vars, NEW c \in Calls, call'[c] # call[c], crashes' = 0
  PROVE  /\ At(c, "mark") => MarkApplied(c)
         /\ At(c, "requalify") => Requalify(c)
         /\ At(c, "qualify") => Qualify(c)
         /\ At(c, "spread") => SpreadRefund(c)
         /\ At(c, "head") => ReadHead(c)
         /\ At(c, "allocations") => ReadAllocations(c)
         /\ At(c, "settlements") => ReadSettlements(c)
         /\ At(c, "write") => WriteProjection(c)
<1> DEFINE Leaving == {"mark", "requalify", "qualify", "spread", "head", "allocations",
                       "settlements", "write"}
<1>1. SUFFICES ASSUME call[c].at \in Leaving
               PROVE  \/ At(c, "mark") /\ MarkApplied(c)
                      \/ At(c, "requalify") /\ Requalify(c)
                      \/ At(c, "qualify") /\ Qualify(c)
                      \/ At(c, "spread") /\ SpreadRefund(c)
                      \/ At(c, "head") /\ ReadHead(c)
                      \/ At(c, "allocations") /\ ReadAllocations(c)
                      \/ At(c, "settlements") /\ ReadSettlements(c)
                      \/ At(c, "write") /\ WriteProjection(c)
  BY DEF At
<1>2. ~Crash(c)
  BY DEF Crash, TypeInv
<1>3. ~Begin(c)
  <2>1. Begin(c) => At(c, "idle")
    BY DEF Begin, BeginQuote, Reconcile, Repair, BeginRefund, BeginVersion, BeginCancel,
       Start
  <2>2. QED
    BY <1>1, <2>1 DEF At
<1>4. Proceed(c)
  BY <1>2, <1>3, WhoMoves
<1>5. CASE InsertIntent(c) \/ SettleIntent(c) \/ FindAllocation(c) \/ InsertAllocation(c)
           \/ ApplyToSettlement(c) \/ CheckSettlement(c) \/ ApplyToInvoice(c)
           \/ CheckInvoice(c) \/ Undo(c) \/ ReverseAllocation(c) \/ MarkApplied(c)
  <2>1. CASE InsertIntent(c) \/ SettleIntent(c) \/ FindAllocation(c) \/ InsertAllocation(c)
             \/ ApplyToSettlement(c) \/ CheckSettlement(c)
    BY <1>1, <2>1
       DEF InsertIntent, SettleIntent, FindAllocation, InsertAllocation, ApplyToSettlement,
       CheckSettlement, At
  <2>2. CASE ApplyToInvoice(c) \/ CheckInvoice(c) \/ Undo(c) \/ ReverseAllocation(c)
             \/ MarkApplied(c)
    BY <1>1, <2>2
       DEF ApplyToInvoice, CheckInvoice, Undo, ReverseAllocation, MarkApplied, At
  <2>3. QED
    BY <1>5, <2>1, <2>2
<1>6. CASE ReadHead(c) \/ ReadAllocations(c) \/ ReadSettlements(c) \/ WriteProjection(c)
           \/ Adjust(c) \/ ApplyRefund(c) \/ CheckRefund(c) \/ Unadjust(c)
           \/ Requalify(c) \/ Qualify(c) \/ SpreadRefund(c)
  BY <1>1, <1>6
     DEF ReadHead, ReadAllocations, ReadSettlements, WriteProjection, Adjust, ApplyRefund,
     CheckRefund, Unadjust, Requalify, Qualify, SpreadRefund, At
<1>7. CASE CountAllocations(c) \/ CountIntents(c) \/ InsertVersion(c) \/ PublishVersion(c)
           \/ DropVersion(c) \/ Cancel(c)
  BY <1>1, <1>7
     DEF CountAllocations, CountIntents, InsertVersion, PublishVersion, DropVersion, Cancel, At
<1>8. QED
  BY <1>4, <1>5, <1>6, <1>7 DEF Proceed

LEMMA SentStays ==
  ASSUME Established, [Next]_vars, NEW i \in Invoices, Kept(i)', NEW c \in Calls, Sent(c, i)
  PROVE  Sent(c, i)' \/ (Heads(c, i)' /\ call'[c].tries = 1)
<1>0. TypeInv /\ Kept(i) /\ crashes' = 0
  BY KeptBefore DEF Established
<1>1. PICK p : p = Pay(c)
  OBVIOUS
<1>2. p \in invoice[i].applied /\ p \in invoice'[i].applied
  BY <1>0, <1>1, AppliedGrows DEF Sent
<1>3. InvoiceOf[p] = i /\ Live(p) /\ call[c].tries = 1
  <2>1. InvoiceOf[p] = i /\ Live(p)
    BY <1>0, <1>2, KeptPayments DEF Live
  <2>2. Remembers(call[c])
    BY DEF Established, IssuedInv
  <2>3. QED
    BY <2>1, <2>2 DEF Sent, Remembers, Reading
<1>4. CASE call'[c] = call[c]
  BY <1>1, <1>2, <1>4 DEF Sent, Pay
<1>5. CASE call'[c] # call[c]
  <2>1. ASSUME Recompute(c, i, "end") PROVE Heads(c, i)' /\ call'[c].tries = 1
    <3>1. call'[c].at = "head" /\ call'[c].inv = i
      BY <1>0, <2>1, Fields
    <3>2. call'[c].tries = 1
      BY <1>0, <1>3, <2>1, OtherFields
    <3>3. QED
      BY <3>1, <3>2 DEF Heads, At
  <2>2. CASE At(c, "mark")
    BY <1>0, <1>1, <1>3, <1>5, <2>1, <2>2, Leaves DEF MarkApplied
  <2>3. CASE At(c, "requalify")
    <3>1. call'[c].at = "qualify" /\ call'[c].pay = p
      BY <1>0, <1>1, <1>5, <2>3, Leaves, ReadSteps
    <3>2. QED
      BY <1>2, <3>1 DEF Sent, Pay
  <2>4. CASE At(c, "qualify")
    <3>1. Goto(c, "spread")
      BY <1>0, <1>5, <2>4, Leaves DEF Qualify
    <3>2. call'[c].at = "spread" /\ call'[c].pay = p
      BY <1>0, <1>1, <3>1, Fields
    <3>3. QED
      BY <1>2, <3>2 DEF Sent, Pay
  <2>5. CASE At(c, "spread")
    BY <1>0, <1>1, <1>3, <1>5, <2>1, <2>5, Leaves DEF SpreadRefund
  <2>6. QED
    BY <2>2, <2>3, <2>4, <2>5 DEF Sent, At
<1>6. QED
  BY <1>4, <1>5

LEMMA HeadsStay ==
  ASSUME Established, [Next]_vars, NEW i \in Invoices, crashes' = 0, NEW c \in Calls, Heads(c, i),
         invoice'[i] = invoice[i]
  PROVE  (Heads(c, i)' \/ Current(c, i)') /\ call'[c].tries = call[c].tries
<1>1. CASE call'[c] = call[c]
  BY <1>1 DEF Heads, At
<1>2. CASE call'[c] # call[c]
  <2>1. ReadHead(c) /\ TypeInv
    BY <1>2, Leaves DEF Heads, Established
  <2>2. /\ call'[c].at = "allocations" /\ call'[c].inv = i
        /\ call'[c].head = invoice[i] /\ call'[c].tries = call[c].tries
    BY <2>1, ReadSteps DEF Heads
  <2>3. Current(c, i)'
    BY <2>2 DEF Current, Reads, Reading, At
  <2>4. QED
    BY <2>2, <2>3
<1>3. QED
  BY <1>1, <1>2

\* A projection that is needed is written when nobody has overtaken it.
LEMMA WriteCounts ==
  ASSUME Established, NEW i \in Invoices, NEW c \in Calls, Reads(c, i), WriteProjection(c),
         call[c].head.rev = invoice[i].rev,
         Projected(call[c].head, call[c].shown) # call[c].head
  PROVE  invoice'[i] # invoice[i]
<1>1. invoice \in [Invoices -> InvoicesOver(Dues)]
  BY DEF Established, TypeInv, BooksTyped
<1> DEFINE head == Projected(call[c].head, call[c].shown)
<1>2. call[c].inv = i
  BY DEF Reads
<1>3. invoice' = [invoice EXCEPT ![i] =
                [invoice[i] EXCEPT !.allocated = head.allocated, !.refunded = head.refunded,
                                   !.state = head.state, !.rev = @ + 1]]
  BY <1>2 DEF WriteProjection, SameRevision
<1> HIDE DEF head
<1>4. invoice'[i].rev = invoice[i].rev + 1 /\ invoice[i].rev \in Nat
  BY <1>1, <1>3 DEF InvoicesOver
<1>5. QED
  BY <1>4

LEMMA CurrentStays ==
  ASSUME Established, [Next]_vars, NEW i \in Invoices, Kept(i)', EndsRight(i), ~IsShown(i),
         NEW c \in Calls, Current(c, i), invoice'[i] = invoice[i],
         NEW S, S = invoice[i].applied, Total(Shares', S) = Total(Shares, S)
  PROVE  Current(c, i)' /\ call'[c].tries = call[c].tries
<1>0. TypeInv /\ HeadsInv /\ crashes' = 0
  BY KeptBefore DEF Established, ClosedInv
<1>1. /\ call[c].at \in Reading /\ call[c].inv = i /\ call[c].head.rev = invoice[i].rev
      /\ call[c].head = invoice[i]
      /\ At(c, "write") => call[c].shown[2] = Total(Shares, S)
  BY <1>0 DEF Current, Reads, HeadsInv, HeadIsKnown
<1>2. SUFFICES /\ call'[c].at \in Reading /\ call'[c].inv = i
               /\ call'[c].head.rev = invoice[i].rev
               /\ call'[c].at = "write" => call'[c].shown[2] = Total(Shares, S)
               /\ call'[c].tries = call[c].tries
  BY DEF Current, Reads, At
<1>3. CASE call'[c] = call[c]
  BY <1>1, <1>3 DEF At
<1>4. CASE call'[c] # call[c] /\ At(c, "allocations")
  BY <1>0, <1>1, <1>4, Leaves, ReadSteps DEF Reading
<1>5. CASE call'[c] # call[c] /\ At(c, "settlements")
  <2>1. ReadSettlements(c) /\ call[c].picked = S
    BY <1>0, <1>1, <1>5, Leaves DEF EndsRight, RightReads, Reads
  <2>2. S \in SUBSET Payments
    BY SumsMove
  <2>3. Total([p \in S |-> Share(p)], S) = Total(Shares, S)
    BY <1>0, <2>2, AddedUp
  <2>4. /\ call'[c].at = "write" /\ call'[c].inv = i /\ call'[c].head = call[c].head
        /\ call'[c].tries = call[c].tries
        /\ call'[c].shown = <<Total([p \in S |-> alloc[p].amount], S),
                              Total([p \in S |-> Share(p)], S)>>
    BY <1>0, <1>1, <2>1, ReadSteps
  <2>5. QED
    BY <1>1, <2>3, <2>4 DEF Reading
<1>6. CASE call'[c] # call[c] /\ At(c, "write")
  <2>1. WriteProjection(c) /\ Reads(c, i)
    BY <1>0, <1>6, Leaves DEF Current
  <2>2. call[c].shown = <<Total(Amounts, S), Total(Shares, S)>>
    <3>1. call[c].shown \in Nat \X Nat
      BY <1>0, CallTyped DEF CallRecords
    <3>2. call[c].shown[1] = Total(Amounts, S) /\ call[c].shown[2] = Total(Shares, S)
      BY <1>1, <1>6, <2>1 DEF EndsRight, RightReads
    <3>3. QED
      BY <3>1, <3>2
  <2>3. Projected(call[c].head, call[c].shown) # call[c].head
    BY <1>1, <2>2 DEF IsShown, SumsOf
  <2>4. QED
    BY <1>1, <2>1, <2>3, WriteCounts
<1>7. QED
  BY <1>1, <1>3, <1>4, <1>5, <1>6 DEF Reading, At

\* An invoice that shows less refunded than is does not show its allocations.
LEMMA LessIsNotShown ==
  ASSUME TypeInv, NEW i \in Invoices, NEW S, S = invoice[i].applied,
         invoice[i].refunded # Total(Shares, S)
  PROVE  ~IsShown(i)
<1>1. invoice[i] \in InvoicesOver(Dues)
  BY DEF TypeInv, BooksTyped
<1>2. Projected(invoice[i], SumsOf(S)).refunded = Total(Shares, S)
  BY <1>1 DEF Projected, SumsOf, InvoicesOver
<1>3. QED
  BY <1>2 DEF IsShown

LEMMA FreshStays ==
  ASSUME Established, [Next]_vars, NEW i \in Invoices, Kept(i)', EndsRight(i), ~IsShown(i),
         NEW c \in Calls, Fresh(c, i), invoice'[i] = invoice[i],
         NEW S, S = invoice[i].applied, Total(Shares', S) = Total(Shares, S)
  PROVE  Fresh(c, i)'
<1>0. crashes' = 0
  BY KeptBefore
<1>1. CASE Sent(c, i)
  BY <1>1, SentStays DEF Fresh
<1>2. CASE Heads(c, i) /\ call[c].tries = 1
  BY <1>0, <1>2, HeadsStay DEF Fresh
<1>3. CASE Current(c, i) /\ call[c].tries = 1
  BY <1>3, CurrentStays DEF Fresh
<1>4. QED
  BY <1>1, <1>2, <1>3 DEF Fresh

LEMMA NextOldIsOwed ==
  ASSUME Established, [Next]_vars, NEW i \in Invoices, Kept(i)', EndsRight(i), NEW c \in Calls
  PROVE  OldIsOwed(c, i)'
<1>0. TypeInv /\ HeadsInv
  BY DEF Established, ClosedInv
<1>1. PICK S : S = invoice[i].applied
  OBVIOUS
<1>2. /\ Total(Amounts, S) \in Nat /\ Total(Shares, S) \in Nat /\ Total(Shares', S) \in Nat
      /\ S \in SUBSET Payments
      /\ Total(Shares', S) = Total(Shares, S) \/ \E d \in Calls : Sent(d, i)'
  BY <1>1, SumsMove
<1>3. SUFFICES ASSUME call'[c].at = "write", call'[c].inv = i,
                      call'[c].head.rev = invoice'[i].rev,
                      call'[c].shown[2] < Total(Shares', invoice'[i].applied)
               PROVE  \E d \in Calls : Fresh(d, i)'
  BY DEF OldIsOwed, Reads, At
<1>4. CASE \E d \in Calls : Sent(d, i)'
  BY <1>4 DEF Fresh
<1>5. CASE Total(Shares', S) = Total(Shares, S) /\ call'[c] = call[c]
  <2>1. Reads(c, i) /\ At(c, "write")
    BY <1>3, <1>5 DEF Reads, Reading, At
  <2>2. invoice'[i] = invoice[i] /\ call[c].head.rev = invoice[i].rev
    BY <1>0, <1>3, <1>5, <2>1, SameRevisionSameInvoice DEF Reads
  <2>3. call[c].shown[2] < Total(Shares, S) /\ call[c].shown[2] \in Nat
    BY <1>0, <1>1, <1>3, <1>5, <2>2, CallTyped DEF CallRecords
  <2>4. PICK d \in Calls : Fresh(d, i)
    BY <1>1, <2>1, <2>2, <2>3 DEF EndsRight, OldIsOwed
  <2>5. invoice[i].refunded <= call[c].shown[2] /\ invoice[i].refunded \in Nat
    BY <1>0, <2>1, <2>2 DEF EndsRight, RightReads, TypeInv, BooksTyped, InvoicesOver
  <2>6. ~IsShown(i)
    BY <1>0, <1>1, <1>2, <2>3, <2>5, LessIsNotShown
  <2>7. Fresh(d, i)'
    BY <1>1, <1>5, <2>2, <2>4, <2>6, FreshStays
  <2>8. QED
    BY <2>7
<1>6. CASE call'[c] # call[c]
  <2>1. RightReads(c, i)'
    BY NextRightReads
  <2>2. /\ call[c].inv = i /\ invoice' = invoice /\ alloc' = alloc /\ settlement' = settlement
        /\ At(c, "settlements") /\ call'[c].head = call[c].head
        /\ call'[c].shown =
             <<Total([p \in call[c].picked |-> alloc[p].amount], call[c].picked),
               Total([p \in call[c].picked |-> Share(p)], call[c].picked)>>
    BY <1>0, <1>3, <1>6, Readers DEF Reading
  <2>3. call[c].head = invoice[i]
    BY <1>0, <1>3, <2>2 DEF HeadsInv, HeadIsKnown, Reading, At
  <2>4. call[c].picked = S
    BY <1>1, <2>2, <2>3 DEF EndsRight, RightReads, Reads, Reading, At
  <2>5. call'[c].shown[2] = Total(Shares, S)
    BY <1>0, <1>2, <2>2, <2>4, AddedUp
  <2>6. Shares' = Shares
    BY <2>2 DEF Shares, Share, Live
  <2>7. QED
    BY <1>1, <1>2, <1>3, <2>2, <2>5, <2>6
<1>7. QED
  BY <1>2, <1>4, <1>5, <1>6

\* A revision that finds payments is not begun, and one that is overtaken by
\* another is not published.
LEMMA RevisingBefore ==
  ASSUME Established, [Next]_vars, NEW i \in Invoices, Kept(i), invoice[i].applied # {},
         NEW c \in Calls, Revising(c, i)'
  PROVE  Revising(c, i) /\ invoice'[i].version = invoice[i].version
<1>0. TypeInv /\ Remembers(call[c])
  BY DEF Established, IssuedInv
<1>1. /\ call'[c].op = "revise" /\ call'[c].at \in {"countIntents", "version", "publish"}
      /\ call'[c].inv = i /\ call'[c].head.version = invoice'[i].version
  BY DEF Revising
<1>2. ASSUME call[c].at \in VersionSteps, call[c].inv = i,
             call[c].head.version = invoice'[i].version
      PROVE  call[c].head.version = invoice[i].version
             /\ invoice'[i].version = invoice[i].version
  <2>1. call[c].head.version <= invoice[i].version
    BY <1>0, <1>2 DEF Remembers
  <2>2. /\ invoice[i].version \in 1..MaxVersion /\ invoice'[i].version \in 1..MaxVersion
        /\ invoice[i].version <= invoice'[i].version
    BY <1>0, VersionsGrow
  <2>3. MaxVersion \in Nat
    BY SettlementsAssumption
  <2>4. QED
    BY <1>2, <2>1, <2>2, <2>3
<1>3. CASE call'[c] = call[c]
  BY <1>1, <1>2, <1>3 DEF Revising, VersionSteps
<1>4. CASE call'[c] # call[c] /\ call'[c].at = "publish"
  <2>1. /\ call'[c].inv = call[c].inv /\ call'[c].head = call[c].head
        /\ call'[c].op = call[c].op /\ InsertVersion(c)
    BY <1>0, <1>4, Arrivals DEF Middle
  <2>2. call[c].at = "version"
    BY <2>1 DEF InsertVersion, At
  <2>3. QED
    BY <1>1, <1>2, <2>1, <2>2 DEF Revising, VersionSteps
<1>5. CASE call'[c] # call[c] /\ call'[c].at # "publish"
  <2>1. PICK p : p \in invoice[i].applied
    OBVIOUS
  <2>2. p \in Payments /\ InvoiceOf[p] = i /\ Live(p)
    BY <2>1, KeptPayments DEF Live
  <2>3. /\ call'[c].inv = call[c].inv /\ call'[c].head = call[c].head
        /\ call'[c].op = call[c].op
        /\ \/ /\ call'[c].at = "countIntents"
              /\ ~\E q \in Payments : InvoiceOf[q] = call[c].inv /\ Live(q)
           \/ call'[c].at = "version" /\ At(c, "countIntents")
    BY <1>0, <1>1, <1>5, FrontArrivals
  <2>4. At(c, "countIntents")
    BY <1>1, <2>2, <2>3
  <2>5. QED
    BY <1>1, <1>2, <2>3, <2>4 DEF Revising, VersionSteps, At
<1>6. QED
  BY <1>1, <1>3, <1>4, <1>5

\* What an invoice can still suffer gets no more, and less by each blow.
LEMMA TurnsFall ==
  ASSUME Established, [Next]_vars, NEW i \in Invoices, Kept(i), invoice[i].applied # {}
  PROVE  /\ Turns(i) \in 0..2 /\ Turns(i)' \in 0..2 /\ Turns(i)' <= Turns(i)
         /\ \A c \in Calls : Publishes(c, i) \/ Cancels(c, i) => Turns(i)' < Turns(i)
<1>0. TypeInv /\ invoice[i] \in InvoicesOver(Dues) /\ ClosedStaysClosed
  BY DEF Established, TypeInv, BooksTyped, ClosedInv
<1>1. /\ CanClose(i) \in {0, 1} /\ CanRevise(i) \in {0, 1}
      /\ CanClose(i)' \in {0, 1} /\ CanRevise(i)' \in {0, 1}
      /\ Turns(i) = CanClose(i) + CanRevise(i) /\ Turns(i)' = CanClose(i)' + CanRevise(i)'
  BY DEF CanClose, CanRevise, Turns
<1>2. CanRevise(i)' <= CanRevise(i)
  <2>1. (\E c \in Calls : Revising(c, i)') => \E c \in Calls : Revising(c, i)
    BY RevisingBefore
  <2>2. CanRevise(i)' = IF \E c \in Calls : Revising(c, i)' THEN 1 ELSE 0
    BY DEF CanRevise
  <2>3. QED
    BY <2>1, <2>2 DEF CanRevise
<1>3. CanClose(i)' <= CanClose(i)
  <2>1. \A c : Takes(c, i) => invoice'[i].closed = invoice[i].closed
    BY <1>0 DEF Takes, InvoicesOver
  <2>2. \A c : Writes(c, i) => invoice'[i].closed = invoice[i].closed
    BY <1>0 DEF Writes, InvoicesOver
  <2>3. \A c : Publishes(c, i) => invoice'[i].closed = invoice[i].closed
    BY <1>0 DEF Publishes, InvoicesOver
  <2>4. \A c : Cancels(c, i) => invoice'[i].closed # "no"
    BY <1>0 DEF Cancels, InvoicesOver
  <2>5. invoice'[i].closed = invoice[i].closed \/ invoice'[i].closed # "no"
    BY <1>0, <2>1, <2>2, <2>3, <2>4, InvoiceMoves
  <2>6. QED
    BY <2>5 DEF CanClose
<1>4. ASSUME NEW c \in Calls, Publishes(c, i) PROVE CanRevise(i)' < CanRevise(i)
  <2>1. call[c].op = "revise"
    <3>1. invoice[i].state # "draft"
      BY DEF Established, IssuedInv
    <3>2. QED
      BY <1>4, <3>1 DEF Publishes, Unmoved
  <2>2. Revising(c, i)
    BY <1>4, <2>1 DEF Publishes, PublishVersion, At, Unmoved, Revising
  <2>3. invoice'[i].version = invoice[i].version + 1 /\ invoice[i].version \in 1..MaxVersion
    BY <1>0, <1>4 DEF Publishes, InvoicesOver
  <2>4. MaxVersion \in Nat
    BY SettlementsAssumption
  <2>5. \A d \in Calls : ~Revising(d, i)'
    <3>1. invoice'[i].version # invoice[i].version
      BY <2>3, <2>4
    <3>2. QED
      BY <3>1, RevisingBefore
  <2>6. CanRevise(i) = 1
    BY <2>2 DEF CanRevise
  <2>7. CanRevise(i)' = 0
    BY <2>5 DEF CanRevise
  <2>8. QED
    BY <2>6, <2>7
<1>5. ASSUME NEW c \in Calls, Cancels(c, i) PROVE CanClose(i)' < CanClose(i)
  <2>1. invoice'[i].closed # "no" /\ invoice'[i].rev = invoice[i].rev + 1
        /\ invoice[i].rev \in Nat
    BY <1>0, <1>5 DEF Cancels, InvoicesOver
  <2>2. invoice[i].state = call[c].head.state
    <3>1. invoice' # invoice
      BY <2>1
    <3>2. QED
      BY <1>5, <3>1 DEF Cancels, Cancel
  <2>3. call[c].head.state \in Open \union {"draft"}
    BY <1>5 DEF Cancels, Cancel, At, Established, IssuedInv, Remembers
  <2>4. invoice[i].closed = "no"
    BY <1>0, <2>2, <2>3 DEF ClosedStaysClosed, InvoicesOver, Open
  <2>5. QED
    BY <2>1, <2>4 DEF CanClose
<1>6. QED
  BY <1>1, <1>2, <1>3, <1>4, <1>5

\* What it is to show what was taken.
ShowsSums(i) ==
  LET S == invoice[i].applied IN
  /\ invoice[i].allocated = Total(Amounts, S)
  /\ invoice[i].refunded = Total(Shares, S)
  /\ invoice[i].state = Derived(invoice[i], Total(Amounts, S), Total(Shares, S))

LEMMA ShownMeans == TypeInv => \A j \in Invoices : IsShown(j) <=> ShowsSums(j)
<1> SUFFICES ASSUME TypeInv, NEW i \in Invoices PROVE IsShown(i) <=> ShowsSums(i)
  OBVIOUS
<1>1. PICK k : k = invoice[i]
  OBVIOUS
<1>2. k \in InvoicesOver(Dues)
  BY <1>1 DEF TypeInv, BooksTyped
<1>3. PICK a, r : a = Total(Amounts, k.applied) /\ r = Total(Shares, k.applied)
  OBVIOUS
<1>4. PICK s : s = Derived(k, a, r)
  OBVIOUS
<1>5. IsShown(i) <=> k = [k EXCEPT !.allocated = a, !.refunded = r, !.state = s]
  BY <1>1, <1>3, <1>4 DEF IsShown, Projected, SumsOf
<1>6. (k = [k EXCEPT !.allocated = a, !.refunded = r, !.state = s])
      <=> (k.allocated = a /\ k.refunded = r /\ k.state = s)
  BY <1>2 DEF InvoicesOver
<1>7. QED
  BY <1>1, <1>3, <1>4, <1>5, <1>6 DEF ShowsSums

\* A revision or a cancellation leaves an invoice showing what it took.
LEMMA TermsKeepShown ==
  ASSUME Established, [Next]_vars, NEW i \in Invoices, NEW c \in Calls,
         Publishes(c, i) \/ Cancels(c, i), IsShown(i)
  PROVE  IsShown(i)'
<1>0. TypeInv /\ TypeInv' /\ invoice[i] \in InvoicesOver(Dues) /\ ClosedStaysClosed
  BY NextTypes DEF Established, TypeInv, BooksTyped, ClosedInv
<1>1. PICK S : S = invoice[i].applied
  OBVIOUS
<1>2. PICK a, r : a = Total(Amounts, S) /\ r = Total(Shares, S)
  OBVIOUS
<1>3. /\ invoice[i].allocated = a /\ invoice[i].refunded = r
      /\ invoice[i].state = Derived(invoice[i], a, r)
  BY <1>0, <1>1, <1>2, ShownMeans DEF ShowsSums
<1>4. /\ invoice'[i].applied = S /\ Total(Amounts', S) = a /\ Total(Shares', S) = r
      /\ invoice'[i].allocated = a /\ invoice'[i].refunded = r
  <2>1. Amounts' = Amounts /\ Shares' = Shares
    BY PaymentsStay
  <2>2. /\ invoice'[i].applied = S
        /\ invoice'[i].allocated = a /\ invoice'[i].refunded = r
    BY <1>1, <1>3, Termed
  <2>3. QED
    BY <1>2, <2>1, <2>2
<1>5. SUFFICES invoice'[i].state = Derived(invoice'[i], a, r)
  <2>1. (\A j \in Invoices : IsShown(j) <=> ShowsSums(j))'
    BY <1>0, ShownMeans, PTL
  <2>2. PICK k : k = invoice'[i]
    OBVIOUS
  <2>3. IsShown(i)' <=> /\ k.allocated = Total(Amounts', k.applied)
                        /\ k.refunded = Total(Shares', k.applied)
                        /\ k.state = Derived(k, Total(Amounts', k.applied),
                                             Total(Shares', k.applied))
    BY <2>1, <2>2 DEF ShowsSums, Derived
  <2>4. QED
    BY <1>4, <2>2, <2>3
<1>6. CASE Cancels(c, i)
  <2>1. /\ invoice'[i].state = invoice'[i].closed /\ invoice'[i].closed # "no"
    BY <1>0, <1>6 DEF Cancels, InvoicesOver
  <2>2. QED
    BY <2>1 DEF Derived
<1>7. CASE Publishes(c, i) /\ call[c].op = "issue"
  <2>1. invoice[i].state = "draft"
    BY <1>7 DEF Publishes, Unmoved
  <2>2. invoice[i].closed = "no" /\ S = {}
    BY <1>0, <1>1, <2>1 DEF ClosedStaysClosed, InvoicesOver, Established, IssuedInv
  <2>3. /\ invoice'[i].state = "issued" /\ invoice'[i].issued
        /\ invoice'[i].closed = invoice[i].closed
    BY <1>0, <1>7 DEF Publishes, InvoicesOver
  <2>4. a = 0 /\ r = 0
    BY <1>2, <2>2, NothingAdds
  <2>5. QED
    BY <2>2, <2>3, <2>4 DEF Derived
<1>8. CASE Publishes(c, i) /\ call[c].op # "issue"
  <2>1. /\ invoice'[i].state = invoice[i].state /\ invoice'[i].issued = invoice[i].issued
        /\ invoice'[i].closed = invoice[i].closed
    BY <1>0, <1>8 DEF Publishes, InvoicesOver
  <2>2. invoice[i].state \in Revisable
    BY <1>8 DEF Publishes, Unmoved, Revisable
  <2>3. QED
    BY <1>3, <2>1, <2>2 DEF Derived, Revisable
<1>9. QED
  BY <1>6, <1>7, <1>8

\* Old reads stay old, or are given up for new ones.
LEMMA BehindStays ==
  ASSUME Established, [Next]_vars, NEW i \in Invoices, Kept(i)', EndsRight(i),
         \A d \in Calls : ~Sent(d, i)', NEW c \in Calls, Behind(c, i), call[c].tries < 5
  PROVE  \/ Behind(c, i)' /\ call'[c].tries = call[c].tries
         \/ Heads(c, i)' /\ call'[c].tries = call[c].tries + 1
<1>0. TypeInv /\ HeadsInv /\ crashes' = 0
  BY KeptBefore DEF Established, ClosedInv
<1>1. PICK k : k = call[c]
  OBVIOUS
<1>2. PICK R : R = k.head.applied
  OBVIOUS
<1>3. /\ k.at \in Reading /\ k.inv = i /\ k.head.rev < invoice[i].rev
      /\ k.head # Projected(k.head, IF k.at = "write" THEN k.shown ELSE SumsOf(R))
      /\ R \subseteq invoice[i].applied
      /\ k.at = "settlements" => k.picked = R
  BY <1>1, <1>2 DEF Behind, Reads, At, EndsRight, RightReads
<1>4. k.head.rev < invoice'[i].rev
  <2>1. k.head.rev \in Nat
    BY <1>0, <1>1, CallTyped DEF CallRecords, InvoicesOver
  <2>2. QED
    BY <1>0, <1>3, <2>1, RevisionsGrow
<1>5. R \in SUBSET Payments /\ <<Total(Amounts', R), Total(Shares', R)>> = SumsOf(R)
  BY <1>0, <1>3, SumsMove DEF SumsOf
<1>6. ASSUME call'[c].at \in Reading, call'[c].inv = i, call'[c].head = k.head,
             k.head # Projected(k.head, IF call'[c].at = "write" THEN call'[c].shown
                                        ELSE SumsOf(R))
      PROVE  Behind(c, i)'
  <2>1. SumsOf(call[c].head.applied)' = SumsOf(R)
    BY <1>2, <1>5, <1>6 DEF SumsOf
  <2>2. Projected(call[c].head, call[c].shown)' = Projected(k.head, call'[c].shown)
        /\ Projected(call[c].head, SumsOf(call[c].head.applied))' = Projected(k.head, SumsOf(R))
    BY <1>6, <2>1 DEF Projected, Derived
  <2>3. QED
    BY <1>4, <1>6, <2>1, <2>2 DEF Behind, Reads, At
<1>7. CASE call'[c] = call[c]
  BY <1>1, <1>3, <1>6, <1>7
<1>8. CASE call'[c] # call[c] /\ At(c, "allocations")
  <2>1. /\ call'[c].at = "settlements" /\ call'[c].inv = i /\ call'[c].head = k.head
        /\ call'[c].tries = k.tries
    BY <1>0, <1>1, <1>3, <1>8, Leaves, ReadSteps
  <2>2. QED
    BY <1>1, <1>3, <1>6, <1>8, <2>1 DEF Reading, At
<1>9. CASE call'[c] # call[c] /\ At(c, "settlements")
  <2>1. /\ call'[c].at = "write" /\ call'[c].inv = i /\ call'[c].head = k.head
        /\ call'[c].tries = k.tries
        /\ call'[c].shown = <<Total([p \in R |-> alloc[p].amount], R),
                              Total([p \in R |-> Share(p)], R)>>
    BY <1>0, <1>1, <1>3, <1>9, Leaves, ReadSteps DEF At
  <2>2. call'[c].shown = SumsOf(R)
    BY <1>0, <1>5, <2>1, AddedUp DEF SumsOf
  <2>3. QED
    BY <1>1, <1>3, <1>6, <1>9, <2>1, <2>2 DEF Reading, At
<1>10. CASE call'[c] # call[c] /\ At(c, "write")
  <2>1. WriteProjection(c) /\ ~SameRevision(i, call[c].head)
        /\ Projected(call[c].head, call[c].shown) # call[c].head
    <3>1. invoice[i].rev \in Nat /\ k.head.rev \in Nat
      BY <1>0, <1>1, CallTyped, RevisionsGrow DEF CallRecords, InvoicesOver
    <3>2. QED
      BY <1>0, <1>1, <1>3, <1>10, <3>1, Leaves DEF SameRevision, At
  <2>2. call'[c] = [call[c] EXCEPT !.at = "head", !.tries = @ + 1]
    <3>1. call \in [Calls -> Known] /\ call[c].inv = i
      BY <1>0, <1>1, <1>3 DEF TypeInv
    <3>2. call' = [call EXCEPT ![c].at = "head", ![c].tries = @ + 1]
      BY <2>1, <3>1 DEF WriteProjection
    <3>3. QED
      BY <3>1, <3>2
  <2>3. call'[c].at = "head" /\ call'[c].inv = i /\ call'[c].tries = call[c].tries + 1
    BY <1>0, <1>1, <1>3, <2>2, CallTyped DEF CallRecords
  <2>4. QED
    BY <2>3 DEF Heads, At
<1>11. QED
  BY <1>1, <1>3, <1>7, <1>8, <1>9, <1>10 DEF Reading, At

\* The sums of an invoice to which no new payment or refund is on its way.
LEMMA SumsRest ==
  ASSUME Established, [Next]_vars, NEW i \in Invoices, Kept(i)', \A d \in Calls : ~Sent(d, i)'
  PROVE  /\ invoice'[i].applied = invoice[i].applied
         /\ Total(Amounts', invoice[i].applied) = Total(Amounts, invoice[i].applied)
         /\ Total(Shares', invoice[i].applied) = Total(Shares, invoice[i].applied)
<1>1. PICK S : S = invoice[i].applied
  OBVIOUS
<1>2. Total(Amounts', S) = Total(Amounts, S) /\ Total(Shares', S) = Total(Shares, S)
  BY <1>1, SumsMove
<1>3. invoice'[i].applied = S
  BY <1>1, Taken, Written, Termed, InvoiceMoves DEF Established
<1>4. QED
  BY <1>1, <1>2, <1>3

\* A call at rest in a step that is not its own.
LEMMA Waits ==
  ASSUME TypeInv, NEW i \in Invoices, NEW c \in Calls,
         Writes(c, i) \/ Publishes(c, i) \/ Cancels(c, i), NEW d \in Calls, d # c
  PROVE  call'[d] = call[d]
<1>1. Proceed(c)
  BY DEF Writes, Publishes, Cancels, Proceed
<1>2. QED
  BY <1>1, OthersStay

\* Overtaken before it has written: its projection was needed, and is not written.
LEMMA Overtaken ==
  ASSUME Established, [Next]_vars, NEW i \in Invoices, Kept(i)', NEW c \in Calls, Current(c, i),
         call'[c] = call[c], invoice'[i].rev = invoice[i].rev + 1,
         \A d \in Calls : ~Sent(d, i)',
         invoice[i] # Projected(invoice[i], IF At(c, "write") THEN call[c].shown
                                            ELSE SumsOf(invoice[i].applied))
  PROVE  Behind(c, i)'
<1>0. TypeInv /\ HeadsInv
  BY DEF Established, ClosedInv
<1>1. PICK k : k = call[c]
  OBVIOUS
<1>2. PICK S : S = invoice[i].applied
  OBVIOUS
<1>3. k.at \in Reading /\ k.inv = i /\ k.head.rev = invoice[i].rev /\ k.head = invoice[i]
  BY <1>0, <1>1 DEF Current, Reads, HeadsInv, HeadIsKnown
<1>4. invoice[i].rev \in Nat /\ k.head.applied = S
  BY <1>0, <1>2, <1>3, RevisionsGrow
<1>5. SumsOf(call[c].head.applied)' = SumsOf(S)
  BY <1>1, <1>2, <1>4, SumsRest DEF SumsOf
<1>6. /\ Projected(call[c].head, call[c].shown)' = Projected(k.head, k.shown)
      /\ Projected(call[c].head, SumsOf(call[c].head.applied))' = Projected(k.head, SumsOf(S))
  BY <1>1, <1>5 DEF Projected, Derived
<1>7. k.head.rev < invoice'[i].rev
  BY <1>3, <1>4
<1>8. QED
  BY <1>1, <1>2, <1>3, <1>6, <1>7 DEF Behind, Reads, At

LEMMA OwedStays ==
  ASSUME Established, [Next]_vars, NEW i \in Invoices, Kept(i)', EndsRight(i),
         \A d \in Calls : ~Sent(d, i)', invoice'[i] = invoice[i], ~IsShown(i),
         invoice[i].applied # {}, NEW c \in Calls, WillShow(c, i)
  PROVE  WillShow(c, i)'
<1>0. TypeInv /\ Kept(i) /\ crashes' = 0
  BY KeptBefore DEF Established
<1>1. Turns(i) \in 0..2 /\ Turns(i)' \in 0..2 /\ Turns(i)' <= Turns(i)
  BY <1>0, TurnsFall
<1>2. call[c].tries \in 1..5
  BY <1>0, CallTyped DEF CallRecords
<1>3. CASE Sent(c, i)
  BY <1>1, <1>3, SentStays DEF WillShow
<1>4. CASE Heads(c, i) /\ call[c].tries + Turns(i) <= 5
  BY <1>0, <1>1, <1>2, <1>4, HeadsStay DEF WillShow
<1>5. CASE Current(c, i) /\ call[c].tries + Turns(i) <= 5
  <2>1. PICK S : S = invoice[i].applied
    OBVIOUS
  <2>2. Total(Shares', S) = Total(Shares, S)
    BY <2>1, SumsRest
  <2>3. Current(c, i)' /\ call'[c].tries = call[c].tries
    BY <1>5, <2>1, <2>2, CurrentStays
  <2>4. QED
    BY <1>1, <1>2, <1>5, <2>3 DEF WillShow
<1>6. CASE Behind(c, i) /\ call[c].tries + Turns(i) < 5
  BY <1>1, <1>2, <1>6, BehindStays DEF WillShow
<1>7. QED
  BY <1>3, <1>4, <1>5, <1>6 DEF WillShow

\* A projection from old sums leaves the recomputation that will correct it.
LEMMA OwedAfterWrite ==
  ASSUME Established, [Next]_vars, NEW i \in Invoices, Kept(i)', EndsRight(i),
         \A d \in Calls : ~Sent(d, i)', NEW c \in Calls, Writes(c, i)
  PROVE  ShownOrOwed(i)'
<1>0. TypeInv /\ TypeInv' /\ HeadsInv /\ Kept(i) /\ invoice[i] \in InvoicesOver(Dues)
  BY KeptBefore, NextTypes DEF Established, ClosedInv, TypeInv, BooksTyped
<1>1. PICK S : S = invoice[i].applied
  OBVIOUS
<1>2. PICK a, r : a = Total(Amounts, S) /\ r = Total(Shares, S)
  OBVIOUS
<1>3. /\ Reads(c, i) /\ At(c, "write") /\ call[c].head = invoice[i]
      /\ call[c].shown \in Nat \X Nat
      /\ invoice'[i] =
           [invoice[i] EXCEPT !.allocated = call[c].shown[1], !.refunded = call[c].shown[2],
              !.state = Derived(invoice[i], call[c].shown[1], call[c].shown[2]), !.rev = @ + 1]
      /\ invoice'[i].rev = invoice[i].rev + 1
  BY Written
<1>4. /\ call[c].shown[1] = a /\ invoice[i].refunded <= call[c].shown[2]
      /\ call[c].shown[2] <= r /\ r \in Nat /\ a \in Nat
  BY <1>1, <1>2, <1>3, SumsMove DEF EndsRight, RightReads
<1>5. /\ invoice'[i].applied = S /\ Total(Amounts', S) = a /\ Total(Shares', S) = r
  BY <1>1, <1>2, SumsRest
<1>6. CASE call[c].shown[2] = r
  <2>1. (\A j \in Invoices : IsShown(j) <=> ShowsSums(j))'
    BY <1>0, ShownMeans, PTL
  <2>2. PICK k : k = invoice'[i]
    OBVIOUS
  <2>3. k = [invoice[i] EXCEPT !.allocated = a, !.refunded = r,
                               !.state = Derived(invoice[i], a, r), !.rev = @ + 1]
    BY <1>3, <1>4, <1>6, <2>2
  <2>4. /\ k.applied = S /\ k.allocated = a /\ k.refunded = r
        /\ k.state = Derived(invoice[i], a, r)
        /\ k.closed = invoice[i].closed /\ k.issued = invoice[i].issued
        /\ k.due = invoice[i].due
    BY <1>0, <1>1, <2>3 DEF InvoicesOver
  <2>5. Derived(invoice[i], a, r) = Derived(k, a, r)
    BY <2>4 DEF Derived
  <2>6. ShowsSums(i)' <=> /\ k.allocated = Total(Amounts', k.applied)
                          /\ k.refunded = Total(Shares', k.applied)
                          /\ k.state = Derived(k, Total(Amounts', k.applied),
                                               Total(Shares', k.applied))
    BY <2>2 DEF ShowsSums, Derived
  <2>7. QED
    BY <1>5, <2>1, <2>4, <2>5, <2>6 DEF ShownOrOwed
<1>7. CASE call[c].shown[2] # r
  <2>1. call[c].shown[2] < r /\ call[c].shown[2] \in Nat
    BY <1>3, <1>4, <1>7
  <2>2. PICK d \in Calls : Fresh(d, i)
    BY <1>1, <1>2, <1>3, <2>1 DEF EndsRight, OldIsOwed
  <2>3. S # {}
    BY <1>2, <2>1, NothingAdds
  <2>4. Turns(i)' \in 0..2
    BY <1>0, <1>1, <2>3, TurnsFall
  <2>5. WillShow(d, i)'
    <3>1. CASE Sent(d, i)
      BY <2>4, <3>1, SentStays DEF WillShow
    <3>2. CASE Heads(d, i) /\ call[d].tries = 1
      <4>1. call'[d] = call[d]
        BY <1>0, <1>3, <3>2, Waits DEF Heads, At
      <4>2. QED
        BY <2>4, <3>2, <4>1 DEF WillShow, Heads, At
    <3>3. CASE Current(d, i) /\ call[d].tries = 1
      <4>1. At(d, "write") => call[d].shown[2] = r
        BY <1>1, <1>2, <3>3 DEF Current
      <4>2. call'[d] = call[d]
        BY <1>0, <1>3, <1>7, <4>1, Waits
      <4>3. PICK shown : shown = IF At(d, "write") THEN call[d].shown ELSE SumsOf(S)
        OBVIOUS
      <4>4. shown[2] = r
        BY <1>2, <4>1, <4>3 DEF SumsOf
      <4>5. Projected(invoice[i], shown).refunded = r
        BY <1>0, <4>4 DEF Projected, InvoicesOver
      <4>6. invoice[i].refunded # r
        <5>1. invoice[i].refunded \in Nat
          BY <1>0 DEF InvoicesOver
        <5>2. QED
          BY <1>4, <2>1, <5>1
      <4>7. invoice[i] # Projected(invoice[i], shown)
        BY <4>5, <4>6
      <4>8. Behind(d, i)'
        BY <1>1, <1>3, <3>3, <4>2, <4>3, <4>7, Overtaken
      <4>9. QED
        BY <2>4, <3>3, <4>2, <4>8 DEF WillShow
    <3>4. QED
      BY <2>2, <3>1, <3>2, <3>3 DEF Fresh
  <2>6. QED
    BY <1>5, <2>3, <2>5 DEF ShownOrOwed
<1>8. QED
  BY <1>6, <1>7

LEMMA OwedAfterTerms ==
  ASSUME Established, [Next]_vars, NEW i \in Invoices, Kept(i)', EndsRight(i),
         \A d \in Calls : ~Sent(d, i)', NEW c \in Calls, Publishes(c, i) \/ Cancels(c, i),
         ~IsShown(i), invoice[i].applied # {}, NEW d \in Calls, WillShow(d, i)
  PROVE  WillShow(d, i)'
<1>0. TypeInv /\ HeadsInv /\ Kept(i) /\ crashes' = 0
  BY KeptBefore DEF Established, ClosedInv
<1>1. Turns(i) \in 0..2 /\ Turns(i)' \in 0..2 /\ Turns(i)' < Turns(i)
  BY <1>0, TurnsFall
<1>2. call[d].tries \in 1..5
  BY <1>0, CallTyped DEF CallRecords
<1>3. At(c, "publish") \/ At(c, "cancel")
  BY DEF Publishes, PublishVersion, Cancels, Cancel
<1>4. At(d, "head") \/ call[d].at \in Reading => call'[d] = call[d]
  BY <1>0, <1>3, Waits DEF At, Reading
<1>5. CASE Sent(d, i)
  BY <1>1, <1>5, SentStays DEF WillShow
<1>6. CASE Heads(d, i) /\ call[d].tries + Turns(i) <= 5
  <2>1. call'[d] = call[d]
    BY <1>4, <1>6 DEF Heads
  <2>2. QED
    BY <1>1, <1>2, <1>6, <2>1 DEF WillShow, Heads, At
<1>7. CASE Current(d, i) /\ call[d].tries + Turns(i) <= 5
  <2>1. call'[d] = call[d]
    BY <1>4, <1>7 DEF Current, Reads
  <2>2. PICK S : S = invoice[i].applied
    OBVIOUS
  <2>3. At(d, "write") => call[d].shown = SumsOf(S)
    <3>1. SUFFICES ASSUME At(d, "write") PROVE call[d].shown = SumsOf(S)
      OBVIOUS
    <3>2. call[d].shown \in Nat \X Nat
      BY <1>0, CallTyped DEF CallRecords
    <3>3. call[d].shown[1] = Total(Amounts, S) /\ call[d].shown[2] = Total(Shares, S)
      BY <1>7, <2>2, <3>1 DEF EndsRight, RightReads, Current
    <3>4. QED
      BY <3>2, <3>3 DEF SumsOf
  <2>4. invoice[i] # Projected(invoice[i], IF At(d, "write") THEN call[d].shown ELSE SumsOf(S))
    BY <2>2, <2>3 DEF IsShown
  <2>5. invoice'[i].rev = invoice[i].rev + 1
    BY Termed
  <2>6. Behind(d, i)'
    BY <1>7, <2>1, <2>2, <2>4, <2>5, Overtaken
  <2>7. QED
    BY <1>1, <1>2, <1>7, <2>1, <2>6 DEF WillShow
<1>8. CASE Behind(d, i) /\ call[d].tries + Turns(i) < 5
  BY <1>1, <1>2, <1>8, BehindStays DEF WillShow
<1>9. QED
  BY <1>5, <1>6, <1>7, <1>8 DEF WillShow

LEMMA NextShownOrOwed ==
  ASSUME Established, [Next]_vars, NEW i \in Invoices, Kept(i)', EndsRight(i)
  PROVE  ShownOrOwed(i)'
<1>0. TypeInv /\ TypeInv'
  BY NextTypes DEF Established
<1>1. CASE \E d \in Calls : Sent(d, i)'
  BY <1>1 DEF ShownOrOwed, WillShow, Sent
<1>2. ASSUME \A d \in Calls : ~Sent(d, i)' PROVE ShownOrOwed(i)'
  <2>1. invoice'[i].applied = invoice[i].applied
    BY <1>2, SumsRest
  <2>2. CASE invoice'[i] = invoice[i] /\ IsShown(i)
    <3>1. SumsOf(invoice[i].applied)' = SumsOf(invoice[i].applied)
      BY <1>2, <2>1, SumsRest DEF SumsOf
    <3>2. Projected(invoice[i], SumsOf(invoice[i].applied))'
            = Projected(invoice[i], SumsOf(invoice[i].applied))
      BY <2>2, <3>1 DEF Projected, Derived
    <3>3. QED
      BY <2>2, <3>2 DEF IsShown, ShownOrOwed
  <2>3. CASE invoice'[i] = invoice[i] /\ ~IsShown(i)
    <3>1. PICK c \in Calls : invoice[i].applied # {} /\ WillShow(c, i)
      BY <2>3 DEF EndsRight, ShownOrOwed
    <3>2. WillShow(c, i)'
      BY <1>2, <2>3, <3>1, OwedStays
    <3>3. QED
      BY <2>1, <3>1, <3>2 DEF ShownOrOwed
  <2>4. ASSUME NEW c \in Calls, Takes(c, i) PROVE ShownOrOwed(i)'
    BY <1>2, <2>4, Taken
  <2>5. ASSUME NEW c \in Calls, Writes(c, i) PROVE ShownOrOwed(i)'
    BY <1>2, <2>5, OwedAfterWrite
  <2>6. ASSUME NEW c \in Calls, Publishes(c, i) \/ Cancels(c, i) PROVE ShownOrOwed(i)'
    <3>1. CASE IsShown(i)
      BY <2>6, <3>1, TermsKeepShown DEF ShownOrOwed
    <3>2. CASE ~IsShown(i)
      <4>1. PICK d \in Calls : invoice[i].applied # {} /\ WillShow(d, i)
        BY <3>2 DEF EndsRight, ShownOrOwed
      <4>2. WillShow(d, i)'
        BY <1>2, <2>6, <3>2, <4>1, OwedAfterTerms
      <4>3. QED
        BY <2>1, <4>1, <4>2 DEF ShownOrOwed
    <3>3. QED
      BY <3>1, <3>2
  <2>7. QED
    BY <1>0, <2>2, <2>3, <2>4, <2>5, <2>6, InvoiceMoves
<1>3. QED
  BY <1>1, <1>2

LEMMA NextRest == Established /\ RestInv /\ [Next]_vars => RestInv'
<1> SUFFICES ASSUME Established, RestInv, [Next]_vars, NEW i \in Invoices, Kept(i)'
             PROVE  EndsRight(i)'
  BY DEF RestInv
<1>1. EndsRight(i)
  BY KeptBefore DEF RestInv
<1>2. Exact(i)'
  BY <1>1, NextExact
<1>3. \A c \in Calls : RightReads(c, i)' /\ OldIsOwed(c, i)'
  BY <1>1, NextRightReads, NextOldIsOwed
<1>4. ShownOrOwed(i)'
  BY <1>1, NextShownOrOwed
<1>5. QED
  BY <1>2, <1>3, <1>4 DEF EndsRight

LEMMA InitRest == Init => RestInv
<1> SUFFICES ASSUME Init, NEW i \in Invoices PROVE EndsRight(i)
  BY DEF RestInv
<1>1. TypeInv
  BY InitTypes
<1>2. PICK d \in Dues, s \in Revisable : invoice[i] = NewInvoice(d, s)
  BY DEF Init
<1>3. /\ invoice[i].applied = {} /\ invoice[i].allocated = 0 /\ invoice[i].refunded = 0
      /\ invoice[i].state = s /\ invoice[i].issued = (s = "issued") /\ invoice[i].closed = "no"
  BY <1>2 DEF NewInvoice
<1>4. Total(Amounts, {}) = 0 /\ Total(Shares, {}) = 0
  BY NothingAdds
<1>5. Exact(i)
  BY <1>3, <1>4 DEF Exact
<1>6. \A c \in Calls : ~Reads(c, i)
  BY DEF Init, NoCall, Reads, Reading
<1>7. IsShown(i)
  <2>1. invoice[i].state = Derived(invoice[i], 0, 0)
    <3>1. CASE s = "issued"
      <4>1. invoice[i].state = "issued" /\ invoice[i].issued
        BY Zenon, <1>3, <3>1
      <4>2. QED
        BY <1>3, <4>1 DEF Derived
    <3>2. CASE s = "draft"
      <4>1. invoice[i].state = "draft" /\ ~invoice[i].issued
        BY Zenon, <1>3, <3>2
      <4>2. QED
        BY <1>3, <4>1 DEF Derived
    <3>3. QED
      BY <3>1, <3>2 DEF Revisable
  <2>2. ShowsSums(i)
    BY <1>3, <1>4, <2>1 DEF ShowsSums
  <2>3. QED
    BY <1>1, <2>2, ShownMeans
<1>8. QED
  BY <1>5, <1>6, <1>7 DEF EndsRight, RightReads, OldIsOwed, ShownOrOwed

\* Once nobody works on it and nobody died, an invoice shows what its allocations
\* and their refunds add up to: no recomputation from old reads has the last word
\* (ProjectionAtRest). This is where it matters that recomputeInvoice tries five
\* times.
THEOREM SettlementsProjection == Spec => []ProjectionAtRest
<1>1. Spec => [](Established /\ RestInv)
  <2>1. Init => Established
    BY InitTypes, InitExists, InitSides, InitClosed, InitBooked, InitIssued DEF Established
  <2>2. Established /\ [Next]_vars => Established'
    <3>1. ClosedInv => HeadsInv
      BY DEF ClosedInv
    <3>2. QED
      BY <3>1, NextTypes, NextExists, NextSides, NextClosed, NextBooked, NextIssued DEF Established
  <2>3. QED
    BY <2>1, <2>2, InitRest, NextRest, PTL DEF Spec
<1>2. Established /\ RestInv => ProjectionAtRest
  <2> SUFFICES ASSUME Established, RestInv, AtRest, NEW i \in Invoices,
                      \A p \in invoice[i].applied : ~alloc[p].reversed
               PROVE  ShowsItsAllocations(i)
    BY DEF ProjectionAtRest
  <2>1. Kept(i)
    BY DEF Kept, TakenBack, AtRest, At
  <2>2. \A c \in Calls : ~WillShow(c, i)
    BY DEF AtRest, WillShow, Sent, Heads, Current, Behind, Reads, Reading, At
  <2>3. IsShown(i)
    BY <2>1, <2>2 DEF RestInv, EndsRight, ShownOrOwed
  <2>4. PICK S : S = invoice[i].applied
    OBVIOUS
  <2>5. S \in SUBSET Payments
    BY <2>4 DEF Established, TypeInv, BooksTyped, InvoicesOver
  <2>6. {p \in S : Live(p)} = S
    BY <2>1, <2>4, KeptPayments DEF Live
  <2>7. <<Total([p \in S |-> alloc[p].amount], S), Total([p \in S |-> Share(p)], S)>> = SumsOf(S)
    BY <2>5, AddedUp DEF SumsOf, Established
  <2>8. QED
    BY <2>3, <2>4, <2>6, <2>7 DEF IsShown, ShowsItsAllocations
<1>3. QED
  BY <1>1, <1>2, PTL
=============================================================================
