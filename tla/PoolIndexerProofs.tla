------------------------- MODULE PoolIndexerProofs -------------------------
(***************************************************************************)
(* What the mirror of the pool's events promises, for any number of        *)
(* ledgers and of syncs that overlap, outlive their lease and die: what it *)
(* lacks it owns up to, and a page's healthy copy is whole.                *)
(***************************************************************************)
EXTENDS PoolMirror, FiniteSetTheorems, PartialSumsProofs

-----------------------------------------------------------------------------
(* Ranges of ledgers.                                                      *)

\* Every ledger of a gap is in one of its maximal ranges, so that what is asked
\* of the lake is the whole gap.
LEMMA RangesCover ==
  ASSUME NEW n \in Nat, NEW g, g \subseteq 1..n, NEW x \in g
  PROVE  \E r \in Ranges(g) : x \in r
<1> DEFINE T == {m \in Nat : x <= m /\ m + 1 \notin g}
           D == {k \in 0..(x - 1) : x - k - 1 \notin g}
<1>1. /\ x \in Nat /\ 1 <= x /\ x <= n
  OBVIOUS
<1>2. T \subseteq Nat /\ n \in T
  BY <1>1
<1>3. D \subseteq Nat /\ x - 1 \in D
  BY <1>1
<1> HIDE DEF T, D
<1>4. PICK hi \in T : \A m \in T : hi <= m
  BY <1>2, LeastNatural
<1>5. PICK k \in D : \A j \in D : k <= j
  BY <1>3, LeastNatural
<1>6. /\ hi \in Nat /\ x <= hi /\ hi + 1 \notin g
  BY <1>4 DEF T
<1>7. /\ k \in 0..(x - 1) /\ x - k - 1 \notin g
  BY <1>5 DEF D
<1>8. PICK lo : lo = x - k
  OBVIOUS
<1>9. lo \in Nat /\ 1 <= lo /\ lo <= x /\ lo - 1 \notin g
  BY <1>1, <1>7, <1>8
<1>10. \A y \in x..hi : y \in g
  <2> SUFFICES ASSUME NEW y \in x..hi, y \notin g
               PROVE  FALSE
    OBVIOUS
  <2>1. y - 1 \in Nat /\ x <= y - 1 /\ (y - 1) + 1 = y
    BY <1>1, <1>6
  <2>2. y - 1 \in T
    BY <2>1 DEF T
  <2>3. QED
    BY <1>1, <1>4, <1>6, <2>1, <2>2
<1>11. \A y \in lo..x : y \in g
  <2> SUFFICES ASSUME NEW y \in lo..x, y \notin g
               PROVE  FALSE
    OBVIOUS
  <2>1. PICK j : j = x - y - 1
    OBVIOUS
  <2>2. j \in 0..(x - 1) /\ x - j - 1 = y /\ j < k
    BY <1>1, <1>7, <1>8, <1>9, <2>1
  <2>3. j \in D
    BY <2>2 DEF D
  <2>4. QED
    BY <1>5, <1>7, <2>2, <2>3
<1>12. lo..hi \subseteq g
  BY <1>1, <1>6, <1>9, <1>10, <1>11
<1>13. Min(lo..hi) = lo
  <2>1. lo \in lo..hi /\ \A y \in lo..hi : lo =< y
    BY <1>1, <1>6, <1>9
  <2>2. \A z \in lo..hi : (\A y \in lo..hi : z =< y) => z = lo
    BY <2>1, <1>1, <1>6, <1>9
  <2>3. QED
    BY <2>1, <2>2 DEF Min
<1>14. Max(lo..hi) = hi
  <2>1. hi \in lo..hi /\ \A y \in lo..hi : hi >= y
    BY <1>1, <1>6, <1>9
  <2>2. \A z \in lo..hi : (\A y \in lo..hi : z >= y) => z = hi
    BY <2>1, <1>1, <1>6, <1>9
  <2>3. QED
    BY <2>1, <2>2 DEF Max
<1>15. x \in lo..hi
  BY <1>1, <1>6, <1>9
<1>16. lo..hi \in Ranges(g)
  BY <1>6, <1>9, <1>12, <1>13, <1>14, <1>15 DEF Ranges
<1>17. QED
  BY <1>15, <1>16

\* Ranges are made of the ledgers they cover, and none of them is empty.
LEMMA RangesWithin ==
  ASSUME NEW g
  PROVE  \A r \in Ranges(g) : r \subseteq g /\ r # {}
BY DEF Ranges

\* What is in a union of two.
LEMMA UnionOfTwo ==
  ASSUME NEW a, NEW b, NEW u, u = a \union b
  PROVE  /\ \A x : x \in a \/ x \in b => x \in u
         /\ \A whole : a \subseteq whole /\ b \subseteq whole => u \subseteq whole
OBVIOUS

\* The larger of two numbers.
LEMMA LargerOfTwo ==
  ASSUME NEW a \in Int, NEW b \in Int
  PROVE  Max({a, b}) \in {a, b} /\ Max({a, b}) >= a /\ Max({a, b}) >= b
<1>1. \E x \in {a, b} : \A y \in {a, b} : x >= y
  BY DEF Max
<1>2. QED
  BY <1>1 DEF Max

\* A finite set of naturals that has an element has a largest one.
LEMMA LargestNatural ==
  ASSUME NEW W, W \subseteq Nat, W # {}, IsFiniteSet(W)
  PROVE  Max(W) \in W
<1> DEFINE S == {n \in Nat : \A V \in SUBSET W : Cardinality(V) = n + 1 =>
                   \E x \in V : \A y \in V : x >= y}
<1>1. \A V \in SUBSET W : IsFiniteSet(V) /\ Cardinality(V) \in Nat
  BY FS_Subset, FS_CardinalityType
<1>2. 0 \in S
  <2> SUFFICES ASSUME NEW V \in SUBSET W, Cardinality(V) = 0 + 1
               PROVE  \E x \in V : \A y \in V : x >= y
    OBVIOUS
  <2>1. PICK x : V = {x}
    BY <1>1, FS_Singleton
  <2>2. QED
    BY <2>1
<1>3. ASSUME NEW n \in Nat, n \in S
      PROVE  n + 1 \in S
  <2> SUFFICES ASSUME NEW V \in SUBSET W, Cardinality(V) = n + 1 + 1
               PROVE  \E x \in V : \A y \in V : x >= y
    OBVIOUS
  <2>1. V # {}
    BY FS_EmptySet
  <2>2. PICK v \in V : TRUE
    BY <2>1
  <2>3. Cardinality(V \ {v}) = n + 1
    BY <1>1, FS_RemoveElement
  <2>4. PICK x \in V \ {v} : \A y \in V \ {v} : x >= y
    BY <1>3, <2>3
  <2>5. x \in Nat /\ v \in Nat
    OBVIOUS
  <2>6. CASE x >= v
    BY <2>4, <2>6
  <2>7. CASE v >= x
    BY <2>4, <2>5, <2>7
  <2>8. QED
    BY <2>5, <2>6, <2>7
<1> HIDE DEF S
<1>4. \A n \in Nat : n \in S
  BY <1>2, <1>3, NatSetInduction
<1>5. Cardinality(W) \in Nat /\ Cardinality(W) # 0
  BY <1>1, FS_EmptySet
<1>6. Cardinality(W) - 1 \in Nat /\ Cardinality(W) = (Cardinality(W) - 1) + 1
  BY <1>5
<1>7. \E x \in W : \A y \in W : x >= y
  BY <1>4, <1>6 DEF S
<1>8. QED
  BY <1>7 DEF Max
-----------------------------------------------------------------------------
(* The chain's events, as operators of the chain alone.                    *)

Chains == {ch \in Seq({"deposit", "spend"}) : Len(ch) \in Ledgers /\ ch[1] = "deposit"}
DepositsIn(ch, ledgers) == {l \in ledgers \intersect DOMAIN ch : ch[l] = "deposit"}
SpendsIn(ch, ledgers) == {l \in ledgers \intersect DOMAIN ch : ch[l] = "spend"}
Leaves(ch) == Cardinality(DepositsIn(ch, Ledgers))
LeafSet(ch, n) == {l \in DepositsIn(ch, Ledgers) : Cardinality(DepositsIn(ch, 1..l)) <= n}

LEMMA ChainOperators ==
  /\ \A ledgers : Deposits(ledgers) = DepositsIn(chain, ledgers)
  /\ \A ledgers : Spends(ledgers) = SpendsIn(chain, ledgers)
  /\ LeafCount = Leaves(chain)
  /\ \A n : LeavesUpTo(n) = LeafSet(chain, n)
<1>1. \A ledgers : Deposits(ledgers) = DepositsIn(chain, ledgers)
  BY DEF Deposits, DepositsIn
<1>2. \A ledgers : Spends(ledgers) = SpendsIn(chain, ledgers)
  BY DEF Spends, SpendsIn
<1>3. LeafCount = Leaves(chain)
  BY <1>1 DEF LeafCount, Leaves
<1>4. \A n : LeavesUpTo(n) = LeafSet(chain, n)
  BY <1>1 DEF LeavesUpTo, LeafSet
<1>5. QED
  BY <1>1, <1>2, <1>3, <1>4

LEMMA CountsAreNaturals ==
  ASSUME NEW ch \in Chains, NEW S
  PROVE  /\ IsFiniteSet(DepositsIn(ch, S))
         /\ Cardinality(DepositsIn(ch, S)) \in Nat
<1>1. Len(ch) \in Nat /\ DOMAIN ch = 1..Len(ch)
  BY DEF Chains
<1>2. IsFiniteSet(1..Len(ch))
  BY <1>1, FS_Interval
<1>3. DepositsIn(ch, S) \subseteq 1..Len(ch)
  BY <1>1 DEF DepositsIn
<1>4. QED
  BY <1>2, <1>3, FS_Subset, FS_CardinalityType

\* The first ledger has a leaf, and there are no more leaves than ledgers.
LEMMA LeafFacts ==
  ASSUME NEW ch \in Chains
  PROVE  /\ Leaves(ch) \in Nat /\ 1 <= Leaves(ch) /\ Leaves(ch) <= Len(ch)
         /\ Len(ch) \in Nat /\ 1 <= Len(ch) /\ Len(ch) <= MaxLedger
         /\ LeafSet(ch, 0) = {}
         /\ \A n : LeafSet(ch, n) \subseteq 1..Len(ch)
<1>1. /\ Len(ch) \in Nat /\ 1 <= Len(ch) /\ Len(ch) <= MaxLedger
      /\ DOMAIN ch = 1..Len(ch)
  BY IndexerAssumption DEF Chains, Ledgers
<1>2. DepositsIn(ch, Ledgers) \subseteq 1..Len(ch)
  BY <1>1 DEF DepositsIn
<1>3. /\ IsFiniteSet(1..Len(ch))
      /\ Cardinality(1..Len(ch)) = Len(ch)
  BY <1>1, FS_Interval
<1>4. Leaves(ch) <= Len(ch) /\ Leaves(ch) \in Nat
  BY <1>2, <1>3, FS_Subset, CountsAreNaturals DEF Leaves
<1>5. 1 \in DepositsIn(ch, Ledgers)
  BY <1>1, IndexerAssumption DEF DepositsIn, Ledgers, Chains
<1>6. Leaves(ch) # 0
  BY <1>5, CountsAreNaturals, FS_EmptySet DEF Leaves
<1>7. ASSUME NEW l \in DepositsIn(ch, Ledgers)
      PROVE  Cardinality(DepositsIn(ch, 1..l)) # 0
  <2>1. l \in DepositsIn(ch, 1..l)
    BY <1>1, <1>2, <1>7 DEF DepositsIn
  <2>2. QED
    BY <2>1, CountsAreNaturals, FS_EmptySet
<1>8. LeafSet(ch, 0) = {}
  <2>1. \A l \in DepositsIn(ch, Ledgers) : ~(Cardinality(DepositsIn(ch, 1..l)) <= 0)
    BY <1>7, CountsAreNaturals
  <2>2. QED
    BY <2>1 DEF LeafSet
<1>9. \A n : LeafSet(ch, n) \subseteq 1..Len(ch)
  BY <1>2 DEF LeafSet
<1>10. QED
  BY <1>1, <1>4, <1>6, <1>8, <1>9

\* A ledger that closes changes nothing below it: leaves and spends that were
\* there stay where they are.
LEMMA ChainGrows ==
  ASSUME NEW ch \in Chains, NEW event \in {"deposit", "spend"}, NEW next,
         Len(ch) < MaxLedger, next = Append(ch, event)
  PROVE  /\ next \in Chains
         /\ Len(next) = Len(ch) + 1
         /\ Leaves(ch) <= Leaves(next)
         /\ \A n \in 0..Leaves(ch) : LeafSet(next, n) = LeafSet(ch, n)
         /\ \A k \in 0..Len(ch) : SpendsIn(next, 1..k) = SpendsIn(ch, 1..k)
<1>1. /\ Len(ch) \in Nat /\ 1 <= Len(ch) /\ DOMAIN ch = 1..Len(ch)
      /\ ch \in Seq({"deposit", "spend"})
      /\ MaxLedger \in Nat
  BY LeafFacts, IndexerAssumption DEF Chains
<1>2. /\ next \in Seq({"deposit", "spend"})
      /\ Len(next) = Len(ch) + 1
      /\ DOMAIN next = 1..(Len(ch) + 1)
      /\ \A l \in 1..Len(ch) : next[l] = ch[l]
      /\ next[Len(ch) + 1] = event
  BY <1>1
<1>3. next \in Chains
  <2>1. next[1] = ch[1] /\ ch[1] = "deposit"
    BY <1>1, <1>2 DEF Chains
  <2>2. Len(next) \in Ledgers
    BY <1>1, <1>2 DEF Ledgers
  <2>3. QED
    BY <1>2, <2>1, <2>2 DEF Chains
<1>4. \A k \in 0..Len(ch) : SpendsIn(next, 1..k) = SpendsIn(ch, 1..k)
  BY <1>1, <1>2 DEF SpendsIn
<1>5. \A k \in 0..Len(ch) : DepositsIn(next, 1..k) = DepositsIn(ch, 1..k)
  BY <1>1, <1>2 DEF DepositsIn
<1>6. DepositsIn(ch, Ledgers) \subseteq DepositsIn(next, Ledgers)
  BY <1>1, <1>2 DEF DepositsIn
<1>7. Leaves(ch) <= Leaves(next)
  <2>1. IsFiniteSet(DepositsIn(next, Ledgers))
    BY <1>3, CountsAreNaturals
  <2>2. QED
    BY <1>6, <2>1, FS_Subset DEF Leaves
<1>8. ASSUME NEW n \in 0..Leaves(ch)
      PROVE  LeafSet(next, n) = LeafSet(ch, n)
  <2>1. Leaves(ch) \in Nat
    BY LeafFacts
  <2>2. ASSUME NEW l \in DepositsIn(next, Ledgers), l \notin DepositsIn(ch, Ledgers)
        PROVE  ~(Cardinality(DepositsIn(next, 1..l)) <= n)
    <3>1. l = Len(ch) + 1
      BY <1>1, <1>2, <2>2 DEF DepositsIn
    <3>2. DepositsIn(next, 1..l) = DepositsIn(ch, Ledgers) \union {l}
      BY <1>1, <1>2, <2>2, <3>1 DEF DepositsIn, Ledgers
    <3>3. IsFiniteSet(DepositsIn(ch, Ledgers))
      BY CountsAreNaturals
    <3>4. Cardinality(DepositsIn(next, 1..l)) = Leaves(ch) + 1
      BY <2>2, <3>2, <3>3, FS_AddElement DEF Leaves
    <3>5. QED
      BY <2>1, <3>4
  <2>3. ASSUME NEW l \in DepositsIn(ch, Ledgers)
        PROVE  Cardinality(DepositsIn(next, 1..l)) = Cardinality(DepositsIn(ch, 1..l))
    <3>1. l \in 0..Len(ch)
      BY <1>1, <2>3 DEF DepositsIn
    <3>2. QED
      BY <1>5, <3>1
  <2>4. QED
    BY <1>6, <2>2, <2>3 DEF LeafSet
<1>9. QED
  BY <1>2, <1>3, <1>4, <1>7, <1>8
-----------------------------------------------------------------------------
(* The inductive invariant of the indexer.                                 *)

Marks ==
  [published : Nat, leaves : Nat, complete : BOOLEAN, gapsOnly : BOOLEAN, gaps : SUBSET Nat,
   mismatch : BOOLEAN, rootCount : Nat, healthy : BOOLEAN,
   owner : Syncs \union {Nobody}, leased : BOOLEAN]
SyncRecords ==
  [step : Steps, seen : Marks, latest : Nat, found : SUBSET Nat, gap : SUBSET Nat,
   gaps : SUBSET Nat, complete : BOOLEAN, gapsOnly : BOOLEAN, onChain : Int,
   inMirror : Int, rootCount : Nat, mismatch : BOOLEAN]

ChainInv ==
  /\ chain \in Chains
  /\ oldest \in 1..Tip
  /\ mirrored \subseteq 1..Tip
  /\ scanned \subseteq 1..Tip

\* r says that it may lack what is in ledger l.
OwnsUp(r, l) == ~r.complete /\ (r.gapsOnly => l \in r.gaps)

\* The roots never go past a leaf that is missing, and what is published is in
\* the mirror or owned up to.
IndexInv ==
  /\ index \in Marks
  /\ index.published \in 1..Tip
  /\ index.leaves \in 1..Leaves(chain)
  /\ index.rootCount \in 1..Leaves(chain)
  /\ index.gaps \subseteq 1..Tip
  /\ index.leased => index.owner # Nobody
  /\ index.healthy => index.complete /\ ~index.mismatch
  /\ LeafSet(chain, index.rootCount) \subseteq mirrored
  /\ index.mismatch \/ LeafSet(chain, index.leaves) \subseteq mirrored
  /\ \A l \in SpendsIn(chain, 1..index.published) \ mirrored : OwnsUp(index, l)

\* What a sync holds, whether or not it still has the lease.
SyncInv(s) ==
  /\ sync[s].found \subseteq 1..Tip
  /\ sync[s].gap \subseteq 1..Tip
  /\ sync[s].gaps \subseteq 1..Tip
  /\ sync[s].seen.gaps \subseteq 1..Tip
  /\ sync[s].seen.published \in 0..Tip
  /\ sync[s].latest \in 0..Tip
  /\ sync[s].seen.rootCount \in 0..Leaves(chain)
  /\ sync[s].rootCount \in 0..Leaves(chain)
  /\ sync[s].onChain = -1 \/ sync[s].onChain \in 1..Leaves(chain)
  /\ At(s, "idle") => sync[s] = NoSync
  /\ At(s, "fetch") => sync[s].seen.published # 0
  /\ sync[s].step \in {"fetch", "fill", "write"} => sync[s].onChain = -1
  /\ sync[s].step \in {"roots", "publish"} => sync[s].onChain # -1
  /\ sync[s].step \notin {"idle", "publish"} => sync[s].seen.rootCount # 0
  /\ sync[s].step \notin {"idle", "fetch"} => sync[s].latest # 0
  /\ sync[s].step \in {"count", "roots", "publish"} => sync[s].found = {}
  /\ LeafSet(chain, sync[s].seen.rootCount) \subseteq mirrored
  /\ LeafSet(chain, sync[s].rootCount) \subseteq mirrored
  /\ At(s, "publish") =>
       /\ sync[s].rootCount # 0
       /\ sync[s].mismatch \/ LeafSet(chain, sync[s].onChain) \subseteq mirrored

\* The sync that has the lease starts from the state that is still in force, and
\* what it will publish lacks nothing that it does not own up to. What the state
\* in force owns up to is forgotten only once the lake has been read for it.
Filled == {"write", "count", "roots", "publish"}
OwnerInv(s) ==
  index.owner = s /\ ~At(s, "idle") =>
    /\ sync[s].step \in {"fetch", "fill"} =>
         /\ sync[s].seen.published = index.published
         /\ sync[s].seen.complete = index.complete
         /\ sync[s].seen.gapsOnly = index.gapsOnly
         /\ sync[s].seen.gaps = index.gaps
    /\ ~At(s, "fetch") => sync[s].latest >= index.published
    /\ At(s, "fill") =>
         (index.published + 1)..sync[s].latest \subseteq sync[s].found \union sync[s].gap
    /\ sync[s].onChain # -1 => index.leaves <= sync[s].onChain
    /\ sync[s].step \in Filled =>
         /\ \A l \in SpendsIn(chain, 1..sync[s].latest) \ (mirrored \union sync[s].found) :
              OwnsUp(sync[s], l)
         /\ \A l \in Ledgers : OwnsUp(index, l) => l \in scanned \/ OwnsUp(sync[s], l)

IndexerInv ==
  /\ ChainInv
  /\ IndexInv
  /\ sync \in [Syncs -> SyncRecords]
  /\ \A s \in Syncs : SyncInv(s)
  /\ \A s \in Syncs : OwnerInv(s)

-----------------------------------------------------------------------------
(* The invariant of a page's copy.                                         *)

UnknownTo(m) == SpendsIn(chain, 1..m.published) \ m.spent
MirrorInv ==
  /\ query \in [step : {"none", "documents", "again"}, full : BOOLEAN, published : 0..Tip,
                leaves : 0..Leaves(chain), healthy : BOOLEAN]
  /\ mirror \in [deposits : SUBSET Nat, spent : SUBSET Nat, published : 0..Tip,
                 leaves : 0..Leaves(chain), healthy : BOOLEAN]
  /\ query.step = "documents" => query.published <= index.published
  /\ query.step = "documents" /\ query.healthy =>
       /\ LeafSet(chain, query.leaves) \subseteq mirrored
       /\ SpendsIn(chain, 1..query.published) \subseteq mirrored
       /\ UnknownTo(mirror) \subseteq scanned
  /\ \A l \in UnknownTo(mirror) : l \in scanned \/ OwnsUp(index, l)
  /\ mirror.healthy => /\ mirror.deposits = LeafSet(chain, mirror.leaves)
                       /\ UnknownTo(mirror) \subseteq scanned
-----------------------------------------------------------------------------
(* What a step leaves alone stays right.                                   *)

Fields == {"step", "seen", "latest", "found", "gap", "gaps", "complete", "gapsOnly",
           "onChain", "inMirror", "rootCount", "mismatch"}

\* Setting some fields of one sync's record.
LEMMA Changed ==
  ASSUME sync \in [Syncs -> SyncRecords], NEW s \in Syncs, NEW fields, Set(s, fields)
  PROVE  /\ DOMAIN sync' = Syncs /\ sync' = [t \in Syncs |-> sync'[t]]
         /\ \A t \in Syncs \ {s} : sync'[t] = sync[t]
         /\ sync'[s] = [f \in Fields |-> sync'[s][f]]
         /\ \A f \in Fields :
              sync'[s][f] = IF f \in DOMAIN fields THEN fields[f] ELSE sync[s][f]
<1>1. DOMAIN sync[s] = Fields
  BY DEF SyncRecords, Fields
<1>2. sync' = [sync EXCEPT ![s] = [f \in Fields |->
                 IF f \in DOMAIN fields THEN fields[f] ELSE sync[s][f]]]
  BY <1>1 DEF Set
<1>3. sync'[s] = [f \in Fields |-> IF f \in DOMAIN fields THEN fields[f] ELSE sync[s][f]]
  BY <1>2
<1>4. /\ sync'[s] = [f \in Fields |-> sync'[s][f]]
      /\ \A f \in Fields :
           sync'[s][f] = IF f \in DOMAIN fields THEN fields[f] ELSE sync[s][f]
  BY <1>3
<1>5. /\ DOMAIN sync' = Syncs /\ sync' = [t \in Syncs |-> sync'[t]]
      /\ \A t \in Syncs \ {s} : sync'[t] = sync[t]
  BY <1>2
<1>6. QED
  BY <1>4, <1>5

LEMMA IsRecord ==
  ASSUME NEW r, r = [f \in Fields |-> r[f]],
         r.step \in Steps, r.seen \in Marks, r.latest \in Nat, r.found \in SUBSET Nat,
         r.gap \in SUBSET Nat, r.gaps \in SUBSET Nat, r.complete \in BOOLEAN,
         r.gapsOnly \in BOOLEAN, r.onChain \in Int, r.inMirror \in Int,
         r.rootCount \in Nat, r.mismatch \in BOOLEAN
  PROVE  r \in SyncRecords
BY DEF SyncRecords, Fields

LEMMA FieldTypes ==
  ASSUME NEW r \in SyncRecords
  PROVE  /\ r.step \in Steps /\ r.seen \in Marks /\ r.latest \in Nat /\ r.found \in SUBSET Nat
         /\ r.gap \in SUBSET Nat /\ r.gaps \in SUBSET Nat /\ r.complete \in BOOLEAN
         /\ r.gapsOnly \in BOOLEAN /\ r.onChain \in Int /\ r.inMirror \in Int
         /\ r.rootCount \in Nat /\ r.mismatch \in BOOLEAN
BY DEF SyncRecords

LEMMA MarkTypes ==
  ASSUME NEW m \in Marks
  PROVE  /\ m.published \in Nat /\ m.leaves \in Nat /\ m.complete \in BOOLEAN
         /\ m.gapsOnly \in BOOLEAN /\ m.gaps \in SUBSET Nat /\ m.mismatch \in BOOLEAN
         /\ m.rootCount \in Nat /\ m.healthy \in BOOLEAN
         /\ m.owner \in Syncs \union {Nobody} /\ m.leased \in BOOLEAN
BY DEF Marks

\* The chain, the mirror and what was scanned only grow.
Growth ==
  /\ chain' \in Chains
  /\ Len(chain) <= Len(chain')
  /\ Leaves(chain) <= Leaves(chain')
  /\ \A n \in 0..Leaves(chain) : LeafSet(chain', n) = LeafSet(chain, n)
  /\ \A k \in 0..Len(chain) : SpendsIn(chain', 1..k) = SpendsIn(chain, 1..k)
  /\ mirrored \subseteq mirrored'
  /\ scanned \subseteq scanned'

LEMMA SyncKept ==
  ASSUME ChainInv, NEW t \in Syncs, sync[t] \in SyncRecords, SyncInv(t), Growth,
         sync'[t] = sync[t]
  PROVE  SyncInv(t)'
<1> DEFINE r == sync[t]
<1>1. /\ Len(chain) \in Nat /\ Len(chain') \in Nat /\ Len(chain) <= Len(chain')
      /\ Leaves(chain) \in Nat /\ Leaves(chain') \in Nat /\ Leaves(chain) <= Leaves(chain')
  BY LeafFacts DEF Growth, ChainInv
<1>2. 1..Len(chain) \subseteq 1..Len(chain') /\ 0..Len(chain) \subseteq 0..Len(chain')
  BY <1>1
<1>3. 0..Leaves(chain) \subseteq 0..Leaves(chain') /\ 1..Leaves(chain) \subseteq 1..Leaves(chain')
  BY <1>1
<1>4. \A n \in 0..Leaves(chain) :
        LeafSet(chain, n) \subseteq mirrored => LeafSet(chain', n) \subseteq mirrored'
  BY DEF Growth
<1>5. \A n \in 1..Leaves(chain) : n \in 0..Leaves(chain)
  BY <1>1
<1>6. /\ r.onChain = -1 \/ r.onChain \in 1..Leaves(chain)
      /\ At(t, "publish") => r.onChain \in 0..Leaves(chain)
  BY <1>5 DEF SyncInv, At
<1>7. QED
  BY <1>2, <1>3, <1>4, <1>6 DEF SyncInv, At, Tip

\* The marks of the state in force that other calls depend on.
SameMarks ==
  /\ index'.published = index.published
  /\ index'.leaves = index.leaves
  /\ index'.complete = index.complete
  /\ index'.gapsOnly = index.gapsOnly
  /\ index'.gaps = index.gaps

LEMMA OwnerKept ==
  ASSUME ChainInv, NEW t \in Syncs, sync[t] \in SyncRecords, SyncInv(t), OwnerInv(t), Growth,
         sync'[t] = sync[t], index'.owner = t => index.owner = t /\ SameMarks
  PROVE  OwnerInv(t)'
<1>1. SUFFICES ASSUME index'.owner = t, sync[t].step # "idle"
               PROVE  OwnerInv(t)'
  BY DEF OwnerInv, At
<1>2. index.owner = t /\ SameMarks
  BY <1>1
<1>3. \A l \in SpendsIn(chain', 1..sync[t].latest) \ (mirrored' \union sync[t].found) :
        l \in SpendsIn(chain, 1..sync[t].latest) \ (mirrored \union sync[t].found)
  BY DEF Growth, SyncInv, Tip
<1>4. QED
  BY <1>1, <1>2, <1>3 DEF OwnerInv, At, OwnsUp, SameMarks, Growth

LEMMA IndexKept ==
  ASSUME ChainInv, IndexInv, Growth, index' \in Marks, SameMarks,
         index'.mismatch = index.mismatch, index'.rootCount = index.rootCount,
         index'.healthy => index.healthy, index'.leased => index'.owner # Nobody
  PROVE  IndexInv'
<1>1. /\ Len(chain) \in Nat /\ Len(chain') \in Nat /\ Len(chain) <= Len(chain')
      /\ Leaves(chain) \in Nat /\ Leaves(chain') \in Nat /\ Leaves(chain) <= Leaves(chain')
  BY LeafFacts DEF Growth, ChainInv
<1>2. 1..Len(chain) \subseteq 1..Len(chain') /\ 1..Leaves(chain) \subseteq 1..Leaves(chain')
  BY <1>1
<1>3. \A n \in 1..Leaves(chain) :
        LeafSet(chain, n) \subseteq mirrored => LeafSet(chain', n) \subseteq mirrored'
  BY <1>1 DEF Growth
<1>4. index.published \in 0..Len(chain)
  BY <1>1 DEF IndexInv, Tip
<1>5. \A l \in SpendsIn(chain', 1..index.published) \ mirrored' :
        l \in SpendsIn(chain, 1..index.published) \ mirrored
  BY <1>4 DEF Growth
<1>6. QED
  BY <1>2, <1>3, <1>5 DEF IndexInv, SameMarks, OwnsUp, Tip

LEMMA GrowthOnChain ==
  ASSUME ChainInv, chain' = chain, mirrored \subseteq mirrored', scanned \subseteq scanned'
  PROVE  Growth
BY LeafFacts DEF ChainInv, Growth

\* A step of one sync that leaves the state in force alone is right if what
\* that sync then holds is.
LEMMA OneSync ==
  ASSUME IndexerInv, NEW s \in Syncs, chain' = chain, oldest' = oldest, index' = index,
         mirrored \subseteq mirrored', mirrored' \subseteq 1..Tip,
         scanned \subseteq scanned', scanned' \subseteq 1..Tip,
         sync' = [t \in Syncs |-> sync'[t]], \A t \in Syncs \ {s} : sync'[t] = sync[t],
         sync'[s] \in SyncRecords, SyncInv(s)', OwnerInv(s)'
  PROVE  IndexerInv'
<1>1. /\ ChainInv /\ IndexInv /\ sync \in [Syncs -> SyncRecords]
      /\ \A t \in Syncs : SyncInv(t) /\ OwnerInv(t)
  BY DEF IndexerInv
<1>2. Growth
  BY <1>1, GrowthOnChain
<1>3. ChainInv'
  BY <1>1 DEF ChainInv, Tip
<1>4. IndexInv'
  <2>1. index' \in Marks /\ SameMarks /\ (index'.leased => index'.owner # Nobody)
    BY <1>1 DEF IndexInv, SameMarks
  <2>2. QED
    BY <1>1, <1>2, <2>1, IndexKept
<1>5. ASSUME NEW t \in Syncs \ {s}
      PROVE  SyncInv(t)' /\ OwnerInv(t)'
  <2>1. sync[t] \in SyncRecords /\ sync'[t] = sync[t]
    BY <1>1
  <2>2. SyncInv(t)'
    BY <1>1, <1>2, <2>1, SyncKept
  <2>3. SameMarks
    BY DEF SameMarks
  <2>4. OwnerInv(t)'
    BY <1>1, <1>2, <2>1, <2>3, OwnerKept
  <2>5. QED
    BY <2>2, <2>4
<1>6. sync' \in [Syncs -> SyncRecords]
  <2>1. \A t \in Syncs : sync'[t] \in SyncRecords
    BY <1>1
  <2>2. QED
    BY <2>1
<1>7. \A t \in Syncs : SyncInv(t)'
  BY <1>5
<1>8. \A t \in Syncs : OwnerInv(t)'
  BY <1>5
<1>9. QED
  BY <1>3, <1>4, <1>6, <1>7, <1>8 DEF IndexerInv
-----------------------------------------------------------------------------
(* One lemma per step of a sync.                                           *)

LEMMA FetchKeeps ==
  ASSUME IndexerInv, NEW s \in Syncs, Fetch(s)
  PROVE  IndexerInv'
<1> DEFINE r == sync[s]
           since == sync[s].seen.published
<1>1. /\ ChainInv /\ IndexInv /\ sync \in [Syncs -> SyncRecords]
      /\ SyncInv(s) /\ OwnerInv(s) /\ r \in SyncRecords
  BY DEF IndexerInv
<1>2. /\ r.step = "fetch"
      /\ UNCHANGED <<chain, oldest, index, mirrored, scanned>>
  BY DEF Fetch, At
<1>3. /\ Tip \in Nat /\ since \in 1..Tip /\ r.onChain = -1
  BY <1>1, <1>2, LeafFacts DEF SyncInv, ChainInv, At, Tip
<1>4. \E latest \in since..Tip, found \in SUBSET (1..Tip), gap \in SUBSET (1..Tip) :
        /\ (since + 1)..latest \subseteq found \union gap
        /\ \/ found = r.found /\ gap = r.gap /\ Set(s, [step |-> "fill", latest |-> latest])
           \/ Set(s, [step |-> "fill", latest |-> latest, found |-> found, gap |-> gap])
  <2>1. PICK latest \in since..Tip :
          \/ latest = since /\ Set(s, [step |-> "fill", latest |-> latest])
          \/ /\ latest > since
             /\ \E start \in Starts(since, latest), tip \in latest..Tip :
                  /\ oldest <= start
                  /\ Set(s, [step |-> "fill", latest |-> latest, found |-> start..tip,
                             gap |-> (since + 1)..(start - 1)])
    BY DEF Fetch
  <2>2. CASE latest = since /\ Set(s, [step |-> "fill", latest |-> latest])
    <3>1. r.found \subseteq 1..Tip /\ r.gap \subseteq 1..Tip
      BY <1>1 DEF SyncInv
    <3>2. (since + 1)..latest \subseteq r.found \union r.gap
      BY <1>3, <2>2
    <3>3. QED
      BY <2>2, <3>1, <3>2
  <2>3. CASE /\ latest > since
             /\ \E start \in Starts(since, latest), tip \in latest..Tip :
                  /\ oldest <= start
                  /\ Set(s, [step |-> "fill", latest |-> latest, found |-> start..tip,
                             gap |-> (since + 1)..(start - 1)])
    <3>1. PICK start \in Starts(since, latest), tip \in latest..Tip :
            Set(s, [step |-> "fill", latest |-> latest, found |-> start..tip,
                    gap |-> (since + 1)..(start - 1)])
      BY <2>3
    <3>2. start \in Nat /\ 1 <= start /\ start <= latest
      <4>1. CASE start = since + 1
        BY <1>3, <2>3, <4>1
      <4>2. ASSUME NEW w \in Windows, start = Max({1, latest - w})
            PROVE  start \in Nat /\ 1 <= start /\ start <= latest
        <5>1. w \in Nat /\ latest \in Nat /\ 1 <= latest /\ latest - w \in Int
          BY <1>3, <2>1, IndexerAssumption
        <5>2. PICK m \in Int : m = latest - w
          BY <5>1
        <5>3. Max({1, m}) \in {1, m} /\ Max({1, m}) >= 1
          BY LargerOfTwo
        <5>4. start = Max({1, m})
          BY <4>2, <5>2
        <5>5. QED
          BY <5>1, <5>2, <5>3, <5>4
      <4>3. QED
        BY <3>1, <4>1, <4>2 DEF Starts
    <3>3. /\ start..tip \in SUBSET (1..Tip)
          /\ (since + 1)..(start - 1) \in SUBSET (1..Tip)
      BY <1>3, <2>1, <3>1, <3>2
    <3>4. (since + 1)..latest \subseteq (start..tip) \union ((since + 1)..(start - 1))
      BY <1>3, <2>1, <3>1, <3>2
    <3>5. QED
      BY <3>1, <3>3, <3>4, Zenon
  <2>4. QED
    BY <2>1, <2>2, <2>3
<1>5. PICK latest \in since..Tip, found \in SUBSET (1..Tip), gap \in SUBSET (1..Tip) :
        /\ (since + 1)..latest \subseteq found \union gap
        /\ \/ found = r.found /\ gap = r.gap /\ Set(s, [step |-> "fill", latest |-> latest])
           \/ Set(s, [step |-> "fill", latest |-> latest, found |-> found, gap |-> gap])
  BY <1>4
<1>6. /\ sync' = [t \in Syncs |-> sync'[t]]
      /\ \A t \in Syncs \ {s} : sync'[t] = sync[t]
      /\ sync'[s] = [f \in Fields |-> sync'[s][f]]
      /\ sync'[s].step = "fill" /\ sync'[s].latest = latest
      /\ sync'[s].found = found /\ sync'[s].gap = gap
      /\ \A f \in Fields \ {"step", "latest", "found", "gap"} : sync'[s][f] = r[f]
  <2>1. CASE found = r.found /\ gap = r.gap /\ Set(s, [step |-> "fill", latest |-> latest])
    <3> DEFINE fields == [step |-> "fill", latest |-> latest]
    <3>1. DOMAIN fields = {"step", "latest"} /\ fields["step"] = "fill" /\ fields["latest"] = latest
      OBVIOUS
    <3>2. Set(s, fields)
      BY <2>1
    <3> HIDE DEF fields
    <3>3. /\ sync' = [t \in Syncs |-> sync'[t]]
          /\ \A t \in Syncs \ {s} : sync'[t] = sync[t]
          /\ sync'[s] = [f \in Fields |-> sync'[s][f]]
          /\ \A f \in Fields :
               sync'[s][f] = IF f \in DOMAIN fields THEN fields[f] ELSE sync[s][f]
      BY <1>1, <3>2, Changed
    <3>4. QED
      BY <2>1, <3>1, <3>3 DEF Fields
  <2>2. CASE Set(s, [step |-> "fill", latest |-> latest, found |-> found, gap |-> gap])
    <3> DEFINE fields == [step |-> "fill", latest |-> latest, found |-> found, gap |-> gap]
    <3>1. /\ DOMAIN fields = {"step", "latest", "found", "gap"}
          /\ fields["step"] = "fill" /\ fields["latest"] = latest
          /\ fields["found"] = found /\ fields["gap"] = gap
      OBVIOUS
    <3>2. Set(s, fields)
      BY <2>2
    <3> HIDE DEF fields
    <3>3. /\ sync' = [t \in Syncs |-> sync'[t]]
          /\ \A t \in Syncs \ {s} : sync'[t] = sync[t]
          /\ sync'[s] = [f \in Fields |-> sync'[s][f]]
          /\ \A f \in Fields :
               sync'[s][f] = IF f \in DOMAIN fields THEN fields[f] ELSE sync[s][f]
      BY <1>1, <3>2, Changed
    <3>4. QED
      BY <3>1, <3>3 DEF Fields
  <2>3. QED
    BY <1>5, <2>1, <2>2
<1>7. /\ sync'[s].seen = r.seen /\ sync'[s].gaps = r.gaps /\ sync'[s].complete = r.complete
      /\ sync'[s].gapsOnly = r.gapsOnly /\ sync'[s].onChain = r.onChain
      /\ sync'[s].inMirror = r.inMirror /\ sync'[s].rootCount = r.rootCount
      /\ sync'[s].mismatch = r.mismatch
  BY <1>6 DEF Fields
<1>8. latest \in Nat /\ latest \in 0..Tip /\ latest # 0 /\ latest >= since
  BY <1>3, <1>5
<1>9. sync'[s] \in SyncRecords
  <2>1. "fill" \in Steps /\ found \in SUBSET Nat /\ gap \in SUBSET Nat
    BY <1>3, <1>5 DEF Steps
  <2>2. QED
    BY <1>1, <1>6, <1>7, <1>8, <2>1, FieldTypes, IsRecord
<1>10. SyncInv(s)'
  BY <1>1, <1>2, <1>5, <1>6, <1>7, <1>8 DEF SyncInv, At, Tip
<1>11. OwnerInv(s)'
  BY <1>1, <1>2, <1>3, <1>5, <1>6, <1>7, <1>8 DEF OwnerInv, At, Filled
<1>12. QED
  BY <1>1, <1>2, <1>6, <1>9, <1>10, <1>11, OneSync DEF ChainInv

\* What a fill leaves: ledgers that were asked for are filled, still pending, or
\* the mirror gives up on being whole.
LEMMA FillLeaves ==
  ASSUME IndexerInv, NEW s \in Syncs, Fill(s)
  PROVE  \E filled \in SUBSET (1..Tip), gaps \in SUBSET (1..Tip), only \in BOOLEAN :
           /\ scanned' = scanned \union filled
           /\ \A l \in sync[s].seen.gaps \union sync[s].gap :
                l \in filled \/ ~only \/ l \in gaps
           /\ only => sync[s].seen.complete \/ sync[s].seen.gapsOnly
           /\ Set(s, [step |-> "write", gap |-> {},
                      seen |-> [NoIndex EXCEPT !.rootCount = sync[s].seen.rootCount,
                                               !.mismatch = sync[s].seen.mismatch],
                      found |-> (sync[s].found \union filled) \ mirrored,
                      gaps |-> gaps,
                      complete |-> only /\ gaps = {},
                      gapsOnly |-> only /\ gaps # {}])
<1> DEFINE pending == sync[s].seen.gaps
           gap == sync[s].gap
<1>1. /\ Tip \in Nat /\ pending \subseteq 1..Tip /\ gap \subseteq 1..Tip
  BY LeafFacts DEF IndexerInv, SyncInv, ChainInv, Tip
<1>2. PICK lake \in LakeSettings, ranges \in SUBSET Asked(s) :
        /\ ~lake => ranges = {}
        /\ scanned' = scanned \union UNION ranges
        /\ LET left == Asked(s) \ ranges
               new == Ranges(gap) \intersect left
               burnt == BurntGap(lake, UNION new)
               gaps == (UNION (left \ new)) \union StaysPending(lake, UNION new)
               only == GapsOnly(sync[s].seen, burnt)
           IN Set(s, [step |-> "write", gap |-> {},
                      seen |-> [NoIndex EXCEPT !.rootCount = sync[s].seen.rootCount,
                                               !.mismatch = sync[s].seen.mismatch],
                      found |-> (sync[s].found \union UNION ranges) \ mirrored,
                      gaps |-> gaps,
                      complete |-> only /\ gaps = {},
                      gapsOnly |-> only /\ gaps # {}])
  BY DEF Fill
<1>3. PICK left : left = Asked(s) \ ranges
  OBVIOUS
<1>4. PICK new : new = Ranges(gap) \intersect left
  OBVIOUS
<1>5. PICK burnt : burnt = BurntGap(lake, UNION new)
  OBVIOUS
<1>6. PICK gaps, stays : /\ gaps = (UNION (left \ new)) \union stays
                         /\ stays = StaysPending(lake, UNION new)
  OBVIOUS
<1>7. PICK only : only = GapsOnly(sync[s].seen, burnt)
  OBVIOUS
<1>8. PICK filled : filled = UNION ranges
  OBVIOUS
<1>9. Set(s, [step |-> "write", gap |-> {},
              seen |-> [NoIndex EXCEPT !.rootCount = sync[s].seen.rootCount,
                                       !.mismatch = sync[s].seen.mismatch],
              found |-> (sync[s].found \union filled) \ mirrored,
              gaps |-> gaps,
              complete |-> only /\ gaps = {},
              gapsOnly |-> only /\ gaps # {}])
  BY <1>2, <1>3, <1>4, <1>5, <1>6, <1>7, <1>8
<1>10. /\ \A r \in Asked(s) : r # {} /\ r \subseteq 1..Tip
       /\ \A l \in pending \union gap : \E r \in Asked(s) : l \in r
  <2>1. \A r \in Asked(s) : r # {} /\ r \subseteq 1..Tip
    BY <1>1, RangesWithin DEF Asked
  <2>2. ASSUME NEW l \in pending
        PROVE  \E r \in Asked(s) : l \in r
    BY <1>1, RangesCover DEF Asked
  <2>3. ASSUME NEW l \in gap
        PROVE  \E r \in Asked(s) : l \in r
    BY <1>1, RangesCover DEF Asked
  <2>4. QED
    BY <2>1, <2>2, <2>3
<1>11. filled \subseteq 1..Tip
  BY <1>2, <1>8, <1>10
<1>12. UNION new \subseteq 1..Tip /\ UNION (left \ new) \subseteq 1..Tip
  BY <1>3, <1>4, <1>10
<1>13. /\ gaps \subseteq 1..Tip
       /\ gaps = (UNION (left \ new)) \union stays
       /\ lake => stays = UNION new
  <2>1. lake \in BOOLEAN
    BY IndexerAssumption
  <2>2. stays \in {UNION new, {}} /\ (lake => stays = UNION new)
    BY <1>6, <2>1, Zenon DEF StaysPending
  <2>3. stays \in {UNION new, {}}
    BY <2>2, Zenon
  <2>4. gaps = (UNION (left \ new)) \union stays
    BY <1>6, Zenon
  <2>5. gaps \subseteq 1..Tip
    <3>1. stays \subseteq 1..Tip
      BY <1>12, <2>3
    <3>2. UNION (left \ new) \subseteq 1..Tip
      BY <1>12
    <3>3. QED
      BY <2>4, <3>1, <3>2, UnionOfTwo
  <2>6. QED
    BY <2>2, <2>4, <2>5, Zenon
<1>14. burnt \in BOOLEAN /\ (burnt <=> UNION new # {} /\ ~lake)
  BY <1>5 DEF BurntGap
<1>15. only \in BOOLEAN /\ (only => ~burnt /\ (sync[s].seen.complete \/ sync[s].seen.gapsOnly))
  BY <1>7, <1>14 DEF GapsOnly
<1>16. ASSUME NEW l \in pending \union gap, l \notin filled, only
       PROVE  l \in gaps
  <2>1. PICK r \in left : l \in r
    BY <1>3, <1>8, <1>10, <1>16
  <2>2. CASE r \notin new
    BY <1>6, <2>1, <2>2
  <2>3. CASE r \in new
    <3>1. l \in UNION new
      BY <2>1, <2>3
    <3>2. lake
      BY <1>14, <1>15, <1>16, <3>1
    <3>3. stays = UNION new
      BY <1>13, <3>2, Zenon
    <3>4. gaps = (UNION (left \ new)) \union stays
      BY <1>13, Zenon
    <3>5. QED
      BY <3>1, <3>3, <3>4, UnionOfTwo
  <2>4. QED
    BY <2>2, <2>3
<1>17. /\ scanned' = scanned \union filled
       /\ only => sync[s].seen.complete \/ sync[s].seen.gapsOnly
  BY <1>2, <1>8, <1>15
<1>18. \A l \in pending \union gap : l \in filled \/ ~only \/ l \in gaps
  BY <1>16
<1> HIDE DEF pending, gap
<1>19. /\ filled \in SUBSET (1..Tip) /\ gaps \in SUBSET (1..Tip) /\ only \in BOOLEAN
  BY <1>11, <1>13, <1>15
<1>20. QED
  BY <1>9, <1>17, <1>18, <1>19, ZenonT(40) DEF pending, gap

LEMMA FillKeeps ==
  ASSUME IndexerInv, NEW s \in Syncs, Fill(s)
  PROVE  IndexerInv'
<1> DEFINE r == sync[s]
           n == sync'[s]
<1>1. /\ ChainInv /\ IndexInv /\ sync \in [Syncs -> SyncRecords]
      /\ SyncInv(s) /\ OwnerInv(s) /\ r \in SyncRecords
  BY DEF IndexerInv
<1>2. /\ r.step = "fill"
      /\ UNCHANGED <<chain, oldest, index, mirrored>>
  BY DEF Fill, At
<1>3. PICK filled \in SUBSET (1..Tip), gaps \in SUBSET (1..Tip), only \in BOOLEAN :
           /\ scanned' = scanned \union filled
           /\ \A l \in r.seen.gaps \union r.gap : l \in filled \/ ~only \/ l \in gaps
           /\ only => r.seen.complete \/ r.seen.gapsOnly
           /\ Set(s, [step |-> "write", gap |-> {},
                      seen |-> [NoIndex EXCEPT !.rootCount = r.seen.rootCount,
                                               !.mismatch = r.seen.mismatch],
                      found |-> (r.found \union filled) \ mirrored,
                      gaps |-> gaps,
                      complete |-> only /\ gaps = {},
                      gapsOnly |-> only /\ gaps # {}])
  BY FillLeaves
<1>4. PICK seen, found, complete, gapsOnly :
        /\ seen = [NoIndex EXCEPT !.rootCount = r.seen.rootCount, !.mismatch = r.seen.mismatch]
        /\ found = (r.found \union filled) \ mirrored
        /\ complete = (only /\ gaps = {})
        /\ gapsOnly = (only /\ gaps # {})
  OBVIOUS
<1>5. /\ sync' = [t \in Syncs |-> sync'[t]]
      /\ \A t \in Syncs \ {s} : sync'[t] = sync[t]
      /\ n = [f \in Fields |-> n[f]]
      /\ n.step = "write" /\ n.gap = {} /\ n.seen = seen /\ n.found = found
      /\ n.gaps = gaps /\ n.complete = complete /\ n.gapsOnly = gapsOnly
      /\ n.latest = r.latest /\ n.onChain = r.onChain /\ n.inMirror = r.inMirror
      /\ n.rootCount = r.rootCount /\ n.mismatch = r.mismatch
  <2> DEFINE fields == [step |-> "write", gap |-> {}, seen |-> seen, found |-> found,
                        gaps |-> gaps, complete |-> complete, gapsOnly |-> gapsOnly]
  <2>1. /\ DOMAIN fields = {"step", "gap", "seen", "found", "gaps", "complete", "gapsOnly"}
        /\ fields["step"] = "write" /\ fields["gap"] = {} /\ fields["seen"] = seen
        /\ fields["found"] = found /\ fields["gaps"] = gaps
        /\ fields["complete"] = complete /\ fields["gapsOnly"] = gapsOnly
    OBVIOUS
  <2>2. Set(s, fields)
    BY <1>3, <1>4
  <2> HIDE DEF fields
  <2>3. /\ sync' = [t \in Syncs |-> sync'[t]]
        /\ \A t \in Syncs \ {s} : sync'[t] = sync[t]
        /\ n = [f \in Fields |-> n[f]]
        /\ \A f \in Fields : n[f] = IF f \in DOMAIN fields THEN fields[f] ELSE r[f]
    BY <1>1, <2>2, Changed
  <2>4. QED
    BY <2>1, <2>3 DEF Fields
<1>6. /\ Tip \in Nat /\ 1 <= Tip /\ Leaves(chain) \in Nat /\ LeafSet(chain, 0) = {}
      /\ r.seen \in Marks /\ r.latest \in 0..Tip
  BY <1>1, LeafFacts, FieldTypes DEF ChainInv, Tip, SyncInv
<1>7. /\ seen \in Marks /\ seen.gaps = {} /\ seen.published = 0
      /\ seen.rootCount = r.seen.rootCount
  BY <1>4, <1>6 DEF Marks, NoIndex
<1>8. /\ found \subseteq 1..Tip /\ complete \in BOOLEAN /\ gapsOnly \in BOOLEAN
  BY <1>1, <1>3, <1>4 DEF SyncInv
<1>9. n \in SyncRecords
  <2>1. /\ "write" \in Steps /\ found \in SUBSET Nat /\ gaps \in SUBSET Nat
        /\ {} \in SUBSET Nat
    BY <1>3, <1>6, <1>8 DEF Steps
  <2>2. /\ r.latest \in Nat /\ r.onChain \in Int /\ r.inMirror \in Int /\ r.rootCount \in Nat
        /\ r.mismatch \in BOOLEAN
    BY <1>1, FieldTypes
  <2>3. QED
    BY <1>5, <1>7, <1>8, <2>1, <2>2, IsRecord
<1>10. SyncInv(s)'
  <2>1. /\ r.onChain = -1 /\ r.seen.rootCount # 0 /\ r.latest # 0
        /\ r.seen.rootCount \in 0..Leaves(chain) /\ r.rootCount \in 0..Leaves(chain)
        /\ LeafSet(chain, r.seen.rootCount) \subseteq mirrored
        /\ LeafSet(chain, r.rootCount) \subseteq mirrored
    BY <1>1, <1>2 DEF SyncInv, At
  <2>2. /\ n.step = "write" /\ n.gap = {} /\ n.gaps \subseteq 1..Tip /\ n.found \subseteq 1..Tip
        /\ n.seen.gaps = {} /\ n.seen.published = 0 /\ n.latest \in 0..Tip
        /\ n.seen.rootCount = r.seen.rootCount /\ n.rootCount = r.rootCount
        /\ n.onChain = r.onChain /\ n.latest = r.latest
    BY <1>3, <1>5, <1>6, <1>7, <1>8
  <2> HIDE DEF n
  <2>3. /\ n.found \subseteq 1..Tip /\ n.gap \subseteq 1..Tip /\ n.gaps \subseteq 1..Tip
        /\ n.seen.gaps \subseteq 1..Tip /\ n.seen.published \in 0..Tip
        /\ n.onChain = -1 /\ n.latest # 0 /\ n.seen.rootCount # 0
        /\ n.seen.rootCount \in 0..Leaves(chain) /\ n.rootCount \in 0..Leaves(chain)
        /\ LeafSet(chain, n.seen.rootCount) \subseteq mirrored
        /\ LeafSet(chain, n.rootCount) \subseteq mirrored
    BY <1>6, <2>1, <2>2
  <2> USE DEF n
  <2>4. QED
    BY <1>2, <2>2, <2>3 DEF SyncInv, At, Tip
<1>11. ASSUME NEW l, OwnsUp(r.seen, l), l \notin filled
       PROVE  OwnsUp(n, l)
  BY <1>3, <1>4, <1>5, <1>11 DEF OwnsUp
<1>12. ASSUME NEW l \in r.gap, l \notin filled
       PROVE  OwnsUp(n, l)
  BY <1>3, <1>4, <1>5, <1>12 DEF OwnsUp
<1>13. OwnerInv(s)'
  <2>1. SUFFICES ASSUME index.owner = s
                 PROVE  OwnerInv(s)'
    BY <1>2 DEF OwnerInv
  <2>2. /\ r.latest >= index.published
        /\ (index.published + 1)..r.latest \subseteq r.found \union r.gap
        /\ r.onChain = -1
        /\ r.seen.complete = index.complete /\ r.seen.gapsOnly = index.gapsOnly
        /\ r.seen.gaps = index.gaps
    BY <1>1, <1>2, <2>1 DEF OwnerInv, SyncInv, At
  <2>3. ASSUME NEW l, OwnsUp(index, l), l \notin filled
        PROVE  OwnsUp(n, l)
    BY <1>11, <2>2, <2>3 DEF OwnsUp
  <2>4. ASSUME NEW l \in SpendsIn(chain, 1..r.latest) \ (mirrored \union found)
        PROVE  OwnsUp(n, l)
    <3>1. /\ l \in 1..r.latest /\ l \notin mirrored /\ l \notin r.found /\ l \notin filled
      BY <1>4 DEF SpendsIn
    <3>2. index.published \in Nat /\ r.latest \in Nat
      BY <1>1, <1>6 DEF IndexInv
    <3>3. CASE l <= index.published
      <4>1. l \in SpendsIn(chain, 1..index.published) \ mirrored
        BY <3>1, <3>2, <3>3 DEF SpendsIn
      <4>2. OwnsUp(index, l)
        BY <1>1, <4>1 DEF IndexInv
      <4>3. QED
        BY <2>3, <3>1, <4>2
    <3>4. CASE l > index.published
      <4>1. l \in r.gap
        BY <2>2, <3>1, <3>2, <3>4
      <4>2. QED
        BY <1>12, <3>1, <4>1
    <3>5. QED
      BY <3>1, <3>2, <3>3, <3>4
  <2>5. \A l \in Ledgers : OwnsUp(index, l) => l \in scanned' \/ OwnsUp(n, l)
    BY <1>3, <2>3
  <2> HIDE DEF n
  <2>6. /\ n.step = "write" /\ n.found = found /\ n.latest = r.latest /\ n.onChain = r.onChain
    BY <1>5
  <2>7. /\ \A l \in SpendsIn(chain, 1..n.latest) \ (mirrored \union n.found) : OwnsUp(n, l)
        /\ n.latest >= index.published /\ n.onChain = -1
    BY <2>2, <2>4, <2>6
  <2> USE DEF n
  <2>8. QED
    BY <1>2, <2>5, <2>6, <2>7 DEF OwnerInv, At, OwnsUp
<1>14. scanned \subseteq scanned' /\ scanned' \subseteq 1..Tip /\ mirrored' \subseteq 1..Tip
  BY <1>1, <1>2, <1>3 DEF ChainInv
<1>15. QED
  BY <1>1, <1>2, <1>5, <1>9, <1>10, <1>13, <1>14, OneSync

LEMMA WriteKeeps ==
  ASSUME IndexerInv, NEW s \in Syncs, Write(s)
  PROVE  IndexerInv'
<1> DEFINE r == sync[s]
           n == sync'[s]
<1>1. /\ ChainInv /\ IndexInv /\ sync \in [Syncs -> SyncRecords]
      /\ SyncInv(s) /\ OwnerInv(s) /\ r \in SyncRecords
  BY DEF IndexerInv
<1>2. /\ r.step = "write"
      /\ UNCHANGED <<chain, oldest, index, scanned>>
  BY DEF Write, At
<1>3. r.found \subseteq 1..Tip /\ mirrored \subseteq 1..Tip /\ Tip \in Nat
  BY <1>1, LeafFacts DEF SyncInv, ChainInv, Tip
<1>4. \E found \in SUBSET (1..Tip), step \in {"write", "count"} :
        /\ mirrored' \union found = mirrored \union r.found
        /\ mirrored \subseteq mirrored'
        /\ step = "count" => found = {}
        /\ \/ found = r.found /\ Set(s, [step |-> step])
           \/ step = r.step /\ Set(s, [found |-> found])
  <2>1. CASE r.found = {}
    BY <1>3, <2>1 DEF Write
  <2>2. CASE r.found # {}
    <3>1. PICK l \in r.found :
            mirrored' = mirrored \union {l} /\ Set(s, [found |-> r.found \ {l}])
      BY <2>2 DEF Write
    <3>2. PICK found : found = r.found \ {l}
      OBVIOUS
    <3>3. /\ found \in SUBSET (1..Tip)
          /\ mirrored' \union found = mirrored \union r.found
          /\ mirrored \subseteq mirrored'
      BY <1>3, <3>1, <3>2
    <3>4. Set(s, [found |-> found])
      BY <3>1, <3>2
    <3>5. QED
      BY <1>2, <3>3, <3>4
  <2>3. QED
    BY <2>1, <2>2
<1>5. PICK found \in SUBSET (1..Tip), step \in {"write", "count"} :
        /\ mirrored' \union found = mirrored \union r.found
        /\ mirrored \subseteq mirrored'
        /\ step = "count" => found = {}
        /\ \/ found = r.found /\ Set(s, [step |-> step])
           \/ step = r.step /\ Set(s, [found |-> found])
  BY <1>4
<1>6. /\ sync' = [t \in Syncs |-> sync'[t]]
      /\ \A t \in Syncs \ {s} : sync'[t] = sync[t]
      /\ n = [f \in Fields |-> n[f]]
      /\ n.step = step /\ n.found = found
      /\ n.seen = r.seen /\ n.latest = r.latest /\ n.gap = r.gap /\ n.gaps = r.gaps
      /\ n.complete = r.complete /\ n.gapsOnly = r.gapsOnly /\ n.onChain = r.onChain
      /\ n.inMirror = r.inMirror /\ n.rootCount = r.rootCount /\ n.mismatch = r.mismatch
  <2>1. CASE found = r.found /\ Set(s, [step |-> step])
    BY <1>1, <2>1, Changed DEF Fields
  <2>2. CASE step = r.step /\ Set(s, [found |-> found])
    BY <1>1, <2>2, Changed DEF Fields
  <2>3. QED
    BY <1>5, <2>1, <2>2
<1>7. n \in SyncRecords
  <2>1. step \in Steps /\ found \in SUBSET Nat
    BY <1>3 DEF Steps
  <2>2. QED
    BY <1>1, <1>6, <2>1, FieldTypes, IsRecord
<1>8. /\ mirrored \subseteq mirrored' /\ mirrored' \subseteq 1..Tip
      /\ scanned \subseteq scanned' /\ scanned' \subseteq 1..Tip
  BY <1>1, <1>2, <1>3, <1>5 DEF ChainInv
<1>9. SyncInv(s)'
  BY <1>1, <1>2, <1>5, <1>6, <1>8 DEF SyncInv, At, Tip
<1>10. OwnerInv(s)'
  <2>1. SUFFICES ASSUME index.owner = s
                 PROVE  OwnerInv(s)'
    BY <1>2 DEF OwnerInv
  <2>2. \A l : OwnsUp(r, l) => OwnsUp(n, l)
    BY <1>6 DEF OwnsUp
  <2>3. \A l \in SpendsIn(chain, 1..r.latest) \ (mirrored' \union found) : OwnsUp(n, l)
    BY <1>1, <1>2, <1>5, <2>1, <2>2 DEF OwnerInv, At, Filled
  <2>4. \A l \in Ledgers : OwnsUp(index, l) => l \in scanned' \/ OwnsUp(n, l)
    BY <1>1, <1>2, <2>1, <2>2 DEF OwnerInv, At, Filled
  <2>5. r.latest >= index.published /\ r.onChain = -1
    BY <1>1, <1>2, <2>1 DEF OwnerInv, SyncInv, At
  <2> HIDE DEF n
  <2>6. /\ \A l \in SpendsIn(chain, 1..n.latest) \ (mirrored' \union n.found) : OwnsUp(n, l)
        /\ n.latest >= index.published /\ n.onChain = -1
        /\ n.step \in {"write", "count"}
    BY <1>6, <2>3, <2>5
  <2> USE DEF n
  <2>7. QED
    BY <1>2, <2>4, <2>6 DEF OwnerInv, At, OwnsUp
<1>11. QED
  BY <1>2, <1>6, <1>7, <1>8, <1>9, <1>10, OneSync

\* Once a sync has written, only the counts and the roots are still to come: it
\* will publish no less than it owns up to.
LEMMA CountedKeeps ==
  ASSUME IndexerInv, NEW s \in Syncs,
         UNCHANGED <<chain, oldest, index, mirrored, scanned>>,
         sync[s].step \in {"count", "roots"},
         sync'[s].step \in {"count", "roots", "publish"},
         sync' = [t \in Syncs |-> sync'[t]], \A t \in Syncs \ {s} : sync'[t] = sync[t],
         sync'[s] \in SyncRecords, SyncInv(s)',
         sync'[s].latest = sync[s].latest, sync'[s].found = sync[s].found,
         sync'[s].complete = sync[s].complete, sync'[s].gapsOnly = sync[s].gapsOnly,
         sync'[s].gaps = sync[s].gaps,
         sync'[s].onChain \in {sync[s].onChain, Leaves(chain)}
  PROVE  IndexerInv'
<1> DEFINE r == sync[s]
           n == sync'[s]
<1>1. /\ ChainInv /\ IndexInv /\ OwnerInv(s)
  BY DEF IndexerInv
<1>2. OwnerInv(s)'
  <2>1. SUFFICES ASSUME index.owner = s
                 PROVE  OwnerInv(s)'
    BY DEF OwnerInv
  <2>2. \A l : OwnsUp(r, l) => OwnsUp(n, l)
    BY DEF OwnsUp
  <2>3. /\ \A l \in SpendsIn(chain, 1..n.latest) \ (mirrored \union n.found) : OwnsUp(n, l)
        /\ \A l \in Ledgers : OwnsUp(index, l) => l \in scanned \/ OwnsUp(n, l)
        /\ n.latest >= index.published
    BY <1>1, <2>1, <2>2 DEF OwnerInv, At, Filled
  <2>4. n.onChain # -1 => index.leaves <= n.onChain
    <3>1. index.leaves <= Leaves(chain)
      BY <1>1, LeafFacts DEF IndexInv, ChainInv
    <3>2. r.onChain # -1 => index.leaves <= r.onChain
      BY <1>1, <2>1 DEF OwnerInv, At
    <3>3. QED
      BY <3>1, <3>2
  <2>5. QED
    BY <2>3, <2>4 DEF OwnerInv, At, OwnsUp
<1>3. /\ mirrored' \subseteq 1..Tip /\ scanned' \subseteq 1..Tip
  BY <1>1 DEF ChainInv
<1>4. QED
  BY <1>2, <1>3, OneSync

LEMMA CountOnChainKeeps ==
  ASSUME IndexerInv, NEW s \in Syncs, CountOnChain(s)
  PROVE  IndexerInv'
<1> DEFINE r == sync[s]
           n == sync'[s]
<1>1. /\ ChainInv /\ sync \in [Syncs -> SyncRecords]
      /\ SyncInv(s) /\ r \in SyncRecords
  BY DEF IndexerInv
<1>2. /\ r.step = "count"
      /\ UNCHANGED <<chain, oldest, index, mirrored, scanned>>
  BY DEF CountOnChain, At
<1>3. PICK leaves, step :
        /\ leaves = Leaves(chain)
        /\ step = IF r.inMirror = -1 THEN "count" ELSE "roots"
        /\ Set(s, [onChain |-> leaves, step |-> step])
  BY ChainOperators DEF CountOnChain
<1>4. /\ sync' = [t \in Syncs |-> sync'[t]]
      /\ \A t \in Syncs \ {s} : sync'[t] = sync[t]
      /\ n = [f \in Fields |-> n[f]]
      /\ n.step = step /\ n.onChain = leaves
      /\ n.seen = r.seen /\ n.latest = r.latest /\ n.gap = r.gap /\ n.gaps = r.gaps
      /\ n.complete = r.complete /\ n.gapsOnly = r.gapsOnly /\ n.found = r.found
      /\ n.inMirror = r.inMirror /\ n.rootCount = r.rootCount /\ n.mismatch = r.mismatch
  BY <1>1, <1>3, Changed DEF Fields
<1>5. /\ leaves \in Int /\ leaves \in 1..Leaves(chain) /\ leaves # -1
      /\ step \in {"count", "roots"}
  BY <1>1, <1>3, LeafFacts DEF ChainInv
<1>6. n \in SyncRecords
  BY <1>1, <1>4, <1>5, FieldTypes, IsRecord DEF Steps
<1>7. SyncInv(s)'
  BY <1>1, <1>2, <1>4, <1>5 DEF SyncInv, At, Tip
<1>8. QED
  BY <1>2, <1>3, <1>4, <1>6, <1>7, CountedKeeps

LEMMA CountInMirrorKeeps ==
  ASSUME IndexerInv, NEW s \in Syncs, CountInMirror(s)
  PROVE  IndexerInv'
<1> DEFINE r == sync[s]
           n == sync'[s]
<1>1. /\ ChainInv /\ sync \in [Syncs -> SyncRecords]
      /\ SyncInv(s) /\ r \in SyncRecords
  BY DEF IndexerInv
<1>2. /\ r.step = "count"
      /\ UNCHANGED <<chain, oldest, index, mirrored, scanned>>
  BY DEF CountInMirror, At
<1>3. PICK count, step :
        /\ count = Cardinality(DepositsIn(chain, mirrored))
        /\ step = IF r.onChain = -1 THEN "count" ELSE "roots"
        /\ Set(s, [inMirror |-> count, step |-> step])
  BY ChainOperators DEF CountInMirror
<1>4. /\ sync' = [t \in Syncs |-> sync'[t]]
      /\ \A t \in Syncs \ {s} : sync'[t] = sync[t]
      /\ n = [f \in Fields |-> n[f]]
      /\ n.step = step /\ n.inMirror = count
      /\ n.seen = r.seen /\ n.latest = r.latest /\ n.gap = r.gap /\ n.gaps = r.gaps
      /\ n.complete = r.complete /\ n.gapsOnly = r.gapsOnly /\ n.found = r.found
      /\ n.onChain = r.onChain /\ n.rootCount = r.rootCount /\ n.mismatch = r.mismatch
  BY <1>1, <1>3, Changed DEF Fields
<1>5. count \in Int
  BY <1>1, <1>3, CountsAreNaturals DEF ChainInv
<1>6. step \in {"count", "roots"} /\ (step = "roots" => r.onChain # -1)
  BY <1>3
<1>7. n \in SyncRecords
  BY <1>1, <1>4, <1>5, <1>6, FieldTypes, IsRecord DEF Steps
<1>8. SyncInv(s)'
  BY <1>1, <1>2, <1>4, <1>6 DEF SyncInv, At, Tip
<1>9. QED
  BY <1>2, <1>4, <1>6, <1>7, <1>8, CountedKeeps

\* What advanceRoots leaves: roots up to the leaves on the chain, if none of
\* them is missing, or those from before with the mark that one is.
LEMMA AdvanceRootsLeaves ==
  ASSUME IndexerInv, NEW s \in Syncs, AdvanceRoots(s)
  PROVE  \E roots \in {sync[s].onChain, sync[s].seen.rootCount}, mismatch \in BOOLEAN :
           /\ LeafSet(chain, roots) \subseteq mirrored
           /\ mismatch \/ LeafSet(chain, sync[s].onChain) \subseteq mirrored
           /\ Set(s, [step |-> "publish", seen |-> NoIndex, inMirror |-> -1,
                      rootCount |-> roots, mismatch |-> mismatch])
<1>1. /\ SyncInv(s) /\ sync[s] \in SyncRecords
      /\ LeafSet(chain, sync[s].seen.rootCount) \subseteq mirrored
  BY DEF IndexerInv, SyncInv
<1>2. CASE RootsAdvance(s)
  <2>1. LeafSet(chain, sync[s].onChain) \subseteq mirrored
    BY <1>1, <1>2, ChainOperators DEF RootsAdvance
  <2>2. PICK verified \in BOOLEAN :
          Set(s, [step |-> "publish", seen |-> NoIndex, inMirror |-> -1,
                  rootCount |-> sync[s].onChain,
                  mismatch |-> ~verified /\ sync[s].seen.mismatch])
    BY <1>2 DEF AdvanceRoots
  <2>3. PICK mismatch : mismatch = (~verified /\ sync[s].seen.mismatch)
    OBVIOUS
  <2>4. mismatch \in BOOLEAN
    BY <2>3
  <2>5. QED
    BY <2>1, <2>2, <2>3, <2>4
<1>3. CASE ~RootsAdvance(s)
  BY <1>1, <1>3 DEF AdvanceRoots
<1>4. QED
  BY <1>2, <1>3

LEMMA AdvanceRootsKeeps ==
  ASSUME IndexerInv, NEW s \in Syncs, AdvanceRoots(s)
  PROVE  IndexerInv'
<1> DEFINE r == sync[s]
           n == sync'[s]
<1>1. /\ ChainInv /\ sync \in [Syncs -> SyncRecords]
      /\ SyncInv(s) /\ r \in SyncRecords
  BY DEF IndexerInv
<1>2. /\ r.step = "roots"
      /\ UNCHANGED <<chain, oldest, index, mirrored, scanned>>
  BY DEF AdvanceRoots, At
<1>3. PICK roots \in {r.onChain, r.seen.rootCount}, mismatch \in BOOLEAN :
        /\ LeafSet(chain, roots) \subseteq mirrored
        /\ mismatch \/ LeafSet(chain, r.onChain) \subseteq mirrored
        /\ Set(s, [step |-> "publish", seen |-> NoIndex, inMirror |-> -1,
                   rootCount |-> roots, mismatch |-> mismatch])
  BY AdvanceRootsLeaves
<1>4. PICK seen : seen = NoIndex
  OBVIOUS
<1>5. /\ sync' = [t \in Syncs |-> sync'[t]]
      /\ \A t \in Syncs \ {s} : sync'[t] = sync[t]
      /\ n = [f \in Fields |-> n[f]]
      /\ n.step = "publish" /\ n.inMirror = -1 /\ n.seen = seen
      /\ n.rootCount = roots /\ n.mismatch = mismatch
      /\ n.latest = r.latest /\ n.gap = r.gap /\ n.gaps = r.gaps
      /\ n.complete = r.complete /\ n.gapsOnly = r.gapsOnly /\ n.found = r.found
      /\ n.onChain = r.onChain
  <2> DEFINE fields == [step |-> "publish", seen |-> seen, inMirror |-> -1,
                        rootCount |-> roots, mismatch |-> mismatch]
  <2>1. /\ DOMAIN fields = {"step", "seen", "inMirror", "rootCount", "mismatch"}
        /\ fields["step"] = "publish" /\ fields["seen"] = seen /\ fields["inMirror"] = -1
        /\ fields["rootCount"] = roots /\ fields["mismatch"] = mismatch
    OBVIOUS
  <2>2. Set(s, fields)
    BY <1>3, <1>4
  <2> HIDE DEF fields
  <2>3. /\ sync' = [t \in Syncs |-> sync'[t]]
        /\ \A t \in Syncs \ {s} : sync'[t] = sync[t]
        /\ n = [f \in Fields |-> n[f]]
        /\ \A f \in Fields : n[f] = IF f \in DOMAIN fields THEN fields[f] ELSE r[f]
    BY <1>1, <2>2, Changed
  <2>4. QED
    BY <2>1, <2>3 DEF Fields
<1>6. /\ seen \in Marks /\ seen.gaps = {} /\ seen.published = 0 /\ seen.rootCount = 0
  BY <1>4 DEF Marks, NoIndex
<1>7. /\ Leaves(chain) \in Nat /\ LeafSet(chain, 0) = {} /\ Tip \in Nat
      /\ r.onChain \in 1..Leaves(chain) /\ r.seen.rootCount \in 1..Leaves(chain)
  BY <1>1, <1>2, LeafFacts DEF ChainInv, SyncInv, At, Tip
<1>8. roots \in Nat /\ roots \in 0..Leaves(chain) /\ roots # 0
  BY <1>3, <1>7
<1>9. n \in SyncRecords
  BY <1>1, <1>5, <1>6, <1>8, FieldTypes, IsRecord DEF Steps
<1>10. SyncInv(s)'
  <2>1. /\ n.step = "publish" /\ n.seen.gaps \subseteq 1..Tip /\ n.seen.published \in 0..Tip
        /\ n.seen.rootCount \in 0..Leaves(chain) /\ n.rootCount \in 0..Leaves(chain)
        /\ n.rootCount # 0 /\ LeafSet(chain, n.seen.rootCount) \subseteq mirrored
        /\ LeafSet(chain, n.rootCount) \subseteq mirrored
        /\ n.mismatch \/ LeafSet(chain, n.onChain) \subseteq mirrored
    BY <1>3, <1>5, <1>6, <1>7, <1>8
  <2>2. QED
    BY <1>1, <1>2, <1>5, <2>1 DEF SyncInv, At, Tip
<1>11. QED
  BY <1>2, <1>5, <1>9, <1>10, CountedKeeps
-----------------------------------------------------------------------------
(* A call begins and ends.                                                 *)

LEMMA AcquireKeeps ==
  ASSUME IndexerInv, NEW s \in Syncs, Acquire(s)
  PROVE  IndexerInv'
<1> DEFINE r == sync[s]
           n == sync'[s]
<1>1. /\ ChainInv /\ IndexInv /\ sync \in [Syncs -> SyncRecords]
      /\ \A t \in Syncs : SyncInv(t) /\ OwnerInv(t)
      /\ SyncInv(s) /\ r \in SyncRecords /\ index \in Marks
  BY DEF IndexerInv, IndexInv
<1>2. /\ r = NoSync
      /\ UNCHANGED <<chain, oldest, mirrored, scanned>>
      /\ index' = [index EXCEPT !.owner = s, !.leased = TRUE]
  BY <1>1 DEF Acquire, At, SyncInv
<1>3. PICK seen :
        /\ seen = [index EXCEPT !.owner = Nobody, !.leased = FALSE, !.healthy = FALSE,
                                !.leaves = 0]
        /\ Set(s, [step |-> "fetch", seen |-> seen])
  BY DEF Acquire
<1>4. /\ seen \in Marks /\ seen.published = index.published /\ seen.complete = index.complete
      /\ seen.gapsOnly = index.gapsOnly /\ seen.gaps = index.gaps
      /\ seen.rootCount = index.rootCount
  BY <1>1, <1>3 DEF Marks
<1>5. /\ sync' = [t \in Syncs |-> sync'[t]]
      /\ \A t \in Syncs \ {s} : sync'[t] = sync[t]
      /\ n = [f \in Fields |-> n[f]]
      /\ n.step = "fetch" /\ n.seen = seen
      /\ n.latest = 0 /\ n.found = {} /\ n.gap = {} /\ n.gaps = {}
      /\ n.complete = TRUE /\ n.gapsOnly = FALSE
      /\ n.onChain = -1 /\ n.inMirror = -1 /\ n.rootCount = 0 /\ n.mismatch = FALSE
  <2>1. /\ sync' = [t \in Syncs |-> sync'[t]]
        /\ \A t \in Syncs \ {s} : sync'[t] = sync[t]
        /\ n = [f \in Fields |-> n[f]]
        /\ n.step = "fetch" /\ n.seen = seen
        /\ \A f \in Fields \ {"step", "seen"} : n[f] = NoSync[f]
    BY <1>1, <1>2, <1>3, Changed DEF Fields
  <2>2. /\ NoSync.latest = 0 /\ NoSync.found = {} /\ NoSync.gap = {} /\ NoSync.gaps = {}
        /\ NoSync.complete = TRUE /\ NoSync.gapsOnly = FALSE
        /\ NoSync.onChain = -1 /\ NoSync.inMirror = -1 /\ NoSync.rootCount = 0
        /\ NoSync.mismatch = FALSE
    BY DEF NoSync
  <2>3. QED
    BY <2>1, <2>2 DEF Fields
<1>6. /\ index' \in Marks /\ SameMarks /\ index'.owner = s
      /\ index'.mismatch = index.mismatch /\ index'.rootCount = index.rootCount
      /\ index'.healthy = index.healthy
  BY <1>1, <1>2 DEF Marks, SameMarks
<1>7. s # Nobody
  BY IndexerAssumption
<1>8. Growth
  BY <1>1, <1>2, GrowthOnChain
<1>9. IndexInv'
  BY <1>1, <1>6, <1>7, <1>8, IndexKept
<1>10. /\ Tip \in Nat /\ 1 <= Tip /\ Leaves(chain) \in Nat /\ LeafSet(chain, 0) = {}
  BY <1>1, LeafFacts DEF ChainInv, Tip
<1>11. n \in SyncRecords
  <2>1. /\ {} \in SUBSET Nat /\ 0 \in Nat /\ -1 \in Int /\ "fetch" \in Steps
        /\ TRUE \in BOOLEAN /\ FALSE \in BOOLEAN
    BY DEF Steps
  <2>2. /\ n.step \in Steps /\ n.seen \in Marks /\ n.latest \in Nat
        /\ n.found \in SUBSET Nat /\ n.gap \in SUBSET Nat /\ n.gaps \in SUBSET Nat
        /\ n.complete \in BOOLEAN /\ n.gapsOnly \in BOOLEAN /\ n.onChain \in Int
        /\ n.inMirror \in Int /\ n.rootCount \in Nat /\ n.mismatch \in BOOLEAN
    BY <1>4, <1>5, <2>1
  <2>3. QED
    BY <1>5, <2>2, IsRecord
<1>12. SyncInv(s)'
  <2>1. /\ index.published \in 1..Tip /\ index.rootCount \in 1..Leaves(chain)
        /\ index.gaps \subseteq 1..Tip /\ LeafSet(chain, index.rootCount) \subseteq mirrored
    BY <1>1 DEF IndexInv
  <2>2. /\ n.step = "fetch" /\ n.latest = 0 /\ n.found = {} /\ n.gap = {} /\ n.gaps = {}
        /\ n.onChain = -1 /\ n.rootCount = 0
    BY <1>5
  <2>3. /\ n.seen.published \in 0..Tip /\ n.seen.published # 0
        /\ n.seen.rootCount \in 0..Leaves(chain) /\ n.seen.rootCount # 0
        /\ n.seen.gaps \subseteq 1..Tip /\ LeafSet(chain, n.seen.rootCount) \subseteq mirrored
    BY <1>4, <1>5, <1>10, <2>1
  <2> HIDE DEF n
  <2>4. /\ n.latest \in 0..Tip /\ n.rootCount \in 0..Leaves(chain)
        /\ LeafSet(chain, n.rootCount) \subseteq mirrored
        /\ n.found \subseteq 1..Tip /\ n.gap \subseteq 1..Tip /\ n.gaps \subseteq 1..Tip
    BY <1>10, <2>2
  <2> USE DEF n
  <2>5. QED
    BY <1>2, <2>2, <2>3, <2>4 DEF SyncInv, At, Tip
<1>13. OwnerInv(s)'
  BY <1>4, <1>5, <1>6 DEF OwnerInv, At, Filled, SameMarks
<1>14. \A t \in Syncs : SyncInv(t)'
  BY <1>1, <1>5, <1>8, <1>12, SyncKept
<1>15. \A t \in Syncs : OwnerInv(t)'
  BY <1>1, <1>5, <1>6, <1>8, <1>13, OwnerKept
<1>16. sync' \in [Syncs -> SyncRecords]
  <2>1. \A t \in Syncs : sync'[t] \in SyncRecords
    BY <1>1, <1>5, <1>11
  <2>2. QED
    BY <1>5, <2>1
<1>17. ChainInv'
  BY <1>1, <1>2 DEF ChainInv, Tip
<1>18. QED
  BY <1>9, <1>14, <1>15, <1>16, <1>17 DEF IndexerInv

LEMMA NoSyncIsRight ==
  /\ NoSync \in SyncRecords
  /\ \A s \in Syncs : ChainInv /\ sync[s] = NoSync => SyncInv(s) /\ OwnerInv(s)
<1>1. NoIndex \in Marks
  BY DEF NoIndex, Marks
<1>2. NoSync \in SyncRecords
  BY <1>1 DEF NoSync, SyncRecords, Steps
<1>3. ASSUME NEW s \in Syncs, ChainInv, sync[s] = NoSync
      PROVE  SyncInv(s) /\ OwnerInv(s)
  <2>1. /\ Tip \in Nat /\ Leaves(chain) \in Nat /\ LeafSet(chain, 0) = {}
    BY <1>3, LeafFacts DEF ChainInv, Tip
  <2>2. /\ sync[s].step = "idle" /\ sync[s].latest = 0 /\ sync[s].found = {}
        /\ sync[s].gap = {} /\ sync[s].gaps = {} /\ sync[s].onChain = -1
        /\ sync[s].rootCount = 0
        /\ sync[s].seen.published = 0 /\ sync[s].seen.gaps = {}
        /\ sync[s].seen.rootCount = 0
    BY <1>3 DEF NoSync, NoIndex
  <2>3. SyncInv(s)
    BY <1>3, <2>1, <2>2 DEF SyncInv, At
  <2>4. OwnerInv(s)
    BY <2>2 DEF OwnerInv, At
  <2>5. QED
    BY <2>3, <2>4
<1>4. QED
  BY <1>2, <1>3

\* A call that ends, however it does, leaves what the others hold alone.
LEMMA CallEnds ==
  ASSUME IndexerInv, NEW s \in Syncs, UNCHANGED <<chain, oldest, mirrored, scanned>>,
         sync' = [sync EXCEPT ![s] = NoSync], IndexInv',
         \A t \in Syncs : index'.owner = t => index.owner = t /\ SameMarks
  PROVE  IndexerInv'
<1>1. /\ ChainInv /\ sync \in [Syncs -> SyncRecords]
      /\ \A t \in Syncs : SyncInv(t) /\ OwnerInv(t)
  BY DEF IndexerInv
<1>2. Growth
  BY <1>1, GrowthOnChain
<1>3. ChainInv'
  BY <1>1 DEF ChainInv, Tip
<1>4. /\ sync'[s] = NoSync /\ sync' \in [Syncs -> SyncRecords]
      /\ \A t \in Syncs \ {s} : sync'[t] = sync[t]
  BY <1>1, NoSyncIsRight
<1>5. SyncInv(s)' /\ OwnerInv(s)'
  <2>1. /\ Len(chain') \in Nat /\ Leaves(chain') \in Nat /\ LeafSet(chain', 0) = {}
    BY <1>3, LeafFacts DEF ChainInv
  <2>2. /\ sync'[s].step = "idle" /\ sync'[s].latest = 0 /\ sync'[s].found = {}
        /\ sync'[s].gap = {} /\ sync'[s].gaps = {} /\ sync'[s].onChain = -1
        /\ sync'[s].rootCount = 0
        /\ sync'[s].seen.published = 0 /\ sync'[s].seen.gaps = {}
        /\ sync'[s].seen.rootCount = 0
    BY <1>4 DEF NoSync, NoIndex
  <2>3. QED
    BY <1>4, <2>1, <2>2 DEF SyncInv, OwnerInv, At, Tip
<1>6. \A t \in Syncs : SyncInv(t)'
  BY <1>1, <1>2, <1>4, <1>5, SyncKept
<1>7. \A t \in Syncs : OwnerInv(t)'
  BY <1>1, <1>2, <1>4, <1>5, OwnerKept
<1>8. QED
  BY <1>3, <1>4, <1>6, <1>7 DEF IndexerInv

\* What a call publishes while it has the lease is in the mirror, or owned up to.
LEMMA PublishedIsRight ==
  ASSUME IndexerInv, NEW s \in Syncs, Publish(s), OwnsIndex(s)
  PROVE  /\ IndexInv'
         /\ index'.owner = Nobody
         /\ index'.published = sync[s].latest /\ index'.leaves = sync[s].onChain
         /\ index'.complete = sync[s].complete /\ index'.gapsOnly = sync[s].gapsOnly
         /\ index'.gaps = sync[s].gaps
<1> DEFINE r == sync[s]
<1>1. /\ ChainInv /\ IndexInv /\ SyncInv(s) /\ OwnerInv(s) /\ r \in SyncRecords
      /\ index \in Marks
  BY DEF IndexerInv, IndexInv
<1>2. /\ r.step = "publish" /\ index.owner = s
      /\ UNCHANGED <<chain, oldest, mirrored, scanned>>
  BY DEF Publish, At, OwnsIndex
<1>3. PICK healthy : healthy = (r.complete /\ ~r.mismatch)
  OBVIOUS
<1>4. index' = [Released EXCEPT
                  !.published = r.latest, !.leaves = r.onChain, !.complete = r.complete,
                  !.gapsOnly = r.gapsOnly, !.gaps = r.gaps, !.mismatch = r.mismatch,
                  !.rootCount = r.rootCount, !.healthy = healthy]
  BY <1>3 DEF Publish
<1>5. Released \in Marks /\ Released.owner = Nobody /\ Released.leased = FALSE
  BY <1>1 DEF Released, Marks
<1>6. /\ r.latest \in Nat /\ r.rootCount \in Nat /\ r.gaps \in SUBSET Nat
      /\ r.complete \in BOOLEAN /\ r.gapsOnly \in BOOLEAN /\ r.mismatch \in BOOLEAN
      /\ healthy \in BOOLEAN
  BY <1>1, <1>3, FieldTypes
<1>7. /\ Tip \in Nat /\ Leaves(chain) \in Nat
      /\ r.onChain \in 1..Leaves(chain) /\ r.latest \in 1..Tip
      /\ r.rootCount \in 1..Leaves(chain) /\ r.gaps \subseteq 1..Tip
      /\ LeafSet(chain, r.rootCount) \subseteq mirrored
      /\ r.mismatch \/ LeafSet(chain, r.onChain) \subseteq mirrored
      /\ r.found = {}
  BY <1>1, <1>2, <1>6, LeafFacts DEF ChainInv, SyncInv, At, Tip
<1>8. \A l \in SpendsIn(chain, 1..r.latest) \ mirrored : OwnsUp(r, l)
  BY <1>1, <1>2, <1>7 DEF OwnerInv, At, Filled
<1> HIDE DEF r
<1>9. /\ index' \in Marks /\ index'.owner = Nobody /\ index'.leased = FALSE
      /\ index'.published = r.latest /\ index'.leaves = r.onChain
      /\ index'.complete = r.complete /\ index'.gapsOnly = r.gapsOnly
      /\ index'.gaps = r.gaps /\ index'.mismatch = r.mismatch
      /\ index'.rootCount = r.rootCount /\ index'.healthy = healthy
  <2>1. r.onChain \in Nat
    BY <1>7
  <2>2. DOMAIN Released = {"published", "leaves", "complete", "gapsOnly", "gaps", "mismatch",
                           "rootCount", "healthy", "owner", "leased"}
    BY <1>5 DEF Marks
  <2>3. QED
    BY <1>4, <1>5, <1>6, <2>1, <2>2 DEF Marks
<1>10. IndexInv'
  <2>1. \A l \in SpendsIn(chain, 1..index'.published) \ mirrored : OwnsUp(index', l)
    BY <1>8, <1>9 DEF OwnsUp
  <2>2. index'.healthy => index'.complete /\ ~index'.mismatch
    BY <1>3, <1>9
  <2>3. QED
    BY <1>2, <1>7, <1>9, <2>1, <2>2 DEF IndexInv, Tip, OwnsUp
<1>11. QED
  BY <1>9, <1>10 DEF r

LEMMA PublishKeeps ==
  ASSUME IndexerInv, NEW s \in Syncs, Publish(s)
  PROVE  IndexerInv'
<1>1. /\ UNCHANGED <<chain, oldest, mirrored, scanned>>
      /\ sync' = [sync EXCEPT ![s] = NoSync]
  BY DEF Publish
<1>2. CASE OwnsIndex(s)
  <2>1. IndexInv' /\ index'.owner = Nobody
    BY <1>2, PublishedIsRight
  <2>2. \A t \in Syncs : index'.owner # t
    BY <2>1, IndexerAssumption
  <2>3. QED
    BY <1>1, <2>1, <2>2, CallEnds
<1>3. CASE ~OwnsIndex(s)
  <2>1. index' = index
    BY <1>3 DEF Publish
  <2>2. IndexInv' /\ SameMarks
    BY <1>1, <2>1 DEF IndexerInv, IndexInv, SameMarks, Tip
  <2>3. QED
    BY <1>1, <2>1, <2>2, CallEnds
<1>4. QED
  BY <1>2, <1>3

LEMMA ThrowKeeps ==
  ASSUME IndexerInv, NEW s \in Syncs, Throw(s)
  PROVE  IndexerInv'
<1>1. /\ UNCHANGED <<chain, oldest, mirrored, scanned>>
      /\ sync' = [sync EXCEPT ![s] = NoSync]
      /\ ChainInv /\ IndexInv /\ index \in Marks
  BY DEF Throw, IndexerInv, IndexInv
<1>2. Growth
  BY <1>1, GrowthOnChain
<1>3. CASE OwnsIndex(s)
  <2>1. index' = [Released EXCEPT !.healthy = FALSE]
    BY <1>3 DEF Throw
  <2>2. /\ index' \in Marks /\ index'.owner = Nobody /\ index'.leased = FALSE
        /\ SameMarks /\ index'.mismatch = index.mismatch
        /\ index'.rootCount = index.rootCount /\ index'.healthy = FALSE
    BY <1>1, <2>1 DEF Released, Marks, SameMarks
  <2>3. IndexInv'
    BY <1>1, <1>2, <2>2, IndexKept
  <2>4. \A t \in Syncs : index'.owner # t
    BY <2>2, IndexerAssumption
  <2>5. QED
    BY <1>1, <2>3, <2>4, CallEnds
<1>4. CASE ~OwnsIndex(s)
  <2>1. index' = index
    BY <1>4 DEF Throw
  <2>2. IndexInv' /\ SameMarks
    BY <1>1, <2>1 DEF IndexInv, SameMarks, Tip
  <2>3. QED
    BY <1>1, <2>1, <2>2, CallEnds
<1>5. QED
  BY <1>3, <1>4

LEMMA CrashKeeps ==
  ASSUME IndexerInv, NEW s \in Syncs, Crash(s)
  PROVE  IndexerInv'
<1>1. /\ UNCHANGED <<chain, oldest, index, mirrored, scanned>>
      /\ sync' = [sync EXCEPT ![s] = NoSync]
  BY DEF Crash
<1>2. IndexInv' /\ SameMarks
  BY <1>1 DEF IndexerInv, IndexInv, SameMarks, Tip
<1>3. QED
  BY <1>1, <1>2, CallEnds
-----------------------------------------------------------------------------
(* The lease, the chain and the nodes.                                     *)

\* What happens outside of the calls leaves what they hold right.
LEMMA OutsideKeeps ==
  ASSUME IndexerInv, Growth, ChainInv', sync' = sync,
         index' \in Marks, SameMarks, index'.owner = index.owner,
         index'.mismatch = index.mismatch, index'.rootCount = index.rootCount,
         index'.healthy = index.healthy, index'.leased => index.leased
  PROVE  IndexerInv'
<1>1. /\ ChainInv /\ IndexInv /\ sync \in [Syncs -> SyncRecords]
      /\ \A t \in Syncs : SyncInv(t) /\ OwnerInv(t)
      /\ index.leased => index.owner # Nobody
  BY DEF IndexerInv, IndexInv
<1>2. IndexInv'
  BY <1>1, IndexKept
<1>3. \A t \in Syncs : SyncInv(t)'
  BY <1>1, SyncKept
<1>4. \A t \in Syncs : OwnerInv(t)'
  BY <1>1, OwnerKept
<1>5. QED
  BY <1>1, <1>2, <1>3, <1>4 DEF IndexerInv

LEMMA LeaseLapsesKeeps ==
  ASSUME IndexerInv, LeaseLapses
  PROVE  IndexerInv'
<1>1. /\ ChainInv /\ IndexInv /\ index \in Marks
      /\ UNCHANGED <<chain, oldest, mirrored, scanned, sync>>
      /\ index' = [index EXCEPT !.leased = FALSE]
  BY DEF IndexerInv, IndexInv, LeaseLapses
<1>2. Growth /\ ChainInv'
  BY <1>1, GrowthOnChain DEF ChainInv, Tip
<1>3. /\ index' \in Marks /\ SameMarks /\ index'.owner = index.owner
      /\ index'.mismatch = index.mismatch /\ index'.rootCount = index.rootCount
      /\ index'.healthy = index.healthy /\ (index'.leased => index.leased)
  BY <1>1 DEF Marks, SameMarks
<1>4. QED
  BY <1>1, <1>2, <1>3, OutsideKeeps

LEMMA CloseLedgerKeeps ==
  ASSUME IndexerInv, CloseLedger
  PROVE  IndexerInv' /\ Growth
<1>1. /\ ChainInv /\ IndexInv /\ index \in Marks /\ chain \in Chains
      /\ UNCHANGED <<oldest, index, mirrored, scanned, sync>>
  BY DEF IndexerInv, IndexInv, ChainInv, CloseLedger
<1>2. PICK event \in {"deposit", "spend"} : chain' = Append(chain, event)
  BY DEF CloseLedger
<1>3. Len(chain) < MaxLedger
  BY DEF CloseLedger, Tip
<1>4. /\ chain' \in Chains /\ Len(chain') = Len(chain) + 1
      /\ Leaves(chain) <= Leaves(chain')
      /\ \A n \in 0..Leaves(chain) : LeafSet(chain', n) = LeafSet(chain, n)
      /\ \A k \in 0..Len(chain) : SpendsIn(chain', 1..k) = SpendsIn(chain, 1..k)
  BY <1>1, <1>2, <1>3, ChainGrows
<1>5. Len(chain) \in Nat
  BY <1>1, LeafFacts
<1>6. Growth
  BY <1>1, <1>4, <1>5 DEF Growth
<1>7. ChainInv'
  <2>1. 1..Len(chain) \subseteq 1..Len(chain')
    BY <1>4, <1>5
  <2>2. QED
    BY <1>1, <1>4, <2>1 DEF ChainInv, Tip
<1>8. SameMarks
  BY <1>1 DEF SameMarks
<1>9. QED
  BY <1>1, <1>6, <1>7, <1>8, OutsideKeeps

LEMMA PruneKeeps ==
  ASSUME IndexerInv, Prune
  PROVE  IndexerInv'
<1>1. /\ ChainInv /\ IndexInv /\ index \in Marks /\ oldest \in 1..Tip
      /\ UNCHANGED <<chain, index, mirrored, scanned, sync>>
      /\ oldest' = oldest + 1 /\ oldest < Tip - Max(Windows)
  BY DEF IndexerInv, IndexInv, ChainInv, Prune
<1>2. Max(Windows) \in Nat
  BY LargestNatural, IndexerAssumption
<1>3. Tip \in Nat
  BY <1>1, LeafFacts DEF ChainInv, Tip
<1>4. PICK w \in Nat : w = Max(Windows)
  BY <1>2
<1>5. oldest' \in 1..Tip
  BY <1>1, <1>3, <1>4
<1>6. Growth /\ ChainInv'
  BY <1>1, <1>5, GrowthOnChain DEF ChainInv, Tip
<1>7. SameMarks
  BY <1>1 DEF SameMarks
<1>8. QED
  BY <1>1, <1>6, <1>7, OutsideKeeps
-----------------------------------------------------------------------------
(* Every step of the indexer.                                              *)

LEMMA IndexerInitRight ==
  ASSUME Init
  PROVE  IndexerInv
<1>1. /\ chain = <<"deposit">> /\ oldest = 1 /\ mirrored = {1} /\ scanned = {}
      /\ index = [NoIndex EXCEPT !.published = 1, !.leaves = 1, !.rootCount = 1,
                                 !.healthy = TRUE]
      /\ sync = [s \in Syncs |-> NoSync]
  BY DEF Init
<1>2. /\ chain \in Seq({"deposit", "spend"}) /\ Len(chain) = 1 /\ chain[1] = "deposit"
      /\ DOMAIN chain = 1..1
  BY <1>1
<1>3. chain \in Chains
  <2>1. 1 \in 1..MaxLedger
    BY IndexerAssumption
  <2>2. QED
    BY <1>2, <2>1 DEF Chains, Ledgers
<1>4. ChainInv
  BY <1>1, <1>2, <1>3 DEF ChainInv, Tip
<1>5. /\ index \in Marks /\ index.published = 1 /\ index.leaves = 1 /\ index.rootCount = 1
      /\ index.gaps = {} /\ index.leased = FALSE /\ index.complete = TRUE
      /\ index.mismatch = FALSE /\ index.owner = Nobody
  BY <1>1 DEF NoIndex, Marks
<1>6. /\ Leaves(chain) \in Nat /\ 1 <= Leaves(chain)
      /\ LeafSet(chain, 1) \subseteq 1..1
  BY <1>2, <1>3, LeafFacts
<1>7. SpendsIn(chain, 1..1) = {}
  BY <1>2 DEF SpendsIn
<1>8. IndexInv
  BY <1>1, <1>2, <1>5, <1>6, <1>7 DEF IndexInv, Tip
<1>9. \A s \in Syncs : sync[s] = NoSync
  BY <1>1
<1>10. sync \in [Syncs -> SyncRecords]
  BY <1>1, NoSyncIsRight
<1>11. QED
  BY <1>4, <1>8, <1>9, <1>10, NoSyncIsRight DEF IndexerInv

LEMMA ProceedKeeps ==
  ASSUME IndexerInv, NEW s \in Syncs, Proceed(s)
  PROVE  IndexerInv'
BY FetchKeeps, FillKeeps, WriteKeeps, CountOnChainKeeps, CountInMirrorKeeps,
   AdvanceRootsKeeps, PublishKeeps DEF Proceed

LEMMA IndexerStutters ==
  ASSUME IndexerInv, UNCHANGED indexerVars
  PROVE  IndexerInv'
<1>1. UNCHANGED <<chain, oldest, index, mirrored, scanned, sync>>
  BY DEF indexerVars
<1>2. ChainInv' /\ IndexInv' /\ sync' \in [Syncs -> SyncRecords]
  BY <1>1 DEF IndexerInv, ChainInv, IndexInv, Tip, OwnsUp
<1>3. ASSUME NEW s \in Syncs
      PROVE  SyncInv(s)'
  <2>1. SyncInv(s)
    BY DEF IndexerInv
  <2>2. QED
    BY <1>1, <2>1 DEF SyncInv, At, Tip
<1>4. ASSUME NEW s \in Syncs
      PROVE  OwnerInv(s)'
  <2>1. OwnerInv(s)
    BY DEF IndexerInv
  <2>2. QED
    BY <1>1, <2>1 DEF OwnerInv, At, OwnsUp
<1>5. QED
  BY <1>2, <1>3, <1>4 DEF IndexerInv

LEMMA IndexerStepKeeps ==
  ASSUME IndexerInv, [IndexerNext]_indexerVars
  PROVE  IndexerInv'
<1>1. ASSUME NEW s \in Syncs, Acquire(s) \/ Proceed(s) \/ Throw(s) \/ Crash(s)
      PROVE  IndexerInv'
  BY <1>1, AcquireKeeps, ProceedKeeps, ThrowKeeps, CrashKeeps
<1>2. CASE LeaseLapses
  BY <1>2, LeaseLapsesKeeps
<1>3. CASE CloseLedger
  BY <1>3, CloseLedgerKeeps
<1>4. CASE Prune
  BY <1>4, PruneKeeps
<1>5. CASE UNCHANGED indexerVars
  BY <1>5, IndexerStutters
<1>6. QED
  BY <1>1, <1>2, <1>3, <1>4, <1>5 DEF IndexerNext

THEOREM IndexerInvHolds == IndexerSpec => []IndexerInv
<1>1. Init => IndexerInv
  BY IndexerInitRight
<1>2. IndexerInv /\ [IndexerNext]_indexerVars => IndexerInv'
  BY IndexerStepKeeps
<1>3. QED
  BY <1>1, <1>2, PTL DEF IndexerSpec

\* What no step takes back: the chain, the mirror, what is published, and what
\* the index owns up to, unless the lake has been read for it.
Onward ==
  /\ Growth
  /\ index'.published >= index.published
  /\ index'.leaves >= index.leaves
  /\ \A l \in Ledgers : OwnsUp(index, l) => l \in scanned' \/ OwnsUp(index', l)

LEMMA SameMarksOnward ==
  ASSUME IndexerInv, Growth, SameMarks
  PROVE  Onward
<1>1. index.published \in Nat /\ index.leaves \in Nat
  BY MarkTypes DEF IndexerInv, IndexInv
<1>2. QED
  BY <1>1 DEF Onward, SameMarks, OwnsUp

LEMMA StepsGoOnward ==
  ASSUME IndexerInv, [IndexerNext]_indexerVars
  PROVE  Onward
<1>1. ChainInv /\ index \in Marks
  BY DEF IndexerInv, IndexInv
<1>2. ASSUME NEW s \in Syncs, Publish(s), OwnsIndex(s)
      PROVE  Onward
  <2>1. /\ index'.published = sync[s].latest /\ index'.leaves = sync[s].onChain
        /\ index'.complete = sync[s].complete /\ index'.gapsOnly = sync[s].gapsOnly
        /\ index'.gaps = sync[s].gaps
    BY <1>2, PublishedIsRight
  <2>2. UNCHANGED <<chain, mirrored, scanned>> /\ sync[s].step = "publish" /\ index.owner = s
    BY <1>2 DEF Publish, At, OwnsIndex
  <2>3. Growth
    BY <1>1, <2>2, GrowthOnChain
  <2>4. /\ sync[s].latest >= index.published /\ sync[s].onChain >= index.leaves
        /\ \A l \in Ledgers : OwnsUp(index, l) => l \in scanned \/ OwnsUp(sync[s], l)
    <3>1. SyncInv(s) /\ OwnerInv(s) /\ sync[s] \in SyncRecords
      BY DEF IndexerInv
    <3>2. sync[s].onChain \in Int /\ index.leaves \in Nat
      BY <1>1, <3>1, FieldTypes, MarkTypes
    <3>3. sync[s].onChain # -1
      BY <2>2, <3>1 DEF SyncInv
    <3>4. QED
      BY <2>2, <3>1, <3>2, <3>3 DEF OwnerInv, At, Filled
  <2>5. \A l : OwnsUp(sync[s], l) => OwnsUp(index', l)
    BY <2>1 DEF OwnsUp
  <2>6. QED
    BY <2>1, <2>2, <2>3, <2>4, <2>5 DEF Onward
<1>3. ASSUME NEW s \in Syncs, Publish(s), ~OwnsIndex(s)
      PROVE  Onward
  <2>1. UNCHANGED <<chain, mirrored, scanned, index>>
    BY <1>3 DEF Publish
  <2>2. Growth /\ SameMarks
    BY <1>1, <2>1, GrowthOnChain DEF SameMarks
  <2>3. QED
    BY <2>2, SameMarksOnward
<1>4. ASSUME NEW s \in Syncs, Acquire(s) \/ Throw(s) \/ Crash(s)
      PROVE  Onward
  <2>1. UNCHANGED <<chain, mirrored, scanned>>
    BY <1>4 DEF Acquire, Throw, Crash
  <2>2. SameMarks
    <3>1. CASE Acquire(s)
      BY <1>1, <3>1 DEF Acquire, Marks, SameMarks
    <3>2. CASE Throw(s)
      BY <1>1, <3>2 DEF Throw, Released, Marks, SameMarks
    <3>3. CASE Crash(s)
      BY <3>3 DEF Crash, SameMarks
    <3>4. QED
      BY <1>4, <3>1, <3>2, <3>3
  <2>3. QED
    BY <1>1, <2>1, <2>2, GrowthOnChain, SameMarksOnward
<1>5. ASSUME NEW s \in Syncs, Fetch(s) \/ CountOnChain(s) \/ CountInMirror(s)
                              \/ AdvanceRoots(s)
      PROVE  Onward
  <2>1. UNCHANGED <<chain, mirrored, scanned, index>>
    BY <1>5 DEF Fetch, CountOnChain, CountInMirror, AdvanceRoots
  <2>2. QED
    BY <1>1, <2>1, GrowthOnChain, SameMarksOnward DEF SameMarks
<1>6. ASSUME NEW s \in Syncs, Fill(s)
      PROVE  Onward
  <2>1. UNCHANGED <<chain, mirrored, index>> /\ scanned \subseteq scanned'
    BY <1>6 DEF Fill
  <2>2. QED
    BY <1>1, <2>1, GrowthOnChain, SameMarksOnward DEF SameMarks
<1>7. ASSUME NEW s \in Syncs, Write(s)
      PROVE  Onward
  <2>1. UNCHANGED <<chain, scanned, index>> /\ mirrored \subseteq mirrored'
    BY <1>7 DEF Write
  <2>2. QED
    BY <1>1, <2>1, GrowthOnChain, SameMarksOnward DEF SameMarks
<1>8. CASE CloseLedger
  <2>1. Growth /\ SameMarks
    BY <1>8, CloseLedgerKeeps DEF CloseLedger, SameMarks
  <2>2. QED
    BY <2>1, SameMarksOnward
<1>9. CASE LeaseLapses
  <2>1. UNCHANGED <<chain, mirrored, scanned>> /\ SameMarks
    BY <1>1, <1>9 DEF LeaseLapses, Marks, SameMarks
  <2>2. QED
    BY <1>1, <2>1, GrowthOnChain, SameMarksOnward
<1>10. CASE Prune \/ UNCHANGED indexerVars
  <2>1. UNCHANGED <<chain, mirrored, scanned, index>>
    BY <1>10 DEF Prune, indexerVars
  <2>2. QED
    BY <1>1, <2>1, GrowthOnChain, SameMarksOnward DEF SameMarks
<1>11. QED
  BY <1>2, <1>3, <1>4, <1>5, <1>6, <1>7, <1>8, <1>9, <1>10 DEF IndexerNext, Proceed
-----------------------------------------------------------------------------
(* What the indexer promises.                                              *)

\* Every variable stays within its bounds, the ledgers a call has fetched and
\* not yet written among them.
THEOREM IndexerTypes == IndexerSpec => []TypeOK
<1>1. IndexerInv => TypeOK
  <2> SUFFICES ASSUME IndexerInv
               PROVE  TypeOK
    OBVIOUS
  <2>1. /\ chain \in Chains /\ oldest \in 1..Tip /\ mirrored \subseteq 1..Tip
        /\ scanned \subseteq 1..Tip /\ IndexInv
    BY DEF IndexerInv, ChainInv
  <2>2. /\ Tip \in Nat /\ Tip <= MaxLedger /\ Leaves(chain) \in Nat /\ Leaves(chain) <= Tip
        /\ 1..Tip \subseteq Ledgers
    BY <2>1, LeafFacts, IndexerAssumption DEF Tip, Ledgers
  <2>3. /\ index \in Marks /\ index.published \in Ledgers /\ index.leaves \in Ledgers
        /\ index.rootCount \in Ledgers /\ index.gaps \subseteq Ledgers
        /\ index.leased => index.owner # Nobody
    BY <2>1, <2>2 DEF IndexInv, Ledgers
  <2>4. index \in [published : Ledgers, leaves : Ledgers, complete : BOOLEAN,
                   gapsOnly : BOOLEAN, gaps : SUBSET Ledgers, mismatch : BOOLEAN,
                   rootCount : Ledgers, healthy : BOOLEAN,
                   owner : Syncs \union {Nobody}, leased : BOOLEAN]
    BY <2>3 DEF Marks
  <2>5. \A s \in Syncs : sync[s].step \in Steps /\ Fetched(s) \subseteq 1..Tip
    BY FieldTypes DEF IndexerInv, SyncInv, Fetched
  <2>6. QED
    BY <2>1, <2>2, <2>3, <2>4, <2>5 DEF TypeOK, Chains
<1>2. QED
  BY <1>1, IndexerInvHolds, PTL

\* A spend below the watermark that the mirror lacks is owned up to.
THEOREM WhatIsMissingIsOwnedUp == IndexerSpec => []MissingIsOwnedUp
<1>1. IndexerInv => MissingIsOwnedUp
  <2> SUFFICES ASSUME IndexerInv
               PROVE  MissingIsOwnedUp
    OBVIOUS
  <2>1. \A l \in MissingSpends : OwnsUp(index, l)
    BY ChainOperators DEF IndexerInv, IndexInv, MissingSpends
  <2>2. QED
    BY <2>1 DEF MissingIsOwnedUp, OwnsUp
<1>2. QED
  BY <1>1, IndexerInvHolds, PTL

\* A published leaf has its document, or the roots say that one is missing.
THEOREM PublishedLeavesAreThere == IndexerSpec => []PublishedLeavesStand
<1>1. IndexerInv => PublishedLeavesStand
  BY ChainOperators DEF IndexerInv, IndexInv, PublishedLeavesStand
<1>2. QED
  BY <1>1, IndexerInvHolds, PTL

\* The watermark and the count of leaves never go back.
THEOREM PublishedNeverGoesBack == IndexerSpec => PublishedGrows
<1>1. IndexerInv /\ [IndexerNext]_indexerVars =>
        [/\ index'.published >= index.published
         /\ index'.leaves >= index.leaves]_indexerVars
  BY StepsGoOnward DEF Onward
<1>2. QED
  BY <1>1, IndexerInvHolds, PTL DEF IndexerSpec, PublishedGrows
-----------------------------------------------------------------------------
(* A page's copy, on top of the indexer.                                   *)

LEMMA MirrorInitRight ==
  ASSUME MirrorInit
  PROVE  IndexerInv /\ MirrorInv
<1>1. IndexerInv /\ mirror = EmptyMirror /\ query = NoQuery
  BY IndexerInitRight DEF MirrorInit
<1>2. Tip \in Nat /\ Leaves(chain) \in Nat
  BY <1>1, LeafFacts DEF IndexerInv, ChainInv, Tip
<1>3. /\ query.step = "none"
      /\ query \in [step : {"none", "documents", "again"}, full : BOOLEAN, published : 0..Tip,
                    leaves : 0..Leaves(chain), healthy : BOOLEAN]
  BY <1>1, <1>2 DEF NoQuery
<1>4. /\ mirror.published = 0 /\ mirror.healthy = FALSE
      /\ mirror \in [deposits : SUBSET Nat, spent : SUBSET Nat, published : 0..Tip,
                     leaves : 0..Leaves(chain), healthy : BOOLEAN]
  BY <1>1, <1>2 DEF EmptyMirror
<1>5. UnknownTo(mirror) = {}
  BY <1>4 DEF UnknownTo, SpendsIn
<1>6. QED
  BY <1>1, <1>3, <1>4, <1>5 DEF MirrorInv

\* The indexer's steps under a page that has a copy, and perhaps a query.
LEMMA IndexerUnderMirror ==
  ASSUME IndexerInv, MirrorInv, Onward, IndexerInv', UNCHANGED <<mirror, query>>
  PROVE  MirrorInv'
<1>1. /\ chain \in Chains /\ chain' \in Chains /\ Growth /\ index \in Marks /\ index' \in Marks
      /\ index.published \in 1..Tip
  BY DEF IndexerInv, IndexInv, ChainInv, Onward, Growth
<1>2. /\ Len(chain) \in Nat /\ Len(chain') \in Nat /\ Len(chain) <= Len(chain')
      /\ Leaves(chain) \in Nat /\ Leaves(chain') \in Nat /\ Leaves(chain) <= Leaves(chain')
      /\ Len(chain) <= MaxLedger /\ MaxLedger \in Nat
  BY <1>1, LeafFacts, IndexerAssumption DEF Growth
<1>3. 0..Len(chain) \subseteq 0..Len(chain') /\ 0..Leaves(chain) \subseteq 0..Leaves(chain')
  BY <1>2
<1>4. /\ mirror.published \in 0..Len(chain) /\ query.published \in 0..Len(chain)
      /\ mirror.leaves \in 0..Leaves(chain) /\ query.leaves \in 0..Leaves(chain)
      /\ mirror.published \in Nat
  BY <1>2 DEF MirrorInv, Tip
<1>5. /\ SpendsIn(chain', 1..mirror.published) = SpendsIn(chain, 1..mirror.published)
      /\ SpendsIn(chain', 1..query.published) = SpendsIn(chain, 1..query.published)
      /\ LeafSet(chain', mirror.leaves) = LeafSet(chain, mirror.leaves)
      /\ LeafSet(chain', query.leaves) = LeafSet(chain, query.leaves)
  BY <1>1, <1>4 DEF Growth
<1>6. UnknownTo(mirror)' = UnknownTo(mirror)
  BY <1>5 DEF UnknownTo
<1>7. \A l \in UnknownTo(mirror) : l \in Ledgers
  BY <1>2, <1>4 DEF UnknownTo, SpendsIn, Ledgers
<1>8. \A l \in UnknownTo(mirror) : l \in scanned' \/ OwnsUp(index', l)
  BY <1>1, <1>7 DEF MirrorInv, Onward, Growth
<1>9. mirrored \subseteq mirrored' /\ scanned \subseteq scanned'
  BY <1>1 DEF Growth
<1>10. query.step = "documents" => query.published <= index'.published
  <2>1. /\ query.published \in Int /\ index.published \in Int /\ index'.published \in Int
        /\ index'.published >= index.published
    BY <1>1, <1>4, MarkTypes DEF Onward
  <2>2. query.step = "documents" => query.published <= index.published
    BY DEF MirrorInv
  <2>3. QED
    BY <2>1, <2>2
<1>11. /\ query' \in [step : {"none", "documents", "again"}, full : BOOLEAN,
                      published : 0..Tip, leaves : 0..Leaves(chain), healthy : BOOLEAN]'
       /\ mirror' \in [deposits : SUBSET Nat, spent : SUBSET Nat, published : 0..Tip,
                       leaves : 0..Leaves(chain), healthy : BOOLEAN]'
  BY <1>3 DEF MirrorInv, Tip
<1>12. /\ query.step = "documents" /\ query.healthy =>
            /\ LeafSet(chain', query.leaves) \subseteq mirrored'
            /\ SpendsIn(chain', 1..query.published) \subseteq mirrored'
            /\ UnknownTo(mirror) \subseteq scanned'
       /\ mirror.healthy => /\ mirror.deposits = LeafSet(chain', mirror.leaves)
                            /\ UnknownTo(mirror) \subseteq scanned'
  BY <1>5, <1>9 DEF MirrorInv
<1>13. QED
  BY <1>6, <1>8, <1>10, <1>11, <1>12 DEF MirrorInv, OwnsUp

\* The server reads the state: a healthy one has nothing left to own up to.
LEMMA AskKeeps ==
  ASSUME IndexerInv, MirrorInv, NEW full \in BOOLEAN, Ask(full)
  PROVE  IndexerInv' /\ MirrorInv'
<1>1. /\ ChainInv /\ IndexInv /\ index \in Marks
      /\ UNCHANGED <<chain, oldest, index, mirrored, scanned, sync, mirror>>
  BY DEF IndexerInv, IndexInv, Ask, indexerVars
<1>2. IndexerInv'
  BY <1>1, IndexerStutters DEF indexerVars
<1>3. PICK healthy : healthy = (index.healthy /\ index.complete)
  OBVIOUS
<1>4. query' = [step |-> "documents", full |-> full, published |-> index.published,
                leaves |-> index.leaves, healthy |-> healthy]
  BY <1>3 DEF Ask
<1>5. healthy \in BOOLEAN /\ (healthy => index.complete /\ ~index.mismatch)
  BY <1>1, <1>3, MarkTypes DEF IndexInv
<1>6. /\ Tip \in Nat /\ Leaves(chain) \in Nat /\ index.published \in 0..Tip
      /\ index.leaves \in 0..Leaves(chain) /\ index.published <= index.published
  BY <1>1, LeafFacts DEF ChainInv, IndexInv, Tip
<1>7. ASSUME healthy
      PROVE  /\ LeafSet(chain, index.leaves) \subseteq mirrored
             /\ SpendsIn(chain, 1..index.published) \subseteq mirrored
             /\ UnknownTo(mirror) \subseteq scanned
  BY <1>1, <1>5, <1>7 DEF IndexInv, MirrorInv, OwnsUp
<1>8. /\ query' \in [step : {"none", "documents", "again"}, full : BOOLEAN, published : 0..Tip,
                     leaves : 0..Leaves(chain), healthy : BOOLEAN]
      /\ query'.published = index.published /\ query'.leaves = index.leaves
      /\ query'.healthy = healthy
  BY <1>4, <1>5, <1>6
<1>9. MirrorInv'
  BY <1>1, <1>6, <1>7, <1>8 DEF MirrorInv, Tip, UnknownTo, OwnsUp
<1>10. QED
  BY <1>2, <1>9

\* The documents that a query brings, merged into what the page had.
LEMMA MergedIsRight ==
  ASSUME IndexerInv, MirrorInv, query.step = "documents", CompletePrefix(Merged) \/ query.full
  PROVE  /\ Merged \in [deposits : SUBSET Nat, spent : SUBSET Nat, published : 0..Tip,
                        leaves : 0..Leaves(chain), healthy : BOOLEAN]
         /\ \A l \in UnknownTo(Merged) : l \in scanned \/ OwnsUp(index, l)
         /\ Merged.healthy => /\ Merged.deposits = LeafSet(chain, Merged.leaves)
                              /\ UnknownTo(Merged) \subseteq scanned
<1>1. /\ ChainInv /\ IndexInv /\ Tip \in Nat /\ Leaves(chain) \in Nat
      /\ LeafSet(chain, 0) = {} /\ mirrored \subseteq 1..Tip /\ index.published \in Nat
  BY LeafFacts, MarkTypes DEF IndexerInv, ChainInv, IndexInv, Tip
<1>2. /\ query \in [step : {"none", "documents", "again"}, full : BOOLEAN, published : 0..Tip,
                    leaves : 0..Leaves(chain), healthy : BOOLEAN]
      /\ query.published <= index.published
      /\ query.published \in Nat
  BY <1>1 DEF MirrorInv
<1>3. /\ Base.deposits \in SUBSET Nat /\ Base.spent \in SUBSET Nat /\ Base.published \in Nat
      /\ \A l \in SpendsIn(chain, 1..Base.published) \ Base.spent : l \in UnknownTo(mirror)
      /\ query.full => Base.deposits = {} /\ Base.leaves = 0
  <2>1. CASE query.full
    <3>1. /\ Base.deposits = {} /\ Base.spent = {} /\ Base.published = 0 /\ Base.leaves = 0
      BY <2>1 DEF Base, EmptyMirror
    <3>2. QED
      BY <3>1 DEF SpendsIn
  <2>2. CASE ~query.full
    <3>1. Base = mirror
      BY <2>2 DEF Base
    <3>2. /\ mirror.deposits \in SUBSET Nat /\ mirror.spent \in SUBSET Nat
          /\ mirror.published \in Nat
      BY <1>1 DEF MirrorInv
    <3>3. QED
      BY <2>2, <3>1, <3>2 DEF UnknownTo
  <2>3. QED
    BY <2>1, <2>2
<1>4. /\ Merged.deposits = Base.deposits \union
           ((LeafSet(chain, query.leaves) \ LeafSet(chain, Base.leaves)) \intersect mirrored)
      /\ Merged.spent = Base.spent \union
           (SpendsIn(chain, (Base.published + 1)..query.published) \intersect mirrored)
      /\ Merged.published = query.published /\ Merged.leaves = query.leaves
      /\ Merged.healthy = query.healthy
      /\ Merged = [deposits |-> Merged.deposits, spent |-> Merged.spent,
                   published |-> Merged.published, leaves |-> Merged.leaves,
                   healthy |-> Merged.healthy]
  BY ChainOperators DEF Merged, Watermark
<1>5. Merged \in [deposits : SUBSET Nat, spent : SUBSET Nat, published : 0..Tip,
                  leaves : 0..Leaves(chain), healthy : BOOLEAN]
  <2>1. Merged.deposits \in SUBSET Nat /\ Merged.spent \in SUBSET Nat
    BY <1>1, <1>3, <1>4
  <2>2. QED
    BY <1>2, <1>4, <2>1
<1>6. ASSUME NEW l \in UnknownTo(Merged)
      PROVE  \/ l \in UnknownTo(mirror)
             \/ l \in SpendsIn(chain, 1..query.published) \ mirrored
  <2>1. l \in SpendsIn(chain, 1..query.published) /\ l \notin Merged.spent
    BY <1>4, <1>6 DEF UnknownTo
  <2>2. l \in Nat /\ 1 <= l /\ l <= query.published
    BY <1>2, <2>1 DEF SpendsIn
  <2>3. CASE l <= Base.published
    BY <1>3, <1>4, <2>1, <2>2, <2>3 DEF SpendsIn
  <2>4. CASE l > Base.published
    <3>1. l \in SpendsIn(chain, (Base.published + 1)..query.published)
      BY <1>2, <1>3, <2>1, <2>2, <2>4 DEF SpendsIn
    <3>2. QED
      BY <1>4, <2>1, <3>1
  <2>5. QED
    BY <1>3, <2>2, <2>3, <2>4
<1>7. \A l \in UnknownTo(Merged) : l \in scanned \/ OwnsUp(index, l)
  <2>1. \A l \in SpendsIn(chain, 1..query.published) :
          l \in SpendsIn(chain, 1..index.published)
    BY <1>1, <1>2 DEF SpendsIn
  <2>2. QED
    BY <1>1, <1>6, <2>1 DEF MirrorInv, IndexInv
<1>8. ASSUME query.healthy
      PROVE  /\ Merged.deposits = LeafSet(chain, query.leaves)
             /\ UnknownTo(Merged) \subseteq scanned
  <2>1. /\ LeafSet(chain, query.leaves) \subseteq mirrored
        /\ SpendsIn(chain, 1..query.published) \subseteq mirrored
        /\ UnknownTo(mirror) \subseteq scanned
    BY <1>8 DEF MirrorInv
  <2>2. CASE query.full
    BY <1>1, <1>3, <1>4, <1>6, <2>1, <2>2
  <2>3. CASE CompletePrefix(Merged)
    BY <1>4, <1>6, <2>1, <2>3, ChainOperators DEF CompletePrefix
  <2>4. QED
    BY <2>2, <2>3
<1>9. QED
  BY <1>4, <1>5, <1>7, <1>8

LEMMA ReceiveKeeps ==
  ASSUME IndexerInv, MirrorInv, Receive
  PROVE  IndexerInv' /\ MirrorInv'
<1>1. /\ UNCHANGED <<chain, oldest, index, mirrored, scanned, sync>>
      /\ query.step = "documents"
      /\ Tip \in Nat /\ Leaves(chain) \in Nat
  BY LeafFacts DEF Receive, indexerVars, IndexerInv, ChainInv, Tip
<1>2. IndexerInv'
  BY <1>1, IndexerStutters DEF indexerVars
<1>3. CASE CompletePrefix(Merged) \/ query.full
  <2>1. PICK merged : merged = Merged
    OBVIOUS
  <2>2. mirror' = merged /\ query' = NoQuery
    BY <1>3, <2>1 DEF Receive
  <2>3. /\ merged \in [deposits : SUBSET Nat, spent : SUBSET Nat, published : 0..Tip,
                       leaves : 0..Leaves(chain), healthy : BOOLEAN]
        /\ \A l \in UnknownTo(merged) : l \in scanned \/ OwnsUp(index, l)
        /\ merged.healthy => /\ merged.deposits = LeafSet(chain, merged.leaves)
                             /\ UnknownTo(merged) \subseteq scanned
    BY <1>1, <1>3, <2>1, MergedIsRight
  <2>4. UnknownTo(mirror)' = UnknownTo(merged)
    BY <1>1, <2>2 DEF UnknownTo
  <2>5. /\ query'.step = "none"
        /\ query' \in [step : {"none", "documents", "again"}, full : BOOLEAN,
                       published : 0..Tip, leaves : 0..Leaves(chain), healthy : BOOLEAN]
    BY <1>1, <2>2 DEF NoQuery
  <2>6. MirrorInv'
    BY <1>1, <2>2, <2>3, <2>4, <2>5 DEF MirrorInv, Tip, OwnsUp
  <2>7. QED
    BY <1>2, <2>6
<1>4. CASE ~(CompletePrefix(Merged) \/ query.full)
  <2>1. mirror' = mirror /\ query' = [NoQuery EXCEPT !.step = "again"]
    BY <1>4 DEF Receive
  <2>2. /\ query'.step = "again"
        /\ query' \in [step : {"none", "documents", "again"}, full : BOOLEAN,
                       published : 0..Tip, leaves : 0..Leaves(chain), healthy : BOOLEAN]
    <3>1. query' = [step |-> "again", full |-> FALSE, published |-> 0, leaves |-> 0,
                    healthy |-> FALSE]
      BY <2>1 DEF NoQuery
    <3>2. 0 \in 0..Tip /\ 0 \in 0..Leaves(chain)
      BY <1>1
    <3>3. QED
      BY <3>1, <3>2
  <2>3. MirrorInv'
    BY <1>1, <2>1, <2>2 DEF MirrorInv, Tip, OwnsUp, UnknownTo
  <2>4. QED
    BY <1>2, <2>3
<1>5. QED
  BY <1>3, <1>4

LEMMA LoseQueryKeeps ==
  ASSUME IndexerInv, MirrorInv, LoseQuery \/ UNCHANGED vars
  PROVE  IndexerInv' /\ MirrorInv'
<1>1. /\ UNCHANGED <<chain, oldest, index, mirrored, scanned, sync, mirror>>
      /\ query' = NoQuery \/ query' = query
      /\ Tip \in Nat /\ Leaves(chain) \in Nat
  BY LeafFacts DEF LoseQuery, vars, indexerVars, IndexerInv, ChainInv, Tip
<1>2. IndexerInv'
  BY <1>1, IndexerStutters DEF indexerVars
<1>3. CASE query' = NoQuery
  <2>1. /\ query'.step = "none"
        /\ query' \in [step : {"none", "documents", "again"}, full : BOOLEAN,
                       published : 0..Tip, leaves : 0..Leaves(chain), healthy : BOOLEAN]
    BY <1>1, <1>3 DEF NoQuery
  <2>2. MirrorInv'
    BY <1>1, <2>1 DEF MirrorInv, Tip, OwnsUp, UnknownTo
  <2>3. QED
    BY <1>2, <2>2
<1>4. CASE query' = query
  <2>1. MirrorInv'
    BY <1>1, <1>4 DEF MirrorInv, Tip, OwnsUp, UnknownTo
  <2>2. QED
    BY <1>2, <2>1
<1>5. QED
  BY <1>1, <1>3, <1>4

THEOREM MirrorInvHolds == Spec => [](IndexerInv /\ MirrorInv)
<1>1. MirrorInit => IndexerInv /\ MirrorInv
  BY MirrorInitRight
<1>2. (IndexerInv /\ MirrorInv) /\ [Next]_vars => (IndexerInv /\ MirrorInv)'
  <2> SUFFICES ASSUME IndexerInv, MirrorInv, [Next]_vars
               PROVE  IndexerInv' /\ MirrorInv'
    OBVIOUS
  <2>1. CASE IndexerNext /\ UNCHANGED <<mirror, query>>
    BY <2>1, IndexerStepKeeps, StepsGoOnward, IndexerUnderMirror
  <2>2. CASE Refresh \/ AskAgain
    BY <2>2, AskKeeps DEF Refresh, AskAgain
  <2>3. CASE Receive
    BY <2>3, ReceiveKeeps
  <2>4. CASE LoseQuery \/ UNCHANGED vars
    BY <2>4, LoseQueryKeeps
  <2>5. QED
    BY <2>1, <2>2, <2>3, <2>4 DEF Next
<1>3. QED
  BY <1>1, <1>2, PTL DEF Spec

\* With pages on top the indexer is still the indexer, so that what holds of it
\* alone holds under them.
THEOREM PagesLeaveTheIndexerAlone == Spec => IndexerSpec
<1>1. MirrorInit => Init
  BY DEF MirrorInit
<1>2. [Next]_vars => [IndexerNext]_indexerVars
  <2>1. CASE IndexerNext
    BY <2>1
  <2>2. CASE Refresh \/ AskAgain \/ Receive \/ LoseQuery
    BY <2>2 DEF Refresh, AskAgain, Ask, Receive, LoseQuery
  <2>3. CASE UNCHANGED vars
    BY <2>3 DEF vars
  <2>4. QED
    BY <2>1, <2>2, <2>3 DEF Next
<1>3. QED
  BY <1>1, <1>2, PTL DEF Spec, IndexerSpec

\* A healthy copy has every leaf it says was published.
THEOREM HealthyCopyIsWhole == Spec => []HealthyHasItsLeaves
<1>1. MirrorInv => HealthyHasItsLeaves
  BY ChainOperators DEF MirrorInv, HealthyHasItsLeaves
<1>2. QED
  BY <1>1, MirrorInvHolds, PTL

\* A healthy copy lacks no spend but those the server itself got late.
THEOREM HealthyCopyLacksOnlyLateSpends == Spec => []HealthyLacksOnlyLateSpends
<1>1. MirrorInv => HealthyLacksOnlyLateSpends
  <2>1. UnknownSpends = UnknownTo(mirror)
    BY ChainOperators DEF UnknownSpends, UnknownTo
  <2>2. QED
    BY <2>1 DEF MirrorInv, HealthyLacksOnlyLateSpends
<1>2. QED
  BY <1>1, MirrorInvHolds, PTL
=============================================================================
