---------------------------- MODULE PoolIndexer ----------------------------
(***************************************************************************)
(* The mirror of the pool's events: syncPoolIndex of                       *)
(* web/src/server/modules/deposits/deposits.service.ts, with the fetching  *)
(* of web/src/lib/stellar.ts, the gap fill of datalake.events.ts and the   *)
(* roots of deposits.roots.ts.                                             *)
(*                                                                         *)
(* Only ledgers with an event of the pool are counted, and each has one: a *)
(* deposit or a spend. (A window of ledgers may so hold a single one, the  *)
(* last.) A document of the mirror is named by the ledger its event is in, *)
(* and values a call no longer needs are dropped at once. Any number of    *)
(* syncs overlap, since a lease lapses under a call that runs on, and a call*)
(* stops anywhere.                                                         *)
(***************************************************************************)
EXTENDS Integers, Sequences, FiniteSets, FiniteSetsExt

CONSTANTS
  Syncs,        \* uuids a call of syncPoolIndex may draw
  Nobody,
  MaxLedger,    \* bound on the ledgers of the chain
  Windows,      \* how far back fallback requests start
  LakeSettings  \* values POOL_GAP_FILL_SOURCE # "off" may have in a sync

ASSUME IndexerAssumption ==
  /\ Nobody \notin Syncs
  /\ MaxLedger \in Nat \ {0}
  /\ Windows \subseteq Nat /\ Windows # {} /\ IsFiniteSet(Windows)
  /\ LakeSettings \subseteq BOOLEAN

VARIABLES
  chain,     \* the pool's events, in the order of their ledgers
  oldest,    \* the oldest ledger the RPC nodes still serve
  index,     \* indexer_state {_id: "pool"}
  mirrored,  \* ledgers whose document is in the mirror's collections
  scanned,   \* ledgers the mirror has from the data lake
  sync       \* where each call is, and with what

indexerVars == <<chain, oldest, index, mirrored, scanned, sync>>

Ledgers == 1..MaxLedger
Tip == Len(chain)
Steps == {"idle", "fetch", "fill", "write", "count", "roots", "publish"}

Deposits(ledgers) == {l \in ledgers \intersect DOMAIN chain : chain[l] = "deposit"}
Spends(ledgers) == {l \in ledgers \intersect DOMAIN chain : chain[l] = "spend"}

\* The ledgers of the first n leaves, and how many leaves the chain has.
LeafCount == Cardinality(Deposits(Ledgers))
LeavesUpTo(n) == {l \in Deposits(Ledgers) : Cardinality(Deposits(1..l)) <= n}

\* Maximal ranges of a set of ledgers: pendingGaps after mergePendingGaps,
\* which joins overlapping and adjacent ranges.
Ranges(ledgers) ==
  {r \in SUBSET ledgers :
     /\ r # {}
     /\ r = Min(r)..Max(r)
     /\ Min(r) - 1 \notin ledgers /\ Max(r) + 1 \notin ledgers}

NoIndex ==
  [published |-> 0, leaves |-> 0, complete |-> TRUE, gapsOnly |-> FALSE, gaps |-> {},
   mismatch |-> FALSE, rootCount |-> 0, healthy |-> FALSE, owner |-> Nobody,
   leased |-> FALSE]

NoSync ==
  [step |-> "idle", seen |-> NoIndex, latest |-> 0, found |-> {}, gap |-> {},
   gaps |-> {}, complete |-> TRUE, gapsOnly |-> FALSE,
   onChain |-> -1, inMirror |-> -1, rootCount |-> 0, mismatch |-> FALSE]
-----------------------------------------------------------------------------
\* An index that has been published once, for the deposit of the first ledger.
Init ==
  /\ chain = <<"deposit">>
  /\ oldest = 1
  /\ index = [NoIndex EXCEPT !.published = 1, !.leaves = 1, !.rootCount = 1,
                             !.healthy = TRUE]
  /\ mirrored = {1}
  /\ scanned = {}
  /\ sync = [s \in Syncs |-> NoSync]

At(s, step) == sync[s].step = step
Set(s, fields) ==
  sync' = [sync EXCEPT ![s] = [f \in DOMAIN @ |->
             IF f \in DOMAIN fields THEN fields[f] ELSE @[f]]]

\* acquireLease and the read of the state. Between the two only a call whose
\* lease has lapsed could move the state, and what it publishes is refused.
Acquire(s) ==
  /\ At(s, "idle")
  /\ ~index.leased
  /\ index' = [index EXCEPT !.owner = s, !.leased = TRUE]
  /\ Set(s, [step |-> "fetch",
            seen |-> [index EXCEPT !.owner = Nobody, !.leased = FALSE, !.healthy = FALSE,
                                   !.leaves = 0]])
  /\ UNCHANGED <<chain, oldest, mirrored, scanned>>

\* LEASE_MS are over, whether or not the call still runs. The owner stays on
\* record until another call takes the lease.
LeaseLapses ==
  /\ index.leased
  /\ index' = [index EXCEPT !.leased = FALSE]
  /\ UNCHANGED <<chain, oldest, mirrored, scanned, sync>>

\* getLatestLedger, then getEvents from the watermark, or, when that is refused,
\* from the start of a window. The first node may lag, and if it has not reached
\* the watermark nothing is asked and the watermark kept; the second is taken to
\* be no further behind. A window past the watermark leaves a gap.
Starts(since, latest) == {since + 1} \union {Max({1, latest - w}) : w \in Windows}
Fetch(s) ==
  /\ At(s, "fetch")
  /\ LET since == sync[s].seen.published IN
     \E latest \in since..Tip :
       \/ latest = since /\ Set(s, [step |-> "fill", latest |-> latest])
       \/ /\ latest > since
          /\ \E start \in Starts(since, latest), tip \in latest..Tip :
               /\ oldest <= start
               /\ Set(s, [step |-> "fill", latest |-> latest, found |-> start..tip,
                          gap |-> (since + 1)..(start - 1)])
  /\ UNCHANGED <<chain, oldest, index, mirrored, scanned>>

\* fillRetentionGap for the pending gaps and the new one: a range is filled as a
\* whole or refused, be it that the lake is not read to its end yet or that it
\* cannot be read. With the lake off a new gap is burnt: it is not kept, and the
\* mirror stays incomplete.
BurntGapIsPending(lake, gap) == FALSE
BurntGap(lake, gap) == gap # {} /\ ~lake
StaysPending(lake, gap) == IF lake THEN gap ELSE {}

\* Only a mirror that was incomplete purely because of pending gaps may become
\* complete again.
GapsOnlyForgetful(seen, burnt) == ~burnt
GapsOnlySticky(seen, burnt) == ~burnt /\ seen.complete
GapsOnly(seen, burnt) == ~burnt /\ (seen.complete \/ seen.gapsOnly)

\* What a sync asks the lake for, and which of it is filled: upserts of events
\* that are in the mirror already change nothing.
Asked(s) == Ranges(sync[s].seen.gaps) \union Ranges(sync[s].gap)
Fill(s) ==
  /\ At(s, "fill")
  /\ \E lake \in LakeSettings, filled \in SUBSET Asked(s) :
       /\ ~lake => filled = {}
       /\ scanned' = scanned \union UNION filled
       /\ LET left == Asked(s) \ filled
              new == Ranges(sync[s].gap) \intersect left
              burnt == BurntGap(lake, UNION new)
              gaps == (UNION (left \ new)) \union StaysPending(lake, UNION new)
              only == GapsOnly(sync[s].seen, burnt)
          IN Set(s, [step |-> "write", gap |-> {},
                     seen |-> [NoIndex EXCEPT !.rootCount = sync[s].seen.rootCount,
                                              !.mismatch = sync[s].seen.mismatch],
                     found |-> (sync[s].found \union UNION filled) \ mirrored,
                     gaps |-> gaps,
                     complete |-> only /\ gaps = {},
                     gapsOnly |-> only /\ gaps # {}])
  /\ UNCHANGED <<chain, oldest, index, mirrored>>

\* The unordered bulk writes: one document at a time, in any order.
Write(s) ==
  /\ At(s, "write")
  /\ IF sync[s].found = {}
     THEN Set(s, [step |-> "count"]) /\ UNCHANGED mirrored
     ELSE \E l \in sync[s].found :
            mirrored' = mirrored \union {l} /\ Set(s, [found |-> sync[s].found \ {l}])
  /\ UNCHANGED <<chain, oldest, index, scanned>>

\* The leaves on the chain and those in the mirror, each at a moment of its own.
CountOnChain(s) ==
  /\ At(s, "count")
  /\ sync[s].onChain = -1
  /\ Set(s, [onChain |-> LeafCount,
             step |-> IF sync[s].inMirror = -1 THEN "count" ELSE "roots"])
  /\ UNCHANGED <<chain, oldest, index, mirrored, scanned>>

CountInMirror(s) ==
  /\ At(s, "count")
  /\ sync[s].inMirror = -1
  /\ Set(s, [inMirror |-> Cardinality(Deposits(mirrored)),
             step |-> IF sync[s].onChain = -1 THEN "count" ELSE "roots"])
  /\ UNCHANGED <<chain, oldest, index, mirrored, scanned>>

\* advanceRoots, once the counts agree: a leaf that is missing between the last
\* root and the count stops it and marks the roots. The root at the tip is then
\* compared with the chain's if no deposit comes in between.
CountsAgree(s) == sync[s].onChain = sync[s].inMirror
RootsJump(s) == TRUE
RootsAdvance(s) ==
  LeavesUpTo(sync[s].onChain) \ LeavesUpTo(sync[s].seen.rootCount) \subseteq mirrored
AdvanceRoots(s) ==
  /\ At(s, "roots")
  /\ CountsAgree(s)
  /\ IF RootsAdvance(s)
     THEN \E verified \in BOOLEAN :
            /\ verified => LeafCount = sync[s].onChain
            /\ Set(s, [step |-> "publish", seen |-> NoIndex, inMirror |-> -1,
                       rootCount |-> sync[s].onChain,
                       mismatch |-> ~verified /\ sync[s].seen.mismatch])
     ELSE Set(s, [step |-> "publish", seen |-> NoIndex, inMirror |-> -1,
                  rootCount |-> sync[s].seen.rootCount, mismatch |-> TRUE])
  /\ UNCHANGED <<chain, oldest, index, mirrored, scanned>>

\* The filter of the updates of the state.
AnyOwner(s) == TRUE
OwnsIndex(s) == index.owner = s

\* The lease is given back at the end, which needs no step of its own: a call
\* that dies before is one whose lease lapses.
ReleasedOwner == [index EXCEPT !.owner = Nobody]
Released == [index EXCEPT !.owner = Nobody, !.leased = FALSE]
Publish(s) ==
  /\ At(s, "publish")
  /\ index' = IF ~OwnsIndex(s) THEN index
              ELSE [Released EXCEPT
                      !.published = sync[s].latest,
                      !.leaves = sync[s].onChain,
                      !.complete = sync[s].complete,
                      !.gapsOnly = sync[s].gapsOnly,
                      !.gaps = sync[s].gaps,
                      !.mismatch = sync[s].mismatch,
                      !.rootCount = sync[s].rootCount,
                      !.healthy = sync[s].complete /\ ~sync[s].mismatch]
  /\ sync' = [sync EXCEPT ![s] = NoSync]
  /\ UNCHANGED <<chain, oldest, mirrored, scanned>>

\* An error, or counts that differ: the index is marked degraded.
Throw(s) ==
  /\ ~At(s, "idle")
  /\ index' = IF OwnsIndex(s) THEN [Released EXCEPT !.healthy = FALSE] ELSE index
  /\ sync' = [sync EXCEPT ![s] = NoSync]
  /\ UNCHANGED <<chain, oldest, mirrored, scanned>>

\* The process dies.
Crash(s) ==
  /\ ~At(s, "idle")
  /\ sync' = [sync EXCEPT ![s] = NoSync]
  /\ UNCHANGED <<chain, oldest, index, mirrored, scanned>>
-----------------------------------------------------------------------------
\* A ledger with a deposit, or with the spend of a note in the pool.
CloseLedger ==
  /\ Tip < MaxLedger
  /\ \E event \in {"deposit", "spend"} :
       /\ event = "spend" => Cardinality(Spends(Ledgers)) < LeafCount
       /\ chain' = Append(chain, event)
  /\ UNCHANGED <<oldest, index, mirrored, scanned, sync>>

\* Nodes drop old ledgers, but keep more than the largest window.
Prune ==
  /\ oldest < Tip - Max(Windows)
  /\ oldest' = oldest + 1
  /\ UNCHANGED <<chain, index, mirrored, scanned, sync>>

Proceed(s) ==
  \/ Fetch(s) \/ Fill(s) \/ Write(s) \/ CountOnChain(s) \/ CountInMirror(s)
  \/ AdvanceRoots(s) \/ Publish(s)

IndexerNext ==
  \/ \E s \in Syncs : Acquire(s) \/ Proceed(s) \/ Throw(s) \/ Crash(s)
  \/ LeaseLapses
  \/ CloseLedger
  \/ Prune

IndexerSpec == Init /\ [][IndexerNext]_indexerVars

\* The steps of a time in which calls neither die nor outlive their lease, the
\* nodes answer, and the lake is on and can be read to the end of a gap (which
\* takes the code many ticks).
Calm ==
  \/ \E s \in Syncs :
       \/ Acquire(s) \/ Write(s) \/ CountOnChain(s) \/ CountInMirror(s) \/ Publish(s)
       \/ /\ Fetch(s) /\ sync'[s].latest = Tip
          /\ sync'[s].gap # {} => oldest > sync[s].seen.published + 1
       \/ Fill(s) /\ sync'[s].gaps = {}
       \/ AdvanceRoots(s) /\ (LeafCount = sync[s].onChain /\ RootsAdvance(s)
                                => ~sync'[s].mismatch)
       \/ Throw(s) /\ At(s, "roots") /\ ~CountsAgree(s)
  \/ LeaseLapses /\ At(index.owner, "idle")
  \/ CloseLedger
  \/ Prune

\* cron-loop calls for ever, a call goes on, a lease lapses, and the faults end
\* at some time nobody knows.
Retry(s) == At(s, "roots") /\ Throw(s)
IndexerFairness ==
  /\ WF_indexerVars(\E s \in Syncs : Acquire(s))
  /\ \A s \in Syncs : WF_indexerVars(Proceed(s) \/ Retry(s))
  /\ WF_indexerVars(LeaseLapses)
  /\ <>[][Calm]_indexerVars

IndexerFairSpec == IndexerSpec /\ IndexerFairness
-----------------------------------------------------------------------------
Fetched(s) == sync[s].found \union sync[s].gap \union sync[s].gaps

TypeOK ==
  /\ chain \in Seq({"deposit", "spend"}) /\ Tip <= MaxLedger
  /\ oldest \in Ledgers
  /\ index \in [published : Ledgers, leaves : Ledgers, complete : BOOLEAN,
                gapsOnly : BOOLEAN, gaps : SUBSET Ledgers, mismatch : BOOLEAN,
                rootCount : Ledgers, healthy : BOOLEAN,
                owner : Syncs \union {Nobody}, leased : BOOLEAN]
  /\ index.leased => index.owner # Nobody
  /\ mirrored \subseteq 1..Tip
  /\ scanned \subseteq 1..Tip
  /\ \A s \in Syncs : sync[s].step \in Steps /\ Fetched(s) \subseteq 1..Tip

\* A spend that the mirror lacks although the watermark has passed it is owned
\* up to: the index is marked incomplete, and unless a gap was burnt the ledger
\* is in a gap that later syncs retry. Overlapping syncs, half-written batches
\* and requests that start past the watermark do not hide one.
MissingSpends == Spends(1..index.published) \ mirrored
MissingIsOwnedUp ==
  MissingSpends # {} =>
    /\ ~index.complete
    /\ index.gapsOnly => MissingSpends \subseteq index.gaps

\* Every published leaf has its document, or the roots say that one is missing.
\* The two counts are read at different moments and may agree by accident, when
\* an overlapping sync has written a later leaf before an earlier one.
PublishedLeavesStand ==
  LeavesUpTo(index.leaves) \subseteq mirrored \/ index.mismatch

\* What is published never goes back, although a call whose lease has lapsed
\* goes on to the end with what it read at the start.
PublishedGrows ==
  [][/\ index'.published >= index.published
     /\ index'.leaves >= index.leaves]_indexerVars

\* Once the faults have ended the mirror has everything the chain has and says
\* so: a gap is filled, a half-written batch completed, a wrong root put right.
IndexCatchesUp == <>[](index.published = Tip /\ index.healthy /\ mirrored = 1..Tip)
=============================================================================
