----------------------------- MODULE PoolMirror -----------------------------
(***************************************************************************)
(* A browser's copy of the pool: refreshPoolMirror of                      *)
(* web/src/lib/poolMirror.ts with getPoolSnapshot of deposits.service.ts,  *)
(* on top of the indexer.                                                  *)
(*                                                                         *)
(* A page has one refresh under way at a time. The server answers a query  *)
(* in two steps, first the state and then the documents.                   *)
(***************************************************************************)
EXTENDS PoolIndexer

VARIABLES
  mirror,   \* the browser's PoolMirror
  query     \* the snapshot being asked for

vars == <<indexerVars, mirror, query>>

EmptyMirror == [deposits |-> {}, spent |-> {}, published |-> 0, leaves |-> 0,
                healthy |-> FALSE]
NoQuery == [step |-> "none", full |-> FALSE, published |-> 0, leaves |-> 0,
            healthy |-> FALSE]

MirrorInit ==
  /\ Init
  /\ mirror = EmptyMirror
  /\ query = NoQuery

\* The server reads the state; "stale", which says how old it is, is left out.
Ask(full) ==
  /\ query' = [step |-> "documents", full |-> full, published |-> index.published,
               leaves |-> index.leaves, healthy |-> index.healthy /\ index.complete]
  /\ UNCHANGED <<indexerVars, mirror>>
Refresh == query.step = "none" /\ Ask(FALSE)
AskAgain == query.step = "again" /\ Ask(TRUE)

\* The watermark a copy gets is the one its documents were read up to.
WatermarkOfNow == index.published
Watermark == query.published

\* The documents after the browser's watermarks and up to those of the state,
\* merged into what the browser has.
Base == IF query.full THEN EmptyMirror ELSE mirror
Merged ==
  [deposits |-> Base.deposits \union
                ((LeavesUpTo(query.leaves) \ LeavesUpTo(Base.leaves)) \intersect mirrored),
   spent |-> Base.spent \union
             (Spends((Base.published + 1)..query.published) \intersect mirrored),
   published |-> Watermark,
   leaves |-> query.leaves,
   healthy |-> query.healthy]

\* hasCompleteDepositPrefix, and without one a second request for everything.
AnyPrefix(m) == TRUE
CompletePrefix(m) == m.deposits = LeavesUpTo(m.leaves)
Receive ==
  /\ query.step = "documents"
  /\ IF CompletePrefix(Merged) \/ query.full
     THEN mirror' = Merged /\ query' = NoQuery
     ELSE UNCHANGED mirror /\ query' = [NoQuery EXCEPT !.step = "again"]
  /\ UNCHANGED indexerVars

\* The query fails, or the page is closed: the last copy stays.
LoseQuery ==
  /\ query.step # "none"
  /\ query' = NoQuery
  /\ UNCHANGED <<indexerVars, mirror>>

Next ==
  \/ IndexerNext /\ UNCHANGED <<mirror, query>>
  \/ Refresh \/ AskAgain \/ Receive \/ LoseQuery

Spec == MirrorInit /\ [][Next]_vars
-----------------------------------------------------------------------------
\* A copy that says it is healthy has every leaf it says was published, so that
\* the paths a withdrawal proves are computed over the whole tree. A leaf can
\* be missing on the server for a while, or have been published between two
\* requests of this page.
HealthyHasItsLeaves == mirror.healthy => mirror.deposits = LeavesUpTo(mirror.leaves)

\* The only spends a healthy copy lacks are those the server itself got late,
\* out of the data lake: nothing is lost between the reads of the state and of
\* the documents, nor by a sync that publishes in between. (Those late ones the
\* copy never asks for: its watermark has passed their ledgers.)
UnknownSpends == Spends(1..mirror.published) \ mirror.spent
HealthyLacksOnlyLateSpends == mirror.healthy => UnknownSpends \subseteq scanned
=============================================================================
