----------------------------- MODULE MCProgress -----------------------------
(***************************************************************************)
(* What three components owe in the end: the pool's exit, the credential   *)
(* of a business and the mirror of the pool's events. They share nothing   *)
(* and are explored side by side: of each behaviour one moves, and the     *)
(* others rest where they begin.                                           *)
(***************************************************************************)
EXTENDS MCOlioPool, Verification

CONSTANTS FirstReconciler, Syncs, MaxLedger, Windows, LakeSettings
VARIABLES chain, oldest, index, mirrored, scanned, sync

Index == INSTANCE PoolIndexer
indexVars == <<chain, oldest, index, mirrored, scanned, sync>>

PoolRests == Init
CaseRests == VerificationInit
IndexRests == Index!Init
-----------------------------------------------------------------------------
Individual(status, answer) ==
  [status |-> status, answer |-> answer, mismatched |-> FALSE, screening |-> FALSE,
   retry |-> FALSE, evidence |-> answer = "GREEN", persons |-> "individual"]
MCReviews ==
  {Individual("init", "none"), Individual("completed", "GREEN"), Individual("completed", "RED")}

\* The calls are alike, so the first of them begins. Two overlap while there is
\* no notification and no account is being bound. What a notification meets of
\* another call is then the lease that one died with.
Busy == {w \in Reconcilers : ~Doing(w, "idle")}
Overlaps ==
  /\ Busy = {} => Busy' \subseteq {FirstReconciler}
  /\ Busy' = Reconcilers => ~rebinding' /\ event'.state = "none"
-----------------------------------------------------------------------------
MCInit == PoolRests /\ CaseRests /\ IndexRests

MCNext ==
  \/ CaseRests /\ IndexRests /\ Next /\ UNCHANGED <<verificationVars, indexVars>>
  \/ PoolRests /\ IndexRests /\ VerificationNext /\ Overlaps /\ UNCHANGED <<vars, indexVars>>
  \/ PoolRests /\ CaseRests /\ Index!IndexerNext /\ UNCHANGED <<vars, verificationVars>>

\* The fairness of the index, whose calls run even while nothing has happened.
IndexFairness ==
  /\ WF_indexVars(PoolRests /\ CaseRests /\ \E s \in Syncs : Index!Acquire(s))
  /\ \A s \in Syncs :
       WF_indexVars(PoolRests /\ CaseRests /\ (Index!Proceed(s) \/ Index!Retry(s)))
  /\ WF_indexVars(PoolRests /\ CaseRests /\ Index!LeaseLapses)
  /\ <>[][Index!Calm]_indexVars

ProgressSpec ==
  /\ MCInit
  /\ [][MCNext]_<<vars, verificationVars, indexVars>>
  /\ PoolFairness
  /\ VerificationFairness
  /\ IndexFairness

\* Index: once the faults have ended the mirror of the pool's events has all the
\* chain has and says so, whatever gaps and half-written batches they left.
IndexCatchesUp == Index!IndexCatchesUp
=============================================================================
