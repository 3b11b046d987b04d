---------------------------- MODULE MCPoolMirror ----------------------------
(***************************************************************************)
(* Small instances of PoolMirror.                                          *)
(***************************************************************************)
EXTENDS PoolMirror, TLC

AnySync == Permutations(Syncs)

\* Syncs overlap in every way until a page is opened, and run one at a time
\* from then on: what the page meets is whatever the overlaps have left.
PageOpen == query.step # "none" \/ mirror # EmptyMirror
OneSyncAtATime == \E s \in Syncs : \A r \in Syncs \ {s} : At(r, "idle")
MCNext == Next /\ (PageOpen' => OneSyncAtATime')
MCSpec == MirrorInit /\ [][MCNext]_vars
=============================================================================
