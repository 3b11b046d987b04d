----------------------------- MODULE MCPoolTree -----------------------------
(***************************************************************************)
(* The money instance of the pool with its tree of depth two, over a small *)
(* prime field. The hash mixes: swapping its arguments changes it.         *)
(***************************************************************************)
EXTENDS MCOlioPool, PoolTree

MCField == 0..96
MCHash(left, right) == (left * left + 3 * left * right + 7 * right + 13) % 97
MCFieldOf(commitment) == commitment.amount + (IF commitment.owner = "ana" THEN 1 ELSE 30)

MoneyTreeSpec == TreeInit /\ [][TreeNext /\ WhilePaying']_<<vars, treeVars>>
=============================================================================
