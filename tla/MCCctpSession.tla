--------------------------- MODULE MCCctpSession ---------------------------
(***************************************************************************)
(* CctpSession on two transactions and two workers. The transactions are   *)
(* alike, so the first to be sent is FirstTx. Once there are two burns one *)
(* worker calls at a time: two calls at once are explored with one burn.   *)
(***************************************************************************)
EXTENDS CctpSession

CONSTANT FirstTx

Alike == chain'.sent = {} \/ FirstTx \in chain'.sent
OneCall ==
  Cardinality(chain'.sent) > 1 =>
    Cardinality({w \in Workers : call'[w].step # "idle"}) <= 1

MCInit == Init /\ chain.sent \subseteq {FirstTx} /\ payer.hash \in {None, FirstTx}
MCNext == Next /\ Alike /\ OneCall

MCFairSpec == MCInit /\ [][MCNext]_vars /\ Fairness
=============================================================================
