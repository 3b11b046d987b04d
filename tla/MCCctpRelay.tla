---------------------------- MODULE MCCctpRelay ----------------------------
(***************************************************************************)
(* Small instances of CctpRelay.                                           *)
(***************************************************************************)
EXTENDS CctpRelay, TLC

AnyName == Permutations(Attempts) \union Permutations(Burns)

\* Every burn pays a quote of its own.
OwnQuotes == [b \in Burns |-> b]
UnitTotals == [q \in Quotes |-> 1]

\* Two burns. What the node forgets is left to the run with one: it concerns a
\* single row and its transaction.
NothingForgotten == UNCHANGED forgotten
=============================================================================
