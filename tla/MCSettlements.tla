--------------------------- MODULE MCSettlements ---------------------------
(***************************************************************************)
(* Small instances of Settlements: one invoice, payments of two units, and *)
(* withdrawals of one or of two.                                           *)
(***************************************************************************)
EXTENDS Settlements, TLC

OneInvoice == [p \in Payments |-> CHOOSE i \in Invoices : TRUE]
Twos == [p \in Payments |-> 2]
Ones == [w \in Withdrawals |-> 1]
TwosOut == [w \in Withdrawals |-> 2]
AnyName == Permutations(Calls) \union Permutations(Payments) \union Permutations(Withdrawals)

\* Two payments do not fit an invoice over three: one call dies, or one of the
\* payments is refunded. They fit an invoice over four: then both may be refunded
\* and no call dies. That an intent lapses matters to a revision only, and there
\* is none with one version.
Refunding == {w \in Withdrawals : adjust[w] # None}
RefundsOrCrashes ==
  /\ \A i \in Invoices :
       IF invoice'[i].due = 3 THEN Cardinality(Refunding') + crashes' <= 1 ELSE crashes' = 0
  /\ \A p \in Payments : ~intent'[p].lapsed
=============================================================================
