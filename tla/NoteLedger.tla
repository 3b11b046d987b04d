----------------------------- MODULE NoteLedger -----------------------------
(***************************************************************************)
(* What the pool promises the people who hold notes, with no tree, no      *)
(* proof, no quote and no governance: a deposit adds one note together     *)
(* with the money behind it, a note is redeemed at most once and for its   *)
(* full amount, and nothing else touches either.                           *)
(***************************************************************************)
EXTENDS Integers, Sequences, PartialSums

CONSTANT Amounts   \* what a note may be worth

VARIABLES
  principal,  \* the amount of every note ever added, in order
  redeemed,   \* the indices of the notes that were redeemed
  vault       \* the money held against the notes

ledgerVars == <<principal, redeemed, vault>>

\* What each note still has a claim to.
Claims == [i \in Nat |-> IF i \in DOMAIN principal \ redeemed THEN principal[i] ELSE 0]

\* The money owed to all the notes together.
Owed == Sums(Claims)[Len(principal)]

Init ==
  /\ principal = <<>>
  /\ redeemed = {}
  /\ vault = 0

\* One more note, and its amount in the vault.
Add(amount) ==
  /\ principal' = Append(principal, amount)
  /\ vault' = vault + amount
  /\ UNCHANGED redeemed

\* Note i is paid out, once. A note redeemed to the vault itself is spent and
\* its money stays.
Redeem(i) ==
  /\ i \notin redeemed
  /\ redeemed' = redeemed \union {i}
  /\ vault' \in {vault - principal[i], vault}
  /\ UNCHANGED principal

Next ==
  \/ \E amount \in Amounts : Add(amount)
  \/ \E i \in DOMAIN principal : Redeem(i)

Spec == Init /\ [][Next]_ledgerVars

LedgerTypeOK ==
  /\ principal \in Seq(Amounts)
  /\ redeemed \subseteq DOMAIN principal
  /\ vault \in Int

\* The vault always covers every note that is not redeemed.
Solvent == vault >= Owed
=============================================================================
