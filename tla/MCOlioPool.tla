----------------------------- MODULE MCOlioPool -----------------------------
(***************************************************************************)
(* Small instances of OlioPool. Amounts are chosen around the point where  *)
(* the 2 percent fee starts to be a whole unit.                            *)
(***************************************************************************)
EXTENDS OlioPool

Payment(id, depositor, owner, amount, channel) ==
  [id |-> id, depositor |-> depositor,
   commitment |-> [owner |-> owner, amount |-> amount],
   amount |-> amount, fee |-> FeeOf(amount), total |-> TotalOf(amount),
   channel |-> channel, sourced |-> channel = "cctp", home |-> TRUE]

\* Two payments of two notes and a one-root window, and one that arrives from another chain.
MCTemplates ==
  {Payment("q1", "payer", "ana", 50, "direct"),
   Payment("q2", "payer", "ana", 50, "direct"),
   Payment("q3", "intake", "ben", 49, "cctp")}

MCKey(circuit, setup) == [circuit |-> circuit, setup |-> setup]
MCInitialVerifiers == [k \in VerifierKinds |-> MCKey(k, 1)]
MCVerifierKeys == {MCKey(k, n) : k \in VerifierKinds, n \in 1..2}

MCBalances == [a \in Accounts |-> CASE a = "payer" -> 103 [] a = "intake" -> 49 [] OTHER -> 0]

Rotation(kind, value) == [kind |-> kind, value |-> value]
\* The money run also lets the signing key change while a signed payment is on
\* its way, and the pool be proposed as its own fee recipient.
RotationProposals ==
  {Rotation("SetFeeQuoteSigner", "key2"), Rotation("SetFeeRecipient", "pool")}

\* The exit run: two notes and a one-root window, the pause switch, and a verifier that may be swapped.
MCOneEach == {Payment("q1", "payer", "ana", 49, "direct"), Payment("q4", "payer", "ben", 49, "direct")}
ExitProposals ==
  {[kind |-> "SetVerifierKey", slot |-> "withdraw", value |-> MCKey("transfer", 1)],
   Rotation("Upgrade", "code2")}

\* Every kind of action, with arguments that are refused.
AllProposals ==
  {Rotation("SetAdmin", "treasury"),
   Rotation("SetFeeRecipient", "payer"), Rotation("SetFeeRecipient", "pool"),
   Rotation("SetFeeQuoteSigner", "key2"), Rotation("Upgrade", "code2"),
   [kind |-> "SetVerifierKey", slot |-> "withdraw", value |-> MCKey("withdraw", 2)],
   [kind |-> "SetVerifierKey", slot |-> "withdraw", value |-> MCKey("transfer", 1)],
   [kind |-> "SetVerifierKey", slot |-> "deposit", value |-> MCKey("transfer", 1)]}

\* The money run governs in full before the first payment is signed. From then on
\* only the signing key or the fee recipient may be changed, by one proposal, and
\* not while the pool is paused. Only the first leaf is paid under other bytes, and
\* only while nothing is proposed.
WhilePaying ==
  signatures # {} =>
    /\ now <= 2
    /\ \A n \in nullifiers : n.carry > 0 => n.element[2] = 1 /\ proposals = <<>>
    /\ nonce <= 1 /\ (paused => proposals = <<>>)
    /\ \A id \in DOMAIN proposals : proposals[id].action \in RotationProposals
=============================================================================
