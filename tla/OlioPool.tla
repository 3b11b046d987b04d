------------------------------ MODULE OlioPool ------------------------------
(***************************************************************************)
(* The shielded pool contract, programs/olio-pool/src/lib.rs.              *)
(*                                                                         *)
(* One action per entry point that changes state. A call that the contract *)
(* refuses is rolled back whole by the host, so a refusal is no step. The  *)
(* off-chain quote service appears only as the action that signs a quote.  *)
(*                                                                         *)
(* Cryptography is modelled by what it establishes. A commitment is the    *)
(* note it opens to; a root is the number of leaves it commits to (that    *)
(* the hashes of the incremental tree say as much is PoolTree's subject);  *)
(* a proof is accepted when the verifier key in force is one of its        *)
(* circuit and the circuit's statement holds. A nullifier is its 32 bytes: *)
(* a field element and the multiple of the field's order added to it, since*)
(* withdraw stores the bytes and proves the element.                       *)
(***************************************************************************)
EXTENDS Integers, Sequences, FiniteSets, Shifts, PartialSums

CONSTANTS
  Accounts,          \* Stellar addresses, the pool's among them
  Pool,              \* the pool contract's own address
  Owners,            \* holders of note secrets
  Recipients,        \* accounts a withdrawal may name
  Amounts,           \* payment amounts a caller may try
  Templates,         \* the payments a fee quote may be asked for
  QuoteKeys,         \* ed25519 keys of the quote service
  VerifierKeys,      \* groth16 verification keys
  CodeHashes,        \* wasm hashes an upgrade may name
  Proposals,         \* the governance actions an admin may try
  None,              \* no pending proposal
  InitialAdmin, InitialFeeRecipient, InitialQuoteKey, InitialVerifiers,
  InitialCode,       \* constructor arguments
  InitialBalances,   \* the asset's balances when the pool is deployed
  Carries,           \* multiples of the field's order 32 bytes have room for
  Depth,             \* tree depth
  RootHistorySize,   \* ROOT_HISTORY_SIZE
  Timelock,          \* TIMELOCK_SECONDS
  DirectMaxLifetime, AsyncMaxLifetime, IssuedAtClockSkew,
  ServerClockLead,   \* how far the quote service's clock may run ahead
  U64Max,            \* u64::MAX
  MaxTime,           \* bound on the ledger clock
  MaxProposals       \* bound on the proposals made

VerifierKinds == {"deposit", "withdraw", "transfer"}
Channels == {"direct", "cctp"}

\* A note commitment, by what it opens to.
Notes == [owner : Owners, amount : Nat]

ASSUME PoolAssumption ==
  /\ Pool \in Accounts
  /\ Recipients \subseteq Accounts
  /\ InitialAdmin \in Accounts
  /\ InitialFeeRecipient \in Accounts \ {Pool}
  /\ InitialQuoteKey \in QuoteKeys
  /\ InitialCode \in CodeHashes
  /\ InitialBalances \in [Accounts -> Nat]
  /\ InitialBalances[Pool] = 0

ASSUME ParameterAssumption ==
  /\ Amounts \subseteq Nat
  /\ 0 \in Carries
  /\ Depth \in 1..32
  /\ {RootHistorySize, Timelock, DirectMaxLifetime, AsyncMaxLifetime} \subseteq Nat \ {0}
  /\ {IssuedAtClockSkew, ServerClockLead, U64Max, MaxTime, MaxProposals} \subseteq Nat
  /\ MaxTime <= U64Max

\* A payment the quote service may be asked to sign. sourced: source_domain
\* and source_payer name a payer on another chain. home: the quote's versions,
\* network, pool and fee rate are this contract's.
ASSUME TemplateAssumption ==
  \A t \in Templates :
    /\ t.depositor \in Accounts \ {Pool}
    /\ t.commitment \in Notes
    /\ {t.amount, t.fee, t.total} \subseteq Nat
    /\ t.channel \in Channels
    /\ {t.sourced, t.home} \subseteq BOOLEAN

ASSUME VerifierAssumption ==
  /\ \A k \in VerifierKeys : k.circuit \in VerifierKinds
  /\ InitialVerifiers \in [VerifierKinds -> VerifierKeys]

\* A governance action. slot is the verifier a SetVerifierKey replaces.
ASSUME ProposalAssumption ==
  \A p \in Proposals :
    \/ p.kind = "Upgrade" /\ p.value \in CodeHashes
    \/ p.kind = "SetVerifierKey" /\ p.slot \in VerifierKinds /\ p.value \in VerifierKeys
    \/ p.kind = "SetAdmin" /\ p.value \in Accounts
    \/ p.kind = "SetFeeRecipient" /\ p.value \in Accounts
    \/ p.kind = "SetFeeQuoteSigner" /\ p.value \in QuoteKeys

PendingGovernance ==
  [id : Nat, action : Proposals, proposedAt : Nat, executeAt : Nat]

ASSUME NoneAssumption == None \notin PendingGovernance

Governed == [admin : Accounts, feeRecipient : Accounts, signer : QuoteKeys,
             vk : [VerifierKinds -> VerifierKeys], code : CodeHashes]

VARIABLES
  now,          \* ledger timestamp
  balance,      \* the asset contract's balances
  paused,       \* DataKey::Paused
  leaves,       \* the commitments inserted, in order
  roots,        \* DataKey::Roots, each as the number of leaves it commits to
  nullifiers,   \* DataKey::Nullifier, by the bytes
  usedQuotes,   \* DataKey::UsedQuote
  governed,     \* DataKey::Admin, FeeRecipient, FeeQuoteSigner, Vk*, and the wasm
  pending,      \* DataKey::PendingGovernance
  nonce,        \* DataKey::GovernanceNonce
  signatures,   \* the quotes the service has signed
  fees,         \* FeeCollectedEvent, in order
  spends,       \* withdraw events, in order
  proposals     \* gov_proposed, gov_executed, gov_cancelled events, by proposal id

noteVars == <<balance, leaves, roots, nullifiers, usedQuotes, fees, spends>>
governanceVars == <<governed, pending, nonce, proposals>>
vars == <<now, paused, signatures, noteVars, governanceVars>>
-----------------------------------------------------------------------------
\* calculate_fee: DEFAULT_FEE_BPS of the amount, rounded down.
DefaultFeeBps == 200
BpsDenominator == 10000
FeeOf(amount) == (amount * DefaultFeeBps) \div BpsDenominator
TotalOf(amount) == amount + FeeOf(amount)

\* 1u32.checked_shl(depth)
Capacity == ShiftLeft(1)[Depth]

SmallerOf(a, b) == IF a <= b THEN a ELSE b

\* token::Client::transfer, once its balance check has passed.
Transfer(balances, from, to, amount) ==
  [balances EXCEPT ![from] = @ - amount,
                   ![to] = IF to = from THEN balances[to] ELSE @ + amount]

\* max_lifetime of validate_quote; 0 where the channel and the source disagree.
MaxLifetime(t) ==
  CASE t.channel = "direct" /\ ~t.sourced -> DirectMaxLifetime
    [] t.channel = "cctp" /\ t.sourced -> AsyncMaxLifetime
    [] OTHER -> 0

\* validate_quote
ValidQuote(from, commitment, amount, s) ==
  LET t == s.quote
      lifetime == s.expiresAt - s.issuedAt
  IN /\ t.home
     /\ t.depositor = from
     /\ t.commitment = commitment
     /\ t.amount = amount
     /\ s.issuedAt <= SmallerOf(now + IssuedAtClockSkew, U64Max)
     /\ s.expiresAt >= now
     /\ lifetime \in 1..MaxLifetime(t)
     /\ t.fee = FeeOf(amount)
     /\ t.total = TotalOf(amount)

\* UsedQuote: the quote's id was never settled.
AnyQuoteUnused(id) == TRUE
QuoteUnused(id) == id \notin usedQuotes

\* What the payer gives and the fee recipient gets; the rest stays in the pool.
FeeFromPrincipal(from, quote) ==
  Transfer(Transfer(balance, from, Pool, quote.amount),
           Pool, governed.feeRecipient, quote.fee)
Collected(from, quote) ==
  Transfer(Transfer(balance, from, Pool, quote.total),
           Pool, governed.feeRecipient, quote.fee)

\* groth16::verify with the deposit circuit: the commitment opens to the amount.
DepositProofOk(commitment, amount) ==
  /\ governed.vk["deposit"].circuit = "deposit"
  /\ commitment.amount = amount

\* The nullifier of the withdraw circuit: Poseidon of the secret and the index.
Nullifier(owner, i) == <<owner, i>>

\* The 32 bytes a caller sends for it.
NullifierBytes == [element : Owners \X Nat, carry : Carries]
Bytes(nullifier, carry) == [element |-> nullifier, carry |-> carry]

\* groth16::verify with the withdraw circuit: the prover knows the secret of a
\* leaf of the tree under root, and the nullifier and the amount are its own.
\* The verifier gets the bytes reduced to the field (Bn254Fr::from_u256).
WithdrawProofOk(root, nullifier, amount) ==
  /\ governed.vk["withdraw"].circuit = "withdraw"
  /\ \E i \in 1..root :
       /\ nullifier.element = Nullifier(leaves[i].owner, i)
       /\ amount = leaves[i].amount

\* root_is_known
RootIsKnown(root) == \E j \in DOMAIN roots : roots[j] = root

\* What withdraw asks before it pays. It does not look at paused, and not at
\* whether the nullifier is below the field's order, as deposit does with a
\* commitment: bytes are new unless the same bytes were stored.
WithdrawableTwice(root, nullifier, amount) ==
  RootIsKnown(root) /\ WithdrawProofOk(root, nullifier, amount)
WithdrawableUnlessPaused(root, nullifier, amount) ==
  /\ ~paused
  /\ RootIsKnown(root)
  /\ nullifier \notin nullifiers
  /\ WithdrawProofOk(root, nullifier, amount)
Withdrawable(root, nullifier, amount) ==
  /\ amount > 0
  /\ RootIsKnown(root)
  /\ nullifier \notin nullifiers
  /\ WithdrawProofOk(root, nullifier, amount)

\* insert: the new root goes to the end, and the oldest go once there are more
\* than RootHistorySize of them.
PushRootDroppingNewest(history, root) ==
  SubSeq(Append(history, root), 1, SmallerOf(Len(history) + 1, RootHistorySize))
PushRoot(history, root) ==
  LET longer == Append(history, root)
  IN IF Len(longer) > RootHistorySize
     THEN SubSeq(longer, Len(longer) - RootHistorySize + 1, Len(longer))
     ELSE longer

\* validate_verifier_key looks at the number of points only, and the withdraw
\* and transfer circuits have as many.
IcLength(kind) == IF kind = "deposit" THEN 3 ELSE 5

\* execute_at is fixed when the proposal is made.
ElapsedAtOnce(proposal) == now >= proposal.proposedAt
TimelockElapsed(proposal) == now >= proposal.executeAt

\* The arguments propose_governance refuses.
ValidProposal(action) ==
  /\ action.kind = "SetVerifierKey" =>
       IcLength(action.value.circuit) = IcLength(action.slot)
  /\ action.kind = "SetFeeRecipient" => action.value # Pool

\* What execute_governance writes.
Applied(action, g) ==
  CASE action.kind = "Upgrade" -> [g EXCEPT !.code = action.value]
    [] action.kind = "SetVerifierKey" -> [g EXCEPT !.vk[action.slot] = action.value]
    [] action.kind = "SetAdmin" -> [g EXCEPT !.admin = action.value]
    [] action.kind = "SetFeeRecipient" -> [g EXCEPT !.feeRecipient = action.value]
    [] action.kind = "SetFeeQuoteSigner" -> [g EXCEPT !.signer = action.value]
-----------------------------------------------------------------------------
\* __constructor
Init ==
  /\ now = 0
  /\ balance = InitialBalances
  /\ paused = FALSE
  /\ leaves = <<>>
  /\ roots = <<0>>
  /\ nullifiers = {}
  /\ usedQuotes = {}
  /\ governed = [admin |-> InitialAdmin, feeRecipient |-> InitialFeeRecipient,
                 signer |-> InitialQuoteKey, vk |-> InitialVerifiers,
                 code |-> InitialCode]
  /\ pending = None
  /\ nonce = 0
  /\ signatures = {}
  /\ fees = <<>>
  /\ spends = <<>>
  /\ proposals = <<>>

\* Ledgers close.
Tick ==
  /\ now < MaxTime
  /\ now' = now + 1
  /\ UNCHANGED <<paused, signatures, noteVars, governanceVars>>

\* The service signs a payment with the channel's full lifetime, from its own
\* clock and with the key in force (issueFeeQuote). Only the relay of a CCTP
\* payment signs it again, once its quote has run out (doRelayDeposit).
SignQuote(t, issuedAt) ==
  /\ \A s \in signatures :
       s.quote.id = t.id => t.channel = "cctp" /\ s.expiresAt < issuedAt
  /\ issuedAt \in now..(now + ServerClockLead)
  /\ LET lifetime == IF t.channel = "direct" THEN DirectMaxLifetime ELSE AsyncMaxLifetime
     IN signatures' = signatures \union
          {[quote |-> t, issuedAt |-> issuedAt, expiresAt |-> issuedAt + lifetime,
            key |-> governed.signer]}
  /\ UNCHANGED <<now, paused, noteVars, governanceVars>>

\* deposit
Deposit(from, commitment, amount, s) ==
  /\ ~paused
  /\ amount \in 1..U64Max
  /\ ValidQuote(from, commitment, amount, s)
  /\ s.key = governed.signer
  /\ QuoteUnused(s.quote.id)
  /\ DepositProofOk(commitment, amount)
  /\ balance[from] >= s.quote.total
  /\ Len(leaves) < Capacity
  /\ balance' = Collected(from, s.quote)
  /\ usedQuotes' = usedQuotes \union {s.quote.id}
  /\ leaves' = Append(leaves, commitment)
  /\ roots' = PushRoot(roots, Len(leaves) + 1)
  /\ fees' = Append(fees, [payer |-> from, recipient |-> governed.feeRecipient,
                           quoteId |-> s.quote.id, amount |-> amount,
                           fee |-> s.quote.fee, total |-> s.quote.total])
  /\ UNCHANGED <<now, paused, signatures, nullifiers, spends, governanceVars>>

\* withdraw
Withdraw(dest, amount, root, nullifier) ==
  /\ Withdrawable(root, nullifier, amount)
  /\ balance[Pool] >= amount
  /\ nullifiers' = nullifiers \union {nullifier}
  /\ balance' = Transfer(balance, Pool, dest, amount)
  /\ spends' = Append(spends, [nullifier |-> nullifier, dest |-> dest, amount |-> amount])
  /\ UNCHANGED <<now, paused, signatures, leaves, roots, usedQuotes, fees, governanceVars>>

\* pause and unpause
SetPaused(caller, value) ==
  /\ caller = governed.admin
  /\ paused' = value
  /\ UNCHANGED <<now, signatures, noteVars, governanceVars>>

\* propose_*
ProposeGovernance(caller, action) ==
  /\ caller = governed.admin
  /\ ValidProposal(action)
  /\ pending = None
  /\ nonce < U64Max
  /\ now + Timelock <= U64Max
  /\ nonce' = nonce + 1
  /\ pending' = [id |-> nonce + 1, action |-> action,
                 proposedAt |-> now, executeAt |-> now + Timelock]
  /\ proposals' = Append(proposals, [action |-> action, by |-> caller, at |-> now,
                                     outcome |-> "pending", closedBy |-> caller,
                                     closedAt |-> now])
  /\ UNCHANGED <<now, paused, signatures, noteVars, governed>>

CloseLeavingPending(caller, outcome) ==
  /\ UNCHANGED pending
  /\ proposals' = [proposals EXCEPT ![pending.id] =
       [@ EXCEPT !.outcome = outcome, !.closedBy = caller, !.closedAt = now]]
\* The pending proposal leaves the storage and its closing event is published.
Close(caller, outcome) ==
  /\ pending' = None
  /\ proposals' = [proposals EXCEPT ![pending.id] =
       [@ EXCEPT !.outcome = outcome, !.closedBy = caller, !.closedAt = now]]

\* execute_governance: anyone may call it, but a new admin has to sign.
ExecuteGovernance(caller, id) ==
  /\ pending # None
  /\ id = pending.id
  /\ TimelockElapsed(pending)
  /\ pending.action.kind = "SetAdmin" => caller = pending.action.value
  /\ governed' = Applied(pending.action, governed)
  /\ Close(caller, "executed")
  /\ UNCHANGED <<now, paused, signatures, noteVars, nonce>>

\* cancel_governance
CancelGovernance(caller, id) ==
  /\ caller = governed.admin
  /\ pending # None
  /\ id = pending.id
  /\ Close(caller, "cancelled")
  /\ UNCHANGED <<now, paused, signatures, noteVars, governed, nonce>>

\* A caller presents a quote the service signed.
SomeDeposit ==
  \E from \in Accounts \ {Pool}, s \in signatures, amount \in Amounts :
    \E owner \in Owners, opening \in Amounts :
      Deposit(from, [owner |-> owner, amount |-> opening], amount, s)

\* The holder of leaf i proves it under some root.
SomeWithdraw(i) ==
  \E dest \in Recipients, amount \in Amounts, root \in 0..Len(leaves),
     owner \in Owners, carry \in Carries :
    Withdraw(dest, amount, root, Bytes(Nullifier(owner, i), carry))

SomeGovernance ==
  \E caller \in Accounts :
    \/ \E value \in BOOLEAN : SetPaused(caller, value)
    \/ /\ nonce < MaxProposals
       /\ \E action \in Proposals : ProposeGovernance(caller, action)
    \/ \E id \in 1..nonce : ExecuteGovernance(caller, id)
    \/ \E id \in 1..nonce : CancelGovernance(caller, id)

\* An executed upgrade replaces the code: this module describes the contract
\* for as long as the wasm it was deployed with is in force.
Next ==
  /\ governed.code = InitialCode
  /\ \/ Tick
     \/ \E t \in Templates, issuedAt \in now..(now + ServerClockLead) : SignQuote(t, issuedAt)
     \/ SomeDeposit
     \/ \E i \in 1..Len(leaves) : SomeWithdraw(i)
     \/ SomeGovernance

Spec == Init /\ [][Next]_vars

\* Leaf i was paid, under whatever bytes.
Spent(i) == \E n \in nullifiers : n.element = Nullifier(leaves[i].owner, i)

\* A holder who keeps trying gets a withdrawal into a ledger.
PoolFairness ==
  \A i \in 1..Capacity :
    WF_vars(/\ governed.code = InitialCode
            /\ i \in DOMAIN leaves /\ ~Spent(i)
            /\ SomeWithdraw(i))
FairSpec == Spec /\ PoolFairness
-----------------------------------------------------------------------------

TypeOK ==
  /\ now \in Nat
  /\ balance \in [Accounts -> Nat]
  /\ paused \in BOOLEAN
  /\ leaves \in Seq(Notes)
  /\ roots \in Seq(Nat)
  /\ nullifiers \subseteq NullifierBytes
  /\ signatures \subseteq [quote : Templates, issuedAt : Nat, expiresAt : Nat, key : QuoteKeys]
  /\ governed \in Governed
  /\ nonce \in Nat
  /\ pending \in PendingGovernance \union {None}

\* What the custody argument rests on: every leaf is a positive amount, no root
\* kept is of a tree larger than the present one, every nullifier is that of a
\* leaf, and neither the fee recipient in force nor the one proposed is the
\* pool, so that a fee always leaves it.
CustodyInv ==
  /\ \A i \in DOMAIN leaves : leaves[i].amount \in Amounts \ {0}
  /\ \A j \in DOMAIN roots : roots[j] \in 0..Len(leaves)
  /\ \A n \in nullifiers :
       \E i \in DOMAIN leaves : n.element = Nullifier(leaves[i].owner, i)
  /\ governed.feeRecipient # Pool
  /\ pending # None /\ pending.action.kind = "SetFeeRecipient" =>
       pending.action.value # Pool

\* Event j paid a leaf that an earlier event had paid, under bytes of its
\* nullifier that no event had carried.
PaidAgain(j) ==
  /\ spends[j].dest # Pool
  /\ \E k \in 1..(j - 1) : spends[k].nullifier.element = spends[j].nullifier.element
  /\ \A k \in 1..(j - 1) : spends[k].nullifier # spends[j].nullifier

\* What left the pool in such payments.
Repayments ==
  [j \in Nat |-> IF j \in DOMAIN spends /\ PaidAgain(j) THEN spends[j].amount ELSE 0]
Repaid == Sums(Repayments)[Len(spends)]

\* What the pool holds and what it has paid again cover, together, every note
\* that is not spent: no order of deposits, withdrawals and fee payments, under
\* any governance short of new code, lets out money that a note still claims
\* but a second payment of a note under other bytes of its nullifier.
Ledger == INSTANCE NoteLedger WITH
  Amounts <- Amounts \ {0},
  principal <- [i \in DOMAIN leaves |-> leaves[i].amount],
  redeemed <- {i \in DOMAIN leaves : Spent(i)},
  vault <- balance[Pool] + Repaid
Solvent == Ledger!Solvent

\* But for those payments, which the ledger does not know and which are no step
\* of it, the pool implements the abstract ledger of notes.
ImplementsLedger == Ledger!Spec

\* Every withdraw event paid the whole principal of an inserted leaf, whatever
\* root it was proved under, and no two events carried the same bytes: a leaf
\* is paid at most once for every carry.
BytesPayOnceInFull ==
  \A j \in DOMAIN spends :
    /\ \E i \in DOMAIN leaves :
         /\ spends[j].nullifier.element = Nullifier(leaves[i].owner, i)
         /\ spends[j].amount = leaves[i].amount
    /\ \A k \in DOMAIN spends : spends[k].nullifier = spends[j].nullifier => k = j

\* Every leaf was paid for by a quote of its own: the fee event beside it names
\* the payer, commitment and amounts of one signed payment, the pool kept
\* exactly the note's amount of it, and no payment is settled twice although
\* the service may sign it again and the signing key may rotate in between.
EachLeafSettlesOnePayment ==
  /\ Len(fees) = Len(leaves)
  /\ \A k \in DOMAIN fees :
       /\ \E s \in signatures :
            /\ s.quote.id = fees[k].quoteId
            /\ s.quote.depositor = fees[k].payer
            /\ s.quote.commitment = leaves[k]
       /\ fees[k].amount = leaves[k].amount
       /\ fees[k].total - fees[k].fee = leaves[k].amount
       /\ fees[k].recipient # Pool
       /\ \A j \in DOMAIN fees : fees[j].quoteId = fees[k].quoteId => j = k

\* The roots kept are those of the current tree and of the last
\* RootHistorySize - 1 trees before it: a proof made against the current root
\* outlives that many deposits by others, and no older root is accepted.
RootWindow ==
  roots = [j \in 1..SmallerOf(Len(leaves) + 1, RootHistorySize) |->
             Len(leaves) + j - SmallerOf(Len(leaves) + 1, RootHistorySize)]

\* A proposal takes effect once at most, never after it was cancelled, and no
\* earlier than Timelock after an admin made it; a new admin signed for itself.
TimelockHonoured ==
  \A id \in DOMAIN proposals :
    LET p == proposals[id] IN
      /\ p.outcome = "executed" => p.closedAt >= p.at + Timelock
      /\ p.outcome = "executed" /\ p.action.kind = "SetAdmin" =>
           p.closedBy = p.action.value
      /\ p.outcome = "pending" <=> pending # None /\ pending.id = id

\* Whatever is governed changes only by the one proposal that was pending, all
\* other proposals keep the outcome they had, and closed ones stay closed.
GovernedByProposals ==
  [][/\ governed' # governed =>
          /\ pending # None
          /\ pending' = None
          /\ proposals[pending.id].action = pending.action
          /\ governed' = Applied(pending.action, governed)
          /\ proposals'[pending.id].outcome = "executed"
     /\ \A id \in DOMAIN proposals :
          proposals[id].outcome # "pending" => proposals'[id] = proposals[id]
    ]_<<governed, proposals>>

\* A holder who keeps trying is paid, whatever is paused, quoted or proposed
\* in the meantime, as long as governance installs no other withdraw circuit
\* and no other code, and the pool was not emptied by paying a note again.
ExitOpen ==
  \A i \in 1..Capacity :
    i \in DOMAIN leaves ~>
      \/ i \in DOMAIN leaves /\ Spent(i)
      \/ i \in DOMAIN leaves /\ Repaid > 0 /\ balance[Pool] < leaves[i].amount
      \/ governed.vk["withdraw"].circuit # "withdraw"
      \/ governed.code # InitialCode
=============================================================================
