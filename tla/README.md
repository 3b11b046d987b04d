# Formal models of Olio

Olio takes payments in USDC into a shielded pool on Stellar. A payer asks the
server for a signed fee quote, pays directly or by a CCTP burn on another
chain, and the pool stores the payment as a note in a Merkle tree. The
recipient finds the note in a mirror of the pool's events and withdraws it with
a zero-knowledge proof. The server books payments of invoices, and keeps
business profiles, verification cases and key escrows beside.

This directory holds TLA+ modules that model the parts of the program in which
money can be lost, paid twice or stuck, TLC configurations that check them on
small instances, and theorems that TLAPS checks for instances of every size.
Source paths below are relative to the repository.

## The system

| Part | State it keeps | Operations | What makes it right |
| --- | --- | --- | --- |
| olio-pool, `programs/olio-pool` | asset balances, leaves, root history, nullifiers, used quotes, admin, signer, verifier keys, one pending proposal | `deposit`, `withdraw`, `pause`/`unpause`, propose, cancel and execute governance | the vault covers the unspent notes and a note is paid in full, once for each encoding of its nullifier; a quote settles one payment; governance waits for its delay; no one can block an exit |
| olio-intake, olio-registry, olio-account | intake admin; user names and keys; account owner | `deposit_to_pool`; `register`, `set_pubkey`; `set_owner` | name and owner maps agree; a key change needs its owner |
| circuits (`deposit`, `withdraw`, `transfer`) | none | statements about notes | the contract's meaning of a proof |
| fee quotes, `feeQuotes` | payment intents | issue, record attribution | an intent is open while its quote can be paid |
| CCTP relay, `cctp.service`, `poolSettlement` | `cctp_relays` rows, the sequence lock | `relayDeposit`: mint leg, deposit leg, resolution | rows agree with the chain; nothing is minted or deposited twice; every authorized burn is deposited |
| CCTP sessions and worker | `cctp_sessions` | create, report a source transaction, settle next | one session, one burn; nobody's session is completed with another's deposit |
| pool indexer, `deposits`, `datalake` | mirrored events, published watermark, pending gaps, root frontier | sync, fill a gap, snapshot | nothing published is missing; a wrong mirror says so |
| settlements, invoices | invoices and versions, intents, settlements, allocations, adjustments | reconcile, allocate, repair, refund, recompute, revise, issue, cancel | an invoice shows its allocations; amounts are counted once |
| verification | cases, webhook events, credentials, an outbox | start, reconcile, sync the credential | a suspended identity stays suspended |
| wallets, businesses, links, names, channels, passport, evidence, notifications, AI drafts | one document each, mostly | create, read, update | revisions of one document |
| browser (`web/src/lib`, `features`) | pool mirror in IndexedDB, bridge keys | scan, prove, withdraw, forward | what is spent is shown as spent |

The parts meet in few places. The quote service signs what the pool verifies.
The settlement worker and a public route both call `relayDeposit`, which is the
only sender of the operator's transactions and reaches the pool through the
intake contract. The indexer publishes pool events to Mongo; settlements read
only what it has published. Workers are HTTP endpoints that `web/scripts/cron-loop.mjs`
calls again and again, each under a lease in `indexer_state`; nothing is
transactional, and a write is an update of one document with a filter.

Hard to test are therefore: overlapping calls between two writes, leases that
run out under a running call, a process that dies half way, a transaction of
which nobody knows whether it will still get into a ledger, clocks that differ,
and projections computed from old reads. `PROJECT.json` lists these hazards at
their lines.

## Modules

| Module | Models | Checked by |
| --- | --- | --- |
| `OlioPool` | the pool contract, every entry point | `MCOlioPool`, through `MCPoolTree` and `MCProgress` |
| `NoteLedger` | what the pool promises: a vault, notes, redemption | refinement in `MCPoolTree`, proofs |
| `PartialSums`, `Shifts` | running totals, for the solvency proof; `<<` and `>>` | used by the others |
| `MerkleTree` | the incremental tree: contract, indexer, browser, circuit | theorems, and `PoolTree` |
| `PoolTree` | the pool together with the hashes it stores | `MCPoolTree` |
| `CctpRelay` | `relayDeposit`, the sequence lock, the ledger | `MCCctpRelay` |
| `CctpSession` | the payer's page, the session, the settlement worker | `MCCctpSession` |
| `PoolIndexer`, `PoolMirror` | `syncPoolIndex`, and the browser's copy on top of it | `MCPoolMirror`, `MCProgress` |
| `Settlements` | settlements, allocations, refunds, invoices and their versions | `MCSettlements` |
| `Verification` | one identity check: case, notification, credential, operator | `MCProgress` |
| `...Proofs` | theorems about the module they are named after (`OlioPoolProofs`: about `MerkleTree` and `PoolTree` too, `PoolIndexerProofs`: about `PoolMirror` too) | tlapm |

### OlioPool

One action per entry point of `lib.rs`: `Deposit`, `Withdraw`, `SetPaused`,
`Propose`, `Cancel`, `Execute`, with the order of the checks and the effects
of the code; `Tick` closes ledgers and `SignQuote` is the quote service. The
host rolls a refused call back, so a refusal is no step. A commitment is the
note it opens to, a root the number of leaves of the tree it belongs to. A proof
is accepted if the key in the slot is of the circuit and the circuit's statement
holds; a transfer key in the withdraw slot accepts nothing. After an `Upgrade`
the module stops, since other code runs then: that is why deadlock is not checked
in these runs.

A nullifier is the 32 bytes a caller sends (`Bytes`): a field element and the
multiple of the field's order added to it, from the set `Carries`. `withdraw` stores
and looks up the bytes (`lib.rs:438`, `:454`) and proves the element, since
`Bn254Fr::from_u256` reduces them (`:446`). It does not ask, as `deposit` does of a
commitment (`:344`), whether they are below the order. One note therefore has as many
keys as there are carries and can be paid under each. The model does what the code
does, and the properties say what remains true: `BytesPayOnceInFull` speaks of the
bytes, and `Repaid` is the money that left the pool in an event for a leaf that an
earlier event had paid under other bytes.

`NoteLedger` has a vault, a sequence of notes and the redeemed ones. The
mapping takes the leaves as notes, a leaf as redeemed when some bytes of its
nullifier are in the set, and as the vault what the pool holds and what it has
`Repaid` together. A second payment under other bytes is no step of the ledger.
Under the same bytes it would count as a loss: `PaidAgain` asks for bytes that no
event has carried.

### MerkleTree and PoolTree

`MerkleTree` writes the tree down once as what is meant (`Tree`, `Root`: every
node the hash of the two below it, absent leaves 0) and then as the four places
compute it: the contract's `insert` over its frontier, the indexer's
`advancePoolRoots`, the browser's `merkleProof`, and the fold of the path in
`withdraw.circom`. `Hash` is any function of two field elements, since nothing
here rests on Poseidon being one-way. `PoolTree` adds the stored frontier and the
stored root hashes to `OlioPool`, so that the number by which `OlioPool` names a
root is shown to stand for the hash the contract keeps. The shortcut by which the
indexer resumes at a stored count of leaves is left out. A full tree refuses a
deposit: the guard `Len(leaves) < Capacity` stands for the check on the index
(`lib.rs:983`), and at depth 32, where that check is off, for the overflow of the
index itself.

### CctpRelay

A call of `relayDeposit` is an attempt, named by the uuid it draws. Its steps
are the places where the code awaits: claim the row, take the sequence lock,
build and sign, write the checkpoint with the hash, look at the lock, send,
poll, record; or, for a row left in `minting` or `depositing`, resolve the
transaction on record. `Fail` stops a call anywhere, and stands for an
exception and for the death of the process alike: leases and locks stay as they
are. `Begin` refuses a burn made outside the quote's lifetime (`authorized`,
`cctp.service.ts:298-302`). Names are used again once nothing refers to them, so
retries are unbounded. `Include` puts a transaction into a ledger, where it succeeds or
fails; others with the same sequence number are out. Deadlines are kept as the
time that is left. The server's clock and the last ledger's close time differ by
up to `MaxLag`. `Forget` is the node dropping the ledgers of a transaction that a row
waits for, at any time after its time bounds: it is not found from then on, and, as
`missingTransactionProvenExpired` insists on the ledgers back to the lower bound
(`cctpRecovery.ts:42-45`), not proven expired either.

### CctpSession

The page (`payer`) creates a session, prepares a burn, asks the wallet, and
reports the hash; each request may be lost and the page may close between any
two. Workers claim the session under a lease, read the relay's row by quote,
scan the source chain in windows for a burn that was not reported, write
checkpoints, ask Iris, call the relay and finish, give up or park. Blocks may be
reorganized up to `Trail` deep. The relay is `CctpRelay` seen by its outcome: of
the burns of one quote at most one is deposited. The stages `minted` and
`depositing` are folded into `minting`, and since a session is parked by age and
ages are not modelled, any call that fails may park it.

### PoolIndexer and PoolMirror

A ledger of `PoolIndexer` has one event, a deposit or a spend, and is the name of
its document. A sync takes the lease, fetches from the node (which has dropped
what is older than `oldest`) or from a fallback window, fills gaps from the data
lake if it is on, writes the documents, counts leaves on the chain and in the
mirror, advances the roots and publishes under its lease. Each of these is a step,
the lease may lapse under a call that runs on, and `Crash` stops one anywhere.
Between the counting on the chain and in the mirror other syncs write. `PoolMirror`
is a page that asks for a snapshot: the server reads the state, then the
documents; the page merges what it gets and asks again for everything if the
result does not fit.

### Settlements

Every read and every write of a document is a step of a call, so that any two
calls interleave between them. A payment stands for its intent, its settlement
and its one allocation, since the id of an allocation is made of settlement,
invoice and version. The calls are `issueFeeQuote` (for an invoice),
`reconcileDeposit`, the repair of pending allocations, `recordRefund`,
`reviseInvoice`, `issueInvoice` and `cancelInvoice`; `recomputeInvoice` is the
part they share and has its loop of five attempts. The reconciler's lease is
not in the model: it lasts 50 s, is not renewed and is not in the filters of the
writes, and the route for a single leaf does not take it, so that calls overlap
with it as without. The two reads of `refundSharesForSettlements` are one step.
A crash ends a call at any step. Deadlock is not checked, because the books may
be closed with nothing left to do.

`InvoiceNotOverbooked` is stated for an invoice with its first terms, as long as no
refunded payment is taken back from it, and `ProjectionAtRest` for an invoice none
of whose payments was reversed after the invoice took it. The conditions are not
for convenience: see "What the code does otherwise" below.

### Verification

`reviews` is what the provider answers over time, `kase` the case, `event` one
webhook notification, `credential` the status the passport shows, `work` where each
call of `reconcileCase` is. A call holds the lease of the case, and the worker that
of the notification; it takes a snapshot, decides (`EvaluatePolicy`), writes the
case under its revision and lease, syncs the credential and releases. A revision
serves to tell whether the case has moved since it was read, and is kept as that.
`applyCaseUpdate` compares the lease with the time at which the call began;
`CaseLeaseLapses` lets it lapse at any moment. Left out are the parking of events of
unknown applicants, the outbox of notices, publication and ageing of credentials
and `firstSubmittedAt`; a review that is null is folded into `init`. One
notification is followed, of any review: to the case, the handling of another is
what that of a due case is.

## Runs

| Run | Instance | Shows |
| --- | --- | --- |
| `pool_money` | three quotes over two notes of one owner and one of another, every kind of governance before the first payment, four leaves, a window of two roots, a tree of depth 2 | solvency but for what is paid again under other bytes, each stored nullifier paid once and in full, each leaf one payment, the root window, the timelock, governance by proposals only, refinement of `NoteLedger`; stored roots are those of the tree and every leaf has a path (790,743 states) |
| `relay_one` | one burn, two attempts, a ledger clock that trails by one | agreement of row and chain, who may move a row, when a leg is retried, and that an authorized burn is deposited unless its row waits for a forgotten transaction (458,624 states) |
| `relay_two` | two burns with a quote each, others may mint | the same agreement with a shared account and balance; one transaction at a time |
| `session` | two burns, two workers, two blocks with reorganizations of one | a completed session is paid, a burn is watched, completed stands, parked waits for the operator, a known burn settles (405,068 states) |
| `settle_refunds` | an invoice over 3 with two payments of 2 and one crash or one refund, or over 4 with two refunds | types, not overbooked, applied on both sides or none, refunds claimed and capped, the projection, closed stays closed (1,088,156 states) |
| `settle_live` | one payment, an invoice revised, issued and cancelled, one crash | every published payment lands; no version number is left taken (319,732 states) |
| `pool_mirror` | two syncs, three ledgers, windows of 0 and 1, lake on or off, a page | what is missing is owned up to, published leaves stand, published only grows, what a healthy page has and lacks (1,751,233 states) |
| `progress` | the pool with two notes, a case with two calls and three reviews, the indexer with one sync | what must happen in the end (`ExitOpen`, `CredentialFollows`, `IndexCatchesUp`), and that decisions never go back (`EvidenceNeverOlder`, `DoneIsSeen`) |

`progress` explores three components side by side: they share no variable, and of
each behaviour one moves while the others rest at their start. It puts what three
small models owe in the end into one run.

### What the code does otherwise

Four runs end in a counterexample; `PROJECT.json` quotes what the repository says
against each:

- `relay_others_mint`: a burn names no destination caller, so anyone may have
  its message minted. The operator's mint then fails in simulation on every
  retry, and no code path leads from `validated` to the deposit. The money is at
  the intake contract and stays there.
- `settle_reversed`: an allocation that a call read as pending is applied after
  another call has compensated and reversed it (`settlements.service.ts:367`). The
  settlement stays charged; if a refund made room meanwhile, the invoice is shown
  as paid by a reversed allocation.
- `settle_stale`: the call that applied an allocation dies before it recomputes
  the invoice, and the call that meets the duplicate key returns without doing
  so. The watermark passes, the repair looks for pending allocations only, and
  the paid invoice is shown as issued until something else recomputes it.
- `session_bound_once`: a worker's checkpoint writes the transaction it discovered
  over another that was reported while it scanned, because the write is filtered
  by the lease alone. If the discovered one is then dropped from its chain, the
  session waits for its attestation for ever.

The models reach more states that the repository's documents exclude, or that a
reader might not expect. They have no run of their own; where a property would be
broken by one, its statement excludes just that case.

The pool:

- A note is paid again when its nullifier is presented under other bytes, the field's
  order being added to it (`lib.rs:438-454`, above). So the promise of `README.md:28`,
  that a nullifier prevents the same note from being spent twice, is kept for equal
  bytes only (`BytesPayOnceInFull`). The money comes from the other notes: the pool's
  balance alone covers what it owes only while `Repaid` is 0, and `ExitOpen` allows for
  a pool emptied that way. `CanonicalPoolSolvent` says that nothing else is needed: with
  one encoding for each nullifier the balance covers every unspent note.

The relay:

- A row left in `minting` or `depositing` for longer than the node keeps its ledgers
  waits for ever, whether its transaction succeeded or not: no call consults the
  "replay evidence" the comment at `cctpRecovery.ts:18-19` hopes for. `EveryBurnSettles`
  leaves out just that row (`WaitsInVain`), and the safety properties hold for it.

Settlements:

- An invoice can be shown as paid beyond what is due when a refunded payment is
  taken back by one call while another applies it again: with a due of 3, two
  payments of 2 and one refund; and it can keep showing a reversed allocation. The
  cause is that of `settle_reversed`. The first came out of a proof that failed; TLC
  then found the behaviour.
- Two `recordRefund` calls read and write the `counted` flag in opposite orders
  (`settlements.service.ts:864`), and a fully refunded settlement still counts.
- `issueFeeQuote` opens an intent after `reviseInvoice` has counted them and
  before it publishes (`invoices.service.ts:249`).
- The process dies between the two writes of `insertNextVersion`
  (`invoices.service.ts:243`), and every later revision or issue of that invoice
  meets the duplicate key. `NextVersionFree` is stated for calls that return.

Sessions:

- The scan position is checkpointed before the hash the scan has found
  (`cctp.worker.ts:102-105`), unlike `docs/cctp-operations.md:79-80`: a worker that dies
  in between leaves the burn behind the position. It is found again only while the
  trail still covers it. `KnownBurnsSettle` is stated for a hash the session knows.
- A scan window that ends within the trail of the tip but not at the tip advances
  past its end without a trail, and the block a session starts at has none.
- With two burns under one quote the worker finds the relay's row by the quote
  alone; `CompletedIsPaid` is about the row that was paid.

Verification:

- A stale `syncCredential` re-activates a credential that a newer review suspended
  (`verification.storage.ts:307`; `verificationStorage.integration.test.ts:378` has the
  opposite in the simple order). The next reconciliation puts it right.
- An operator's suspension, and the one on a change of account, is undone by the
  next scheduled reconciliation of a case that is still approved
  (`docs/verification-operations.md:101-106`).
- A death between the update of the case and that of the credential leaves a
  declined business with an active credential until the case is due again, up to
  7 days.
- "Reset to `needs_information`" lasts until the next reconciliation only.

Indexer and mirror:

- A gap that is filled late never reaches a page whose watermark has passed it
  (`poolMirror.ts:153-156`), unlike what `docs/pool-indexer-gap-fill.md` leads one to
  expect; hence the exception in `HealthyLacksOnlyLateSpends`.
- The first sync ignores that its window starts past the first ledger
  (`deposits.service.ts:212`).
- `pageEvents` stops after 200 pages, `getLatestLedger` and `getEvents` may be
  answered by nodes of different age, and `scannedRanges` is read, changed and
  written without a condition; the first two only delay, and the last is not
  modelled.

### Bounds

- Pool: amounts 49 and 50 are the two sides of the first whole unit of the 2 percent
  fee. Two roots and four leaves let a root leave the window while a proof
  against it is about; two notes of one owner and amount tell nullifiers apart
  that differ in the index only. A tree of depth 2 has an inner level and can fill
  up; the hash is over 97 elements and tells its arguments apart. `WhilePaying` keeps
  governance in full before the first signed payment and to one change of signer or
  fee recipient after it, not while paused: a pause does not touch what a proposal
  reads. `Carries` is 0 and 1, and only the first leaf is paid under the second, while
  nothing is proposed: one leaf paid twice is enough for money to be missing for
  another, and governance does not touch nullifiers. (32 bytes have room for four
  multiples of the order of BN254, or five.) `U64Max` bounds a single amount, the
  times and the nonce of proposals, as the width of the code's integers does; the
  instance does not reach it. Sums of money are `i128` in the code and unbounded here.
- Relay: durations keep the order they have in the code: the lease is longer than
  the lock, the lock longer than the window asked for before sending, the window at
  least as long as a transaction lives. (In the code 130 s are asked for, and a
  transaction lives for 120 s; 10 s are left for the ledger's lag.) Two attempts are
  enough for one to overtake the other, and a third joins under a name that has
  become free. With one burn its row keeps attempts apart, so that a race for the
  sequence number takes two. With two burns nothing is forgotten (`NothingForgotten`): that
  concerns one row and its transaction, which the run with one burn has.
- Sessions: two transactions that are alike (`Alike`), two workers that overlap while
  there is one burn and take turns when there are two (`OneCall`). Two blocks and a
  window of one let a scan stop between them.
- Settlements: two payments of 2 for an invoice of 3 do not fit together; two
  withdrawals of 2 for a payment of 2 do not either. Two calls overlap in every way; a
  third would add a second overtaking of the same kind. The action constraint
  `RefundsOrCrashes` has either a crash or one refund for the invoice over 3, and up to
  two refunds and no crash for the one over 4; with one version, the lapsing of
  intents has nothing to affect.
- Indexer: three ledgers hold a leaf before and after a lost spend. Syncs overlap in
  every way until a page is opened, and run one at a time afterwards
  (`OneSyncAtATime`): what the page meets is whatever the overlaps have left.
- Verification: three reviews, so that one can be overtaken twice; two calls overlap
  while there is no notification and no rebinding (`Overlaps`).

### Fairness

- `ExitOpen`: weak fairness of a withdrawal against a root of the window, for
  each note that is not spent: the holder keeps trying. Nothing is assumed of the
  others.
- `EveryBurnSettles`: the worker and the payer's page call again (weak fairness
  of `Begin`), a call goes on, ledgers take what they can, time passes, and at
  some unknown time the faults end (`<>[][Calm]_vars`): from then on calls do
  not die, the node accepts and answers, and a call is quick against the minutes
  of its lease. Before it anything may happen, so that the property is about
  what failures leave behind. It is stated for a burn whose quote no other burn
  names, since the pool settles a quote once, and that was made in the quote's
  lifetime. Calm times are times in which the node is asked before it forgets; a row
  whose transaction was forgotten before them stays as it is.
- `KnownBurnsSettle`: the worker's loop calls for ever, a call goes on, the lease of
  a dead one lapses, and in the end no call fails, dies or outlives its lease, while
  the payer and the source chain stay free.
- `IndexCatchesUp`: the loop calls for ever, and in the end calls do not die or
  outlive their lease, the nodes answer with the chain's tip, and the lake is on and
  read to the end of a gap (which takes the code many ticks). Ledgers still close and
  old ones are still dropped.
- `CredentialFollows`: the worker runs for ever and asks for a notification whenever
  it begins (strong fairness, since calls for due cases compete for the same
  places), calls go on, leases of dead calls lapse, and trouble ends. The provider
  may change its review until the bound.
- `EveryPaymentLands`: a call that has begun goes on unless it crashes, and the
  worker gets to reconcile a payment until the watermark has passed it and to
  repair a pending allocation. The last two are strong fairness: the model has
  two places for calls, the server has no such limit, and users' calls cannot
  keep the worker out.

In all of these `web/scripts/cron-loop.mjs` is what calls the workers for ever.

## Theorems

All hold for every value of the constants that satisfies the assumptions named
in the modules. `PROJECT.json` lists the ones to read first.

**The pool** (`OlioPoolProofs`). Every safety property of `pool_money` is a theorem.

- `PoolTyped`, `PoolCustody`: the inductive invariant `TypeOK /\ CustodyInv`, one lemma
  per entry point. Custody says that leaves are worth a positive amount, that a root
  kept is of no larger tree than the present one, that a nullifier is that of a leaf,
  and that neither the fee recipient nor the one proposed is the pool. Without the
  last a fee could stay in the pool, where no leaf accounts for it; it holds because
  such proposals are refused, and must cover the pending proposal to be inductive.
  Without the second a withdrawal could name a leaf that does not exist.
- `PoolImplementsLedger`: `Init` maps to `Init`, a deposit to `Add`, a withdrawal to
  `Redeem` or, for a leaf that is spent, to a stutter, in which what leaves the balance
  is added to `Repaid`, and every other step to a stutter. Beside that invariant it
  takes `SpendsInv`: the events carry exactly the stored bytes, so that a leaf is
  spent when and only when an event has paid it. A withdrawal to the pool's own
  address spends the note and leaves the money, which `Redeem` allows.
- `PoolSolvent` follows from the refinement and from `NoteLedgerProofs!LedgerSolvent`,
  the abstract ledger's solvency. What is owed is a running total over the indices of
  the notes (`PartialSumsProofs!SumsDef`), so that adding and redeeming a note is
  proved by induction on an index; the induction itself comes from the
  well-foundedness of `<`, used as a fact about sets of naturals.
- `CanonicalPoolSolvent` is for `Carries = {0}`: then no event pays a leaf again,
  `Repaid` is 0, and the balance alone covers what is owed.
- `PoolBytesPayOnceInFull` (with `SpendsInv`), `PoolSettlesEachPaymentOnce` (`FeesInv`:
  a leaf and the quote it used go together), `PoolRootWindow`, `PoolTimelockHonoured` and
  `PoolGovernedByProposals` (`GovernanceInv`: the pending proposal and the record of
  it agree, and closed ones keep their outcome).
- `PoolRootsAreTheTrees` and `PoolPathsLeadToTheRoot`: the invariant `TreeInv` says there
  is room for the leaves, the stored frontier is that of the tree (`Frontier`), and
  each stored hash is `Root` of the first leaves.

**The tree** (in `OlioPoolProofs` too): `InsertAddsTheLeaf`, `IndexerGetsTheRoot` and
`PathsLead`, for every depth, every hash function and every sequence of leaves there
is room for. That the recursive functions satisfy their equations is a lemma
(`Solves`) proved once by induction over a set; `FirstLeaf` ties the capacity to the
shifts.

**The relay** (`CctpRelayProofs`). All of its safety properties are theorems.

- `RelayTypes` by `IInv`: a leg under way has a transaction on record, every running
  call and built transaction names a burn, and no transaction has more time left
  than it was built with and the ledger lags. `HolderMoves` follows.
- `NoRace` by one more invariant, `LockOutlives`: whoever is sending a transaction, or
  has one that a ledger may take, owns the lock for longer than any ledger could
  take it, however much further the ledgers fall behind. The lock is only asserted
  before the sending, so the theorem needs `SubmitWindow >= TxLifetime + MaxLag`: the
  code has 130 s against 120 s, and two transactions could race only if a ledger's
  close time trailed the server by more than 10 s.
- `RowsTellTheChain` and `RetriesWhenDead` by `RowsInv`, in seven parts: a transaction
  that succeeded has done what it was for; the transaction on record is of that leg
  and that burn; what is not checkpointed is on nobody's record; a call carries the
  transaction of its own leg; a call that still owns its row finds it as it left it;
  a transaction sent with time left is on record; and the row and the chain agree.
  The sequence lock is not needed for either: rows are right even where two
  transactions race.

**Sessions** (`CctpSessionProofs`): `SessionTypeCorrect`, `CompletedIsPaidAlways`,
`BurnIsWatchedAlways`, `CompletedStandsAlways`, `ParkedUntilRequeuedAlways`, by
`SessionInv`: types, the order in which the page goes (`PageInOrder`), that a parked
session is nobody's, and that a call about to finish holds the hash that was
deposited (`HoldsTheDeposit`).

**Settlements** (`SettlementsProofs`), for any number of payments, invoices,
withdrawals, calls, versions and crashes. The sums are folds over finite sets;
`TotalDef`, `TotalAdd`, `TotalMonotone` and `TotalLess` say what they compute.

- `SettlementsType`: `TypeInv` ties a call's step to what it works on (`Known`); `ExistsInv`
  says which documents a call has seen.
- `SettlementsClosed`: whatever a recomputation writes comes from the revision it writes
  over (`HeadsInv`), and every change of an invoice takes a new revision.
- `SettlementsVersions` (`VersionsInv`), `SettlementsBothSides` (`SidesInv`: an allocation
  the invoice took is held by its settlement, or has been or is being reversed) and
  `SettlementsRefundsClaimed` (`RefundInv`: a claim of a withdrawal is taken back only
  when the refund does not fit and never will).
- `SettlementsNotOverbooked` (`BookedInv`): a recomputation in flight is bounded by what
  counts now. It picked at least what counts and at most what the invoice has taken
  (`Between`), so that what it writes lies between the two. The proof is where the
  conditions of `InvoiceNotOverbooked` come from.
- `SettlementsProjection` (`RestInv`): an invoice that does not show what it took is
  owed a recomputation (`ShownOrOwed`), in every state in which nobody has died and
  nothing it took is being taken back (`Kept`). The call that owes it (`WillShow`) has a
  payment or a refund of the invoice in hand and has not begun to recompute (`Sent`), is
  about to read (`Heads`), has read the invoice as it is (`Current`), or has read an
  older revision whose head it will not leave as it is (`Behind`), so that it starts
  again. That such a call writes before its five tries are used up is counted: each time
  it is overtaken one of three things has happened. A projection from older sums was
  written; then a refund came after those sums were read, and the call is the one that
  brought it, at its first try (`OldIsOwed`, `Fresh`). Or the invoice was cancelled, or
  revised; of each there is at most one more (`Turns`), since a closed invoice is not
  closed again, and a revision that finds a payment on the invoice is not begun. Four
  tries would do. The rest of the invariant says that the sums move in one direction:
  what is shown as allocated is exact, what is shown as refunded never too much
  (`Exact`, `RightReads`). `IssuedInv` says that only an issued invoice takes payments,
  so that issuing is not a change to reckon with.

**Verification** (`VerificationProofs`): `VerificationTypeCorrect`, `DoneIsSeenAlways` and
`EvidenceNeverOlderAlways`, by `CaseInv`: types, what a call knows at each step, that a
call with a current revision has a snapshot no older than the case (`Fresh`), and that
a call which is to report success vouches for the decision (`Vouches`).

**The indexer and a page's copy** (`PoolIndexerProofs`), for any number of syncs that
overlap, ledgers and fallback windows, and any settings of the lake. All of their
safety properties are theorems.

- `IndexerTypes`, `WhatIsMissingIsOwnedUp` and `PublishedLeavesAreThere` by `IndexerInv`.
  Its part `IndexInv` is about the state in force: the roots it has are of leaves that
  are in the mirror, and a spend that is not is owned up to (`OwnsUp`: the index is
  incomplete, and says it is so because of gaps only if the ledger is in one). It is not
  inductive alone. `SyncInv` says what any call holds, lease or no lease, and `OwnerInv`
  what the call holds that may still publish: it started from the marks in force; up
  to its watermark every spend is in the mirror, among what it has fetched and not
  written, or owned up to by what it will publish; and of what the state in force
  owns up to it forgets only ledgers for which the lake was read. Calls that have
  lost the lease only add to the mirror. That a gap is asked for as a whole is
  `RangesCover`: the maximal ranges of a set of ledgers cover it.
- `PublishedNeverGoesBack` is the action property: the one call that may publish
  counted at least the published leaves, since it read the chain after taking the
  lease, and its watermark is no lower than the one it started from.
- `PagesLeaveTheIndexerAlone`: `PoolMirror` implements `PoolIndexer`, so that the
  theorems above hold under pages.
- `HealthyCopyIsWhole` and `HealthyCopyLacksOnlyLateSpends` by `MirrorInv`: a spend below a
  page's watermark that it lacks was late in the lake or is owned up to by the
  index, at any time, whether or not the page is healthy. A page that is told
  later that the index is complete therefore lacks only late ones. The argument
  needs that syncs go onward (`StepsGoOnward`): nothing the chain, the mirror or the
  index says is taken back.

The strengthened invariants were checked by TLC on the runs' instances as well as
proved.

Every safety property of the passing runs, invariant or action property, is a theorem.
Only model-checked is liveness, which is out of the prover's reach: it handles neither
fairness nor `ENABLED`. Nothing is proved by induction over data other than by sets of
naturals or of finite sets, as above.

## Not modelled, and what comes next

In this order, most important first:

1. Key generations of businesses and the escrow of the master key. What the model must
   have: two devices that secure or rotate at once; a page that dies between
   `set_pubkey` and `saveEscrow`, or whose `set_pubkey` lands after a retry; a lost answer
   of `saveEscrow` in secure mode, whose retry draws a new master; retired generations
   that serve only at unlock; the username cache, up to 15 minutes old; and the death
   between inserting a generation and closing the last (`businesses.keys.ts:68`).
2. The cash-out bridge. What it must have: the bridge key is stored before the note is
   spent (`withdraw.ts:212-214`); `createClaimableBalance` retries once; a failed balance
   read counts as 0 (`bridge.ts:239-243`), so that the recovery panel offers to remove the
   record of a funded account; the error path of `classifyDestination`
   (`withdraw.ts:51-54`) leads from `releaseNoteToBridge` into a second bridge; storing a
   record may fail silently when storage is full.
3. Registry, intake and account contracts with the server's caches; claims of
   historical deposits in `Settlements`.

Left out for good: cryptography and the circuits' constraints (their meaning is
assumed), the user interface and PDF documents, generated contract bindings,
read-only reports, text and logging, and the external services (Circle's
attestation service, Sumsub, the AI model), of which only the answers appear. These
are the larger part of the repository's lines: the modules map about a twelfth of
them, and most of the code that changes money or identity.
