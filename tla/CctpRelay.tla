----------------------------- MODULE CctpRelay -----------------------------
(***************************************************************************)
(* Settling a burn made on another chain: relayDeposit of                  *)
(* web/src/server/modules/cctp/cctp.service.ts, with the operator's        *)
(* transactions (invokeAsSource of web/src/server/lib/poolSettlement.ts),  *)
(* the sequence lock of cctp.storage.ts and the resolution rules of        *)
(* cctpRecovery.ts.                                                        *)
(*                                                                         *)
(* A call of relayDeposit is an attempt, with the uuid it draws as its     *)
(* name. Calls run in the settlement worker and behind the public route,   *)
(* so any number overlap, and one may stop anywhere: a thrown error and a  *)
(* killed process are the same Fail. A call may begin under any name that  *)
(* nothing refers to any more, so that retries are unbounded.              *)
(*                                                                         *)
(* Every deadline is kept as the time left to it, 0 once it has passed.    *)
(***************************************************************************)
EXTENDS Integers, Sequences, FiniteSets

CONSTANTS
  Burns,          \* attested burn messages, by their hash
  Quotes,         \* signed fee quotes
  QuoteOf,        \* the quote each burn's hook binds to
  Total,          \* what the payer burns under a quote
  Attempts,       \* names a call of relayDeposit may draw
  Nobody,
  RelayLease,     \* RELAY_LEASE_MS
  SequenceLock,   \* SEQUENCE_LOCK_MS
  SubmitWindow,   \* SUBMIT_WINDOW_MS
  TxLifetime,     \* the upper time bound of a transaction, from its building
  MaxLag,         \* how far the last ledger's close time may trail the server
  OthersMint      \* whether anyone else calls receive_message

ASSUME RelayAssumption ==
  /\ QuoteOf \in [Burns -> Quotes]
  /\ Total \in [Quotes -> Nat \ {0}]
  /\ Nobody \notin Attempts \union Burns
  /\ {RelayLease, SequenceLock, SubmitWindow, TxLifetime} \subseteq Nat \ {0}
  /\ MaxLag \in Nat
  /\ OthersMint \in BOOLEAN
  /\ SubmitWindow < SequenceLock

VARIABLES
  relay,     \* cctp_relays, one row per burn
  lock,      \* the operator's row of cctp_coordination
  call,      \* where each attempt is, and with what
  tx,        \* the last transaction each attempt built
  minted,    \* burns whose message receive_message has consumed
  intake,    \* the intake contract's balance
  leaves,    \* the pool's leaves, each as the burn it was deposited for
  live,      \* quotes that have not expired
  authorized,\* burns made within the lifetime of their quote
  lag,       \* server time minus the last ledger's close time
  forgotten  \* attempts whose transaction is older than what the RPC node keeps

chainVars == <<minted, intake, leaves, live, authorized>>
nodeVars == <<lag, forgotten>>
vars == <<relay, lock, call, tx, chainVars, nodeVars>>

Legs == {"mint", "deposit"}
RelayStates == {"none", "validated", "minting", "minted", "depositing", "deposited"}
Steps == {"idle", "claim", "lock", "build", "checkpoint", "assert", "send", "poll",
          "record", "resolve"}

NoCall == [step |-> "idle", leg |-> "mint", burn |-> Nobody, renewed |-> FALSE]
NoTx == [status |-> "none", leg |-> "mint", burn |-> Nobody, renewed |-> FALSE,
         left |-> -1, current |-> FALSE, leaf |-> 0]
NoRow == [state |-> "none", owner |-> Nobody, lease |-> 0,
          mint |-> Nobody, deposit |-> Nobody, leaf |-> 0]

Row(a) == relay[call[a].burn]

\* The state a leg starts from, the one its checkpoint writes and the one its
\* confirmation writes.
Before(leg) == IF leg = "mint" THEN "validated" ELSE "minted"
During(leg) == IF leg = "mint" THEN "minting" ELSE "depositing"

\* A transaction that can still get into a ledger.
Includable(t) == t.status = "sent" /\ t.current /\ t.left >= 0

\* The filters of the updates that follow a claim.
AnyLease(a) == TRUE
HoldsRow(a) == Row(a).owner = a
HoldsLease(a) == HoldsRow(a) /\ Row(a).lease > 0

\* sequenceLock.assert(SUBMIT_WINDOW_MS)
LockStillHeld(a) == lock.owner = a /\ lock.left > 0
LockCovers(a) == lock.owner = a /\ lock.left > SubmitWindow

\* A transaction some row waits for.
Awaited(a) ==
  \E b \in Burns, leg \in Legs : relay[b].state = During(leg) /\ relay[b][leg] = a

\* NOT_FOUND: no ledger the node keeps holds the transaction.
NotFound(a) == tx[a].status \in {"prepared", "sent"} \/ a \in forgotten

\* missingTransactionProvenExpired: the node saw ledgers beyond the upper time
\* bound, and still keeps those from the lower one on.
ExpiredByServerClock(a) == tx[a].left < lag /\ a \notin forgotten
ExpiredWhateverIsKept(a) == tx[a].left < 0
NotFoundIsGone(a) == TRUE
NeverGone(a) == FALSE
ProvenExpired(a) == tx[a].left < 0 /\ a \notin forgotten

\* What the node's answer about a transaction tells: nothing conclusive, its
\* result, or that it is in no ledger and never will be.
Answers(a) ==
  {"pending"}
  \union (IF NotFound(a) THEN {} ELSE {tx[a].status})
  \union (IF NotFound(a) /\ ProvenExpired(a) THEN {"expired"} ELSE {})

\* Whether the chain would execute a leg now. A renewed quote outlives the
\* transaction that carries it.
Executes(leg, b, renewed) ==
  IF leg = "mint"
  THEN b \notin minted
  ELSE /\ \A i \in DOMAIN leaves : QuoteOf[leaves[i]] # QuoteOf[b]
       /\ renewed \/ live[QuoteOf[b]]
       /\ intake >= Total[QuoteOf[b]]
-----------------------------------------------------------------------------
Init ==
  /\ relay = [b \in Burns |-> NoRow]
  /\ lock = [owner |-> Nobody, left |-> 0]
  /\ call = [a \in Attempts |-> NoCall]
  /\ tx = [a \in Attempts |-> NoTx]
  /\ minted = {}
  /\ intake = 0
  /\ leaves = <<>>
  /\ live \in [Quotes -> BOOLEAN]
  /\ authorized \in SUBSET Burns
  /\ lag = 0
  /\ forgotten = {}

At(a, step) == call[a].step = step
Goto(a, step) == call' = [call EXCEPT ![a].step = step]
GotoLeg(a, step, leg) == call' = [call EXCEPT ![a].step = step, ![a].leg = leg]
End(a) == call' = [call EXCEPT ![a] = NoCall]

\* A name nothing refers to any more.
Free(a) ==
  /\ At(a, "idle")
  /\ ~Includable(tx[a])
  /\ lock.owner = a => lock.left = 0
  /\ \A b \in Burns : relay[b].owner = a => relay[b].lease = 0
  /\ ~Awaited(a)

\* The call checks burn and quote against each other, turns a burn away that was
\* made outside the quote's lifetime, and signs the quote again if it has run
\* out since; then it makes sure the burn has a row.
Begin(a, b) ==
  /\ Free(a)
  /\ b \in authorized
  /\ relay[b].state # "deposited"
  /\ call' = [call EXCEPT ![a] = [step |-> "claim", leg |-> "mint", burn |-> b,
                                  renewed |-> ~live[QuoteOf[b]]]]
  /\ tx' = [tx EXCEPT ![a] = NoTx]
  /\ relay' = IF relay[b].state = "none"
              THEN [relay EXCEPT ![b].state = "validated"] ELSE relay
  /\ forgotten' = forgotten \ {a}
  /\ UNCHANGED <<lock, chainVars, lag>>

\* The row is claimed if no lease on it runs, and the state found decides how
\* the call goes on.
ClaimLease(a) ==
  /\ At(a, "claim")
  /\ Row(a).state # "deposited"
  /\ Row(a).lease = 0
  /\ relay' = [relay EXCEPT ![call[a].burn].owner = a, ![call[a].burn].lease = RelayLease]
  /\ \E leg \in Legs :
       \/ Row(a).state = Before(leg) /\ GotoLeg(a, "lock", leg)
       \/ Row(a).state = During(leg) /\ GotoLeg(a, "resolve", leg)
  /\ UNCHANGED <<lock, tx, chainVars, nodeVars>>

\* "This burn is already being relayed. Retry shortly."
LeaseBusy(a) ==
  /\ At(a, "claim")
  /\ Row(a).state = "deposited" \/ Row(a).lease > 0
  /\ End(a)
  /\ UNCHANGED <<relay, lock, tx, chainVars, nodeVars>>

\* claimLock
TakeLock(a) ==
  /\ At(a, "lock")
  /\ IF lock.left = 0
     THEN lock' = [owner |-> a, left |-> SequenceLock] /\ Goto(a, "build")
     ELSE UNCHANGED lock /\ End(a)
  /\ UNCHANGED <<relay, tx, chainVars, nodeVars>>

\* The account's sequence number is read, the call simulated and signed.
Build(a) ==
  /\ At(a, "build")
  /\ IF Executes(call[a].leg, call[a].burn, call[a].renewed)
     THEN /\ tx' = [tx EXCEPT ![a] =
               [status |-> "prepared", leg |-> call[a].leg, burn |-> call[a].burn,
                renewed |-> call[a].renewed, left |-> TxLifetime + lag,
                current |-> TRUE, leaf |-> 0]]
          /\ Goto(a, "checkpoint")
     ELSE UNCHANGED tx /\ End(a)
  /\ UNCHANGED <<relay, lock, chainVars, nodeVars>>

\* onPrepared: the hash is on record before the transaction is sent.
Checkpoint(a) ==
  /\ At(a, "checkpoint")
  /\ LET leg == call[a].leg IN
     IF HoldsLease(a) /\ Row(a).state = Before(leg)
     THEN /\ relay' = [relay EXCEPT ![call[a].burn] =
               [@ EXCEPT !.state = During(leg), ![leg] = a]]
          /\ Goto(a, "assert")
     ELSE UNCHANGED relay /\ End(a)
  /\ UNCHANGED <<lock, tx, chainVars, nodeVars>>

AssertLock(a) ==
  /\ At(a, "assert")
  /\ IF LockCovers(a) THEN Goto(a, "send") ELSE End(a)
  /\ UNCHANGED <<relay, lock, tx, chainVars, nodeVars>>

\* sendTransaction: accepted, or refused with ERROR.
Send(a) ==
  /\ At(a, "send")
  /\ \/ tx' = [tx EXCEPT ![a].status = "sent"] /\ Goto(a, "poll")
     \/ UNCHANGED tx /\ End(a)
  /\ UNCHANGED <<relay, lock, chainVars, nodeVars>>

\* The polling finds the result. Only a success releases the lock at once.
Confirm(a) ==
  /\ At(a, "poll")
  /\ ~NotFound(a)
  /\ \/ /\ tx[a].status = "success"
        /\ lock' = IF lock.owner = a THEN [owner |-> Nobody, left |-> 0] ELSE lock
        /\ Goto(a, "record")
     \/ tx[a].status = "failed" /\ UNCHANGED lock /\ End(a)
  /\ UNCHANGED <<relay, tx, chainVars, nodeVars>>

\* CONFIRM_POLLS are over: the transaction may still get in.
GiveUp(a) ==
  /\ At(a, "poll")
  /\ NotFound(a)
  /\ End(a)
  /\ UNCHANGED <<relay, lock, tx, chainVars, nodeVars>>

\* A leg that t confirmed, in a row the call holds: after a mint the call keeps
\* the row and goes on to the deposit, which is the end.
Recorded(row, t) ==
  IF t.leg = "mint"
  THEN [row EXCEPT !.state = "minted", !.lease = RelayLease]
  ELSE [row EXCEPT !.state = "deposited", !.leaf = t.leaf, !.owner = Nobody, !.lease = 0]
GoOn(a, leg) == IF leg = "mint" THEN GotoLeg(a, "lock", "deposit") ELSE End(a)

\* The update after a confirmed mint does not look at the state, the one after
\* a confirmed deposit does.
Record(a) ==
  /\ At(a, "record")
  /\ IF HoldsRow(a) /\ (call[a].leg = "deposit" => Row(a).state = "depositing")
     THEN /\ relay' = [relay EXCEPT ![call[a].burn] =
               Recorded([@ EXCEPT ![call[a].leg] = a], tx[a])]
          /\ GoOn(a, call[a].leg)
     ELSE UNCHANGED relay /\ End(a)
  /\ UNCHANGED <<lock, tx, chainVars, nodeVars>>

\* A call that finds a leg under way asks for the transaction on record. A
\* success is recorded; a failure, or the proof that it can no longer happen,
\* puts the row back; anything else is left for a later call. What the node
\* answered stays true until the update, and a call that lost the row by then
\* writes nothing.
Resolve(a) ==
  /\ At(a, "resolve")
  /\ LET leg == call[a].leg
         mayWrite == HoldsRow(a) /\ Row(a).state = During(leg)
     IN \/ ~mayWrite /\ UNCHANGED relay /\ End(a)
        \/ /\ mayWrite
           /\ \E answer \in Answers(Row(a)[leg]) :
                \/ /\ answer = "success"
                   /\ relay' = [relay EXCEPT ![call[a].burn] = Recorded(@, tx[@[leg]])]
                   /\ GoOn(a, leg)
                \/ /\ answer \in {"failed", "expired"}
                   /\ relay' = [relay EXCEPT ![call[a].burn] =
                        [@ EXCEPT !.state = Before(leg), ![leg] = Nobody,
                                  !.owner = Nobody, !.lease = 0]]
                   /\ End(a)
                \/ answer = "pending" /\ UNCHANGED relay /\ End(a)
  /\ UNCHANGED <<lock, tx, chainVars, nodeVars>>

\* The call throws or its process dies: lease and lock stay until they lapse.
Fail(a) ==
  /\ ~At(a, "idle")
  /\ End(a)
  /\ UNCHANGED <<relay, lock, tx, chainVars, nodeVars>>
-----------------------------------------------------------------------------
\* A ledger takes one of the operator's transactions, and any other built on
\* the same sequence number is out.
Include(a) ==
  /\ Includable(tx[a])
  /\ LET t == tx[a]
         done == Executes(t.leg, t.burn, t.renewed)
     IN /\ tx' = [c \in Attempts |->
             IF c # a THEN [tx[c] EXCEPT !.current = FALSE]
             ELSE [t EXCEPT !.status = IF done THEN "success" ELSE "failed",
                            !.leaf = IF done /\ t.leg = "deposit" THEN Len(leaves) + 1 ELSE 0,
                            !.left = -1,
                            !.current = FALSE]]
        /\ minted' = IF done /\ t.leg = "mint" THEN minted \union {t.burn} ELSE minted
        /\ leaves' = IF done /\ t.leg = "deposit" THEN Append(leaves, t.burn) ELSE leaves
        /\ intake' = IF ~done THEN intake
                     ELSE IF t.leg = "mint" THEN intake + Total[QuoteOf[t.burn]]
                     ELSE intake - Total[QuoteOf[t.burn]]
  /\ UNCHANGED <<relay, lock, call, live, authorized, nodeVars>>

\* The burn names no destination caller: somebody else has its message minted.
MintByOther(b) ==
  /\ OthersMint
  /\ b \notin minted
  /\ minted' = minted \union {b}
  /\ intake' = intake + Total[QuoteOf[b]]
  /\ UNCHANGED <<relay, lock, call, tx, leaves, live, authorized, nodeVars>>

QuoteExpires(q) ==
  /\ live[q]
  /\ live' = [live EXCEPT ![q] = FALSE]
  /\ UNCHANGED <<relay, lock, call, tx, minted, intake, leaves, authorized, nodeVars>>

\* The node drops the ledgers of the time a transaction was made for, and with
\* them its result if it has one. That takes days: what no row waits for by then
\* is never asked about again.
Forget(a) ==
  /\ Awaited(a)
  /\ tx[a].left < 0
  /\ forgotten' = forgotten \union {a}
  /\ UNCHANGED <<relay, lock, call, tx, chainVars, lag>>

Less(n, k) == IF n > k THEN n - k ELSE 0

\* The server's clock advances by one and the ledger's by any number that
\* leaves it at most MaxLag behind.
Tick ==
  /\ lag' \in 0..MaxLag
  /\ lag' <= lag + 1
  /\ relay' = [b \in Burns |-> [relay[b] EXCEPT !.lease = Less(@, 1)]]
  /\ lock' = [lock EXCEPT !.left = Less(@, 1)]
  /\ tx' = [a \in Attempts |-> [tx[a] EXCEPT !.left = Less(@ + 1, lag + 1 - lag') - 1]]
  /\ UNCHANGED <<call, chainVars, forgotten>>

\* What a call does of itself.
Proceed(a) ==
  \/ ClaimLease(a) \/ LeaseBusy(a) \/ TakeLock(a) \/ Build(a) \/ Checkpoint(a)
  \/ AssertLock(a) \/ Send(a) \/ Confirm(a) \/ GiveUp(a) \/ Record(a) \/ Resolve(a)

Next ==
  \/ \E a \in Attempts, b \in Burns : Begin(a, b)
  \/ \E a \in Attempts : Proceed(a)
  \/ \E a \in Attempts : Fail(a)
  \/ \E a \in Attempts : Include(a)
  \/ \E a \in Attempts : Forget(a)
  \/ \E b \in Burns : MintByOther(b)
  \/ \E q \in Quotes : QuoteExpires(q)
  \/ Tick

Spec == Init /\ [][Next]_vars

\* The steps of a time in which calls no longer fail, the node accepts what it
\* is sent and answers what it knows before it forgets it, ledgers take a
\* transaction before it runs out, and a call is quick against the minutes of
\* its lease.
Calm ==
  \/ \E a \in Attempts, b \in Burns : Begin(a, b)
  \/ \E a \in Attempts :
       \/ ClaimLease(a) \/ LeaseBusy(a) \/ TakeLock(a) \/ Build(a) \/ Checkpoint(a)
       \/ AssertLock(a) \/ Confirm(a) \/ Record(a) \/ Include(a)
       \/ Send(a) /\ tx'[a].status = "sent"
       \/ GiveUp(a) /\ ~Includable(tx[a])
       \/ /\ Resolve(a)
          /\ relay' = relay /\ HoldsRow(a) => Answers(Row(a)[call[a].leg]) = {"pending"}
  \/ Tick /\ \A a \in Attempts :
       ~Includable(tx[a]) /\ call[a].step \in {"idle", "claim"}
  \/ \E b \in Burns : MintByOther(b)
  \/ \E q \in Quotes : QuoteExpires(q)

\* The worker and the payer's page keep calling, a call goes on, ledgers close,
\* and the faults end at some time nobody knows.
FairSpec ==
  /\ Spec
  /\ \A b \in Burns : WF_vars(\E a \in Attempts : Begin(a, b))
  /\ \A a \in Attempts : WF_vars(Proceed(a)) /\ WF_vars(Include(a))
  /\ WF_vars(Tick)
  /\ <>[][Calm]_vars
-----------------------------------------------------------------------------
TypeOK ==
  /\ relay \in [Burns -> [state : RelayStates, owner : Attempts \union {Nobody},
                          lease : 0..RelayLease, mint : Attempts \union {Nobody},
                          deposit : Attempts \union {Nobody}, leaf : Nat]]
  /\ lock \in [owner : Attempts \union {Nobody}, left : 0..SequenceLock]
  /\ call \in [Attempts -> [step : Steps, leg : Legs, burn : Burns \union {Nobody},
                            renewed : BOOLEAN]]
  /\ tx \in [Attempts -> [status : {"none", "prepared", "sent", "success", "failed"},
                          leg : Legs, burn : Burns \union {Nobody}, renewed : BOOLEAN,
                          left : -1..(TxLifetime + MaxLag), current : BOOLEAN, leaf : Nat]]
  /\ minted \subseteq Burns
  /\ intake \in Nat
  /\ leaves \in Seq(Burns)
  /\ live \in [Quotes -> BOOLEAN]
  /\ authorized \subseteq Burns
  /\ lag \in 0..MaxLag
  /\ forgotten \subseteq Attempts

\* The row of a burn and the chain never contradict each other, whatever calls
\* overlap, stop or are overtaken: a mint the operator made is on record, so it
\* is never tried again; a row that says minted or later has its money at the
\* intake, so no deposit is paid for with another burn's; and a row says
\* deposited with the index of its own leaf.
RowTellsTheChain ==
  \A b \in Burns :
    LET row == relay[b] IN
    /\ b \in minted /\ ~OthersMint =>
         \/ row.state = "minting" /\ tx[row.mint].status = "success"
         \/ row.state \in {"minted", "depositing", "deposited"}
    /\ row.state \in {"minted", "depositing", "deposited"} => b \in minted
    /\ row.state = "deposited" => row.leaf \in DOMAIN leaves /\ leaves[row.leaf] = b
    /\ (\E i \in DOMAIN leaves : leaves[i] = b) =>
         \/ row.state = "depositing" /\ tx[row.deposit].status = "success"
         \/ row.state = "deposited"

\* The operator never has two transactions on the way that claim the same
\* sequence number, although the lock is only looked at before a transaction
\* is sent and every call that fails leaves it to lapse.
NoSequenceRace ==
  \A a, c \in Attempts : Includable(tx[a]) /\ Includable(tx[c]) => a = c

\* Only the call that holds a row moves it: one that was overtaken after its
\* lease ran out changes nothing, however late it wakes up.
OnlyTheHolderMoves ==
  [][\A b \in Burns :
       relay'[b].state # relay[b].state /\ relay[b].state # "none" =>
         \E a \in Attempts :
           relay[b].owner = a /\ call[a].burn = b /\ call'[a] # call[a]]_vars

\* A leg is only put back, for another call to try it again, when the
\* transaction on record failed or can no longer get into a ledger.
RetryOnlyWhenDead ==
  [][\A b \in Burns, leg \in Legs :
       relay[b].state = During(leg) /\ relay'[b].state = Before(leg) =>
         LET t == tx[relay[b][leg]] IN
           t.status = "failed" \/ (t.status \in {"prepared", "sent"} /\ t.left < 0)]_vars

\* A leg that is under way and whose transaction the node no longer knows: no
\* answer will ever be conclusive.
WaitsInVain(b) ==
  \E leg \in Legs : relay[b].state = During(leg) /\ relay[b][leg] \in forgotten

\* Whatever went wrong before, an authorized burn whose quote no other burn
\* claims is deposited in the end, or its row waits for ever for a transaction
\* that nobody asked about until the node had forgotten it.
EveryBurnSettles ==
  \A b \in Burns :
    b \in authorized /\ (\A c \in Burns : QuoteOf[c] = QuoteOf[b] => c = b) =>
      <>(relay[b].state = "deposited") \/ <>[]WaitsInVain(b)
=============================================================================
