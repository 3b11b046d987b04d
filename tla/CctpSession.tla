---------------------------- MODULE CctpSession ----------------------------
(***************************************************************************)
(* The session of one payment from another chain: cctp.sessions.ts, the    *)
(* payer's page (useCctpDeposit.ts), the settlement worker of              *)
(* cctp.worker.ts and the operator's requeue (cctp-sessions.mjs).          *)
(*                                                                         *)
(* The page prepares the session, asks the wallet to burn and reports the  *)
(* transaction, each of which may be lost. Workers claim the session under *)
(* a lease, look the burn up or discover it on the source chain, wait for  *)
(* Iris and settle it. Settling is CctpRelay, seen here by its outcome: of *)
(* the burns of one quote at most one is deposited.                        *)
(*                                                                         *)
(* Backoff only delays, so a session may always be due. Of the stages the  *)
(* worker displays while it settles, "minted" and "depositing" are left    *)
(* out: nothing tells them from "minting".                                 *)
(***************************************************************************)
EXTENDS Integers, FiniteSets, FiniteSetsExt

CONSTANTS
  Txs,        \* source transactions that burn under the quote
  Workers,    \* owners a call of settleNextSession may draw
  None,
  Window,     \* blocks one scan reads
  Trail,      \* blocks a scan goes back over, and the deepest reorganization
  MaxBlock,
  Sources,    \* the kinds of source chain: "evm", "solana"
  ManyBurns   \* whether the payer may burn twice under one quote

ASSUME SessionAssumption ==
  /\ None \notin Txs \union Workers
  /\ {Window, Trail, MaxBlock} \subseteq Nat \ {0}
  /\ Sources \subseteq {"evm", "solana"}
  /\ ManyBurns \in BOOLEAN

VARIABLES
  session,  \* the row of cctp_sessions
  payer,    \* the page, and the record it keeps in the browser
  call,     \* where each worker is, and its copy of the session
  chain,    \* the source chain, its mempool and what Iris has attested
  relay     \* cctp_relays: the burns with a row, and the one deposited

vars == <<session, payer, call, chain, relay>>

Stages == {"none", "awaiting_signature", "submission_unknown", "source_submitted",
           "confirming_source", "awaiting_attestation", "minting", "completed",
           "needs_attention"}
Blocks == 0..MaxBlock
NotScanned == -1
Steps == {"idle", "read", "scan", "advance", "note", "iris", "relay", "finish",
          "pending", "binding"}
NoSession == [stage |-> "none", hash |-> None, owner |-> None, leased |-> FALSE,
              scan |-> NotScanned, result |-> None]
NoCall == [step |-> "idle", hash |-> None, next |-> 0]

\* A page of an earlier version kept no session: it may hold a burn already.
Init ==
  /\ \E source \in Sources, sent \in {{}} \union {{t} : t \in Txs} :
       /\ payer = [source |-> source, telling |-> FALSE,
                   step |-> IF sent = {} THEN "quoted" ELSE "legacy",
                   hash |-> IF sent = {} THEN None ELSE CHOOSE t \in sent : TRUE]
       /\ chain = [tip |-> 0, at |-> [t \in Txs |-> 0], sent |-> sent, attested |-> {}]
  /\ session = NoSession
  /\ call = [w \in Workers |-> NoCall]
  /\ relay = [rows |-> {}, paid |-> None]

Mined == {t \in Txs : chain.at[t] # 0}
-----------------------------------------------------------------------------
\* The page. An answer that is lost ends it: only a record with a transaction
\* survives, and the page goes on with that one whenever it is opened.
PageAt(step) == payer.step = step
PageTo(step) == payer' = [payer EXCEPT !.step = step]

CreateSession ==
  /\ PageAt("quoted")
  /\ session' = [NoSession EXCEPT
                   !.stage = "awaiting_signature",
                   !.scan = IF payer.source = "evm" THEN chain.tip ELSE NotScanned]
  /\ PageTo("created") \/ PageTo("gone")
  /\ UNCHANGED <<call, chain, relay>>

CreateLegacySession ==
  /\ PageAt("legacy")
  /\ session' = [NoSession EXCEPT !.stage = "source_submitted", !.hash = payer.hash]
  /\ PageTo("sent")
  /\ UNCHANGED <<call, chain, relay>>

\* prepareBurn: the worker looks for the burn from before the wallet is asked.
UnpreparedBurn == UNCHANGED session
MarkedUnknown == session' = [session EXCEPT !.stage = "submission_unknown"]
PrepareBurn ==
  /\ PageAt("created")
  /\ session.stage = "awaiting_signature"
  /\ MarkedUnknown
  /\ PageTo("prepared") \/ PageTo("gone")
  /\ UNCHANGED <<call, chain, relay>>

\* An EVM wallet broadcasts, and hands over the hash unless its answer is lost.
Burn ==
  /\ PageAt("prepared")
  /\ payer.source = "evm"
  /\ \E t \in Txs :
       /\ chain' = [chain EXCEPT !.sent = {t}]
       /\ \/ payer' = [payer EXCEPT !.step = "sent", !.hash = t]
          \/ PageTo("gone")
  /\ UNCHANGED <<session, call, relay>>

\* A Solana wallet signs, the page reports the signature and only then sends.
Sign ==
  /\ PageAt("prepared")
  /\ payer.source = "solana"
  /\ \E t \in Txs : payer' = [payer EXCEPT !.step = "signed", !.hash = t]
  /\ UNCHANGED <<session, call, chain, relay>>

SendSigned ==
  /\ PageAt("told")
  /\ PageTo("sent")
  /\ \/ chain' = [chain EXCEPT !.sent = {payer.hash}]
     \/ UNCHANGED chain
  /\ UNCHANGED <<session, call, relay>>

\* The wallet sends the burn again, with another fee or as a second payment.
BurnAgain ==
  /\ payer.source = "evm"
  /\ chain.sent # {}
  /\ \E t \in Txs \ chain.sent : chain' = [chain EXCEPT !.sent = @ \union {t}]
  /\ UNCHANGED <<session, payer, call, relay>>

\* recordSubmission: the hash is written first, unless the session has another
\* one, and the stage after it.
TellHash ==
  /\ payer.step \in {"signed", "sent"}
  /\ ~payer.telling
  /\ session.hash \in {None, payer.hash}
  /\ session' = [session EXCEPT !.hash = payer.hash]
  /\ payer' = [payer EXCEPT !.telling = TRUE]
  /\ UNCHANGED <<call, chain, relay>>

TellStage ==
  /\ payer.telling
  /\ payer' = [payer EXCEPT !.telling = FALSE, !.step = IF @ = "signed" THEN "told" ELSE @]
  /\ session' = IF session.stage \in {"awaiting_signature", "submission_unknown"}
                THEN [session EXCEPT !.stage = "source_submitted"]
                ELSE session
  /\ UNCHANGED <<call, chain, relay>>

\* The request dies or its answer is lost: what was signed is not sent then.
TellLost ==
  /\ payer.telling \/ PageAt("signed")
  /\ payer' = [payer EXCEPT !.telling = FALSE, !.step = IF @ = "signed" THEN "sent" ELSE @]
  /\ UNCHANGED <<session, call, chain, relay>>
-----------------------------------------------------------------------------
\* The source chain. Burns of one wallet nonce exclude each other.
NextBlock ==
  /\ chain.tip < MaxBlock
  /\ \E new \in SUBSET (chain.sent \ Mined) :
       /\ ManyBurns \/ Cardinality(Mined \union new) <= 1
       /\ chain' = [chain EXCEPT
                      !.tip = @ + 1,
                      !.at = [t \in Txs |-> IF t \in new THEN chain.tip + 1 ELSE @[t]]]
  /\ UNCHANGED <<session, payer, call, relay>>

\* A reorganization moves a burn that is not final to another recent block, or
\* back into the mempool.
Recent == {b \in Blocks \ {0} : chain.tip - Trail < b /\ b <= chain.tip}
Reorganize ==
  /\ \E t \in Mined \ chain.attested :
       /\ chain.at[t] \in Recent
       /\ \E b \in (Recent \union {0}) \ {chain.at[t]} : chain' = [chain EXCEPT !.at[t] = b]
  /\ UNCHANGED <<session, payer, call, relay>>

\* Iris attests to a burn once it is final.
Attest ==
  /\ \E t \in Mined \ chain.attested : chain' = [chain EXCEPT !.attested = @ \union {t}]
  /\ UNCHANGED <<session, payer, call, relay>>

\* relayDeposit under the public route, or in a call that has lost its lease.
RelayElsewhere ==
  /\ \E t \in chain.attested :
       \E paid \in {relay.paid} \union (IF relay.paid = None THEN {t} ELSE {}) :
          relay' = [rows |-> relay.rows \union {t}, paid |-> paid]
  /\ UNCHANGED <<session, payer, call, chain>>
-----------------------------------------------------------------------------
\* The worker: settleNextSession.
At(w, step) == call[w].step = step
\* A failed call needs its copy no longer.
Goto(w, step) ==
  call' = [call EXCEPT ![w] = [NoCall EXCEPT
             !.step = step,
             !.hash = IF step \in {"pending", "binding"} THEN None ELSE call[w].hash]]

\* The filter of the release of the lease, and that of every checkpoint.
Owns(w) == session.owner = w
HoldsLease(w) == Owns(w) /\ session.leased

Parked == {"none", "completed", "awaiting_signature", "needs_attention"}
ClaimsParked(s) == s.stage \notin Parked \ {"needs_attention"} /\ ~s.leased
ClaimsCompleted(s) == s.stage \notin Parked \ {"completed"} /\ ~s.leased
ClaimsUnowned(s) == s.stage \notin Parked /\ s.owner = None
Claimable(s) == s.stage \notin Parked /\ ~s.leased

Claim(w) ==
  /\ At(w, "idle")
  /\ Claimable(session)
  /\ session' = [session EXCEPT !.owner = w, !.leased = TRUE]
  /\ call' = [call EXCEPT ![w] = [NoCall EXCEPT !.step = "read", !.hash = session.hash]]
  /\ UNCHANGED <<payer, chain, relay>>

\* The row of some burn of the quote; a deposit that is on record settles the
\* session at once.
AnyRow == relay.rows
Deposited == relay.rows \intersect {relay.paid}
ReadRelay(w) ==
  /\ At(w, "read")
  /\ \/ \E t \in Deposited :
          call' = [call EXCEPT ![w] = [NoCall EXCEPT !.step = "finish", !.hash = t]]
     \/ /\ \/ relay.rows = {}
           \/ \E t \in relay.rows : t \notin Deposited
        /\ Goto(w, IF call[w].hash = None THEN "scan" ELSE "iris")
  /\ UNCHANGED <<session, payer, chain, relay>>

\* discoverSource, from a node that may be behind. A scan that reaches the tip
\* goes back over the trail the next time.
NextScan(from, to, tip) == IF to = tip THEN Max({from, to - Trail}) ELSE to + 1
Found(from, to) == {t \in Mined : chain.at[t] \in from..to}
Scan(w) ==
  /\ At(w, "scan")
  /\ \/ session.scan = NotScanned /\ Goto(w, "pending")
     \/ \E tip \in 0..chain.tip :
          LET from == session.scan
              to == Min({tip, from + Window - 1})
          IN  /\ from # NotScanned
              /\ IF to < from THEN Goto(w, "pending")
                 ELSE IF Cardinality(Found(from, to)) > 1 THEN Goto(w, "binding")
                 ELSE \E t \in Found(from, to) \union (IF Found(from, to) = {} THEN {None} ELSE {}) :
                        call' = [call EXCEPT ![w] = [step |-> "advance", hash |-> t,
                                                     next |-> NextScan(from, to, tip)]]
  /\ UNCHANGED <<session, payer, chain, relay>>

\* A checkpoint is refused to a call that has lost its lease, and ends it. With
\* the last one the lease is given back: a call that dies between the two is one
\* whose lease lapses.
End(w, row) ==
  /\ session' = IF Owns(w) THEN [row EXCEPT !.owner = None, !.leased = FALSE] ELSE row
  /\ call' = [call EXCEPT ![w] = NoCall]

Checkpoint(w, row, step) ==
  /\ IF HoldsLease(w) THEN session' = row /\ Goto(w, step) ELSE End(w, session)
  /\ UNCHANGED <<payer, chain, relay>>

LastCheckpoint(w, row) ==
  /\ End(w, IF HoldsLease(w) THEN row ELSE session)
  /\ UNCHANGED <<payer, chain, relay>>

Advance(w) ==
  /\ At(w, "advance")
  /\ Checkpoint(w, [session EXCEPT !.scan = call[w].next],
                IF call[w].hash = None THEN "pending" ELSE "note")

NoteHash(w) ==
  /\ At(w, "note")
  /\ Checkpoint(w, [session EXCEPT !.hash = call[w].hash, !.stage = "confirming_source"], "iris")

AskIris(w) ==
  /\ At(w, "iris")
  /\ \/ /\ call[w].hash \in chain.attested
        /\ Checkpoint(w, [session EXCEPT !.stage = "minting"], "relay")
     \/ Checkpoint(w, [session EXCEPT !.stage = "awaiting_attestation"], "pending")

\* relayDeposit, by its outcome.
Settle(w) ==
  /\ At(w, "relay")
  /\ \/ /\ relay.paid \in {None, call[w].hash}
        /\ relay' = [rows |-> relay.rows \union {call[w].hash}, paid |-> call[w].hash]
        /\ Goto(w, "finish")
     \/ /\ \E rows \in {relay.rows, relay.rows \union {call[w].hash}} :
             relay' = [relay EXCEPT !.rows = rows]
        /\ Goto(w, "pending") \/ Goto(w, "binding")
  /\ UNCHANGED <<session, payer, chain>>

Finish(w) ==
  /\ At(w, "finish")
  /\ LastCheckpoint(w, [session EXCEPT !.stage = "completed", !.result = call[w].hash])

\* An error ends the call. It parks a session that is ambiguous, or a day old:
\* one may have become that at any moment.
Fault(w) ==
  /\ call[w].step \notin {"idle", "pending", "binding"}
  /\ Goto(w, "pending")
  /\ UNCHANGED <<session, payer, chain, relay>>

GiveUp(w) ==
  \/ At(w, "pending") /\ LastCheckpoint(w, session)
  \/ /\ call[w].step \in {"pending", "binding"}
     /\ LastCheckpoint(w, [session EXCEPT !.stage = "needs_attention"])

Die(w) ==
  /\ ~At(w, "idle")
  /\ call' = [call EXCEPT ![w] = NoCall]
  /\ UNCHANGED <<session, payer, chain, relay>>

\* Heartbeats hold the lease unless the process stalls or dies.
LeaseLapses ==
  /\ session.leased
  /\ session' = [session EXCEPT !.leased = FALSE]
  /\ UNCHANGED <<payer, call, chain, relay>>

\* The operator puts a parked session back.
Requeue ==
  /\ session.stage = "needs_attention"
  /\ session' = [session EXCEPT
                   !.stage = IF session.hash = None THEN "submission_unknown"
                             ELSE "source_submitted",
                   !.owner = None, !.leased = FALSE]
  /\ UNCHANGED <<payer, call, chain, relay>>
-----------------------------------------------------------------------------
Proceed(w) ==
  \/ ReadRelay(w) \/ Scan(w) \/ Advance(w) \/ NoteHash(w) \/ AskIris(w)
  \/ Settle(w) \/ Finish(w) \/ GiveUp(w)

Next ==
  \/ CreateSession \/ CreateLegacySession \/ PrepareBurn
  \/ Burn \/ Sign \/ SendSigned \/ BurnAgain
  \/ TellHash \/ TellStage \/ TellLost
  \/ NextBlock \/ Reorganize \/ Attest \/ RelayElsewhere
  \/ \E w \in Workers : Claim(w) \/ Proceed(w) \/ Fault(w) \/ Die(w)
  \/ LeaseLapses \/ Requeue

Spec == Init /\ [][Next]_vars

\* The steps of a time in which no call fails, dies or loses its lease. Only a
\* relay that was refused, or an ambiguous burn, still ends a call with an error.
Calm ==
  \/ \E w \in Workers :
       \/ Claim(w) \/ ReadRelay(w) \/ Scan(w) \/ Advance(w) \/ NoteHash(w) \/ Finish(w)
       \/ AskIris(w) /\ (call[w].hash \in chain.attested => call'[w].step # "pending")
       \/ Settle(w) /\ (relay.paid \in {None, call[w].hash} => call'[w].step = "finish")
       \/ GiveUp(w) /\ (At(w, "pending") => session'.stage = session.stage)
  \/ LeaseLapses /\ (\E w \in Workers : Owns(w) /\ At(w, "idle"))
  \/ UNCHANGED call /\ ~LeaseLapses

\* The worker's loop calls for ever, a call goes on, the lease of a dead one
\* lapses, and the faults end at some time nobody knows.
Fairness ==
  /\ WF_vars(\E w \in Workers : Claim(w))
  /\ \A w \in Workers : WF_vars(Proceed(w))
  /\ WF_vars(LeaseLapses)
  /\ <>[][Calm]_vars

FairSpec == Spec /\ Fairness
-----------------------------------------------------------------------------
TypeOK ==
  /\ session \in [stage : Stages, hash : Txs \union {None}, owner : Workers \union {None},
                  leased : BOOLEAN, scan : Blocks \union {NotScanned}, result : Txs \union {None}]
  /\ session.leased => session.owner # None
  /\ call \in [Workers -> [step : Steps, hash : Txs \union {None}, next : Blocks]]
  /\ chain.attested \subseteq Mined /\ Mined \subseteq chain.sent
  /\ relay.paid \in relay.rows \union {None}

\* A session that is completed names the burn that was deposited.
CompletedIsPaid == session.stage = "completed" => session.result = relay.paid /\ relay.paid # None

\* From the moment a burn may be in a block the worker is after it: the session
\* has left the stage it does not look at, whatever requests were lost.
BurnIsWatched ==
  Mined # {} /\ ~PageAt("legacy") => session.stage \notin {"none", "awaiting_signature"}

\* What the payer was told stands: no call that lost its lease, report or retry
\* takes a completed session up again.
CompletedStands ==
  [][session.stage = "completed"
       => session'.stage = "completed" /\ session'.result = session.result]_vars

\* What needs a person's attention keeps still until the operator puts it back.
ParkedUntilRequeued ==
  [][session.stage = "needs_attention" => session'.stage = "needs_attention" \/ Requeue]_vars

\* A session that knows of a burn that Iris has attested does not stay on its
\* way: it is completed, or put before the operator. Unless the payer has sent
\* another burn, which the worker may have put in the place of this one.
KnownBurnsSettle ==
  \A t \in Txs :
    session.hash = t /\ t \in chain.attested
      ~> \/ session.stage \in {"completed", "needs_attention"}
         \/ chain.sent # {t}

\* A session is bound to one source transaction: the first that is reported or
\* discovered.
HashStands == [][session.hash # None => session'.hash = session.hash]_vars
=============================================================================
