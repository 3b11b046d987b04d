------------------------- MODULE CctpSessionProofs -------------------------
(***************************************************************************)
(* What a payer was told of a payment stands, for any number of workers,   *)
(* of burns and of blocks: whichever calls lose their lease, requests are  *)
(* lost and blocks are reorganized.                                        *)
(***************************************************************************)
EXTENDS CctpSession, TLAPS

(* The inductive invariant. A session no worker looks at is leased to nobody,
   so that no late checkpoint finds it; a page that has yet to ask the wallet has
   not burnt; and a call that is about to complete the session holds the burn
   that was deposited, which no other one replaces. *)

SessionType ==
  [stage : Stages, hash : Txs \union {None}, owner : Workers \union {None},
   leased : BOOLEAN, scan : Blocks \union {NotScanned}, result : Txs \union {None}]
CallType == [step : Steps, hash : Txs \union {None}, next : Blocks]
PayerType ==
  [source : {"evm", "solana"}, telling : BOOLEAN, hash : Txs \union {None},
   step : {"quoted", "legacy", "created", "prepared", "signed", "told", "sent", "gone"}]
ChainType ==
  [tip : Blocks, at : [Txs -> Blocks], sent : SUBSET Txs, attested : SUBSET Txs]
RelayType == [rows : SUBSET Txs, paid : Txs \union {None}]

Typed ==
  /\ session \in SessionType /\ (session.leased => session.owner # None)
  /\ call \in [Workers -> CallType]
  /\ payer \in PayerType
  /\ chain \in ChainType /\ chain.attested \subseteq Mined /\ Mined \subseteq chain.sent
  /\ relay \in RelayType /\ relay.paid \in relay.rows \union {None}

PageInOrder ==
  /\ session.stage = "none" <=> payer.step \in {"quoted", "legacy"}
  /\ session.stage = "awaiting_signature" =>
       chain.sent = {} /\ payer.step \in {"created", "gone"}
  /\ payer.step \in {"quoted", "created", "prepared", "signed", "told"} => chain.sent = {}
  /\ payer.step \in {"legacy", "signed", "told", "sent"} => payer.hash \in Txs

ParkedIsNobodys == session.stage \in Parked => session.owner = None

HoldsTheDeposit(w) ==
  /\ call[w].step = "relay" => call[w].hash \in Txs
  /\ call[w].step = "finish" => call[w].hash = relay.paid /\ relay.paid # None

SessionInv ==
  /\ Typed
  /\ PageInOrder
  /\ ParkedIsNobodys
  /\ CompletedIsPaid
  /\ \A w \in Workers : HoldsTheDeposit(w)
-----------------------------------------------------------------------------
LEMMA TheLeast ==
  ASSUME NEW a \in Int, NEW b \in Int
  PROVE  Min({a, b}) = IF a <= b THEN a ELSE b
<1>1. \E x \in {a, b} : \A y \in {a, b} : x <= y
  OBVIOUS
<1>2. Min({a, b}) \in {a, b} /\ \A y \in {a, b} : Min({a, b}) <= y
  BY <1>1 DEF Min
<1>3. QED
  BY <1>2

LEMMA TheGreatest ==
  ASSUME NEW a \in Int, NEW b \in Int
  PROVE  Max({a, b}) = IF a >= b THEN a ELSE b
<1>1. \E x \in {a, b} : \A y \in {a, b} : x >= y
  OBVIOUS
<1>2. Max({a, b}) \in {a, b} /\ \A y \in {a, b} : Max({a, b}) >= y
  BY <1>1 DEF Max
<1>3. QED
  BY <1>2

\* A scan goes on within the chain, or right after its tip.
LEMMA ScansOn ==
  ASSUME NEW from \in Blocks, NEW tip \in Blocks,
         NEW to, to = Min({tip, from + Window - 1}), to >= from
  PROVE  NextScan(from, to, tip) \in Blocks
<1>1. /\ MaxBlock \in Nat /\ Window \in Nat /\ Trail \in Nat
      /\ from \in 0..MaxBlock /\ tip \in 0..MaxBlock
  BY SessionAssumption DEF Blocks
<1>2. to \in 0..MaxBlock /\ to <= tip
  BY <1>1, TheLeast
<1>3. Max({from, to - Trail}) \in 0..MaxBlock
  <2>1. PICK back \in Int : back = to - Trail
    BY <1>1, <1>2
  <2>2. Max({from, back}) = IF from >= back THEN from ELSE back
    BY <1>1, TheGreatest
  <2>3. (IF from >= back THEN from ELSE back) \in 0..MaxBlock
    BY <1>1, <1>2, <2>1
  <2>4. QED
    BY <2>1, <2>2, <2>3, Zenon
<1>4. QED
  BY <1>1, <1>2, <1>3 DEF NextScan, Blocks

LEMMA SessionInvInit == Init => SessionInv
<1> SUFFICES ASSUME Init PROVE SessionInv
  OBVIOUS
<1>1. PICK source \in Sources, sent \in {{}} \union {{t} : t \in Txs} :
        /\ payer = [source |-> source, telling |-> FALSE,
                    step |-> IF sent = {} THEN "quoted" ELSE "legacy",
                    hash |-> IF sent = {} THEN None ELSE CHOOSE t \in sent : TRUE]
        /\ chain = [tip |-> 0, at |-> [t \in Txs |-> 0], sent |-> sent, attested |-> {}]
  BY DEF Init
<1>2. sent \subseteq Txs /\ (sent # {} => (CHOOSE t \in sent : TRUE) \in Txs)
  OBVIOUS
<1>3. MaxBlock \in Nat /\ 0 \in Blocks /\ source \in {"evm", "solana"}
  BY SessionAssumption DEF Blocks
<1>4. payer \in PayerType
  BY <1>1, <1>2, <1>3 DEF PayerType
<1>5. chain \in ChainType /\ Mined = {} /\ chain.attested = {}
  BY <1>1, <1>2, <1>3 DEF ChainType, Mined
<1>6. session \in SessionType /\ ~session.leased /\ session.stage = "none" /\ session.owner = None
  BY DEF Init, NoSession, SessionType, Stages
<1>7. call \in [Workers -> CallType] /\ \A w \in Workers : call[w].step = "idle"
  BY <1>3 DEF Init, NoCall, CallType, Steps
<1>8. relay \in RelayType /\ relay.paid = None
  BY DEF Init, RelayType
<1>9. PageInOrder
  BY <1>1, <1>2, <1>6 DEF PageInOrder
<1>10. QED
  BY <1>4, <1>5, <1>6, <1>7, <1>8, <1>9
     DEF SessionInv, Typed, ParkedIsNobodys, CompletedIsPaid, HoldsTheDeposit
-----------------------------------------------------------------------------
\* What the page and the wallet do keeps the invariant: no call is touched.
LEMMA PageKeeps ==
  ASSUME SessionInv, UNCHANGED <<call, relay>>,
         session' \in SessionType, session'.leased => session'.owner # None,
         payer' \in PayerType,
         chain' \in ChainType, chain'.attested = chain.attested, Mined' = Mined,
         chain'.sent = chain.sent \/ Mined = {},
         PageInOrder', ParkedIsNobodys',
         session'.stage = "completed" =>
           session.stage = "completed" /\ session'.result = session.result
  PROVE  SessionInv'
BY DEF SessionInv, Typed, CompletedIsPaid, HoldsTheDeposit

LEMMA SessionTyped ==
  ASSUME SessionInv
  PROVE  /\ session \in SessionType /\ (session.leased => session.owner # None)
         /\ payer \in PayerType /\ chain \in ChainType /\ relay \in RelayType
         /\ PageInOrder /\ ParkedIsNobodys
BY DEF SessionInv, Typed

LEMMA CreateKeeps == SessionInv /\ (CreateSession \/ CreateLegacySession) => SessionInv'
<1> SUFFICES ASSUME SessionInv, CreateSession \/ CreateLegacySession PROVE SessionInv'
  OBVIOUS
<1>1. /\ session'.stage \in {"awaiting_signature", "source_submitted"}
      /\ session'.owner = None /\ ~session'.leased /\ session' \in SessionType
  BY SessionTyped DEF CreateSession, CreateLegacySession, NoSession, SessionType, Stages,
     ChainType, PayerType
<1>2. /\ UNCHANGED <<call, relay, chain>> /\ Mined' = Mined
      /\ payer' \in PayerType /\ payer'.hash = payer.hash
  BY SessionTyped DEF CreateSession, CreateLegacySession, PageTo, PayerType, Mined
<1>3. PageInOrder'
  <2>1. CASE CreateSession
    <3>1. chain.sent = {} /\ session'.stage = "awaiting_signature"
      BY <2>1, SessionTyped DEF CreateSession, PageAt, PageInOrder, NoSession
    <3>2. payer'.step \in {"created", "gone"}
      BY <2>1, SessionTyped DEF CreateSession, PageTo, PayerType
    <3>3. QED
      BY <1>2, <3>1, <3>2 DEF PageInOrder
  <2>2. CASE CreateLegacySession
    <3>1. payer.hash \in Txs /\ session'.stage = "source_submitted" /\ payer'.step = "sent"
      BY <2>2, SessionTyped
         DEF CreateLegacySession, PageAt, PageTo, PageInOrder, NoSession, PayerType
    <3>2. QED
      BY <1>2, <3>1 DEF PageInOrder
  <2>3. QED
    BY <2>1, <2>2
<1>4. ParkedIsNobodys'
  BY <1>1 DEF ParkedIsNobodys
<1>5. QED
  BY <1>1, <1>2, <1>3, <1>4, SessionTyped, PageKeeps

LEMMA PrepareBurnKeeps == SessionInv /\ PrepareBurn => SessionInv'
<1> SUFFICES ASSUME SessionInv, PrepareBurn PROVE SessionInv'
  OBVIOUS
<1>1. /\ session'.stage = "submission_unknown" /\ session' \in SessionType
      /\ session'.leased => session'.owner # None
  BY SessionTyped DEF PrepareBurn, MarkedUnknown, SessionType, Stages
<1>2. /\ UNCHANGED <<call, relay, chain>> /\ Mined' = Mined /\ payer' \in PayerType
      /\ payer'.step \in {"prepared", "gone"} /\ chain.sent = {}
  BY SessionTyped DEF PrepareBurn, PageAt, PageTo, PayerType, Mined, PageInOrder
<1>3. PageInOrder' /\ ParkedIsNobodys'
  BY <1>1, <1>2 DEF PageInOrder, ParkedIsNobodys, Parked
<1>4. QED
  BY <1>1, <1>2, <1>3, SessionTyped, PageKeeps

LEMMA WalletKeeps == SessionInv /\ (Burn \/ Sign \/ SendSigned \/ BurnAgain) => SessionInv'
<1> SUFFICES ASSUME SessionInv, Burn \/ Sign \/ SendSigned \/ BurnAgain PROVE SessionInv'
  OBVIOUS
<1> USE SessionTyped
<1>1. /\ UNCHANGED <<session, call, relay>>
      /\ payer' \in PayerType
  BY DEF Burn, Sign, SendSigned, BurnAgain, PageTo, PayerType
<1>2. CASE Burn \/ Sign \/ SendSigned
  <2>1. chain.sent = {} /\ Mined = {}
    BY <1>2 DEF Burn, Sign, SendSigned, PageAt, PageInOrder, SessionInv, Typed
  <2>2. /\ chain' \in ChainType /\ chain'.attested = chain.attested /\ Mined' = Mined
    <3>1. chain' = chain \/ \E t \in Txs : chain' = [chain EXCEPT !.sent = {t}]
      BY <1>2 DEF Burn, Sign, SendSigned, PageAt, PageInOrder
    <3>2. /\ chain' \in ChainType
          /\ chain'.attested = chain.attested /\ chain'.at = chain.at
      BY <3>1 DEF ChainType
    <3>3. QED
      BY <3>2 DEF Mined
  <2>3. session.stage \notin {"none", "awaiting_signature"}
    BY <1>2 DEF Burn, Sign, SendSigned, PageAt, PageInOrder
  <2>4. /\ payer'.step \in {"sent", "gone", "signed"}
        /\ payer'.step # "gone" => payer'.hash \in Txs
        /\ payer'.step = "signed" => chain' = chain
    BY <1>2 DEF Burn, Sign, SendSigned, PageAt, PageTo, PageInOrder, PayerType
  <2>5. PageInOrder' /\ ParkedIsNobodys'
    BY <1>1, <2>1, <2>3, <2>4 DEF PageInOrder, ParkedIsNobodys
  <2>6. QED
    BY <1>1, <2>1, <2>2, <2>5, PageKeeps
<1>3. CASE BurnAgain
  <2>1. PICK t \in Txs : chain' = [chain EXCEPT !.sent = @ \union {t}]
    BY <1>3 DEF BurnAgain
  <2>2. chain' \in ChainType /\ chain'.attested = chain.attested /\ chain'.at = chain.at
        /\ chain.sent \subseteq chain'.sent
    BY <2>1 DEF ChainType
  <2>3. Mined' = Mined
    BY <2>2 DEF Mined
  <2>4. chain.sent # {} /\ chain'.sent # {} /\ payer' = payer
    BY <1>3, <2>2 DEF BurnAgain
  <2>5. PageInOrder'
    BY <1>1, <2>4 DEF PageInOrder
  <2>6. QED
    BY <1>1, <2>2, <2>3, <2>5
       DEF SessionInv, Typed, CompletedIsPaid, HoldsTheDeposit, ParkedIsNobodys
<1>4. QED
  BY <1>2, <1>3

LEMMA TellKeeps == SessionInv /\ (TellHash \/ TellStage \/ TellLost) => SessionInv'
<1> SUFFICES ASSUME SessionInv, TellHash \/ TellStage \/ TellLost PROVE SessionInv'
  OBVIOUS
<1> USE SessionTyped
<1>1. /\ UNCHANGED <<call, relay, chain>> /\ Mined' = Mined
      /\ payer' \in PayerType /\ payer'.hash = payer.hash
      /\ \/ payer'.step = payer.step
         \/ payer.step = "signed" /\ payer'.step \in {"told", "sent"}
  BY DEF TellHash, TellStage, TellLost, PayerType, Mined
<1>2. /\ session' \in SessionType /\ session'.owner = session.owner
      /\ session'.leased = session.leased /\ session'.result = session.result
      /\ \/ session'.stage = session.stage
         \/ /\ session.stage \in {"awaiting_signature", "submission_unknown"}
            /\ session'.stage = "source_submitted"
  BY <1>1 DEF TellHash, TellStage, TellLost, SessionType, PayerType, Stages
<1>3. PageInOrder' /\ ParkedIsNobodys'
  BY <1>1, <1>2 DEF PageInOrder, ParkedIsNobodys, Parked
<1>4. QED
  BY <1>1, <1>2, <1>3, PageKeeps
-----------------------------------------------------------------------------
\* The source chain, Iris and deposits under other calls.
LEMMA ChainKeeps == SessionInv /\ (NextBlock \/ Reorganize \/ Attest) => SessionInv'
<1> SUFFICES ASSUME SessionInv, NextBlock \/ Reorganize \/ Attest PROVE SessionInv'
  OBVIOUS
<1> USE SessionTyped
<1>1. UNCHANGED <<session, payer, call, relay>>
  BY DEF NextBlock, Reorganize, Attest
<1>2. /\ chain' \in ChainType /\ chain'.sent = chain.sent
      /\ chain'.attested \subseteq Mined' /\ Mined' \subseteq chain.sent
  <2>1. CASE NextBlock
    <3>1. PICK new \in SUBSET (chain.sent \ Mined) :
            chain' = [chain EXCEPT
                        !.tip = @ + 1,
                        !.at = [t \in Txs |-> IF t \in new THEN chain.tip + 1 ELSE @[t]]]
      BY <2>1 DEF NextBlock
    <3>2. chain.tip + 1 \in Blocks /\ chain.tip + 1 # 0
      <4>1. chain.tip \in 0..MaxBlock /\ MaxBlock \in Nat /\ chain.tip < MaxBlock
        BY <2>1, SessionAssumption DEF NextBlock, ChainType, Blocks
      <4>2. QED
        BY <4>1 DEF Blocks
    <3>3. /\ chain' \in ChainType
          /\ chain'.sent = chain.sent /\ chain'.attested = chain.attested
          /\ \A t \in Txs : chain'.at[t] = IF t \in new THEN chain.tip + 1 ELSE chain.at[t]
      BY <3>1, <3>2 DEF ChainType
    <3>4. Mined' = Mined \union new
      BY <3>1, <3>2, <3>3 DEF Mined, ChainType
    <3>5. QED
      BY <3>3, <3>4 DEF SessionInv, Typed
  <2>2. CASE Reorganize
    <3>1. PICK t \in Mined \ chain.attested, b \in Recent \union {0} :
            chain' = [chain EXCEPT !.at[t] = b]
      BY <2>2 DEF Reorganize
    <3>2. t \in Txs /\ t \in chain.sent /\ b \in Blocks
      BY <3>1, SessionAssumption DEF Recent, Mined, Blocks, SessionInv, Typed
    <3>3. /\ chain' \in ChainType
          /\ chain'.sent = chain.sent /\ chain'.attested = chain.attested
          /\ \A u \in Txs \ {t} : chain'.at[u] = chain.at[u]
      BY <3>1, <3>2 DEF ChainType
    <3>4. Mined' \subseteq Mined /\ Mined \ {t} \subseteq Mined'
      BY <3>1, <3>2, <3>3 DEF Mined
    <3>5. QED
      BY <3>1, <3>3, <3>4 DEF SessionInv, Typed
  <2>3. CASE Attest
    <3>1. PICK t \in Mined : chain' = [chain EXCEPT !.attested = @ \union {t}]
      BY <2>3 DEF Attest
    <3>2. t \in Txs
      BY <3>1 DEF Mined
    <3>3. /\ chain' \in ChainType /\ chain'.at = chain.at
          /\ chain'.sent = chain.sent /\ chain'.attested = chain.attested \union {t}
      BY <3>1, <3>2 DEF ChainType
    <3>4. Mined' = Mined
      BY <3>3 DEF Mined
    <3>5. QED
      BY <3>1, <3>3, <3>4 DEF SessionInv, Typed
  <2>4. QED
    BY <2>1, <2>2, <2>3
<1>3. PageInOrder'
  BY <1>1, <1>2 DEF PageInOrder
<1>4. QED
  BY <1>1, <1>2, <1>3
     DEF SessionInv, Typed, CompletedIsPaid, HoldsTheDeposit, ParkedIsNobodys

LEMMA RelayElsewhereKeeps == SessionInv /\ RelayElsewhere => SessionInv'
<1> SUFFICES ASSUME SessionInv, RelayElsewhere PROVE SessionInv'
  OBVIOUS
<1>1. PICK t \in chain.attested :
        \/ relay' = [rows |-> relay.rows \union {t}, paid |-> relay.paid]
        \/ relay.paid = None /\ relay' = [rows |-> relay.rows \union {t}, paid |-> t]
  BY DEF RelayElsewhere
<1>2. t \in Txs /\ relay \in RelayType /\ relay.paid \in relay.rows \union {None}
  BY <1>1 DEF SessionInv, Typed, ChainType
<1>3. /\ relay' \in RelayType /\ relay'.paid \in relay'.rows \union {None}
      /\ relay.paid # None => relay'.paid = relay.paid
  BY <1>1, <1>2 DEF RelayType
<1>4. UNCHANGED <<session, payer, call, chain>> /\ Mined' = Mined
  BY DEF RelayElsewhere, Mined
<1>5. CompletedIsPaid' /\ \A w \in Workers : HoldsTheDeposit(w)'
  BY <1>3, <1>4 DEF SessionInv, CompletedIsPaid, HoldsTheDeposit
<1>6. QED
  BY <1>3, <1>4, <1>5 DEF SessionInv, Typed, PageInOrder, ParkedIsNobodys
-----------------------------------------------------------------------------
\* What a step of a worker, a lapse of its lease or an end of its call may do to
\* the row: the stage stays, or a session that was on its way moves on.
RowMoves ==
  /\ session' \in SessionType /\ (session'.leased => session'.owner # None)
  /\ \/ /\ session'.stage = session.stage /\ session'.result = session.result
        /\ \/ session'.owner \in {session.owner, None}
           \/ session.stage \notin Parked
     \/ /\ session.stage \notin Parked
        /\ session'.stage \notin {"none", "awaiting_signature"}
        /\ session'.stage \in Parked => session'.owner = None
        /\ session'.stage = "completed" =>
             session'.result = relay.paid /\ relay.paid # None

LEMMA WorkerKeeps ==
  ASSUME SessionInv, NEW w \in Workers, RowMoves, UNCHANGED <<payer, chain>>,
         call' \in [Workers -> CallType],
         \A v \in Workers \ {w} : call'[v] = call[v],
         HoldsTheDeposit(w)',
         relay' \in RelayType, relay'.paid \in relay'.rows \union {None},
         relay.paid # None => relay'.paid = relay.paid
  PROVE  SessionInv'
<1>1. Typed'
  BY DEF SessionInv, Typed, RowMoves, Mined
<1>2. PageInOrder' /\ ParkedIsNobodys'
  BY DEF SessionInv, PageInOrder, ParkedIsNobodys, RowMoves, Parked
<1>3. CompletedIsPaid'
  BY DEF SessionInv, CompletedIsPaid, RowMoves, Parked
<1>4. \A v \in Workers : HoldsTheDeposit(v)'
  BY DEF SessionInv, HoldsTheDeposit
<1>5. QED
  BY <1>1, <1>2, <1>3, <1>4 DEF SessionInv

LEMMA NewCall ==
  ASSUME NEW step \in Steps, NEW hash \in Txs \union {None}
  PROVE  LET copy == [NoCall EXCEPT !.step = step, !.hash = hash]
         IN  copy \in CallType /\ copy.step = step /\ copy.hash = hash
<1>1. NoCall \in CallType
  BY SessionAssumption DEF NoCall, CallType, Steps, Blocks
<1>2. QED
  BY <1>1 DEF CallType

LEMMA GoesTo ==
  ASSUME SessionInv, NEW w \in Workers, NEW step \in Steps, Goto(w, step)
  PROVE  /\ call' \in [Workers -> CallType]
         /\ \A v \in Workers \ {w} : call'[v] = call[v]
         /\ call'[w].step = step
         /\ step \notin {"pending", "binding"} => call'[w].hash = call[w].hash
<1>1. /\ call \in [Workers -> CallType] /\ call[w].hash \in Txs \union {None}
      /\ 0 \in Blocks
  BY SessionAssumption DEF SessionInv, Typed, CallType, Blocks
<1>2. QED
  BY <1>1 DEF Goto, NoCall, CallType

LEMMA Ends ==
  ASSUME SessionInv, NEW w \in Workers, NEW row \in SessionType, End(w, row)
  PROVE  /\ call' \in [Workers -> CallType]
         /\ \A v \in Workers \ {w} : call'[v] = call[v]
         /\ call'[w].step = "idle" /\ HoldsTheDeposit(w)'
         /\ session' \in SessionType
         /\ session'.stage = row.stage /\ session'.result = row.result
         /\ IF Owns(w) THEN session'.owner = None /\ ~session'.leased
            ELSE session' = row
<1>1. NoCall \in CallType /\ NoCall.step = "idle"
  BY SessionAssumption DEF NoCall, CallType, Steps, Blocks
<1>2. /\ call' \in [Workers -> CallType] /\ call'[w] = NoCall
      /\ \A v \in Workers \ {w} : call'[v] = call[v]
  BY <1>1 DEF End, SessionInv, Typed
<1>3. HoldsTheDeposit(w)'
  BY <1>1, <1>2 DEF HoldsTheDeposit
<1>4. QED
  BY <1>1, <1>2, <1>3 DEF End, SessionType

\* A call that holds the lease finds the session on its way.
LEMMA HeldIsOnItsWay ==
  ASSUME SessionInv, NEW w \in Workers, Owns(w)
  PROVE  session.stage \notin Parked
BY SessionAssumption DEF SessionInv, ParkedIsNobodys, Owns

LEMMA CheckpointKeeps ==
  ASSUME SessionInv, NEW w \in Workers, NEW row \in SessionType, NEW step \in Steps,
         Checkpoint(w, row, step), relay' = relay,
         row.owner = session.owner, row.leased = session.leased, row.result = session.result,
         row.stage = session.stage \/ row.stage \notin Parked,
         step # "finish", step = "relay" => call[w].hash \in Txs
  PROVE  SessionInv' /\ RowMoves
<1> USE SessionTyped
<1>1. UNCHANGED <<payer, chain>> /\ relay.paid \in relay.rows \union {None}
  BY DEF Checkpoint, SessionInv, Typed
<1>2. CASE HoldsLease(w)
  <2>1. session' = row /\ Goto(w, step) /\ session.stage \notin Parked
    BY <1>2, HeldIsOnItsWay DEF Checkpoint, HoldsLease
  <2>2. RowMoves
    BY <2>1 DEF RowMoves, Parked
  <2>3. HoldsTheDeposit(w)'
    BY <2>1, GoesTo DEF HoldsTheDeposit
  <2>4. QED
    BY <1>1, <2>1, <2>2, <2>3, GoesTo, WorkerKeeps
<1>3. CASE ~HoldsLease(w)
  <2>1. End(w, session)
    BY <1>3 DEF Checkpoint
  <2>2. RowMoves
    BY <2>1, Ends DEF RowMoves
  <2>3. QED
    BY <1>1, <2>1, <2>2, Ends, WorkerKeeps
<1>4. QED
  BY <1>2, <1>3

LEMMA LastCheckpointKeeps ==
  ASSUME SessionInv, NEW w \in Workers, NEW row \in SessionType,
         LastCheckpoint(w, row), relay' = relay,
         row.stage # session.stage \/ row.result # session.result =>
           /\ row.stage \in {"completed", "needs_attention"}
           /\ row.stage = "completed" => row.result = relay.paid /\ relay.paid # None
  PROVE  SessionInv' /\ RowMoves
<1> USE SessionTyped
<1>1. UNCHANGED <<payer, chain>> /\ relay.paid \in relay.rows \union {None}
  BY DEF LastCheckpoint, SessionInv, Typed
<1>2. CASE HoldsLease(w)
  <2>1. End(w, row) /\ Owns(w) /\ session.stage \notin Parked
    BY <1>2, HeldIsOnItsWay DEF LastCheckpoint, HoldsLease
  <2>2. RowMoves
    BY <2>1, Ends DEF RowMoves, Parked
  <2>3. QED
    BY <1>1, <2>1, <2>2, Ends, WorkerKeeps
<1>3. CASE ~HoldsLease(w)
  <2>1. End(w, session)
    BY <1>3 DEF LastCheckpoint
  <2>2. RowMoves
    BY <2>1, Ends DEF RowMoves
  <2>3. QED
    BY <1>1, <2>1, <2>2, Ends, WorkerKeeps
<1>4. QED
  BY <1>2, <1>3
-----------------------------------------------------------------------------
\* What leaves the row alone: a call that only goes on to another step.
LEMMA OnlyGoes ==
  ASSUME SessionInv, NEW w \in Workers, UNCHANGED <<session, payer, chain, relay>>,
         call' \in [Workers -> CallType], \A v \in Workers \ {w} : call'[v] = call[v],
         HoldsTheDeposit(w)'
  PROVE  SessionInv' /\ RowMoves
<1>1. RowMoves
  BY SessionTyped DEF RowMoves
<1>2. relay' \in RelayType /\ relay'.paid \in relay'.rows \union {None}
  BY DEF SessionInv, Typed
<1>3. QED
  BY <1>1, <1>2, WorkerKeeps

LEMMA ClaimKeeps == ASSUME SessionInv, NEW w \in Workers, Claim(w) PROVE SessionInv' /\ RowMoves
<1> USE SessionTyped
<1>1. /\ session' = [session EXCEPT !.owner = w, !.leased = TRUE]
      /\ session.stage \notin Parked /\ w # None
      /\ UNCHANGED <<payer, chain, relay>>
  BY SessionAssumption DEF Claim, Claimable
<1>2. RowMoves
  BY <1>1 DEF RowMoves, SessionType
<1>3. /\ call' \in [Workers -> CallType] /\ call'[w].step = "read"
      /\ \A v \in Workers \ {w} : call'[v] = call[v]
  <2>1. "read" \in Steps /\ session.hash \in Txs \union {None}
    BY DEF Steps, SessionType
  <2>2. QED
    BY <2>1, NewCall DEF Claim, SessionInv, Typed
<1>4. HoldsTheDeposit(w)'
  BY <1>3 DEF HoldsTheDeposit
<1>5. relay' \in RelayType /\ relay'.paid \in relay'.rows \union {None}
  BY <1>1 DEF SessionInv, Typed
<1>6. QED
  BY <1>1, <1>2, <1>3, <1>4, <1>5, WorkerKeeps

LEMMA ReadRelayKeeps ==
  ASSUME SessionInv, NEW w \in Workers, ReadRelay(w) PROVE SessionInv' /\ RowMoves
<1>1. UNCHANGED <<session, payer, chain, relay>>
  BY DEF ReadRelay
<1>2. ASSUME NEW t \in Deposited,
             call' = [call EXCEPT ![w] = [NoCall EXCEPT !.step = "finish", !.hash = t]]
      PROVE  SessionInv' /\ RowMoves
  <2>1. t \in Txs /\ t = relay.paid /\ t # None
    BY SessionTyped, SessionAssumption DEF Deposited, RelayType
  <2>2. /\ call' \in [Workers -> CallType]
        /\ call'[w].hash = t /\ call'[w].step = "finish"
        /\ \A v \in Workers \ {w} : call'[v] = call[v]
    <3> DEFINE copy == [NoCall EXCEPT !.step = "finish", !.hash = t]
    <3>1. copy \in CallType /\ copy.step = "finish" /\ copy.hash = t
      <4>1. "finish" \in Steps /\ t \in Txs \union {None}
        BY <2>1 DEF Steps
      <4>2. QED
        BY <4>1, NewCall
    <3>2. call' = [call EXCEPT ![w] = copy]
      BY <1>2
    <3> HIDE DEF copy
    <3>3. QED
      BY <3>1, <3>2 DEF SessionInv, Typed
  <2>3. HoldsTheDeposit(w)'
    BY <1>1, <2>1, <2>2 DEF HoldsTheDeposit
  <2>4. QED
    BY <1>1, <2>2, <2>3, OnlyGoes
<1>3. ASSUME NEW step \in {"scan", "iris"}, Goto(w, step) PROVE SessionInv' /\ RowMoves
  <2>1. step \in Steps
    BY DEF Steps
  <2>2. HoldsTheDeposit(w)'
    BY <1>3, <2>1, GoesTo DEF HoldsTheDeposit
  <2>3. QED
    BY <1>1, <1>3, <2>1, <2>2, GoesTo, OnlyGoes
<1>4. QED
  BY <1>2, <1>3 DEF ReadRelay

LEMMA ScanKeeps == ASSUME SessionInv, NEW w \in Workers, Scan(w) PROVE SessionInv' /\ RowMoves
<1> USE SessionTyped
<1>1. UNCHANGED <<session, payer, chain, relay>>
  BY DEF Scan
<1>2. ASSUME NEW step \in {"pending", "binding"}, Goto(w, step) PROVE SessionInv' /\ RowMoves
  <2>1. step \in Steps
    BY DEF Steps
  <2>2. HoldsTheDeposit(w)'
    BY <1>2, <2>1, GoesTo DEF HoldsTheDeposit
  <2>3. QED
    BY <1>1, <1>2, <2>1, <2>2, GoesTo, OnlyGoes
<1>3. ASSUME NEW tip \in 0..chain.tip, NEW to, to = Min({tip, session.scan + Window - 1}),
             to >= session.scan, session.scan # NotScanned,
             NEW t \in Txs \union {None},
             call' = [call EXCEPT ![w] = [step |-> "advance", hash |-> t,
                                          next |-> NextScan(session.scan, to, tip)]]
      PROVE  SessionInv' /\ RowMoves
  <2>1. tip \in Blocks /\ session.scan \in Blocks
    <3>1. chain.tip \in 0..MaxBlock /\ MaxBlock \in Nat
      BY SessionAssumption DEF ChainType, Blocks
    <3>2. QED
      BY <1>3, <3>1 DEF Blocks, SessionType
  <2>2. NextScan(session.scan, to, tip) \in Blocks
    BY <1>3, <2>1, ScansOn
  <2>3. /\ call' \in [Workers -> CallType] /\ call'[w].step = "advance"
        /\ \A v \in Workers \ {w} : call'[v] = call[v]
    BY <1>3, <2>2 DEF SessionInv, Typed, CallType, Steps
  <2>4. HoldsTheDeposit(w)'
    BY <2>3 DEF HoldsTheDeposit
  <2>5. QED
    BY <1>1, <2>3, <2>4, OnlyGoes
<1>4. \A from, to : Found(from, to) \subseteq Txs
  BY DEF Found, Mined
<1>5. CASE Goto(w, "pending") \/ Goto(w, "binding")
  BY <1>2, <1>5
<1>6. CASE ~Goto(w, "pending") /\ ~Goto(w, "binding")
  <2>1. PICK tip \in 0..chain.tip :
          LET to == Min({tip, session.scan + Window - 1})
          IN  /\ session.scan # NotScanned
              /\ ~(to < session.scan)
              /\ \E t \in Found(session.scan, to)
                            \union (IF Found(session.scan, to) = {} THEN {None} ELSE {}) :
                   call' = [call EXCEPT ![w] = [step |-> "advance", hash |-> t,
                                                next |-> NextScan(session.scan, to, tip)]]
    BY <1>6 DEF Scan
  <2> DEFINE to == Min({tip, session.scan + Window - 1})
  <2>2. PICK t \in Txs \union {None} :
          call' = [call EXCEPT ![w] = [step |-> "advance", hash |-> t,
                                       next |-> NextScan(session.scan, to, tip)]]
    BY <1>4, <2>1
  <2>3. to >= session.scan
    <3>1. /\ chain.tip \in 0..MaxBlock /\ session.scan \in 0..MaxBlock /\ MaxBlock \in Nat
          /\ Window \in Nat
      BY <2>1, SessionAssumption DEF ChainType, SessionType, Blocks
    <3>2. to \in Int
      BY <3>1, TheLeast
    <3>3. QED
      BY <2>1, <3>1, <3>2
  <2>4. QED
    BY <1>3, <2>1, <2>2, <2>3
<1>7. QED
  BY <1>5, <1>6
-----------------------------------------------------------------------------
-----------------------------------------------------------------------------
LEMMA AdvanceKeeps ==
  ASSUME SessionInv, NEW w \in Workers, Advance(w) PROVE SessionInv' /\ RowMoves
<1> USE SessionTyped
<1> DEFINE row == [session EXCEPT !.scan = call[w].next]
           step == IF call[w].hash = None THEN "pending" ELSE "note"
<1>1. call[w].next \in Blocks
  BY DEF SessionInv, Typed, CallType
<1>2. /\ row \in SessionType /\ row.owner = session.owner /\ row.leased = session.leased
      /\ row.result = session.result /\ row.stage = session.stage
  BY <1>1 DEF SessionType
<1>3. step \in Steps /\ step \notin {"relay", "finish"}
  BY DEF Steps
<1>4. Checkpoint(w, row, step) /\ relay' = relay
  BY DEF Advance, Checkpoint
<1> HIDE DEF row, step
<1>5. QED
  BY <1>2, <1>3, <1>4, CheckpointKeeps

LEMMA NoteHashKeeps ==
  ASSUME SessionInv, NEW w \in Workers, NoteHash(w) PROVE SessionInv' /\ RowMoves
<1> USE SessionTyped
<1> DEFINE row == [session EXCEPT !.hash = call[w].hash, !.stage = "confirming_source"]
<1>1. call[w].hash \in Txs \union {None}
  BY DEF SessionInv, Typed, CallType
<1>2. /\ row \in SessionType /\ row.owner = session.owner /\ row.leased = session.leased
      /\ row.result = session.result /\ row.stage \notin Parked
  BY <1>1 DEF SessionType, Stages, Parked
<1>3. Checkpoint(w, row, "iris") /\ relay' = relay /\ "iris" \in Steps
  BY DEF NoteHash, Checkpoint, Steps
<1> HIDE DEF row
<1>4. QED
  BY <1>2, <1>3, CheckpointKeeps

LEMMA AskIrisKeeps ==
  ASSUME SessionInv, NEW w \in Workers, AskIris(w) PROVE SessionInv' /\ RowMoves
<1> USE SessionTyped
<1>1. ASSUME NEW stage \in {"minting", "awaiting_attestation"}
      PROVE  LET row == [session EXCEPT !.stage = stage]
             IN  /\ row \in SessionType /\ row.owner = session.owner
                 /\ row.leased = session.leased /\ row.result = session.result
                 /\ row.stage \notin Parked
  BY DEF SessionType, Stages, Parked
<1>2. relay' = relay /\ {"relay", "pending"} \subseteq Steps
  BY DEF AskIris, Checkpoint, Steps
<1>3. ASSUME call[w].hash \in chain.attested,
             Checkpoint(w, [session EXCEPT !.stage = "minting"], "relay")
      PROVE  SessionInv' /\ RowMoves
  <2>1. call[w].hash \in Txs
    BY <1>3 DEF ChainType
  <2> DEFINE row == [session EXCEPT !.stage = "minting"]
  <2>2. /\ row \in SessionType /\ row.owner = session.owner
        /\ row.leased = session.leased /\ row.result = session.result
        /\ row.stage \notin Parked
    BY <1>1
  <2>3. Checkpoint(w, row, "relay")
    BY <1>3
  <2> HIDE DEF row
  <2>4. QED
    BY <1>2, <2>1, <2>2, <2>3, CheckpointKeeps
<1>4. ASSUME Checkpoint(w, [session EXCEPT !.stage = "awaiting_attestation"], "pending")
      PROVE  SessionInv' /\ RowMoves
  <2> DEFINE row == [session EXCEPT !.stage = "awaiting_attestation"]
  <2>1. /\ row \in SessionType /\ row.owner = session.owner
        /\ row.leased = session.leased /\ row.result = session.result
        /\ row.stage \notin Parked
    BY <1>1
  <2>2. Checkpoint(w, row, "pending")
    BY <1>4
  <2> HIDE DEF row
  <2>3. QED
    BY <1>2, <2>1, <2>2, CheckpointKeeps
<1>5. QED
  BY <1>3, <1>4 DEF AskIris

LEMMA SettleKeeps == ASSUME SessionInv, NEW w \in Workers, Settle(w) PROVE SessionInv' /\ RowMoves
<1> USE SessionTyped
<1>1. /\ UNCHANGED <<session, payer, chain>> /\ call[w].hash \in Txs
  BY DEF Settle, At, SessionInv, HoldsTheDeposit
<1>2. PICK step \in {"finish", "pending", "binding"} :
        /\ Goto(w, step)
        /\ step = "finish" =>
             /\ relay.paid \in {None, call[w].hash}
             /\ relay' = [rows |-> relay.rows \union {call[w].hash}, paid |-> call[w].hash]
        /\ step # "finish" =>
             \E rows \in {relay.rows, relay.rows \union {call[w].hash}} :
                relay' = [relay EXCEPT !.rows = rows]
  BY DEF Settle
<1>3. /\ relay' \in RelayType /\ relay'.paid \in relay'.rows \union {None}
      /\ relay.paid # None => relay'.paid = relay.paid
      /\ step = "finish" => relay'.paid = call[w].hash
  BY <1>1, <1>2 DEF RelayType, SessionInv, Typed
<1>4. step \in Steps
  BY DEF Steps
<1>5. HoldsTheDeposit(w)'
  BY <1>1, <1>2, <1>3, <1>4, GoesTo, SessionAssumption DEF HoldsTheDeposit
<1>6. RowMoves
  BY <1>1 DEF RowMoves
<1>7. QED
  BY <1>1, <1>2, <1>3, <1>4, <1>5, <1>6, GoesTo, WorkerKeeps

LEMMA FinishKeeps == ASSUME SessionInv, NEW w \in Workers, Finish(w) PROVE SessionInv' /\ RowMoves
<1> USE SessionTyped
<1> DEFINE row == [session EXCEPT !.stage = "completed", !.result = call[w].hash]
<1>1. call[w].hash \in Txs \union {None} /\ call[w].hash = relay.paid /\ relay.paid # None
  BY DEF Finish, At, SessionInv, Typed, CallType, HoldsTheDeposit
<1>2. row \in SessionType /\ row.stage = "completed" /\ row.result = relay.paid
  BY <1>1 DEF SessionType, Stages
<1>3. LastCheckpoint(w, row) /\ relay' = relay
  BY DEF Finish, LastCheckpoint
<1> HIDE DEF row
<1>4. QED
  BY <1>1, <1>2, <1>3, LastCheckpointKeeps

LEMMA FaultKeeps ==
  ASSUME SessionInv, NEW w \in Workers, Fault(w) \/ Die(w) PROVE SessionInv' /\ RowMoves
<1>1. UNCHANGED <<session, payer, chain, relay>>
  BY DEF Fault, Die
<1>2. CASE Fault(w)
  <2>1. Goto(w, "pending") /\ "pending" \in Steps
    BY <1>2 DEF Fault, Steps
  <2>2. HoldsTheDeposit(w)'
    BY <2>1, GoesTo DEF HoldsTheDeposit
  <2>3. QED
    BY <1>1, <2>1, <2>2, GoesTo, OnlyGoes
<1>3. CASE Die(w)
  <2>1. NoCall \in CallType /\ NoCall.step = "idle"
    BY SessionAssumption DEF NoCall, CallType, Steps, Blocks
  <2>2. /\ call' \in [Workers -> CallType] /\ call'[w].step = "idle"
        /\ \A v \in Workers \ {w} : call'[v] = call[v]
    BY <1>3, <2>1 DEF Die, SessionInv, Typed
  <2>3. HoldsTheDeposit(w)'
    BY <2>2 DEF HoldsTheDeposit
  <2>4. QED
    BY <1>1, <2>2, <2>3, OnlyGoes
<1>4. QED
  BY <1>2, <1>3

LEMMA GiveUpKeeps == ASSUME SessionInv, NEW w \in Workers, GiveUp(w) PROVE SessionInv' /\ RowMoves
<1> USE SessionTyped
<1>1. relay' = relay
  BY DEF GiveUp, LastCheckpoint
<1>2. CASE LastCheckpoint(w, session)
  BY <1>1, <1>2, LastCheckpointKeeps
<1>3. CASE LastCheckpoint(w, [session EXCEPT !.stage = "needs_attention"])
  <2> DEFINE row == [session EXCEPT !.stage = "needs_attention"]
  <2>1. row \in SessionType /\ row.stage = "needs_attention"
    BY DEF SessionType, Stages
  <2>2. LastCheckpoint(w, row)
    BY <1>3
  <2> HIDE DEF row
  <2>3. QED
    BY <1>1, <2>1, <2>2, LastCheckpointKeeps
<1>4. QED
  BY <1>2, <1>3 DEF GiveUp
-----------------------------------------------------------------------------
LEMMA WorkerStepKeeps ==
  ASSUME SessionInv, NEW w \in Workers, Claim(w) \/ Proceed(w) \/ Fault(w) \/ Die(w)
  PROVE  SessionInv' /\ RowMoves
BY ClaimKeeps, ReadRelayKeeps, ScanKeeps, AdvanceKeeps, NoteHashKeeps, AskIrisKeeps,
   SettleKeeps, FinishKeeps, FaultKeeps, GiveUpKeeps DEF Proceed

LEMMA LapseKeeps == SessionInv /\ LeaseLapses => SessionInv' /\ RowMoves
<1> SUFFICES ASSUME SessionInv, LeaseLapses PROVE SessionInv' /\ RowMoves
  OBVIOUS
<1> USE SessionTyped
<1>1. /\ session' \in SessionType /\ session'.stage = session.stage
      /\ session'.result = session.result /\ session'.owner = session.owner /\ ~session'.leased
      /\ UNCHANGED <<payer, call, chain, relay>> /\ Mined' = Mined
  BY DEF LeaseLapses, SessionType, Mined
<1>2. PageInOrder' /\ ParkedIsNobodys'
  BY <1>1 DEF PageInOrder, ParkedIsNobodys
<1>3. SessionInv'
  BY <1>1, <1>2, PageKeeps
<1>4. RowMoves
  BY <1>1 DEF RowMoves
<1>5. QED
  BY <1>3, <1>4

LEMMA RequeueKeeps == SessionInv /\ Requeue => SessionInv'
<1> SUFFICES ASSUME SessionInv, Requeue PROVE SessionInv'
  OBVIOUS
<1> USE SessionTyped
<1>1. /\ session' \in SessionType /\ ~session'.leased
      /\ session.stage = "needs_attention"
      /\ session'.stage \in {"submission_unknown", "source_submitted"}
      /\ UNCHANGED <<payer, call, chain, relay>> /\ Mined' = Mined
  BY DEF Requeue, SessionType, Stages, Mined
<1>2. PageInOrder' /\ ParkedIsNobodys'
  BY <1>1 DEF PageInOrder, ParkedIsNobodys, Parked
<1>3. QED
  BY <1>1, <1>2, PageKeeps

LEMMA SessionInvNext == SessionInv /\ [Next]_vars => SessionInv'
<1> SUFFICES ASSUME SessionInv, [Next]_vars PROVE SessionInv'
  OBVIOUS
<1>1. CASE CreateSession \/ CreateLegacySession \/ PrepareBurn
  BY <1>1, CreateKeeps, PrepareBurnKeeps
<1>2. CASE Burn \/ Sign \/ SendSigned \/ BurnAgain
  BY <1>2, WalletKeeps
<1>3. CASE TellHash \/ TellStage \/ TellLost
  BY <1>3, TellKeeps
<1>4. CASE NextBlock \/ Reorganize \/ Attest \/ RelayElsewhere
  BY <1>4, ChainKeeps, RelayElsewhereKeeps
<1>5. ASSUME NEW w \in Workers, Claim(w) \/ Proceed(w) \/ Fault(w) \/ Die(w)
      PROVE  SessionInv'
  BY <1>5, WorkerStepKeeps
<1>6. CASE LeaseLapses \/ Requeue
  BY <1>6, LapseKeeps, RequeueKeeps
<1>7. CASE UNCHANGED vars
  <2>1. UNCHANGED <<session, payer, call, chain, relay>> /\ Mined' = Mined
    BY <1>7 DEF vars, Mined
  <2>2. PageInOrder' /\ ParkedIsNobodys'
    BY <2>1, SessionTyped DEF PageInOrder, ParkedIsNobodys
  <2>3. QED
    BY <2>1, <2>2, SessionTyped, PageKeeps
<1>8. QED
  BY <1>1, <1>2, <1>3, <1>4, <1>5, <1>6, <1>7 DEF Next

LEMMA SessionInvAlways == Spec => []SessionInv
BY SessionInvInit, SessionInvNext, PTL DEF Spec

\* A session that was settled, or put before the operator, is taken up by nobody.
LEMMA NobodyTakesItUp ==
  ASSUME SessionInv, [Next]_vars
  PROVE  /\ session.stage = "completed" =>
              session'.stage = "completed" /\ session'.result = session.result
         /\ session.stage = "needs_attention" => session'.stage = "needs_attention" \/ Requeue
<1>1. CASE RowMoves
  BY <1>1 DEF RowMoves, Parked
<1>2. CASE \/ CreateSession \/ CreateLegacySession \/ PrepareBurn
           \/ TellHash \/ TellStage \/ TellLost
  BY <1>2, SessionTyped
     DEF CreateSession, CreateLegacySession, PrepareBurn, TellHash, TellStage, TellLost,
         MarkedUnknown, PageAt, PageInOrder, SessionType
<1>3. CASE UNCHANGED session
  BY <1>3
<1>4. CASE Requeue
  BY <1>4 DEF Requeue
<1>5. CASE \/ Burn \/ Sign \/ SendSigned \/ BurnAgain
           \/ NextBlock \/ Reorganize \/ Attest \/ RelayElsewhere \/ UNCHANGED vars
  BY <1>3, <1>5
     DEF Burn, Sign, SendSigned, BurnAgain, NextBlock, Reorganize, Attest, RelayElsewhere, vars
<1>6. CASE \/ LeaseLapses
           \/ \E w \in Workers : Claim(w) \/ Proceed(w) \/ Fault(w) \/ Die(w)
  BY <1>1, <1>6, WorkerStepKeeps, LapseKeeps
<1>7. QED
  BY <1>2, <1>4, <1>5, <1>6 DEF Next
-----------------------------------------------------------------------------
\* The row, the calls and the chain keep their types.
THEOREM SessionTypeCorrect == Spec => []TypeOK
<1>1. SessionInv => TypeOK
  BY DEF SessionInv, Typed, TypeOK, SessionType, CallType, RelayType
<1>2. QED
  BY <1>1, SessionInvAlways, PTL

\* A session completed by settleNextSession names the burn that was deposited,
\* whatever other burns of the quote were relayed by whomever.
THEOREM CompletedIsPaidAlways == Spec => []CompletedIsPaid
BY SessionInvAlways, PTL DEF SessionInv

\* prepareBurn comes before the wallet: a burn in a block is one the worker is after.
THEOREM BurnIsWatchedAlways == Spec => []BurnIsWatched
<1>1. SessionInv => BurnIsWatched
  BY DEF SessionInv, Typed, PageInOrder, BurnIsWatched, PageAt
<1>2. QED
  BY <1>1, SessionInvAlways, PTL

\* No checkpoint of a late call, report or retry takes up a completed session.
THEOREM CompletedStandsAlways == Spec => CompletedStands
<1>1. SessionInv /\ [Next]_vars =>
        [session.stage = "completed" =>
           session'.stage = "completed" /\ session'.result = session.result]_vars
  BY NobodyTakesItUp
<1>2. QED
  BY <1>1, SessionInvAlways, PTL DEF Spec, CompletedStands

\* Only the operator's requeue takes up a session that needs attention.
THEOREM ParkedUntilRequeuedAlways == Spec => ParkedUntilRequeued
<1>1. SessionInv /\ [Next]_vars =>
        [session.stage = "needs_attention" =>
           session'.stage = "needs_attention" \/ Requeue]_vars
  BY NobodyTakesItUp
<1>2. QED
  BY <1>1, SessionInvAlways, PTL DEF Spec, ParkedUntilRequeued
=============================================================================
