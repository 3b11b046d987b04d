-------------------------- MODULE CctpRelayProofs --------------------------
(***************************************************************************)
(* The settling of a burn is well typed, only the call that holds a row    *)
(* moves it, the operator never has two transactions in a race, and the    *)
(* rows and the chain never contradict each other.                         *)
(***************************************************************************)
EXTENDS CctpRelay, TLAPS

-----------------------------------------------------------------------------
(* The inductive invariant.                                                *)

\* A leg that is under way has a transaction on record.
OnRecord ==
  \A b \in Burns :
    /\ relay[b].state = "minting" => relay[b].mint \in Attempts
    /\ relay[b].state = "depositing" => relay[b].deposit \in Attempts

\* The steps between the building of a transaction and its sending.
Built == {"checkpoint", "assert", "send"}

\* A call that runs and a transaction that was built are about some burn.
AboutBurns ==
  \A a \in Attempts :
    /\ call[a].step # "idle" => call[a].burn \in Burns
    /\ tx[a].status # "none" \/ call[a].step \in Built => tx[a].burn \in Burns

\* No transaction outlives, by the server's clock, the lifetime it was built
\* with and the lag of the ledger.
ShortLived == \A a \in Attempts : tx[a].left <= TxLifetime + lag

\* A transaction that is being sent or can get into a ledger.
Racing(a) ==
  \/ Includable(tx[a])
  \/ call[a].step = "send" /\ tx[a].current /\ tx[a].left >= 0

\* Whoever races holds the lock, for longer than the ledgers can take the
\* transaction however much further they fall behind.
LockOutlives ==
  \A a \in Attempts :
    Racing(a) => lock.owner = a /\ lock.left > tx[a].left + MaxLag - lag

IInv == TypeOK /\ OnRecord /\ AboutBurns /\ ShortLived
-----------------------------------------------------------------------------
(* The types of what the actions write.                                    *)

Rows == [state : RelayStates, owner : Attempts \union {Nobody},
         lease : 0..RelayLease, mint : Attempts \union {Nobody},
         deposit : Attempts \union {Nobody}, leaf : Nat]
Calls == [step : Steps, leg : Legs, burn : Burns \union {Nobody}, renewed : BOOLEAN]
Txs == [status : {"none", "prepared", "sent", "success", "failed"},
        leg : Legs, burn : Burns \union {Nobody}, renewed : BOOLEAN,
        left : -1..(TxLifetime + MaxLag), current : BOOLEAN, leaf : Nat]

\* The conjuncts of TypeOK, with the sets of records by name.
LEMMA Types ==
  TypeOK <=>
    /\ relay \in [Burns -> Rows]
    /\ lock \in [owner : Attempts \union {Nobody}, left : 0..SequenceLock]
    /\ call \in [Attempts -> Calls]
    /\ tx \in [Attempts -> Txs]
    /\ minted \subseteq Burns /\ intake \in Nat /\ leaves \in Seq(Burns)
    /\ live \in [Quotes -> BOOLEAN] /\ authorized \subseteq Burns
    /\ lag \in 0..MaxLag /\ forgotten \subseteq Attempts
BY DEF TypeOK, Rows, Calls, Txs

\* The operators that move a call on keep the calls well typed, and touch only
\* that call.
LEMMA CallSteps ==
  ASSUME call \in [Attempts -> Calls], NEW a \in Attempts, NEW step \in Steps,
         NEW leg \in Legs,
         Goto(a, step) \/ GotoLeg(a, step, leg) \/ End(a)
  PROVE  /\ call' \in [Attempts -> Calls]
         /\ \A c \in Attempts \ {a} : call'[c] = call[c]
         /\ call'[a].step = IF End(a) THEN "idle" ELSE step
         /\ ~End(a) => call'[a].burn = call[a].burn
<1>1. CASE Goto(a, step) /\ ~End(a)
  BY <1>1 DEF Goto, Calls
<1>2. CASE GotoLeg(a, step, leg) /\ ~End(a)
  BY <1>2 DEF GotoLeg, Calls
<1>3. CASE End(a)
  BY <1>3 DEF End, NoCall, Calls, Steps, Legs
<1>4. QED
  BY <1>1, <1>2, <1>3

\* A confirmed leg is written as a well-typed row that no leg is under way in.
LEMMA RecordedType ==
  ASSUME NEW row \in Rows, NEW t \in Txs
  PROVE  /\ Recorded(row, t) \in Rows
         /\ Recorded(row, t).state \in {"minted", "deposited"}
<1>1. CASE t.leg = "mint"
  <2>1. Recorded(row, t) = [row EXCEPT !.state = "minted", !.lease = RelayLease]
    BY <1>1 DEF Recorded
  <2>2. RelayLease \in 0..RelayLease
    BY RelayAssumption
  <2>3. QED
    BY <2>1, <2>2 DEF Rows, RelayStates
<1>2. CASE t.leg # "mint"
  <2>1. Recorded(row, t) = [row EXCEPT !.state = "deposited", !.leaf = t.leaf,
                                       !.owner = Nobody, !.lease = 0]
    BY <1>2 DEF Recorded
  <2>2. t.leaf \in Nat /\ 0 \in 0..RelayLease
    BY RelayAssumption DEF Txs
  <2>3. QED
    BY <2>1, <2>2 DEF Rows, RelayStates
<1>3. QED
  BY <1>1, <1>2
-----------------------------------------------------------------------------
(* One fact per action: it keeps IInv.                                     *)

LEMMA InitInv == Init => IInv
<1> SUFFICES ASSUME Init PROVE IInv
  OBVIOUS
<1>1. NoRow \in Rows /\ NoCall \in Calls /\ NoTx \in Txs
  BY RelayAssumption
     DEF NoRow, NoCall, NoTx, Rows, Calls, Txs, RelayStates, Steps, Legs
<1>2. TypeOK
  BY <1>1, RelayAssumption, Types DEF Init
<1>3. OnRecord /\ AboutBurns
  BY DEF Init, OnRecord, AboutBurns, Built, NoRow, NoCall, NoTx
<1>4. ShortLived
  BY RelayAssumption DEF Init, ShortLived, NoTx
<1>5. QED
  BY <1>2, <1>3, <1>4 DEF IInv

\* A step that only moves one call on.
LEMMA CallOnly ==
  ASSUME IInv, NEW a \in Attempts, NEW step \in Steps, NEW leg \in Legs,
         Goto(a, step) \/ GotoLeg(a, step, leg) \/ End(a),
         call[a].step # "idle", step \in Built => tx[a].burn \in Burns,
         UNCHANGED <<relay, tx, chainVars, nodeVars>>,
         lock' \in [owner : Attempts \union {Nobody}, left : 0..SequenceLock]
  PROVE  IInv'
<1>1. /\ call' \in [Attempts -> Calls]
      /\ \A c \in Attempts \ {a} : call'[c] = call[c]
      /\ call'[a].step = IF End(a) THEN "idle" ELSE step
      /\ ~End(a) => call'[a].burn = call[a].burn
  BY CallSteps, Types DEF IInv
<1>2. TypeOK'
  BY <1>1, Types DEF IInv, TypeOK, chainVars, nodeVars, Calls
<1>3. OnRecord'
  BY DEF IInv, OnRecord
<1>4. AboutBurns'
  <2>1. \A c \in Attempts : call'[c].step # "idle" => call'[c].burn \in Burns
    BY <1>1 DEF IInv, AboutBurns
  <2>2. \A c \in Attempts : call'[c].step \in Built => tx[c].burn \in Burns
    BY <1>1 DEF IInv, AboutBurns, Built
  <2>3. QED
    BY <2>1, <2>2 DEF IInv, AboutBurns
<1>5. ShortLived'
  BY DEF IInv, ShortLived, nodeVars
<1>6. QED
  BY <1>2, <1>3, <1>4, <1>5 DEF IInv

\* A step that moves one call on and rewrites the row of its burn.
LEMMA CallAndRow ==
  ASSUME IInv, NEW a \in Attempts, NEW step \in Steps, NEW leg \in Legs,
         Goto(a, step) \/ GotoLeg(a, step, leg) \/ End(a),
         call[a].step # "idle", step \in Built => tx[a].burn \in Burns,
         NEW row \in Rows,
         row.state = "minting" => row.mint \in Attempts,
         row.state = "depositing" => row.deposit \in Attempts,
         relay' = [relay EXCEPT ![call[a].burn] = row],
         UNCHANGED <<lock, tx, chainVars, nodeVars>>
  PROVE  IInv'
<1>1. /\ call' \in [Attempts -> Calls]
      /\ \A c \in Attempts \ {a} : call'[c] = call[c]
      /\ call'[a].step = IF End(a) THEN "idle" ELSE step
      /\ ~End(a) => call'[a].burn = call[a].burn
  BY CallSteps, Types DEF IInv
<1>2. relay' \in [Burns -> Rows]
  BY Types DEF IInv
<1>3. TypeOK'
  BY <1>1, <1>2, Types DEF IInv, TypeOK, chainVars, nodeVars, Calls, Rows
<1>4. OnRecord'
  <2>1. \A b \in Burns : relay'[b] = IF b = call[a].burn THEN row ELSE relay[b]
    BY Types DEF IInv
  <2>2. QED
    BY <2>1 DEF IInv, OnRecord
<1>5. AboutBurns'
  <2>1. \A c \in Attempts : call'[c].step # "idle" => call'[c].burn \in Burns
    BY <1>1 DEF IInv, AboutBurns
  <2>2. \A c \in Attempts : call'[c].step \in Built => tx[c].burn \in Burns
    BY <1>1 DEF IInv, AboutBurns, Built
  <2>3. QED
    BY <2>1, <2>2 DEF IInv, AboutBurns
<1>6. ShortLived'
  BY DEF IInv, ShortLived, nodeVars
<1>7. QED
  BY <1>3, <1>4, <1>5, <1>6 DEF IInv

\* A step that moves one call on and gives it another transaction about its burn.
LEMMA CallAndTx ==
  ASSUME IInv, NEW a \in Attempts, NEW step \in Steps, NEW leg \in Legs,
         Goto(a, step) \/ GotoLeg(a, step, leg) \/ End(a),
         call[a].step # "idle",
         NEW t \in Txs, t.burn \in Burns, t.left <= TxLifetime + lag,
         tx' = [tx EXCEPT ![a] = t],
         UNCHANGED <<relay, lock, chainVars, nodeVars>>
  PROVE  IInv'
<1>1. /\ call' \in [Attempts -> Calls]
      /\ \A c \in Attempts \ {a} : call'[c] = call[c]
      /\ call'[a].step = IF End(a) THEN "idle" ELSE step
      /\ ~End(a) => call'[a].burn = call[a].burn
  BY CallSteps, Types DEF IInv
<1>2. /\ tx' \in [Attempts -> Txs]
      /\ \A c \in Attempts : tx'[c] = IF c = a THEN t ELSE tx[c]
  BY Types DEF IInv
<1>3. TypeOK'
  BY <1>1, <1>2, Types DEF IInv, TypeOK, chainVars, nodeVars, Calls, Txs
<1>4. OnRecord'
  BY DEF IInv, OnRecord
<1>5. AboutBurns'
  <2>1. \A c \in Attempts : call'[c].step # "idle" => call'[c].burn \in Burns
    BY <1>1 DEF IInv, AboutBurns
  <2>2. \A c \in Attempts :
          tx'[c].status # "none" \/ call'[c].step \in Built => tx'[c].burn \in Burns
    BY <1>1, <1>2 DEF IInv, AboutBurns
  <2>3. QED
    BY <2>1, <2>2 DEF AboutBurns
<1>6. ShortLived'
  BY <1>2 DEF IInv, ShortLived, nodeVars
<1>7. QED
  BY <1>3, <1>4, <1>5, <1>6 DEF IInv

\* Begin draws a free name and makes sure of the row.
LEMMA BeginInv ==
  ASSUME IInv, NEW a \in Attempts, NEW b \in Burns, Begin(a, b)
  PROVE  IInv'
<1> DEFINE started == [step |-> "claim", leg |-> "mint", burn |-> b,
                       renewed |-> ~live[QuoteOf[b]]]
<1>1. /\ call' = [call EXCEPT ![a] = started]
      /\ tx' = [tx EXCEPT ![a] = NoTx]
      /\ relay' = IF relay[b].state = "none"
                  THEN [relay EXCEPT ![b].state = "validated"] ELSE relay
      /\ UNCHANGED <<lock, minted, intake, leaves, live, authorized, lag>>
      /\ forgotten' \subseteq forgotten
  BY DEF Begin, chainVars
<1>2. started \in Calls /\ NoTx \in Txs
  BY RelayAssumption, Types DEF IInv, Calls, Txs, NoTx, Steps, Legs
<1>3. relay' \in [Burns -> Rows]
  <2>1. relay \in [Burns -> Rows]
    BY Types DEF IInv
  <2>2. [relay[b] EXCEPT !.state = "validated"] \in Rows
    BY <2>1 DEF Rows, RelayStates
  <2>3. QED
    BY <1>1, <2>1, <2>2
<1>4. call' \in [Attempts -> Calls] /\ tx' \in [Attempts -> Txs]
  BY <1>1, <1>2, Types DEF IInv
<1>5. TypeOK'
  BY <1>1, <1>3, <1>4, Types DEF IInv, TypeOK, Rows, Calls, Txs
<1>6. OnRecord'
  <2>1. \A c \in Burns : relay'[c] = relay[c] \/ relay'[c].state = "validated"
    BY <1>1, Types DEF IInv, Rows
  <2>2. QED
    BY <2>1 DEF IInv, OnRecord
<1>7. AboutBurns'
  <2>1. \A c \in Attempts : call'[c] = IF c = a THEN started ELSE call[c]
    BY <1>1, Types DEF IInv
  <2>2. \A c \in Attempts : tx'[c] = IF c = a THEN NoTx ELSE tx[c]
    BY <1>1, Types DEF IInv
  <2>3. started.burn \in Burns /\ started.step \notin Built /\ NoTx.status = "none"
    BY DEF NoTx, Built
  <2>4. QED
    BY <2>1, <2>2, <2>3 DEF IInv, AboutBurns
<1>8. ShortLived'
  <2>1. NoTx.left <= TxLifetime + lag
    BY RelayAssumption, Types DEF IInv, NoTx
  <2>2. \A c \in Attempts : tx'[c] = IF c = a THEN NoTx ELSE tx[c]
    BY <1>1, Types DEF IInv
  <2>3. QED
    BY <1>1, <2>1, <2>2 DEF IInv, ShortLived
<1>9. QED
  BY <1>5, <1>6, <1>7, <1>8 DEF IInv

\* Claiming the row gives it an owner and a lease.
LEMMA ClaimLeaseInv ==
  ASSUME IInv, NEW a \in Attempts, ClaimLease(a)
  PROVE  IInv'
<1>1. call[a].step # "idle" /\ call[a].burn \in Burns
  BY DEF ClaimLease, At, IInv, AboutBurns
<1> DEFINE row == [relay[call[a].burn] EXCEPT !.owner = a, !.lease = RelayLease]
<1>2. relay[call[a].burn] \in Rows
  BY <1>1, Types DEF IInv
<1>3. row \in Rows /\ row.state = relay[call[a].burn].state
      /\ row.mint = relay[call[a].burn].mint /\ row.deposit = relay[call[a].burn].deposit
  <2>1. RelayLease \in 0..RelayLease
    BY RelayAssumption
  <2>2. QED
    BY <1>2, <2>1 DEF Rows
<1>4. relay' = [relay EXCEPT ![call[a].burn] = row]
  BY <1>1, <1>2, Types DEF ClaimLease, IInv
<1>5. /\ row.state = "minting" => row.mint \in Attempts
      /\ row.state = "depositing" => row.deposit \in Attempts
  BY <1>1, <1>3 DEF IInv, OnRecord
<1>6. PICK leg \in Legs : GotoLeg(a, "lock", leg) \/ GotoLeg(a, "resolve", leg)
  BY DEF ClaimLease
<1>7. UNCHANGED <<lock, tx, chainVars, nodeVars>>
  BY DEF ClaimLease
<1> HIDE DEF row
<1>8. CASE GotoLeg(a, "lock", leg)
  BY <1>1, <1>3, <1>4, <1>5, <1>7, <1>8, CallAndRow DEF Steps, Built
<1>9. CASE GotoLeg(a, "resolve", leg)
  BY <1>1, <1>3, <1>4, <1>5, <1>7, <1>9, CallAndRow DEF Steps, Built
<1>10. QED
  BY <1>6, <1>8, <1>9

\* A simulated call becomes a transaction with the lifetime of the chain's time
\* bounds.
LEMMA BuildInv ==
  ASSUME IInv, NEW a \in Attempts, Build(a)
  PROVE  IInv'
<1>1. call[a].step # "idle" /\ call[a].burn \in Burns /\ call[a] \in Calls
  BY Types DEF Build, At, IInv, AboutBurns
<1>2. UNCHANGED <<relay, lock, chainVars, nodeVars>>
  BY DEF Build
<1> DEFINE t == [status |-> "prepared", leg |-> call[a].leg, burn |-> call[a].burn,
                 renewed |-> call[a].renewed, left |-> TxLifetime + lag,
                 current |-> TRUE, leaf |-> 0]
<1>3. t.burn \in Burns /\ t.left <= TxLifetime + lag
  BY <1>1, RelayAssumption, Types DEF IInv
<1>4. t \in Txs
  <2>1. TxLifetime + lag \in -1..(TxLifetime + MaxLag)
    BY RelayAssumption, Types DEF IInv
  <2>2. QED
    BY <1>1, <2>1 DEF Txs, Calls
<1>5. CASE Goto(a, "checkpoint") /\ tx' = [tx EXCEPT ![a] = t]
  BY <1>1, <1>2, <1>3, <1>4, <1>5, CallAndTx DEF Steps, Legs
<1>6. CASE End(a) /\ UNCHANGED tx
  BY <1>1, <1>2, <1>6, CallOnly, Types DEF Steps, Legs, IInv, Built
<1>7. QED
  BY <1>5, <1>6 DEF Build

\* The checkpoint records the transaction that a leg is under way with.
LEMMA CheckpointInv ==
  ASSUME IInv, NEW a \in Attempts, Checkpoint(a)
  PROVE  IInv'
<1>1. /\ call[a].step # "idle" /\ call[a].burn \in Burns /\ call[a].leg \in Legs
      /\ tx[a].burn \in Burns
  BY Types DEF Checkpoint, At, IInv, AboutBurns, Calls, Built
<1>2. UNCHANGED <<lock, tx, chainVars, nodeVars>>
  BY DEF Checkpoint
<1> DEFINE old == relay[call[a].burn]
           row == [old EXCEPT !.state = During(call[a].leg), ![call[a].leg] = a]
<1>3. old \in Rows
  BY <1>1, Types DEF IInv
<1>4. /\ row \in Rows
      /\ row.state = "minting" => row.mint \in Attempts
      /\ row.state = "depositing" => row.deposit \in Attempts
  <2>1. CASE call[a].leg = "mint"
    BY <1>3, <2>1 DEF Rows, During, RelayStates
  <2>2. CASE call[a].leg = "deposit"
    BY <1>3, <2>2 DEF Rows, During, RelayStates
  <2>3. QED
    BY <1>1, <2>1, <2>2 DEF Legs
<1>5. CASE Goto(a, "assert") /\ relay' = [relay EXCEPT ![call[a].burn] = row]
  <2> HIDE DEF row
  <2>1. QED
    BY <1>1, <1>2, <1>4, <1>5, CallAndRow DEF Steps, Built
<1>6. CASE End(a) /\ UNCHANGED relay
  BY <1>1, <1>2, <1>6, CallOnly, Types DEF Steps, Legs, IInv, Built
<1>7. QED
  BY <1>5, <1>6 DEF Checkpoint

\* A refused transaction is left as it was built, an accepted one is on its way.
LEMMA SendInv ==
  ASSUME IInv, NEW a \in Attempts, Send(a)
  PROVE  IInv'
<1>1. call[a].step # "idle" /\ tx[a].burn \in Burns /\ tx[a] \in Txs
  BY Types DEF Send, At, IInv, AboutBurns, Built
<1>2. UNCHANGED <<relay, lock, chainVars, nodeVars>>
  BY DEF Send
<1> DEFINE t == [tx[a] EXCEPT !.status = "sent"]
<1>3. t \in Txs /\ t.burn = tx[a].burn /\ t.left = tx[a].left
  BY <1>1 DEF Txs
<1>4. t.left <= TxLifetime + lag
  BY <1>3 DEF IInv, ShortLived
<1>5. CASE Goto(a, "poll") /\ tx' = [tx EXCEPT ![a].status = "sent"]
  <2>1. tx' = [tx EXCEPT ![a] = t]
    BY <1>5, Types DEF IInv
  <2> HIDE DEF t
  <2>2. QED
    BY <1>1, <1>2, <1>3, <1>4, <1>5, <2>1, CallAndTx DEF Steps, Legs
<1>6. CASE End(a) /\ UNCHANGED tx
  BY <1>1, <1>2, <1>6, CallOnly, Types DEF Steps, Legs, IInv, Built
<1>7. QED
  BY <1>5, <1>6 DEF Send

\* A row the call holds is written with the outcome of its transaction.
LEMMA RecordInv ==
  ASSUME IInv, NEW a \in Attempts, Record(a)
  PROVE  IInv'
<1>1. /\ call[a].step # "idle" /\ call[a].burn \in Burns
      /\ call[a].leg \in Legs /\ tx[a] \in Txs
  BY Types DEF Record, At, IInv, AboutBurns, Calls
<1>2. UNCHANGED <<lock, tx, chainVars, nodeVars>>
  BY DEF Record
<1> DEFINE noted == [relay[call[a].burn] EXCEPT ![call[a].leg] = a]
           row == Recorded(noted, tx[a])
<1>3. noted \in Rows
  <2>1. relay[call[a].burn] \in Rows
    BY <1>1, Types DEF IInv
  <2>2. CASE call[a].leg = "mint"
    BY <2>1, <2>2 DEF Rows
  <2>3. CASE call[a].leg = "deposit"
    BY <2>1, <2>3 DEF Rows
  <2>4. QED
    BY <1>1, <2>2, <2>3 DEF Legs
<1>4. row \in Rows /\ row.state \in {"minted", "deposited"}
  <2> HIDE DEF noted
  <2>1. QED
    BY <1>1, <1>3, RecordedType
<1>5. CASE GoOn(a, call[a].leg) /\ relay' = [relay EXCEPT ![call[a].burn] = row]
  <2>1. GotoLeg(a, "lock", "deposit") \/ End(a)
    BY <1>5 DEF GoOn
  <2> HIDE DEF row
  <2>2. QED
    BY <1>1, <1>2, <1>4, <1>5, <2>1, CallAndRow DEF Steps, Legs, Built
<1>6. CASE End(a) /\ UNCHANGED relay
  BY <1>1, <1>2, <1>6, CallOnly, Types DEF Steps, Legs, IInv, Built
<1>7. QED
  BY <1>5, <1>6 DEF Record

\* A leg under way is recorded, put back or left as it is.
LEMMA ResolveInv ==
  ASSUME IInv, NEW a \in Attempts, Resolve(a)
  PROVE  IInv'
<1>1. /\ call[a].step # "idle" /\ call[a].burn \in Burns /\ call[a].leg \in Legs
      /\ UNCHANGED <<lock, tx, chainVars, nodeVars>>
  BY Types DEF Resolve, At, IInv, AboutBurns, Calls
<1> DEFINE old == relay[call[a].burn]
           leg == call[a].leg
           done == Recorded(old, tx[old[leg]])
           back == [old EXCEPT !.state = Before(leg), ![leg] = Nobody,
                               !.owner = Nobody, !.lease = 0]
<1>2. old \in Rows
  BY <1>1, Types DEF IInv
<1>3. CASE End(a) /\ UNCHANGED relay
  BY <1>1, <1>3, CallOnly, Types DEF Steps, Legs, IInv, Built
<1>4. CASE /\ old.state = During(leg)
           /\ GoOn(a, leg)
           /\ relay' = [relay EXCEPT ![call[a].burn] = done]
  <2>1. old[leg] \in Attempts
    BY <1>1, <1>4 DEF IInv, OnRecord, During, Legs
  <2>2. tx[old[leg]] \in Txs
    BY <2>1, Types DEF IInv
  <2>3. done \in Rows /\ done.state \in {"minted", "deposited"}
    <3> HIDE DEF old, leg
    <3>1. QED
      BY <1>2, <2>2, RecordedType
  <2>4. GotoLeg(a, "lock", "deposit") \/ End(a)
    BY <1>4 DEF GoOn
  <2> HIDE DEF done
  <2>5. QED
    BY <1>1, <1>4, <2>3, <2>4, CallAndRow DEF Steps, Legs, Built
<1>5. CASE End(a) /\ relay' = [relay EXCEPT ![call[a].burn] = back]
  <2>1. back \in Rows /\ back.state \in {"validated", "minted"}
    <3>1. 0 \in 0..RelayLease /\ Before(leg) \in {"validated", "minted"}
      BY RelayAssumption DEF Before
    <3> DEFINE ended == [old EXCEPT !.state = Before(leg), !.owner = Nobody, !.lease = 0]
    <3>2. ended \in Rows /\ ended.state = Before(leg)
      <4> HIDE DEF old, leg
      <4>1. QED
        BY <1>2, <3>1 DEF Rows, RelayStates
    <3>3. back = [ended EXCEPT ![leg] = Nobody]
      <4>1. CASE leg = "mint"
        <5> HIDE DEF old, leg
        <5>1. QED
          BY <1>2, <4>1 DEF Rows
      <4>2. CASE leg = "deposit"
        <5> HIDE DEF old, leg
        <5>1. QED
          BY <1>2, <4>2 DEF Rows
      <4>3. QED
        BY <1>1, <4>1, <4>2 DEF Legs
    <3>4. QED
      <4> HIDE DEF ended, leg
      <4>1. leg \in {"mint", "deposit"}
        BY <1>1 DEF Legs, leg
      <4>2. QED
        BY <3>1, <3>2, <3>3, <4>1 DEF Rows
  <2> HIDE DEF back
  <2>2. QED
    BY <1>1, <1>5, <2>1, CallAndRow DEF Steps, Legs, Built
<1>6. QED
  BY <1>3, <1>4, <1>5 DEF Resolve, Row

\* What a ledger that takes a transaction does to the transactions.
LEMMA IncludeTx ==
  ASSUME IInv, NEW a \in Attempts, Include(a)
  PROVE  \A c \in Attempts :
           /\ tx'[c] \in Txs
           /\ tx'[c].burn = tx[c].burn
           /\ ~tx'[c].current
           /\ tx'[c].left <= tx[c].left
           /\ tx'[c].status # "none" => tx[c].status # "none"
<1> DEFINE done == Executes(tx[a].leg, tx[a].burn, tx[a].renewed)
           taken == [tx[a] EXCEPT !.status = IF done THEN "success" ELSE "failed",
                       !.leaf = IF done /\ tx[a].leg = "deposit" THEN Len(leaves) + 1 ELSE 0,
                       !.left = -1,
                       !.current = FALSE]
<1>1. /\ \A c \in Attempts : tx'[c] = IF c # a THEN [tx[c] EXCEPT !.current = FALSE] ELSE taken
      /\ tx[a].status = "sent"
  BY DEF Include, Includable
<1>2. tx \in [Attempts -> Txs] /\ Len(leaves) \in Nat
  BY Types DEF IInv
<1>3. -1 \in -1..(TxLifetime + MaxLag)
  BY RelayAssumption
<1>4. /\ taken \in Txs /\ taken.burn = tx[a].burn /\ ~taken.current
      /\ taken.left <= tx[a].left
  <2> DEFINE status == IF done THEN "success" ELSE "failed"
             leaf == IF done /\ tx[a].leg = "deposit" THEN Len(leaves) + 1 ELSE 0
  <2>1. status \in {"success", "failed"} /\ leaf \in Nat
    BY <1>2
  <2>2. tx[a] \in Txs /\ tx[a].left \in -1..(TxLifetime + MaxLag)
    BY <1>2 DEF Txs
  <2>3. taken = [tx[a] EXCEPT !.status = status, !.leaf = leaf, !.left = -1, !.current = FALSE]
    OBVIOUS
  <2> HIDE DEF status, leaf, taken
  <2>4. taken \in Txs
    BY <1>3, <2>1, <2>2, <2>3 DEF Txs
  <2>5. taken.burn = tx[a].burn /\ ~taken.current /\ taken.left = -1
    BY <2>2, <2>3 DEF Txs
  <2>6. QED
    BY <2>2, <2>4, <2>5, RelayAssumption
<1> HIDE DEF taken
<1>5. ASSUME NEW c \in Attempts \ {a}
      PROVE  /\ tx'[c] \in Txs /\ tx'[c].burn = tx[c].burn /\ ~tx'[c].current
             /\ tx'[c].left = tx[c].left /\ tx'[c].status = tx[c].status
  BY <1>1, <1>2 DEF Txs
<1>6. \A c \in Attempts : tx[c].left \in Int
  BY <1>2 DEF Txs
<1>7. tx'[a] = taken
  BY <1>1
<1>8. ASSUME NEW c \in Attempts
      PROVE  /\ tx'[c] \in Txs /\ tx'[c].burn = tx[c].burn /\ ~tx'[c].current
             /\ tx'[c].left <= tx[c].left
             /\ tx'[c].status # "none" => tx[c].status # "none"
  <2>1. CASE c = a
    BY <1>1, <1>4, <1>7, <2>1
  <2>2. CASE c # a
    BY <1>5, <1>6, <2>2
  <2>3. QED
    BY <2>1, <2>2
<1>9. QED
  BY <1>8

\* A ledger pays out of the intake only what is there.
LEMMA IncludeInv ==
  ASSUME IInv, NEW a \in Attempts, Include(a)
  PROVE  IInv'
<1> DEFINE t == tx[a]
           done == Executes(t.leg, t.burn, t.renewed)
<1>1. t.burn \in Burns /\ t.leg \in Legs
  BY Types DEF Include, Includable, IInv, AboutBurns, Txs
<1>2. UNCHANGED <<relay, lock, call, live, authorized, lag, forgotten>>
  BY DEF Include, nodeVars
<1>3. Total[QuoteOf[t.burn]] \in Nat
  BY <1>1, RelayAssumption
<1>4. minted' \subseteq Burns
  BY <1>1, Types DEF Include, IInv
<1>5. leaves' \in Seq(Burns)
  BY <1>1, Types DEF Include, IInv
<1>6. intake' \in Nat
  <2>1. intake \in Nat /\ (done /\ t.leg # "mint" => intake >= Total[QuoteOf[t.burn]])
    BY Types DEF IInv, Executes
  <2>2. intake' = IF ~done THEN intake
                  ELSE IF t.leg = "mint" THEN intake + Total[QuoteOf[t.burn]]
                  ELSE intake - Total[QuoteOf[t.burn]]
    BY DEF Include
  <2> HIDE DEF done, t
  <2>3. QED
    BY <1>3, <2>1, <2>2
<1>7. tx' \in [Attempts -> Txs]
  <2>1. DOMAIN tx' = Attempts /\ tx' = [c \in Attempts |-> tx'[c]]
    BY DEF Include
  <2>2. QED
    BY <2>1, IncludeTx
<1>8. TypeOK'
  BY <1>2, <1>4, <1>5, <1>6, <1>7, Types DEF IInv, TypeOK, Txs
<1>9. OnRecord'
  BY <1>2 DEF IInv, OnRecord
<1>10. AboutBurns'
  BY <1>2, IncludeTx DEF IInv, AboutBurns
<1>11. ShortLived'
  <2>1. \A c \in Attempts : tx[c].left \in Int /\ tx'[c].left \in Int
    BY <1>7, Types, SMTT(30) DEF IInv, Txs
  <2>2. TxLifetime + lag \in Int
    BY RelayAssumption, Types DEF IInv
  <2>3. QED
    BY <1>2, <2>1, <2>2, IncludeTx DEF IInv, ShortLived
<1>12. QED
  BY <1>8, <1>9, <1>10, <1>11 DEF IInv

\* What the passing of time does to a transaction.
LEMMA TickTx ==
  ASSUME IInv, Tick
  PROVE  \A c \in Attempts :
           /\ tx'[c] \in Txs
           /\ tx'[c].burn = tx[c].burn /\ tx'[c].status = tx[c].status
           /\ tx'[c].current = tx[c].current
           /\ tx'[c].left = IF tx[c].left + 1 > lag + 1 - lag'
                            THEN tx[c].left - (lag + 1 - lag') ELSE -1
<1>1. lag \in 0..MaxLag /\ lag' \in 0..MaxLag /\ lag' <= lag + 1 /\ MaxLag \in Nat
      /\ TxLifetime \in Nat
  BY RelayAssumption, Types DEF IInv, Tick
<1> SUFFICES ASSUME NEW c \in Attempts
             PROVE  /\ tx'[c] \in Txs
                    /\ tx'[c].burn = tx[c].burn /\ tx'[c].status = tx[c].status
                    /\ tx'[c].current = tx[c].current
                    /\ tx'[c].left = IF tx[c].left + 1 > lag + 1 - lag'
                                     THEN tx[c].left - (lag + 1 - lag') ELSE -1
  OBVIOUS
<1> DEFINE rest == Less(tx[c].left + 1, lag + 1 - lag') - 1
<1>2. tx'[c] = [tx[c] EXCEPT !.left = rest]
  BY DEF Tick
<1>3. tx[c] \in Txs /\ tx[c].left \in -1..(TxLifetime + MaxLag)
  BY Types DEF IInv, Txs
<1>4. /\ rest \in -1..(TxLifetime + MaxLag)
      /\ rest = IF tx[c].left + 1 > lag + 1 - lag'
                THEN tx[c].left - (lag + 1 - lag') ELSE -1
  BY <1>1, <1>3 DEF Less
<1> HIDE DEF rest
<1>5. QED
  BY <1>2, <1>3, <1>4 DEF Txs

\* Time only shortens what is left to leases, locks and transactions.
LEMMA TickInv ==
  ASSUME IInv, Tick
  PROVE  IInv'
<1>1. /\ lag \in 0..MaxLag /\ lag' \in 0..MaxLag /\ MaxLag \in Nat /\ TxLifetime \in Nat
      /\ RelayLease \in Nat /\ SequenceLock \in Nat
  BY RelayAssumption, Types DEF IInv, Tick
<1>2. UNCHANGED <<call, minted, intake, leaves, live, authorized, forgotten>>
  BY DEF Tick, chainVars, nodeVars
<1>3. ASSUME NEW b \in Burns
      PROVE  /\ relay'[b] \in Rows /\ relay'[b].state = relay[b].state
             /\ relay'[b].mint = relay[b].mint /\ relay'[b].deposit = relay[b].deposit
  <2>1. relay[b] \in Rows /\ relay[b].lease \in 0..RelayLease
    BY Types DEF IInv, Rows
  <2>2. Less(relay[b].lease, 1) \in 0..RelayLease
    BY <1>1, <2>1 DEF Less
  <2>3. relay'[b] = [relay[b] EXCEPT !.lease = Less(@, 1)]
    BY DEF Tick
  <2>4. QED
    BY <2>1, <2>2, <2>3 DEF Rows
<1>4. relay' \in [Burns -> Rows]
  <2>1. relay' = [b \in Burns |-> relay'[b]]
    BY DEF Tick
  <2>2. QED
    BY <1>3, <2>1
<1>5. tx' \in [Attempts -> Txs]
  <2>1. tx' = [c \in Attempts |-> tx'[c]]
    BY DEF Tick
  <2>2. QED
    BY <2>1, TickTx
<1>6. lock' \in [owner : Attempts \union {Nobody}, left : 0..SequenceLock]
  <2>1. lock.left \in 0..SequenceLock
    BY Types DEF IInv
  <2>2. Less(lock.left, 1) \in 0..SequenceLock
    BY <1>1, <2>1 DEF Less
  <2>3. lock' = [lock EXCEPT !.left = Less(@, 1)]
    BY DEF Tick
  <2>4. QED
    BY <2>2, <2>3, Types DEF IInv
<1>7. TypeOK'
  BY <1>1, <1>2, <1>4, <1>5, <1>6, Types DEF IInv, TypeOK, Rows, Txs
<1>8. OnRecord'
  BY <1>3 DEF IInv, OnRecord
<1>9. AboutBurns'
  BY <1>2, TickTx DEF IInv, AboutBurns
<1>10. ShortLived'
  <2>1. \A c \in Attempts : tx[c].left \in Int /\ tx[c].left <= TxLifetime + lag
    BY Types DEF IInv, Txs, ShortLived
  <2>2. lag' <= lag + 1
    BY DEF Tick
  <2>3. QED
    BY <1>1, <2>1, <2>2, TickTx DEF ShortLived
<1>11. QED
  BY <1>7, <1>8, <1>9, <1>10 DEF IInv

\* Every step keeps IInv.
LEMMA StepInv == IInv /\ [Next]_vars => IInv'
<1> SUFFICES ASSUME IInv, [Next]_vars PROVE IInv'
  OBVIOUS
<1>1. ASSUME NEW a \in Attempts, NEW b \in Burns, Begin(a, b) PROVE IInv'
  BY <1>1, BeginInv
<1>2. ASSUME NEW a \in Attempts, Proceed(a) \/ Fail(a) PROVE IInv'
  <2>1. CASE ClaimLease(a)
    BY <2>1, ClaimLeaseInv
  <2>2. CASE LeaseBusy(a) \/ GiveUp(a) \/ Fail(a)
    <3>1. call[a].step # "idle" /\ End(a) /\ UNCHANGED <<relay, lock, tx, chainVars, nodeVars>>
      BY <2>2 DEF LeaseBusy, GiveUp, Fail, At
    <3>2. QED
      BY <3>1, CallOnly, Types DEF IInv, Steps, Legs, Built
  <2>3. CASE TakeLock(a)
    <3>1. /\ call[a].step # "idle"
          /\ Goto(a, "build") \/ End(a)
          /\ UNCHANGED <<relay, tx, chainVars, nodeVars>>
      BY <2>3 DEF TakeLock, At
    <3>2. lock' \in [owner : Attempts \union {Nobody}, left : 0..SequenceLock]
      <4>1. SequenceLock \in 0..SequenceLock
        BY RelayAssumption
      <4>2. QED
        BY <2>3, <4>1, Types DEF TakeLock, IInv
    <3>3. CASE Goto(a, "build")
      BY <3>1, <3>2, <3>3, CallOnly DEF Steps, Legs, Built
    <3>4. CASE End(a)
      BY <3>1, <3>2, <3>4, CallOnly DEF Steps, Legs, Built
    <3>5. QED
      BY <3>1, <3>3, <3>4
  <2>4. CASE Build(a)
    BY <2>4, BuildInv
  <2>5. CASE Checkpoint(a)
    BY <2>5, CheckpointInv
  <2>6. CASE AssertLock(a)
    <3>1. /\ call[a].step # "idle" /\ tx[a].burn \in Burns
          /\ Goto(a, "send") \/ End(a)
          /\ UNCHANGED <<relay, lock, tx, chainVars, nodeVars>>
      BY <2>6 DEF AssertLock, At, IInv, AboutBurns, Built
    <3>2. CASE Goto(a, "send")
      BY <3>1, <3>2, CallOnly, Types DEF IInv, Steps, Legs, Built
    <3>3. CASE End(a)
      BY <3>1, <3>3, CallOnly, Types DEF IInv, Steps, Legs, Built
    <3>4. QED
      BY <3>1, <3>2, <3>3
  <2>7. CASE Send(a)
    BY <2>7, SendInv
  <2>8. CASE Confirm(a)
    <3>1. /\ call[a].step # "idle"
          /\ Goto(a, "record") \/ End(a)
          /\ UNCHANGED <<relay, tx, chainVars, nodeVars>>
      BY <2>8 DEF Confirm, At
    <3>2. lock' \in [owner : Attempts \union {Nobody}, left : 0..SequenceLock]
      <4>1. 0 \in 0..SequenceLock
        BY RelayAssumption
      <4>2. lock' \in {lock, [owner |-> Nobody, left |-> 0]}
        BY <2>8 DEF Confirm
      <4>3. QED
        BY <4>1, <4>2, Types DEF IInv
    <3>3. CASE Goto(a, "record")
      BY <3>1, <3>2, <3>3, CallOnly DEF Steps, Legs, Built
    <3>4. CASE End(a)
      BY <3>1, <3>2, <3>4, CallOnly DEF Steps, Legs, Built
    <3>5. QED
      BY <3>1, <3>3, <3>4
  <2>9. CASE Record(a)
    BY <2>9, RecordInv
  <2>10. CASE Resolve(a)
    BY <2>10, ResolveInv
  <2>11. QED
    BY <1>2, <2>1, <2>2, <2>3, <2>4, <2>5, <2>6, <2>7, <2>8, <2>9, <2>10 DEF Proceed
<1>3. ASSUME NEW a \in Attempts, Include(a) PROVE IInv'
  BY <1>3, IncludeInv
<1>4. ASSUME NEW b \in Burns, MintByOther(b) PROVE IInv'
  <2>1. minted' \subseteq Burns /\ intake' \in Nat
    BY <1>4, Types, RelayAssumption DEF MintByOther, IInv
  <2>2. UNCHANGED <<relay, lock, call, tx, leaves, live, authorized, lag, forgotten>>
    BY <1>4 DEF MintByOther, nodeVars
  <2>3. QED
    BY <2>1, <2>2 DEF IInv, TypeOK, OnRecord, AboutBurns, ShortLived
<1>5. ASSUME NEW q \in Quotes, QuoteExpires(q) PROVE IInv'
  <2>1. live' \in [Quotes -> BOOLEAN]
    BY <1>5, Types DEF QuoteExpires, IInv
  <2>2. UNCHANGED <<relay, lock, call, tx, minted, intake, leaves, authorized, lag, forgotten>>
    BY <1>5 DEF QuoteExpires, nodeVars
  <2>3. QED
    BY <2>1, <2>2 DEF IInv, TypeOK, OnRecord, AboutBurns, ShortLived
<1>6. ASSUME Tick PROVE IInv'
  BY <1>6, TickInv
<1>7. ASSUME NEW a \in Attempts, Forget(a) PROVE IInv'
  <2>1. /\ UNCHANGED <<relay, lock, call, tx, chainVars, lag>>
        /\ forgotten' \subseteq Attempts
    BY <1>7, Types DEF Forget, IInv
  <2>2. QED
    BY <2>1 DEF chainVars, IInv, TypeOK, OnRecord, AboutBurns, ShortLived
<1>8. CASE UNCHANGED vars
  BY <1>8 DEF vars, chainVars, nodeVars, IInv, TypeOK, OnRecord, AboutBurns, ShortLived
<1>9. QED
  BY <1>1, <1>2, <1>3, <1>4, <1>5, <1>6, <1>7, <1>8 DEF Next
-----------------------------------------------------------------------------
(* The theorems.                                                           *)

\* In every state that relayDeposit reaches IInv holds.
LEMMA Invariance == Spec => []IInv
<1>1. Init => IInv
  BY InitInv
<1>2. IInv /\ [Next]_vars => IInv'
  BY StepInv
<1>3. QED
  BY <1>1, <1>2, PTL DEF Spec

\* Rows, lock, calls, transactions and balances keep their types: no deadline
\* exceeds what it was set to, and the intake never pays out what it has not
\* got.
THEOREM RelayTypes == Spec => []TypeOK
<1>1. IInv => TypeOK
  BY DEF IInv
<1>2. QED
  BY <1>1, Invariance, PTL

\* A call whose lease ran out and whose row another call has claimed writes
\* nothing, wherever in relayDeposit it wakes up: the filters of all its updates
\* name the owner.
THEOREM HolderMoves == Spec => OnlyTheHolderMoves
<1> DEFINE Moves ==
      \A b \in Burns :
        relay'[b].state # relay[b].state /\ relay[b].state # "none" =>
          \E a \in Attempts :
            relay[b].owner = a /\ call[a].burn = b /\ call'[a] # call[a]
<1>1. IInv /\ [Next]_vars => [Moves]_vars
  <2> SUFFICES ASSUME IInv, Next,
                      NEW b \in Burns,
                      relay'[b].state # relay[b].state, relay[b].state # "none"
               PROVE  \E a \in Attempts :
                        relay[b].owner = a /\ call[a].burn = b /\ call'[a] # call[a]
    OBVIOUS
  <2>1. /\ relay \in [Burns -> Rows]
        /\ call \in [Attempts -> Calls]
    BY Types DEF IInv
  <2>2. ASSUME NEW a \in Attempts, NEW c \in Burns, Begin(a, c) PROVE FALSE
    <3>1. relay' = relay \/ (relay[c].state = "none"
                             /\ relay' = [relay EXCEPT ![c].state = "validated"])
      BY <2>2 DEF Begin
    <3>2. CASE b = c
      BY <2>1, <3>1, <3>2
    <3>3. CASE b # c
      BY <2>1, <3>1, <3>3
    <3>4. QED
      BY <3>2, <3>3
  <2>3. ASSUME NEW a \in Attempts, ClaimLease(a) PROVE FALSE
    <3>1. relay' = [relay EXCEPT ![call[a].burn].owner = a, ![call[a].burn].lease = RelayLease]
      BY <2>3 DEF ClaimLease
    <3>2. call[a].burn \in Burns
      BY <2>3 DEF ClaimLease, At, IInv, AboutBurns
    <3>3. relay' = [relay EXCEPT ![call[a].burn] =
                     [relay[call[a].burn] EXCEPT !.owner = a, !.lease = RelayLease]]
      BY <2>1, <3>1, <3>2
    <3>4. CASE b = call[a].burn
      BY <2>1, <3>3, <3>4 DEF Rows
    <3>5. CASE b # call[a].burn
      BY <2>1, <3>3, <3>5
    <3>6. QED
      BY <3>4, <3>5
  <2>4. ASSUME NEW a \in Attempts, Checkpoint(a) \/ Record(a) \/ Resolve(a)
        PROVE  relay[b].owner = a /\ call[a].burn = b /\ call'[a] # call[a]
    <3>1. call[a].burn \in Burns /\ HoldsRow(a)
      BY <2>4 DEF Checkpoint, Record, Resolve, HoldsLease, HoldsRow, At, IInv, AboutBurns
    <3>2. relay' = [relay EXCEPT ![call[a].burn] = relay'[call[a].burn]]
      BY <2>1, <2>4, <3>1 DEF Checkpoint, Record, Resolve
    <3>3. call[a].burn = b
      BY <2>1, <3>1, <3>2
    <3>4. call'[a] # call[a]
      <4>1. call[a].step \in {"checkpoint", "record", "resolve"} /\ DOMAIN call = Attempts
        BY <2>1, <2>4 DEF Checkpoint, Record, Resolve, At
      <4>2. End(a) \/ Goto(a, "assert") \/ GotoLeg(a, "lock", "deposit")
        BY <2>1, <2>4 DEF Checkpoint, Record, Resolve, GoOn
      <4>3. call'[a].step \in {"idle", "assert", "lock"}
        BY <2>1, <4>1, <4>2 DEF End, Goto, GotoLeg, NoCall, Calls
      <4>4. QED
        BY <4>1, <4>3
    <3>5. QED
      BY <3>1, <3>3, <3>4 DEF HoldsRow, Row
  <2>5. ASSUME Tick PROVE FALSE
    <3>1. relay'[b] = [relay[b] EXCEPT !.lease = Less(@, 1)]
      BY <2>5 DEF Tick
    <3>2. QED
      BY <2>1, <3>1 DEF Rows
  <2>6. QED
    BY <2>2, <2>3, <2>4, <2>5
       DEF Next, Proceed, LeaseBusy, TakeLock, Build, AssertLock, Send, Confirm, GiveUp,
           Fail, Include, MintByOther, QuoteExpires, Forget
<1>2. QED
  BY <1>1, Invariance, PTL DEF Spec, OnlyTheHolderMoves
-----------------------------------------------------------------------------
(* The sequence lock, when the submit window covers a transaction's life.  *)

\* SUBMIT_WINDOW_MS covers the time bounds of a transaction and the time by which
\* the ledgers may trail the server.
WindowCoversTx == SubmitWindow >= TxLifetime + MaxLag

\* A step that leaves the lock and lets no transaction enter the race.
LEMMA NoNewRacer ==
  ASSUME LockOutlives, UNCHANGED <<lock, lag>>,
         \A c \in Attempts : Racing(c)' => Racing(c) /\ tx'[c].left = tx[c].left
  PROVE  LockOutlives'
BY DEF LockOutlives

\* Nobody races while the lock is free.
LEMMA RaceNeedsLock ==
  ASSUME IInv, LockOutlives, NEW a \in Attempts, Racing(a)
  PROVE  lock.owner = a /\ lock.left > 0
<1>1. tx[a].left >= 0 /\ tx[a].left \in Int
  BY Types DEF Racing, Includable, IInv, Txs
<1>2. lag \in 0..MaxLag /\ MaxLag \in Nat /\ lock.left \in 0..SequenceLock
  BY RelayAssumption, Types DEF IInv
<1>3. lock.owner = a /\ lock.left > tx[a].left + MaxLag - lag
  BY DEF LockOutlives
<1>4. QED
  BY <1>1, <1>2, <1>3

\* Every step keeps LockOutlives.
LEMMA StepOutlives ==
  ASSUME WindowCoversTx, IInv, LockOutlives, [Next]_vars
  PROVE  LockOutlives'
<1>1. call \in [Attempts -> Calls] /\ tx \in [Attempts -> Txs]
  BY Types DEF IInv
<1>2. ASSUME NEW a \in Attempts, NEW b \in Burns, Begin(a, b) PROVE LockOutlives'
  <2>1. \A c \in Attempts :
          c # a => call'[c] = call[c] /\ tx'[c] = tx[c]
    BY <1>1, <1>2 DEF Begin
  <2>2. call'[a].step = "claim" /\ tx'[a].status = "none"
    BY <1>1, <1>2 DEF Begin, NoTx
  <2>3. \A c \in Attempts : Racing(c)' => Racing(c) /\ tx'[c].left = tx[c].left
    BY <2>1, <2>2 DEF Racing, Includable
  <2>4. QED
    BY <1>2, <2>3, NoNewRacer DEF Begin, nodeVars
<1>3. ASSUME NEW a \in Attempts, NEW step \in Steps \ {"send"}, NEW leg \in Legs,
             Goto(a, step) \/ GotoLeg(a, step, leg) \/ End(a),
             UNCHANGED <<lock, tx, lag>>
      PROVE  LockOutlives'
  <2>1. \A c \in Attempts : call'[c].step = "send" => call[c].step = "send"
    BY <1>1, <1>3, CallSteps
  <2>2. \A c \in Attempts : Racing(c)' => Racing(c) /\ tx'[c].left = tx[c].left
    BY <1>3, <2>1 DEF Racing, Includable
  <2>3. QED
    BY <1>3, <2>2, NoNewRacer
<1>4. ASSUME NEW a \in Attempts, LeaseBusy(a) \/ GiveUp(a) \/ Fail(a) PROVE LockOutlives'
  BY <1>3, <1>4 DEF LeaseBusy, GiveUp, Fail, Steps, Legs, nodeVars
<1>5. ASSUME NEW a \in Attempts, ClaimLease(a) PROVE LockOutlives'
  <2>1. PICK leg \in Legs : GotoLeg(a, "lock", leg) \/ GotoLeg(a, "resolve", leg)
    BY <1>5 DEF ClaimLease
  <2>2. UNCHANGED <<lock, tx, lag>>
    BY <1>5 DEF ClaimLease, nodeVars
  <2>3. CASE GotoLeg(a, "lock", leg)
    BY <1>3, <2>2, <2>3 DEF Steps
  <2>4. CASE GotoLeg(a, "resolve", leg)
    BY <1>3, <2>2, <2>4 DEF Steps
  <2>5. QED
    BY <2>1, <2>3, <2>4
<1>6. ASSUME NEW a \in Attempts, TakeLock(a) PROVE LockOutlives'
  <2>1. CASE lock.left # 0
    BY <1>3, <1>6, <2>1 DEF TakeLock, Steps, Legs, nodeVars
  <2>2. CASE lock.left = 0
    <3>1. \A c \in Attempts : ~Racing(c)
      BY <2>2, RaceNeedsLock
    <3>2. UNCHANGED <<tx, lag>> /\ Goto(a, "build")
      BY <1>6, <2>2 DEF TakeLock, nodeVars
    <3>3. \A c \in Attempts : call'[c].step = "send" => call[c].step = "send"
      BY <1>1, <3>2 DEF Goto, Calls
    <3>4. \A c \in Attempts : ~Racing(c)'
      BY <3>1, <3>2, <3>3 DEF Racing, Includable
    <3>5. QED
      BY <3>4 DEF LockOutlives
  <2>3. QED
    BY <2>1, <2>2
<1>7. ASSUME NEW a \in Attempts, Build(a) PROVE LockOutlives'
  <2>1. CASE UNCHANGED tx /\ End(a)
    BY <1>3, <1>7, <2>1 DEF Build, Steps, Legs, nodeVars
  <2>2. CASE tx'[a].status = "prepared" /\ Goto(a, "checkpoint")
    <3>1. \A c \in Attempts \ {a} : tx'[c] = tx[c]
      BY <1>1, <1>7 DEF Build
    <3>2. call'[a].step = "checkpoint" /\ \A c \in Attempts \ {a} : call'[c] = call[c]
      BY <1>1, <2>2 DEF Goto, Calls
    <3>3. \A c \in Attempts : Racing(c)' => Racing(c) /\ tx'[c].left = tx[c].left
      BY <2>2, <3>1, <3>2 DEF Racing, Includable
    <3>4. QED
      BY <1>7, <3>3, NoNewRacer DEF Build, nodeVars
  <2>3. QED
    BY <1>1, <1>7, <2>1, <2>2 DEF Build
<1>8. ASSUME NEW a \in Attempts, Checkpoint(a) PROVE LockOutlives'
  <2>1. CASE Goto(a, "assert")
    BY <1>3, <1>8, <2>1 DEF Checkpoint, Steps, Legs, nodeVars
  <2>2. CASE End(a)
    BY <1>3, <1>8, <2>2 DEF Checkpoint, Steps, Legs, nodeVars
  <2>3. QED
    BY <1>8, <2>1, <2>2 DEF Checkpoint
<1>9. ASSUME NEW a \in Attempts, AssertLock(a) PROVE LockOutlives'
  <2>1. UNCHANGED <<lock, tx, lag>>
    BY <1>9 DEF AssertLock, nodeVars
  <2>2. CASE End(a)
    BY <1>3, <2>1, <2>2 DEF Steps, Legs
  <2>3. CASE LockCovers(a) /\ Goto(a, "send")
    <3>1. \A c \in Attempts \ {a} : call'[c] = call[c]
      BY <1>1, <2>3 DEF Goto
    <3>2. lock.owner = a /\ lock.left > tx[a].left + MaxLag - lag
      <4>1. /\ tx[a].left \in Int /\ lag \in Int /\ MaxLag \in Nat /\ TxLifetime \in Nat
            /\ SubmitWindow \in Nat /\ lock.left \in Int
        BY <1>1, RelayAssumption, Types DEF IInv, Txs
      <4>2. tx[a].left <= TxLifetime + lag /\ SubmitWindow >= TxLifetime + MaxLag
        BY DEF IInv, ShortLived, WindowCoversTx
      <4>3. lock.owner = a /\ lock.left > SubmitWindow
        BY <2>3 DEF LockCovers
      <4>4. QED
        BY <4>1, <4>2, <4>3
    <3>3. \A c \in Attempts \ {a} : Racing(c)' => Racing(c)
      BY <2>1, <3>1 DEF Racing, Includable
    <3>4. QED
      BY <2>1, <3>2, <3>3 DEF LockOutlives
  <2>4. QED
    BY <1>9, <2>2, <2>3 DEF AssertLock
<1>10. ASSUME NEW a \in Attempts, Send(a) PROVE LockOutlives'
  <2>1. UNCHANGED <<lock, lag>>
    BY <1>10 DEF Send, nodeVars
  <2>2. CASE UNCHANGED tx /\ End(a)
    BY <1>3, <2>1, <2>2 DEF Steps, Legs
  <2>3. CASE tx' = [tx EXCEPT ![a].status = "sent"] /\ Goto(a, "poll")
    <3>1. \A c \in Attempts \ {a} : call'[c] = call[c] /\ tx'[c] = tx[c]
      BY <1>1, <2>3 DEF Goto
    <3>2. tx'[a].left = tx[a].left /\ tx'[a].current = tx[a].current
      BY <1>1, <2>3 DEF Txs
    <3>3. call[a].step = "send" /\ call'[a].step = "poll"
      BY <1>1, <1>10, <2>3 DEF Send, At, Goto, Calls
    <3>4. \A c \in Attempts : Racing(c)' => Racing(c) /\ tx'[c].left = tx[c].left
      BY <3>1, <3>2, <3>3 DEF Racing, Includable
    <3>5. QED
      BY <2>1, <3>4, NoNewRacer
  <2>4. QED
    BY <1>10, <2>2, <2>3 DEF Send
<1>11. ASSUME NEW a \in Attempts, Confirm(a) PROVE LockOutlives'
  <2>1. UNCHANGED <<tx, lag>> /\ call[a].step = "poll"
    BY <1>11 DEF Confirm, At, nodeVars
  <2>2. CASE tx[a].status = "failed" /\ UNCHANGED lock /\ End(a)
    BY <1>3, <2>1, <2>2 DEF Steps, Legs
  <2>3. CASE tx[a].status = "success" /\ Goto(a, "record")
    <3>1. \A c \in Attempts : call'[c].step = "send" => call[c].step = "send"
      BY <1>1, <2>3 DEF Goto, Calls
    <3>2. \A c \in Attempts : Racing(c)' => Racing(c)
      BY <2>1, <3>1 DEF Racing, Includable
    <3>3. ~Racing(a)
      BY <2>1, <2>3 DEF Racing, Includable
    <3>4. lock' = IF lock.owner = a THEN [owner |-> Nobody, left |-> 0] ELSE lock
      BY <1>11, <2>3 DEF Confirm
    <3>5. \A c \in Attempts : Racing(c) => lock' = lock
      BY <3>3, <3>4 DEF LockOutlives
    <3>6. QED
      BY <2>1, <3>2, <3>5 DEF LockOutlives
  <2>4. QED
    BY <1>11, <2>2, <2>3 DEF Confirm
<1>12. ASSUME NEW a \in Attempts, Record(a) \/ Resolve(a) PROVE LockOutlives'
  <2>1. UNCHANGED <<lock, tx, lag>>
    BY <1>12 DEF Record, Resolve, nodeVars
  <2>2. CASE End(a)
    BY <1>3, <2>1, <2>2 DEF Steps, Legs
  <2>3. CASE GotoLeg(a, "lock", "deposit")
    BY <1>3, <2>1, <2>3 DEF Steps, Legs
  <2>4. QED
    BY <1>12, <2>2, <2>3 DEF Record, Resolve, GoOn
<1>13. ASSUME NEW a \in Attempts, Include(a) PROVE LockOutlives'
  <2>1. \A c \in Attempts : ~tx'[c].current
    BY <1>13, IncludeTx
  <2>2. \A c \in Attempts : ~Racing(c)'
    BY <2>1 DEF Racing, Includable
  <2>3. QED
    BY <2>2 DEF LockOutlives
<1>14. ASSUME Tick PROVE LockOutlives'
  <2>1. ASSUME NEW c \in Attempts, Racing(c)'
        PROVE  lock'.owner = c /\ lock'.left > tx'[c].left + MaxLag - lag'
    <3>1. /\ tx'[c].status = tx[c].status /\ tx'[c].current = tx[c].current
          /\ tx'[c].left = IF tx[c].left + 1 > lag + 1 - lag'
                           THEN tx[c].left - (lag + 1 - lag') ELSE -1
      BY <1>14, TickTx
    <3>2. /\ tx[c].left \in Int /\ lag \in 0..MaxLag /\ lag' \in 0..MaxLag
          /\ lag' <= lag + 1 /\ MaxLag \in Nat /\ lock.left \in Nat
      BY <1>1, <1>14, RelayAssumption, Types DEF IInv, Txs, Tick
    <3>3. call' = call /\ lock' = [lock EXCEPT !.left = Less(@, 1)]
      BY <1>14 DEF Tick
    <3>4. tx'[c].left >= 0
      BY <2>1 DEF Racing, Includable
    <3>5. tx[c].left >= 0 /\ tx'[c].left = tx[c].left - (lag + 1 - lag')
      BY <3>1, <3>2, <3>4
    <3>6. Racing(c)
      BY <2>1, <3>1, <3>3, <3>5 DEF Racing, Includable
    <3>7. lock.owner = c /\ lock.left > tx[c].left + MaxLag - lag
      BY <3>6 DEF LockOutlives
    <3>8. lock'.owner = c /\ lock'.left = lock.left - 1
      <4>1. lock.left > 1 \/ lock.left = 1
        BY <3>2, <3>5, <3>7
      <4>2. Less(lock.left, 1) = lock.left - 1
        BY <3>2, <4>1 DEF Less
      <4>3. QED
        BY <3>3, <3>7, <4>2, Types DEF IInv
    <3>9. QED
      BY <3>2, <3>5, <3>7, <3>8
  <2>2. QED
    BY <2>1 DEF LockOutlives
<1>15. ASSUME UNCHANGED <<lock, call, tx, lag>> PROVE LockOutlives'
  BY <1>15 DEF LockOutlives, Racing, Includable
<1>16. ASSUME NEW a \in Attempts, Proceed(a) PROVE LockOutlives'
  BY <1>4, <1>5, <1>6, <1>7, <1>8, <1>9, <1>10, <1>11, <1>12, <1>16 DEF Proceed
<1>17. ASSUME NEW a \in Attempts, Fail(a) PROVE LockOutlives'
  BY <1>4, <1>17
<1>18. CASE \E a \in Attempts, b \in Burns : Begin(a, b)
  BY <1>2, <1>18
<1>19. CASE \E a \in Attempts : Include(a)
  BY <1>13, <1>19
<1>20. CASE \E a \in Attempts : Proceed(a) \/ Fail(a)
  BY <1>16, <1>17, <1>20
<1>21. CASE (\E b \in Burns : MintByOther(b)) \/ (\E q \in Quotes : QuoteExpires(q))
  BY <1>15, <1>21 DEF MintByOther, QuoteExpires, nodeVars
<1>22. CASE UNCHANGED vars
  BY <1>15, <1>22 DEF vars, nodeVars
<1>23. CASE \E a \in Attempts : Forget(a)
  BY <1>15, <1>23 DEF Forget
<1>24. QED
  BY <1>14, <1>18, <1>19, <1>20, <1>21, <1>22, <1>23 DEF Next

\* With a submit window that covers a transaction's life, the operator never has
\* two transactions that a ledger could take under one sequence number: the lock
\* that was asserted before a transaction was sent lasts until the transaction
\* can no longer get in, so that a call that failed may leave it to lapse.
THEOREM NoRace ==
  ASSUME WindowCoversTx
  PROVE  Spec => []NoSequenceRace
<1>1. Init => LockOutlives
  BY DEF Init, LockOutlives, Racing, Includable, NoTx, NoCall
<1>2. IInv /\ LockOutlives /\ [Next]_vars => LockOutlives'
  BY StepOutlives
<1>3. LockOutlives => NoSequenceRace
  <2> SUFFICES ASSUME LockOutlives, NEW a \in Attempts, NEW c \in Attempts,
                      Includable(tx[a]), Includable(tx[c])
               PROVE  a = c
    BY DEF NoSequenceRace
  <2>1. lock.owner = a /\ lock.owner = c
    BY DEF LockOutlives, Racing
  <2>2. QED
    BY <2>1
<1>4. QED
  BY <1>1, <1>2, <1>3, Invariance, PTL DEF Spec
-----------------------------------------------------------------------------
(* The rows and the chain.                                                 *)

\* Leg of burn b is under way with the transaction of x on record.
UnderWay(b, leg, x) ==
  \/ leg = "mint" /\ relay[b].state = "minting" /\ relay[b].mint = x
  \/ leg = "deposit" /\ relay[b].state = "depositing" /\ relay[b].deposit = x

\* The steps before the checkpoint, those with a transaction of the leg in hand,
\* and those of them before and after it is on its way.
Early == {"claim", "lock", "build", "checkpoint", "resolve"}
Carrying == {"checkpoint", "assert", "send", "poll", "record"}
Late == {"assert", "send", "poll", "record"}

\* A transaction that succeeded did what it was for.
Outcomes ==
  \A a \in Attempts :
    tx[a].status = "success" =>
      /\ tx[a].leg = "mint" => tx[a].burn \in minted
      /\ tx[a].leg = "deposit" =>
           tx[a].leaf \in DOMAIN leaves /\ leaves[tx[a].leaf] = tx[a].burn

\* The transaction on record for a leg is one of that leg and that burn.
RecordsItsOwn ==
  \A b \in Burns, leg \in Legs, x \in Attempts :
    UnderWay(b, leg, x) => tx[x].leg = leg /\ tx[x].burn = b

\* What a call has not checkpointed yet is on nobody's record.
NotYet ==
  \A x \in Attempts :
    call[x].step \in Early => \A b \in Burns, leg \in Legs : ~UnderWay(b, leg, x)

\* A call has the transaction of its own leg in hand.
Carries ==
  \A a \in Attempts :
    /\ call[a].step \in Carrying => tx[a].burn = call[a].burn /\ tx[a].leg = call[a].leg
    /\ call[a].step \in Built => tx[a].status = "prepared"
    /\ call[a].step = "record" => tx[a].status = "success"

\* A call that still owns the row finds it as it left it.
FindsItsRow ==
  \A a \in Attempts, b \in Burns, leg \in Legs :
    call[a].burn = b /\ call[a].leg = leg /\ relay[b].owner = a =>
      /\ call[a].step \in {"lock", "build", "checkpoint"} => relay[b].state = Before(leg)
      /\ call[a].step \in Late => UnderWay(b, leg, a)

\* A transaction that is or may yet be sent, and has time left, is on record:
\* no call has put the row back under it.
SentIsOnRecord ==
  \A a \in Attempts, b \in Burns, leg \in Legs :
    /\ tx[a].burn = b /\ tx[a].leg = leg /\ tx[a].left >= 0
    /\ tx[a].status = "sent" \/ call[a].step \in {"assert", "send"}
    => UnderWay(b, leg, a)

RowsInv ==
  /\ Outcomes /\ RecordsItsOwn /\ NotYet /\ Carries /\ FindsItsRow /\ SentIsOnRecord
  /\ RowTellsTheChain

\* What RowTellsTheChain says of a row whose leg is under way: the mint, or the
\* deposit, is on the chain exactly if the transaction on record succeeded.
Minted(b) == relay[b].state \in {"minted", "depositing", "deposited"}
Paid(b) == \E i \in DOMAIN leaves : leaves[i] = b

LEMMA RowsTell ==
  RowTellsTheChain <=>
    \A b \in Burns :
      /\ b \in minted /\ ~OthersMint =>
           Minted(b) \/ (relay[b].state = "minting" /\ tx[relay[b].mint].status = "success")
      /\ Minted(b) => b \in minted
      /\ relay[b].state = "deposited" =>
           relay[b].leaf \in DOMAIN leaves /\ leaves[relay[b].leaf] = b
      /\ Paid(b) =>
           \/ relay[b].state = "depositing" /\ tx[relay[b].deposit].status = "success"
           \/ relay[b].state = "deposited"
BY DEF RowTellsTheChain, Minted, Paid

\* A step that moves one call on, short of the checkpoint and the record.
LEMMA CallStepTells ==
  ASSUME RowsInv, NEW a \in Attempts, UNCHANGED <<relay, tx, chainVars>>,
         \A c \in Attempts \ {a} : call'[c] = call[c],
         \/ call'[a].step = "idle"
         \/ /\ call'[a].burn = call[a].burn /\ call'[a].leg = call[a].leg
            /\ \/ call[a].step = "lock" /\ call'[a].step = "build"
               \/ call[a].step = "assert" /\ call'[a].step = "send"
               \/ /\ call[a].step = "poll" /\ call'[a].step = "record"
                  /\ tx[a].status = "success"
  PROVE  RowsInv'
<1>1. UNCHANGED <<relay, tx, minted, leaves>>
  BY DEF chainVars, nodeVars
<1>2. Outcomes' /\ RecordsItsOwn'
  BY <1>1 DEF RowsInv, Outcomes, RecordsItsOwn, UnderWay
<1>3. NotYet'
  BY <1>1 DEF RowsInv, NotYet, UnderWay, Early
<1>4. Carries'
  BY <1>1 DEF RowsInv, Carries, Carrying, Built
<1>5. FindsItsRow'
  BY <1>1 DEF RowsInv, FindsItsRow, UnderWay, Late, Before
<1>6. SentIsOnRecord'
  BY <1>1 DEF RowsInv, SentIsOnRecord, UnderWay
<1>7. RowTellsTheChain'
  BY <1>1 DEF RowsInv, RowTellsTheChain
<1>8. QED
  BY <1>2, <1>3, <1>4, <1>5, <1>6, <1>7 DEF RowsInv

\* Begin: a free name has nothing on record and nothing on its way.
LEMMA BeginTells ==
  ASSUME IInv, RowsInv, NEW a \in Attempts, NEW b \in Burns, Begin(a, b)
  PROVE  RowsInv'
<1>1. /\ \A c \in Attempts \ {a} : call'[c] = call[c] /\ tx'[c] = tx[c]
      /\ call'[a].step = "claim" /\ call'[a].burn = b
      /\ tx'[a].status = "none" /\ tx'[a].left = -1
      /\ UNCHANGED <<minted, leaves>>
  BY Types DEF Begin, IInv, NoTx, chainVars, nodeVars
<1>2. \A c \in Burns :
        /\ relay'[c].state = relay[c].state
             \/ (relay[c].state = "none" /\ relay'[c].state = "validated")
        /\ relay'[c].owner = relay[c].owner /\ relay'[c].leaf = relay[c].leaf
        /\ relay'[c].mint = relay[c].mint /\ relay'[c].deposit = relay[c].deposit
  <2>1. relay \in [Burns -> Rows]
    BY Types DEF IInv
  <2>2. \/ relay' = relay
        \/ relay[b].state = "none" /\ relay' = [relay EXCEPT ![b].state = "validated"]
    BY DEF Begin
  <2>3. QED
    BY <2>1, <2>2 DEF Rows
<1>3. \A c \in Burns, leg \in Legs, x \in Attempts :
        UnderWay(c, leg, x)' <=> UnderWay(c, leg, x)
  BY <1>2 DEF UnderWay
<1>4. \A c \in Burns, leg \in Legs : ~UnderWay(c, leg, a)
  BY DEF Begin, Free, Awaited, UnderWay, During, Legs
<1>5. Outcomes'
  BY <1>1 DEF RowsInv, Outcomes
<1>6. RecordsItsOwn'
  BY <1>1, <1>3, <1>4 DEF RowsInv, RecordsItsOwn
<1>7. NotYet'
  BY <1>1, <1>3, <1>4 DEF RowsInv, NotYet
<1>8. Carries'
  BY <1>1 DEF RowsInv, Carries, Carrying, Built
<1>9. FindsItsRow'
  <2>1. ASSUME NEW c \in Attempts, NEW d \in Burns, NEW leg \in Legs,
               call'[c].burn = d, call'[c].leg = leg, relay'[d].owner = c
        PROVE  /\ call'[c].step \in {"lock", "build", "checkpoint"} =>
                    relay'[d].state = Before(leg)
               /\ call'[c].step \in Late => UnderWay(d, leg, c)'
    <3>1. CASE c = a
      BY <1>1, <3>1 DEF Late
    <3>2. CASE c # a
      BY <1>1, <1>2, <1>3, <2>1, <3>2 DEF RowsInv, FindsItsRow, Before
    <3>3. QED
      BY <3>1, <3>2
  <2>2. QED
    BY <2>1 DEF FindsItsRow
<1>10. SentIsOnRecord'
  BY <1>1, <1>3 DEF RowsInv, SentIsOnRecord
<1>11. RowTellsTheChain'
  <2>1. \A c \in Burns : (Minted(c))' <=> Minted(c)
    BY <1>2 DEF Minted
  <2>2. \A c \in Burns : Paid(c)' <=> Paid(c)
    BY <1>1 DEF Paid
  <2>3. \A c \in Burns :
          /\ relay[c].state = "minting" => relay[c].mint \in Attempts \ {a}
          /\ relay[c].state = "depositing" => relay[c].deposit \in Attempts \ {a}
    BY <1>4 DEF IInv, OnRecord, UnderWay, Legs
  <2>4. QED
    BY <1>1, <1>2, <2>1, <2>2, <2>3, RowsTell DEF RowsInv, Minted, Paid, RowTellsTheChain
<1>12. QED
  BY <1>5, <1>6, <1>7, <1>8, <1>9, <1>10, <1>11 DEF RowsInv

\* Steps that change no state and no record: a row's owner, or a deadline.
SameLegs ==
  \A b \in Burns :
    /\ relay'[b].state = relay[b].state /\ relay'[b].leaf = relay[b].leaf
    /\ relay'[b].mint = relay[b].mint /\ relay'[b].deposit = relay[b].deposit

LEMMA SameLegsTell ==
  ASSUME RowsInv, SameLegs, UNCHANGED <<minted, leaves>>,
         \A b \in Burns :
           /\ relay[b].state = "minting" =>
                (tx[relay[b].mint].status = "success" => tx'[relay[b].mint].status = "success")
           /\ relay[b].state = "depositing" =>
                (tx[relay[b].deposit].status = "success"
                   => tx'[relay[b].deposit].status = "success")
  PROVE  /\ RowTellsTheChain'
         /\ \A b \in Burns, leg \in Legs, x \in Attempts :
              UnderWay(b, leg, x)' <=> UnderWay(b, leg, x)
<1>1. RowTellsTheChain'
  BY DEF RowsInv, SameLegs, RowTellsTheChain
<1>2. QED
  BY <1>1 DEF SameLegs, UnderWay

\* A claimed row is in the state from which the call goes on.
LEMMA ClaimLeaseTells ==
  ASSUME IInv, RowsInv, NEW a \in Attempts, ClaimLease(a)
  PROVE  RowsInv'
<1> DEFINE b == call[a].burn
<1>1. b \in Burns /\ call[a].step = "claim"
  BY DEF ClaimLease, At, IInv, AboutBurns
<1>2. relay' = [relay EXCEPT ![b] = [relay[b] EXCEPT !.owner = a, !.lease = RelayLease]]
  BY <1>1, Types DEF ClaimLease, IInv
<1>3. /\ SameLegs /\ relay'[b].owner = a
      /\ \A c \in Burns \ {b} : relay'[c].owner = relay[c].owner
  BY <1>1, <1>2, Types DEF SameLegs, IInv, Rows
<1>4. /\ UNCHANGED <<tx, minted, leaves>>
      /\ \A c \in Attempts \ {a} : call'[c] = call[c]
      /\ call'[a].burn = b /\ call'[a].step \in {"lock", "resolve"}
      /\ call'[a].step = "lock" => relay[b].state = Before(call'[a].leg)
  <2>1. PICK leg \in Legs :
          \/ relay[b].state = Before(leg) /\ GotoLeg(a, "lock", leg)
          \/ relay[b].state = During(leg) /\ GotoLeg(a, "resolve", leg)
    BY DEF ClaimLease, Row
  <2>2. QED
    BY <2>1, Types DEF ClaimLease, chainVars, nodeVars, GotoLeg, IInv, Calls
<1> HIDE DEF b
<1>5. /\ RowTellsTheChain'
      /\ \A c \in Burns, leg \in Legs, x \in Attempts :
           UnderWay(c, leg, x)' <=> UnderWay(c, leg, x)
  BY <1>3, <1>4, SameLegsTell
<1>6. Outcomes' /\ RecordsItsOwn'
  BY <1>4, <1>5 DEF RowsInv, Outcomes, RecordsItsOwn
<1>7. NotYet'
  BY <1>1, <1>4, <1>5 DEF RowsInv, NotYet, Early
<1>8. Carries'
  BY <1>4 DEF RowsInv, Carries, Carrying, Built
<1>9. FindsItsRow'
  <2>1. ASSUME NEW c \in Attempts, NEW d \in Burns, NEW leg \in Legs,
               call'[c].burn = d, call'[c].leg = leg, relay'[d].owner = c
        PROVE  /\ call'[c].step \in {"lock", "build", "checkpoint"} =>
                    relay'[d].state = Before(leg)
               /\ call'[c].step \in Late => UnderWay(d, leg, c)'
    <3>1. CASE c = a
      BY <1>3, <1>4, <2>1, <3>1 DEF Late, SameLegs
    <3>2. CASE c # a
      <4>1. d # b
        BY <1>3, <2>1, <3>2
      <4>2. relay[d].owner = c /\ call[c] = call'[c] /\ relay'[d].state = relay[d].state
        BY <1>3, <1>4, <2>1, <3>2, <4>1 DEF SameLegs
      <4>3. QED
        BY <1>5, <2>1, <4>2 DEF RowsInv, FindsItsRow
    <3>3. QED
      BY <3>1, <3>2
  <2>2. QED
    BY <2>1 DEF FindsItsRow
<1>10. SentIsOnRecord'
  BY <1>1, <1>4, <1>5 DEF RowsInv, SentIsOnRecord
<1>11. QED
  BY <1>5, <1>6, <1>7, <1>8, <1>9, <1>10 DEF RowsInv

\* A transaction just built is on nobody's record.
LEMMA BuildTells ==
  ASSUME IInv, RowsInv, NEW a \in Attempts, Build(a), ~(UNCHANGED tx /\ End(a))
  PROVE  RowsInv'
<1>1. /\ call[a].step = "build" /\ UNCHANGED <<relay, minted, leaves>>
      /\ \A c \in Attempts \ {a} : call'[c] = call[c] /\ tx'[c] = tx[c]
      /\ call'[a].step = "checkpoint"
      /\ call'[a].burn = call[a].burn /\ call'[a].leg = call[a].leg
      /\ tx'[a].status = "prepared"
      /\ tx'[a].burn = call[a].burn /\ tx'[a].leg = call[a].leg
  BY Types DEF Build, At, Goto, chainVars, nodeVars, IInv, Calls
<1>2. \A b \in Burns, leg \in Legs : ~UnderWay(b, leg, a)
  BY <1>1 DEF RowsInv, NotYet, Early
<1>3. Outcomes'
  BY <1>1 DEF RowsInv, Outcomes
<1>4. RecordsItsOwn'
  BY <1>1, <1>2 DEF RowsInv, RecordsItsOwn, UnderWay
<1>5. NotYet'
  BY <1>1, <1>2 DEF RowsInv, NotYet, UnderWay
<1>6. Carries'
  BY <1>1 DEF RowsInv, Carries, Carrying, Built
<1>7. FindsItsRow'
  BY <1>1 DEF RowsInv, FindsItsRow, UnderWay, Before, Late
<1>8. SentIsOnRecord'
  BY <1>1 DEF RowsInv, SentIsOnRecord, UnderWay
<1>9. RowTellsTheChain'
  <2>1. \A b \in Burns :
          /\ relay[b].state = "minting" => relay[b].mint \in Attempts \ {a}
          /\ relay[b].state = "depositing" => relay[b].deposit \in Attempts \ {a}
    BY <1>2 DEF IInv, OnRecord, UnderWay, Legs
  <2>2. SameLegs
    BY <1>1 DEF SameLegs
  <2>3. QED
    BY <1>1, <2>1, <2>2, SameLegsTell
<1>10. QED
  BY <1>3, <1>4, <1>5, <1>6, <1>7, <1>8, <1>9 DEF RowsInv

\* The checkpoint puts the call's transaction on record.
LEMMA CheckpointTells ==
  ASSUME IInv, RowsInv, NEW a \in Attempts, Checkpoint(a), ~(UNCHANGED relay /\ End(a))
  PROVE  RowsInv'
<1>0. call[a].burn \in Burns /\ call[a].leg \in Legs /\ call[a].step = "checkpoint"
  BY Types DEF Checkpoint, At, IInv, AboutBurns, Calls
<1> PICK b \in Burns, leg \in Legs : call[a].burn = b /\ call[a].leg = leg
  BY <1>0
<1>1. relay[b] \in Rows /\ relay \in [Burns -> Rows]
  BY Types DEF IInv
<1>2. /\ relay[b].owner = a /\ relay[b].state = Before(leg)
      /\ relay' = [relay EXCEPT ![b] = [relay[b] EXCEPT !.state = During(leg), ![leg] = a]]
      /\ UNCHANGED <<tx, minted, leaves>>
  BY DEF Checkpoint, HoldsLease, HoldsRow, Row, chainVars, nodeVars
<1>3. /\ \A c \in Attempts \ {a} : call'[c] = call[c]
      /\ call'[a].step = "assert" /\ call'[a].burn = b /\ call'[a].leg = leg
  BY Types DEF Checkpoint, Goto, IInv, Calls
<1>4. /\ relay'[b].state = During(leg) /\ relay'[b].owner = a
      /\ leg = "mint" => relay'[b].mint = a
      /\ leg = "deposit" => relay'[b].deposit = a
      /\ \A c \in Burns \ {b} : relay'[c] = relay[c]
  <2>1. CASE leg = "mint"
    BY <1>1, <1>2, <2>1 DEF Rows, During
  <2>2. CASE leg = "deposit"
    BY <1>1, <1>2, <2>2 DEF Rows, During
  <2>3. QED
    BY <2>1, <2>2 DEF Legs
<1>5. tx[a].burn = b /\ tx[a].leg = leg /\ tx[a].status = "prepared"
  BY <1>0 DEF RowsInv, Carries, Carrying, Built
<1>6. \A l \in Legs, x \in Attempts :
        /\ UnderWay(b, l, x)' <=> l = leg /\ x = a
        /\ ~UnderWay(b, l, x)
  <2>1. CASE leg = "mint"
    BY <1>2, <1>4, <2>1 DEF UnderWay, During, Before
  <2>2. CASE leg = "deposit"
    BY <1>2, <1>4, <2>2 DEF UnderWay, During, Before
  <2>3. QED
    BY <2>1, <2>2 DEF Legs
<1>7. \A c \in Burns \ {b}, l \in Legs, x \in Attempts :
        UnderWay(c, l, x)' <=> UnderWay(c, l, x)
  BY <1>4 DEF UnderWay
<1>8. Outcomes'
  BY <1>2 DEF RowsInv, Outcomes
<1>9. RecordsItsOwn'
  BY <1>2, <1>5, <1>6, <1>7 DEF RowsInv, RecordsItsOwn
<1>10. NotYet'
  BY <1>3, <1>6, <1>7 DEF RowsInv, NotYet, Early
<1>11. Carries'
  BY <1>2, <1>3, <1>5 DEF RowsInv, Carries, Carrying, Built
<1>12. FindsItsRow'
  <2>1. ASSUME NEW c \in Attempts, NEW d \in Burns, NEW l \in Legs,
               call'[c].burn = d, call'[c].leg = l, relay'[d].owner = c
        PROVE  /\ call'[c].step \in {"lock", "build", "checkpoint"} =>
                    relay'[d].state = Before(l)
               /\ call'[c].step \in Late => UnderWay(d, l, c)'
    <3>1. CASE c = a
      BY <1>3, <1>6, <2>1, <3>1
    <3>2. CASE c # a
      <4>1. d # b /\ relay'[d] = relay[d] /\ call'[c] = call[c]
        BY <1>3, <1>4, <2>1, <3>2
      <4>2. QED
        BY <1>7, <2>1, <4>1 DEF RowsInv, FindsItsRow
    <3>3. QED
      BY <3>1, <3>2
  <2>2. QED
    BY <2>1 DEF FindsItsRow
<1>13. SentIsOnRecord'
  <2>1. ASSUME NEW c \in Attempts, NEW d \in Burns, NEW l \in Legs,
               tx'[c].burn = d, tx'[c].leg = l, tx'[c].left >= 0,
               tx'[c].status = "sent" \/ call'[c].step \in {"assert", "send"}
        PROVE  UnderWay(d, l, c)'
    <3>1. CASE c = a
      BY <1>2, <1>5, <1>6, <2>1, <3>1
    <3>2. CASE c # a
      <4>1. UnderWay(d, l, c)
        BY <1>2, <1>3, <2>1, <3>2 DEF RowsInv, SentIsOnRecord
      <4>2. QED
        BY <1>6, <1>7, <4>1
    <3>3. QED
      BY <3>1, <3>2
  <2>2. QED
    BY <2>1 DEF SentIsOnRecord
<1>14. RowTellsTheChain'
  <2>1. /\ \A c \in Burns : Paid(c)' <=> Paid(c)
        /\ \A c \in Burns \ {b} : Minted(c)' <=> Minted(c)
    BY <1>2, <1>4 DEF Paid, Minted
  <2>2. leg = "mint" =>
          /\ relay[b].state = "validated" /\ relay'[b].state = "minting"
          /\ ~Minted(b)' /\ ~Paid(b) /\ (b \in minted => OthersMint)
    BY <1>1, <1>2, <1>4, RowsTell DEF RowsInv, Before, During, Minted
  <2>3. leg = "deposit" =>
          /\ relay[b].state = "minted" /\ relay'[b].state = "depositing"
          /\ Minted(b)' /\ ~Paid(b) /\ b \in minted
    BY <1>1, <1>2, <1>4, RowsTell DEF RowsInv, Before, During, Minted
  <2>4. QED
    BY <1>1, <1>2, <1>4, <2>1, <2>2, <2>3, RowsTell
       DEF RowsInv, Legs, Minted, Paid, RowTellsTheChain
<1>15. QED
  BY <1>8, <1>9, <1>10, <1>11, <1>12, <1>13, <1>14 DEF RowsInv

\* A transaction that is sent was checkpointed, and has not been given up unless
\* its time is over.
LEMMA SendTells ==
  ASSUME IInv, RowsInv, NEW a \in Attempts, Send(a), ~(UNCHANGED tx /\ End(a))
  PROVE  RowsInv'
<1>1. /\ call[a].step = "send" /\ UNCHANGED <<relay, minted, leaves>>
      /\ \A c \in Attempts \ {a} : call'[c] = call[c] /\ tx'[c] = tx[c]
      /\ call'[a].step = "poll"
      /\ call'[a].burn = call[a].burn /\ call'[a].leg = call[a].leg
      /\ tx'[a].status = "sent" /\ tx'[a].left = tx[a].left
      /\ tx'[a].burn = tx[a].burn /\ tx'[a].leg = tx[a].leg
  BY Types DEF Send, At, Goto, chainVars, nodeVars, IInv, Calls, Txs
<1>2. tx[a].status = "prepared"
  BY <1>1 DEF RowsInv, Carries, Built
<1>3. Outcomes' /\ RecordsItsOwn'
  BY <1>1 DEF RowsInv, Outcomes, RecordsItsOwn, UnderWay
<1>4. NotYet'
  BY <1>1 DEF RowsInv, NotYet, UnderWay, Early
<1>5. Carries'
  BY <1>1 DEF RowsInv, Carries, Carrying, Built
<1>6. FindsItsRow'
  BY <1>1 DEF RowsInv, FindsItsRow, UnderWay, Before, Late
<1>7. SentIsOnRecord'
  BY <1>1 DEF RowsInv, SentIsOnRecord, UnderWay
<1>8. RowTellsTheChain'
  <2>1. SameLegs
    BY <1>1 DEF SameLegs
  <2>2. \A b \in Burns :
          /\ relay[b].state = "minting" => relay[b].mint \in Attempts
          /\ relay[b].state = "depositing" => relay[b].deposit \in Attempts
    BY DEF IInv, OnRecord
  <2>3. QED
    BY <1>1, <1>2, <2>1, <2>2, SameLegsTell
<1>9. QED
  BY <1>3, <1>4, <1>5, <1>6, <1>7, <1>8 DEF RowsInv

\* A leg is recorded once the transaction on record for it has succeeded.
LEMMA ConfirmedTells ==
  ASSUME IInv, RowsInv, NEW a \in Attempts, NEW x \in Attempts,
         NEW b \in Burns, NEW leg \in Legs,
         call[a].burn = b, call[a].leg = leg, call[a].step \in {"record", "resolve"},
         call[a].step = "record" => x = a,
         UnderWay(b, leg, x), tx[x].status = "success", relay[b].owner = a,
         NEW row \in Rows, relay' = [relay EXCEPT ![b] = row],
         row.state = IF leg = "mint" THEN "minted" ELSE "deposited",
         leg = "mint" => row.owner = a,
         leg = "deposit" => row.owner = Nobody /\ row.leaf = tx[x].leaf,
         GoOn(a, leg), UNCHANGED <<tx, chainVars>>
  PROVE  RowsInv'
<1>1. UNCHANGED <<tx, minted, leaves>>
  BY DEF chainVars, nodeVars
<1>2. relay'[b] = row /\ \A c \in Burns \ {b} : relay'[c] = relay[c]
  BY Types DEF IInv
<1>3. /\ \A c \in Attempts \ {a} : call'[c] = call[c]
      /\ leg = "mint" =>
           call'[a].step = "lock" /\ call'[a].burn = b /\ call'[a].leg = "deposit"
      /\ leg = "deposit" => call'[a].step = "idle"
  <2>1. CASE leg = "mint"
    BY <2>1, Types DEF GoOn, GotoLeg, IInv, Calls
  <2>2. CASE leg = "deposit"
    BY <2>2, Types DEF GoOn, End, NoCall, IInv, Calls
  <2>3. QED
    BY <2>1, <2>2 DEF Legs
<1>4. tx[x].burn = b /\ tx[x].leg = leg
  BY DEF RowsInv, RecordsItsOwn
<1>5. \A l \in Legs, y \in Attempts :
        /\ ~UnderWay(b, l, y)'
        /\ UnderWay(b, l, y) => y = x
  BY <1>2 DEF UnderWay, Legs
<1>6. \A c \in Burns \ {b}, l \in Legs, y \in Attempts :
        UnderWay(c, l, y)' <=> UnderWay(c, l, y)
  BY <1>2 DEF UnderWay
<1>7. \A c \in Burns \ {b}, l \in Legs : ~UnderWay(c, l, a)
  <2>1. CASE call[a].step = "resolve"
    BY <2>1 DEF RowsInv, NotYet, Early
  <2>2. CASE x = a
    BY <1>4, <2>2 DEF RowsInv, RecordsItsOwn
  <2>3. QED
    BY <2>1, <2>2
<1>8. Outcomes' /\ RecordsItsOwn'
  BY <1>1, <1>5, <1>6 DEF RowsInv, Outcomes, RecordsItsOwn
<1>9. NotYet'
  <2>1. ASSUME NEW y \in Attempts, call'[y].step \in Early, NEW c \in Burns, NEW l \in Legs
        PROVE  ~UnderWay(c, l, y)'
    <3>1. CASE c = b
      BY <1>5, <3>1
    <3>2. CASE c # b
      <4>1. ~UnderWay(c, l, y)
        BY <1>3, <1>7, <2>1, <3>2 DEF RowsInv, NotYet
      <4>2. QED
        BY <1>6, <3>2, <4>1
    <3>3. QED
      BY <3>1, <3>2
  <2>2. QED
    BY <2>1 DEF NotYet
<1>10. Carries'
  BY <1>1, <1>3 DEF RowsInv, Carries, Carrying, Built, Legs
<1>11. FindsItsRow'
  <2>1. ASSUME NEW c \in Attempts, NEW d \in Burns, NEW l \in Legs,
               call'[c].burn = d, call'[c].leg = l, relay'[d].owner = c
        PROVE  /\ call'[c].step \in {"lock", "build", "checkpoint"} =>
                    relay'[d].state = Before(l)
               /\ call'[c].step \in Late => UnderWay(d, l, c)'
    <3>1. CASE c = a
      BY <1>2, <1>3, <2>1, <3>1 DEF Legs, Before, Late
    <3>2. CASE c # a /\ d # b
      <4>1. relay'[d] = relay[d] /\ call'[c] = call[c]
        BY <1>2, <1>3, <3>2
      <4>2. QED
        BY <1>6, <2>1, <3>2, <4>1 DEF RowsInv, FindsItsRow
    <3>3. CASE c # a /\ d = b
      <4>1. leg = "mint"
        BY <1>2, <2>1, <3>3, RelayAssumption DEF Legs
      <4>2. QED
        BY <1>2, <2>1, <3>3, <4>1
    <3>4. QED
      BY <3>1, <3>2, <3>3
  <2>2. QED
    BY <2>1 DEF FindsItsRow
<1>12. SentIsOnRecord'
  <2>1. ASSUME NEW c \in Attempts, NEW d \in Burns, NEW l \in Legs,
               tx'[c].burn = d, tx'[c].leg = l, tx'[c].left >= 0,
               tx'[c].status = "sent" \/ call'[c].step \in {"assert", "send"}
        PROVE  UnderWay(d, l, c)'
    <3>1. tx[c].status = "sent" \/ call[c].step \in {"assert", "send"}
      BY <1>1, <1>3, <2>1 DEF Legs
    <3>2. UnderWay(d, l, c)
      BY <1>1, <2>1, <3>1 DEF RowsInv, SentIsOnRecord
    <3>3. tx[c].status # "success"
      BY <3>1 DEF RowsInv, Carries, Built
    <3>4. d # b
      BY <1>5, <3>2, <3>3
    <3>5. QED
      BY <1>6, <3>2, <3>4
  <2>2. QED
    BY <2>1 DEF SentIsOnRecord
<1>13. RowTellsTheChain'
  <2>1. \A c \in Burns : Paid(c)' <=> Paid(c)
    BY <1>1 DEF Paid
  <2>2. /\ Minted(b)' /\ relay'[b].state \notin {"minting", "depositing"}
        /\ relay'[b].state = "deposited" <=> leg = "deposit"
    BY <1>2 DEF Minted, Legs
  <2>3. CASE leg = "mint"
    <3>1. b \in minted /\ relay[b].state = "minting"
      BY <1>4, <2>3 DEF RowsInv, Outcomes, UnderWay
    <3>2. ~Paid(b)
      BY <3>1, RowsTell DEF RowsInv
    <3>3. QED
      BY <1>1, <1>2, <2>1, <2>2, <2>3, <3>1, <3>2, RowsTell
         DEF RowsInv, Minted, Paid, RowTellsTheChain
  <2>4. CASE leg = "deposit"
    <3>1. b \in minted
      BY <2>4, RowsTell DEF RowsInv, UnderWay, Minted
    <3>2. relay'[b].leaf \in DOMAIN leaves /\ leaves[relay'[b].leaf] = b
      BY <1>2, <1>4, <2>4 DEF RowsInv, Outcomes
    <3>3. QED
      BY <1>1, <1>2, <2>1, <2>2, <2>4, <3>1, <3>2, RowsTell
         DEF RowsInv, Minted, Paid, RowTellsTheChain
  <2>5. QED
    BY <2>3, <2>4 DEF Legs
<1>14. QED
  BY <1>8, <1>9, <1>10, <1>11, <1>12, <1>13 DEF RowsInv

\* What a confirmed leg is written as.
LEMMA RecordedRow ==
  ASSUME NEW row \in Rows, NEW t \in Txs
  PROVE  /\ Recorded(row, t).state = IF t.leg = "mint" THEN "minted" ELSE "deposited"
         /\ t.leg = "mint" => Recorded(row, t).owner = row.owner
         /\ t.leg = "deposit" =>
              Recorded(row, t).owner = Nobody /\ Recorded(row, t).leaf = t.leaf
<1>1. CASE t.leg = "mint"
  BY <1>1 DEF Recorded, Rows
<1>2. CASE t.leg # "mint"
  BY <1>2 DEF Recorded, Rows
<1>3. QED
  BY <1>1, <1>2

\* A call that confirmed its own transaction and still owns the row finds it
\* under way with that transaction.
LEMMA RecordTells ==
  ASSUME IInv, RowsInv, NEW a \in Attempts, Record(a), ~(UNCHANGED relay /\ End(a))
  PROVE  RowsInv'
<1>0. /\ call[a].burn \in Burns /\ call[a].leg \in Legs /\ call[a].step = "record"
      /\ HoldsRow(a) /\ tx[a] \in Txs
  BY Types DEF Record, At, IInv, AboutBurns, Calls
<1> PICK b \in Burns, leg \in Legs : call[a].burn = b /\ call[a].leg = leg
  BY <1>0
<1>1. /\ relay' = [relay EXCEPT ![b] = Recorded([relay[b] EXCEPT ![leg] = a], tx[a])]
      /\ GoOn(a, leg) /\ UNCHANGED <<tx, chainVars>>
  BY DEF Record
<1>2. relay[b].owner = a /\ tx[a].leg = leg /\ tx[a].status = "success"
      /\ UnderWay(b, leg, a)
  BY <1>0 DEF HoldsRow, Row, RowsInv, Carries, Carrying, FindsItsRow, Late
<1> DEFINE noted == [relay[b] EXCEPT ![leg] = a]
           row == Recorded(noted, tx[a])
<1>3. noted \in Rows /\ noted.owner = a
  <2>1. relay[b] \in Rows
    BY Types DEF IInv
  <2>2. CASE leg = "mint"
    BY <1>2, <2>1, <2>2 DEF Rows
  <2>3. CASE leg = "deposit"
    BY <1>2, <2>1, <2>3 DEF Rows
  <2>4. QED
    BY <2>2, <2>3 DEF Legs
<1> HIDE DEF noted
<1>4. /\ row \in Rows
      /\ row.state = IF leg = "mint" THEN "minted" ELSE "deposited"
      /\ leg = "mint" => row.owner = a
      /\ leg = "deposit" => row.owner = Nobody /\ row.leaf = tx[a].leaf
  BY <1>0, <1>2, <1>3, RecordedType, RecordedRow
<1> HIDE DEF row
<1>5. QED
  BY <1>0, <1>1, <1>2, <1>4, ConfirmedTells DEF row, noted

\* A leg under way is given up only if its transaction failed or ran out.
LEMMA GivenUpTells ==
  ASSUME IInv, RowsInv, NEW a \in Attempts, NEW x \in Attempts,
         NEW b \in Burns, NEW leg \in Legs,
         UnderWay(b, leg, x), End(a), UNCHANGED <<tx, chainVars>>,
         \/ tx[x].status = "failed"
         \/ tx[x].status \in {"prepared", "sent"} /\ tx[x].left < 0,
         NEW row \in Rows, relay' = [relay EXCEPT ![b] = row],
         row.state = Before(leg), row.owner = Nobody
  PROVE  RowsInv'
<1>1. UNCHANGED <<tx, minted, leaves>>
  BY DEF chainVars, nodeVars
<1>2. relay'[b] = row /\ \A c \in Burns \ {b} : relay'[c] = relay[c]
  BY Types DEF IInv
<1>3. (\A c \in Attempts \ {a} : call'[c] = call[c]) /\ call'[a].step = "idle"
  BY Types DEF End, NoCall, IInv
<1>4. \A l \in Legs, y \in Attempts :
        /\ ~UnderWay(b, l, y)'
        /\ UnderWay(b, l, y) => y = x
  BY <1>2 DEF UnderWay, Legs, Before
<1>5. \A c \in Burns \ {b}, l \in Legs, y \in Attempts :
        UnderWay(c, l, y)' <=> UnderWay(c, l, y)
  BY <1>2 DEF UnderWay
<1>6. Outcomes' /\ RecordsItsOwn'
  BY <1>1, <1>4, <1>5 DEF RowsInv, Outcomes, RecordsItsOwn
<1>7. NotYet'
  BY <1>3, <1>4, <1>5 DEF RowsInv, NotYet, Early
<1>8. Carries'
  BY <1>1, <1>3 DEF RowsInv, Carries, Carrying, Built
<1>9. FindsItsRow'
  <2>1. ASSUME NEW c \in Attempts, NEW d \in Burns, NEW l \in Legs,
               call'[c].burn = d, call'[c].leg = l, relay'[d].owner = c
        PROVE  /\ call'[c].step \in {"lock", "build", "checkpoint"} =>
                    relay'[d].state = Before(l)
               /\ call'[c].step \in Late => UnderWay(d, l, c)'
    <3>1. CASE c = a
      BY <1>3, <3>1 DEF Late
    <3>2. CASE c # a
      <4>1. d # b
        BY <1>2, <2>1, RelayAssumption
      <4>2. relay'[d] = relay[d] /\ call'[c] = call[c]
        BY <1>2, <1>3, <3>2, <4>1
      <4>3. QED
        BY <1>5, <2>1, <4>1, <4>2 DEF RowsInv, FindsItsRow
    <3>3. QED
      BY <3>1, <3>2
  <2>2. QED
    BY <2>1 DEF FindsItsRow
<1>10. SentIsOnRecord'
  <2>1. ASSUME NEW c \in Attempts, NEW d \in Burns, NEW l \in Legs,
               tx'[c].burn = d, tx'[c].leg = l, tx'[c].left >= 0,
               tx'[c].status = "sent" \/ call'[c].step \in {"assert", "send"}
        PROVE  UnderWay(d, l, c)'
    <3>1. tx[c].status = "sent" \/ call[c].step \in {"assert", "send"}
      BY <1>1, <1>3, <2>1
    <3>2. UnderWay(d, l, c)
      BY <1>1, <2>1, <3>1 DEF RowsInv, SentIsOnRecord
    <3>3. tx[c].status # "failed" /\ tx[c].left >= 0 /\ tx[c].left \in Int
      BY <1>1, <2>1, <3>1, Types DEF RowsInv, Carries, Built, IInv, Txs
    <3>4. d # b
      BY <1>4, <3>2, <3>3
    <3>5. QED
      BY <1>5, <3>2, <3>4
  <2>2. QED
    BY <2>1 DEF SentIsOnRecord
<1>11. RowTellsTheChain'
  <2>1. \A c \in Burns : Paid(c)' <=> Paid(c)
    BY <1>1 DEF Paid
  <2>2. tx[x].status # "success"
    OBVIOUS
  <2>3. CASE leg = "mint"
    <3>1. relay[b].state = "minting" /\ relay[b].mint = x /\ relay'[b].state = "validated"
      BY <1>2, <2>3 DEF UnderWay, Before
    <3>2. ~Paid(b) /\ (b \in minted => OthersMint)
      BY <2>2, <3>1, RowsTell DEF RowsInv, Minted
    <3>3. QED
      BY <1>1, <1>2, <2>1, <3>1, <3>2, RowsTell DEF RowsInv, Minted, Paid, RowTellsTheChain
  <2>4. CASE leg = "deposit"
    <3>1. relay[b].state = "depositing" /\ relay[b].deposit = x /\ relay'[b].state = "minted"
      BY <1>2, <2>4 DEF UnderWay, Before
    <3>2. ~Paid(b) /\ b \in minted
      BY <2>2, <3>1, RowsTell DEF RowsInv, Minted
    <3>3. QED
      BY <1>1, <1>2, <2>1, <3>1, <3>2, RowsTell DEF RowsInv, Minted, Paid, RowTellsTheChain
  <2>5. QED
    BY <2>3, <2>4 DEF Legs
<1>12. QED
  BY <1>6, <1>7, <1>8, <1>9, <1>10, <1>11 DEF RowsInv

\* What an answer of the node tells of the transaction it was asked about.
LEMMA AnswerFacts ==
  ASSUME IInv, NEW x \in Attempts, NEW answer \in Answers(x)
  PROVE  /\ answer \in {"success", "failed"} => tx[x].status = answer
         /\ answer = "expired" => tx[x].status \in {"prepared", "sent"} /\ tx[x].left < 0
<1>1. tx[x].status # "expired"
  BY Types DEF IInv, Txs
<1>2. QED
  BY <1>1 DEF Answers, NotFound, ProvenExpired

\* A leg found under way goes by what the chain says of its transaction.
LEMMA ResolveTells ==
  ASSUME IInv, RowsInv, NEW a \in Attempts, Resolve(a), ~(UNCHANGED relay /\ End(a))
  PROVE  RowsInv'
<1>0. /\ call[a].burn \in Burns /\ call[a].leg \in Legs /\ call[a].step = "resolve"
      /\ UNCHANGED <<tx, chainVars>>
  BY Types DEF Resolve, At, IInv, AboutBurns, Calls
<1> PICK b \in Burns, leg \in Legs : call[a].burn = b /\ call[a].leg = leg
  BY <1>0
<1> relay[b] \in Rows
  BY Types DEF IInv
<1>1. relay[b].owner = a /\ relay[b].state = During(leg)
  BY DEF Resolve, Row, HoldsRow
<1> PICK x \in Attempts : relay[b][leg] = x
  BY <1>1 DEF IInv, OnRecord, During, Legs
<1>2. UnderWay(b, leg, x)
  BY <1>1 DEF UnderWay, During, Legs
<1>3. \/ /\ tx[x].status = "success" /\ GoOn(a, leg)
         /\ relay' = [relay EXCEPT ![b] = Recorded(relay[b], tx[x])]
      \/ /\ \/ tx[x].status = "failed"
            \/ tx[x].status \in {"prepared", "sent"} /\ tx[x].left < 0
         /\ relay' = [relay EXCEPT ![b] =
              [relay[b] EXCEPT !.state = Before(leg), ![leg] = Nobody,
                               !.owner = Nobody, !.lease = 0]]
         /\ End(a)
  BY AnswerFacts DEF Resolve, Row, HoldsRow
<1>4. tx[x] \in Txs /\ tx[x].leg = leg
  BY <1>2, Types DEF IInv, RowsInv, RecordsItsOwn
<1>5. CASE /\ tx[x].status = "success" /\ GoOn(a, leg)
           /\ relay' = [relay EXCEPT ![b] = Recorded(relay[b], tx[x])]
  <2> DEFINE row == Recorded(relay[b], tx[x])
  <2>1. /\ row \in Rows
        /\ row.state = IF leg = "mint" THEN "minted" ELSE "deposited"
        /\ leg = "mint" => row.owner = a
        /\ leg = "deposit" => row.owner = Nobody /\ row.leaf = tx[x].leaf
    BY <1>1, <1>4, RecordedType, RecordedRow
  <2>2. relay' = [relay EXCEPT ![b] = row]
    BY <1>5
  <2> HIDE DEF row
  <2>3. /\ call[a].burn = b /\ call[a].leg = leg
        /\ call[a].step \in {"record", "resolve"} /\ (call[a].step = "record" => x = a)
        /\ tx[x].status = "success" /\ relay[b].owner = a /\ GoOn(a, leg)
    BY <1>0, <1>1, <1>5
  <2>4. UNCHANGED <<tx, chainVars>>
    BY <1>0
  <2>5. QED
    BY <1>2, <2>1, <2>2, <2>3, <2>4, ConfirmedTells
<1>6. CASE /\ \/ tx[x].status = "failed"
              \/ tx[x].status \in {"prepared", "sent"} /\ tx[x].left < 0
           /\ relay' = [relay EXCEPT ![b] =
                [relay[b] EXCEPT !.state = Before(leg), ![leg] = Nobody,
                                 !.owner = Nobody, !.lease = 0]]
           /\ End(a)
  <2> DEFINE row == [relay[b] EXCEPT !.state = Before(leg), ![leg] = Nobody,
                                     !.owner = Nobody, !.lease = 0]
  <2>1. 0 \in 0..RelayLease
    BY RelayAssumption
  <2>2. row \in Rows /\ row.state = Before(leg) /\ row.owner = Nobody
    <3>1. CASE leg = "mint"
      BY <2>1, <3>1 DEF Rows, Before, RelayStates
    <3>2. CASE leg = "deposit"
      BY <2>1, <3>2 DEF Rows, Before, RelayStates
    <3>3. QED
      BY <3>1, <3>2 DEF Legs
  <2>3. relay' = [relay EXCEPT ![b] = row]
    BY <1>6
  <2> HIDE DEF row
  <2>4. /\ \/ tx[x].status = "failed"
           \/ tx[x].status \in {"prepared", "sent"} /\ tx[x].left < 0
        /\ End(a)
    BY <1>6
  <2>5. UNCHANGED <<tx, chainVars>>
    BY <1>0
  <2>6. QED
    BY <1>2, <2>2, <2>3, <2>4, <2>5, GivenUpTells
<1>7. QED
  BY <1>3, <1>5, <1>6

\* A ledger takes a transaction only while it is on record.
LEMMA IncludeTells ==
  ASSUME IInv, RowsInv, NEW a \in Attempts, Include(a)
  PROVE  RowsInv'
<1>0. /\ tx[a].status = "sent" /\ tx[a].left >= 0
      /\ tx[a].burn \in Burns /\ tx[a].leg \in Legs
  BY Types DEF Include, Includable, IInv, AboutBurns, Txs
<1> PICK b \in Burns, leg \in Legs : tx[a].burn = b /\ tx[a].leg = leg
  BY <1>0
<1> DEFINE done == Executes(leg, b, tx[a].renewed)
<1>1. /\ \A c \in Attempts \ {a} :
           /\ tx'[c].status = tx[c].status /\ tx'[c].leg = tx[c].leg
           /\ tx'[c].burn = tx[c].burn /\ tx'[c].left = tx[c].left
           /\ tx'[c].leaf = tx[c].leaf
      /\ tx'[a].status = IF done THEN "success" ELSE "failed"
      /\ tx'[a].leg = leg /\ tx'[a].burn = b /\ tx'[a].left = -1
      /\ done /\ leg = "deposit" => tx'[a].leaf = Len(leaves) + 1
  <2> tx \in [Attempts -> Txs]
    BY Types DEF IInv
  <2>1. ASSUME NEW c \in Attempts \ {a}
        PROVE  /\ tx'[c].status = tx[c].status /\ tx'[c].leg = tx[c].leg
               /\ tx'[c].burn = tx[c].burn /\ tx'[c].left = tx[c].left
               /\ tx'[c].leaf = tx[c].leaf
    <3>1. tx'[c] = [tx[c] EXCEPT !.current = FALSE]
      BY DEF Include
    <3>2. QED
      BY <3>1 DEF Txs
  <2>2. tx'[a] = [tx[a] EXCEPT !.status = IF done THEN "success" ELSE "failed",
                    !.leaf = IF done /\ tx[a].leg = "deposit" THEN Len(leaves) + 1 ELSE 0,
                    !.left = -1, !.current = FALSE]
    BY DEF Include
  <2> HIDE DEF done
  <2>3. QED
    BY <2>1, <2>2 DEF Txs
<1>2. /\ minted' = IF done /\ leg = "mint" THEN minted \union {b} ELSE minted
      /\ leaves' = IF done /\ leg = "deposit" THEN Append(leaves, b) ELSE leaves
      /\ UNCHANGED <<relay, call>>
  BY DEF Include
<1> HIDE DEF done
<1>3. UnderWay(b, leg, a)
  BY <1>0 DEF RowsInv, SentIsOnRecord
<1>4. leaves \in Seq(Burns)
  BY Types DEF IInv
<1>5. /\ DOMAIN leaves \subseteq DOMAIN leaves'
      /\ \A i \in DOMAIN leaves : leaves'[i] = leaves[i]
      /\ \A i \in DOMAIN leaves' \ DOMAIN leaves :
           i = Len(leaves) + 1 /\ leaves'[i] = b /\ done /\ leg = "deposit"
      /\ done /\ leg = "deposit" =>
           Len(leaves) + 1 \in DOMAIN leaves' /\ leaves'[Len(leaves) + 1] = b
  <2>1. CASE done /\ leg = "deposit"
    BY <1>2, <1>4, <2>1
  <2>2. CASE ~(done /\ leg = "deposit")
    BY <1>2, <2>2
  <2>3. QED
    BY <2>1, <2>2
<1>6. Outcomes'
  <2>1. ASSUME NEW c \in Attempts, tx'[c].status = "success"
        PROVE  /\ tx'[c].leg = "mint" => tx'[c].burn \in minted'
               /\ tx'[c].leg = "deposit" =>
                    tx'[c].leaf \in DOMAIN leaves' /\ leaves'[tx'[c].leaf] = tx'[c].burn
    <3>1. CASE c = a
      BY <1>1, <1>2, <1>5, <2>1, <3>1
    <3>2. CASE c # a
      BY <1>1, <1>2, <1>5, <2>1, <3>2 DEF RowsInv, Outcomes
    <3>3. QED
      BY <3>1, <3>2
  <2>2. QED
    BY <2>1 DEF Outcomes
<1>7. RecordsItsOwn' /\ NotYet' /\ FindsItsRow'
  BY <1>1, <1>2 DEF RowsInv, RecordsItsOwn, NotYet, FindsItsRow, UnderWay
<1>8. Carries'
  BY <1>0, <1>1, <1>2 DEF RowsInv, Carries, Carrying, Built
<1>9. SentIsOnRecord'
  BY <1>1, <1>2 DEF RowsInv, SentIsOnRecord, UnderWay
<1>10. RowTellsTheChain'
  <2>1. \A c \in Burns :
          /\ Minted(c)' <=> Minted(c)
          /\ c # b => (Paid(c)' <=> Paid(c)) /\ (c \in minted' <=> c \in minted)
          /\ c \in minted => c \in minted'
    BY <1>2, <1>5 DEF Minted, Paid
  <2>2. \A x \in Attempts : tx[x].status = "success" => tx'[x].status = "success"
    BY <1>0, <1>1
  <2>3. \A c \in Burns :
          /\ relay[c].state = "minting" => relay[c].mint \in Attempts
          /\ relay[c].state = "depositing" => relay[c].deposit \in Attempts
    BY DEF IInv, OnRecord
  <2>4. b \in minted' =>
          \/ b \in minted
          \/ relay[b].state = "minting" /\ tx'[relay[b].mint].status = "success"
    BY <1>1, <1>2, <1>3 DEF UnderWay
  <2>5. Paid(b)' =>
          \/ Paid(b)
          \/ relay[b].state = "depositing" /\ tx'[relay[b].deposit].status = "success"
    BY <1>1, <1>3, <1>5 DEF UnderWay, Paid
  <2>6. ASSUME NEW c \in Burns
        PROVE  /\ c \in minted' /\ ~OthersMint =>
                    \/ Minted(c)'
                    \/ relay'[c].state = "minting" /\ tx'[relay'[c].mint].status = "success"
               /\ Minted(c)' => c \in minted'
               /\ relay'[c].state = "deposited" =>
                    relay'[c].leaf \in DOMAIN leaves' /\ leaves'[relay'[c].leaf] = c
               /\ Paid(c)' =>
                    \/ /\ relay'[c].state = "depositing"
                       /\ tx'[relay'[c].deposit].status = "success"
                    \/ relay'[c].state = "deposited"
    BY <1>2, <1>5, <2>1, <2>2, <2>3, <2>4, <2>5, RowsTell DEF RowsInv
  <2>7. QED
    BY <2>6 DEF RowTellsTheChain, Minted, Paid
<1>11. QED
  BY <1>6, <1>7, <1>8, <1>9, <1>10 DEF RowsInv

\* Time takes from deadlines only.
LEMMA TickTells ==
  ASSUME IInv, RowsInv, Tick
  PROVE  RowsInv'
<1>1. UNCHANGED <<call, minted, leaves>>
  BY DEF Tick, chainVars, nodeVars
<1>2. SameLegs /\ \A b \in Burns : relay'[b].owner = relay[b].owner
  <2>1. \A b \in Burns : relay'[b] = [relay[b] EXCEPT !.lease = Less(@, 1)]
    BY DEF Tick
  <2>2. \A b \in Burns : relay[b] \in Rows
    BY Types DEF IInv
  <2>3. \A b \in Burns : /\ relay'[b].state = relay[b].state
                         /\ relay'[b].owner = relay[b].owner
                         /\ relay'[b].mint = relay[b].mint
                         /\ relay'[b].deposit = relay[b].deposit
                         /\ relay'[b].leaf = relay[b].leaf
    BY <2>1, <2>2 DEF Rows
  <2>4. QED
    BY <2>3 DEF SameLegs
<1>3. \A c \in Attempts :
        /\ tx'[c].status = tx[c].status /\ tx'[c].leg = tx[c].leg
        /\ tx'[c].burn = tx[c].burn /\ tx'[c].leaf = tx[c].leaf
        /\ tx'[c].left >= 0 => tx[c].left >= 0
  <2>1. ASSUME NEW c \in Attempts
        PROVE  /\ tx'[c].status = tx[c].status /\ tx'[c].leg = tx[c].leg
               /\ tx'[c].burn = tx[c].burn /\ tx'[c].leaf = tx[c].leaf
    <3>1. tx'[c] = [tx[c] EXCEPT !.left = Less(@ + 1, lag + 1 - lag') - 1]
      BY DEF Tick
    <3>2. QED
      BY <3>1, Types DEF IInv, Txs
  <2>2. ASSUME NEW c \in Attempts, tx'[c].left >= 0 PROVE tx[c].left >= 0
    <3>1. /\ tx[c].left \in Int /\ lag \in Int /\ lag' \in Int /\ lag' <= lag + 1
      BY RelayAssumption, Types DEF IInv, Txs, Tick
    <3>2. tx'[c].left = IF tx[c].left + 1 > lag + 1 - lag'
                        THEN tx[c].left - (lag + 1 - lag') ELSE -1
      BY TickTx
    <3>3. QED
      BY <2>2, <3>1, <3>2
  <2>3. QED
    BY <2>1, <2>2
<1>4. \A b \in Burns :
        /\ relay[b].state = "minting" => relay[b].mint \in Attempts
        /\ relay[b].state = "depositing" => relay[b].deposit \in Attempts
  BY DEF IInv, OnRecord
<1>5. /\ RowTellsTheChain'
      /\ \A b \in Burns, leg \in Legs, x \in Attempts :
           UnderWay(b, leg, x)' <=> UnderWay(b, leg, x)
  BY <1>1, <1>2, <1>3, <1>4, SameLegsTell
<1>6. Outcomes' /\ RecordsItsOwn'
  BY <1>1, <1>3, <1>5 DEF RowsInv, Outcomes, RecordsItsOwn
<1>7. NotYet' /\ Carries'
  BY <1>1, <1>3, <1>5 DEF RowsInv, NotYet, Carries, Carrying, Built
<1>8. FindsItsRow'
  BY <1>1, <1>2, <1>5 DEF RowsInv, FindsItsRow, SameLegs
<1>9. SentIsOnRecord'
  BY <1>1, <1>3, <1>5 DEF RowsInv, SentIsOnRecord
<1>10. QED
  BY <1>5, <1>6, <1>7, <1>8, <1>9 DEF RowsInv

\* Every step keeps RowsInv.
LEMMA StepTells == IInv /\ RowsInv /\ [Next]_vars => RowsInv'
<1> SUFFICES ASSUME IInv, RowsInv, [Next]_vars PROVE RowsInv'
  OBVIOUS
<1>1. ASSUME NEW a \in Attempts, NEW b \in Burns, Begin(a, b) PROVE RowsInv'
  BY <1>1, BeginTells
<1>2. ASSUME NEW a \in Attempts, End(a), UNCHANGED <<relay, tx, chainVars>> PROVE RowsInv'
  <2>1. (\A c \in Attempts \ {a} : call'[c] = call[c]) /\ call'[a].step = "idle"
    BY <1>2, Types DEF End, NoCall, IInv
  <2>2. QED
    BY <1>2, <2>1, CallStepTells
<1>3. ASSUME NEW a \in Attempts, Proceed(a) \/ Fail(a) PROVE RowsInv'
  <2>1. CASE ClaimLease(a)
    BY <2>1, ClaimLeaseTells
  <2>2. CASE LeaseBusy(a) \/ GiveUp(a) \/ Fail(a)
    BY <1>2, <2>2 DEF LeaseBusy, GiveUp, Fail
  <2>3. CASE TakeLock(a) \/ AssertLock(a) \/ Confirm(a)
    <3>1. UNCHANGED <<relay, tx, chainVars>>
      BY <2>3 DEF TakeLock, AssertLock, Confirm
    <3>2. \/ End(a)
          \/ call[a].step = "lock" /\ Goto(a, "build")
          \/ call[a].step = "assert" /\ Goto(a, "send")
          \/ call[a].step = "poll" /\ tx[a].status = "success" /\ Goto(a, "record")
      BY <2>3 DEF TakeLock, AssertLock, Confirm, At
    <3>3. CASE End(a)
      BY <1>2, <3>1, <3>3
    <3>4. ASSUME NEW step \in {"build", "send", "record"}, Goto(a, step)
          PROVE  /\ \A c \in Attempts \ {a} : call'[c] = call[c]
                 /\ call'[a].step = step
                 /\ call'[a].burn = call[a].burn /\ call'[a].leg = call[a].leg
      BY <3>4, Types DEF Goto, IInv, Calls
    <3>5. QED
      BY <3>1, <3>2, <3>3, <3>4, CallStepTells
  <2>4. CASE Build(a)
    <3>1. CASE UNCHANGED tx /\ End(a)
      BY <1>2, <2>4, <3>1 DEF Build
    <3>2. CASE ~(UNCHANGED tx /\ End(a))
      BY <2>4, <3>2, BuildTells
    <3>3. QED
      BY <3>1, <3>2
  <2>5. CASE Checkpoint(a)
    <3>1. CASE UNCHANGED relay /\ End(a)
      BY <1>2, <2>5, <3>1 DEF Checkpoint
    <3>2. CASE ~(UNCHANGED relay /\ End(a))
      BY <2>5, <3>2, CheckpointTells
    <3>3. QED
      BY <3>1, <3>2
  <2>6. CASE Send(a)
    <3>1. CASE UNCHANGED tx /\ End(a)
      BY <1>2, <2>6, <3>1 DEF Send
    <3>2. CASE ~(UNCHANGED tx /\ End(a))
      BY <2>6, <3>2, SendTells
    <3>3. QED
      BY <3>1, <3>2
  <2>7. CASE Record(a)
    <3>1. CASE UNCHANGED relay /\ End(a)
      BY <1>2, <2>7, <3>1 DEF Record
    <3>2. CASE ~(UNCHANGED relay /\ End(a))
      BY <2>7, <3>2, RecordTells
    <3>3. QED
      BY <3>1, <3>2
  <2>8. CASE Resolve(a)
    <3>1. CASE UNCHANGED relay /\ End(a)
      BY <1>2, <2>8, <3>1 DEF Resolve
    <3>2. CASE ~(UNCHANGED relay /\ End(a))
      BY <2>8, <3>2, ResolveTells
    <3>3. QED
      BY <3>1, <3>2
  <2>9. QED
    BY <1>3, <2>1, <2>2, <2>3, <2>4, <2>5, <2>6, <2>7, <2>8 DEF Proceed
<1>4. ASSUME NEW a \in Attempts, Include(a) PROVE RowsInv'
  BY <1>4, IncludeTells
<1>5. ASSUME UNCHANGED <<relay, call, tx, leaves>>,
             minted' = minted \/ (OthersMint /\ minted \subseteq minted')
      PROVE  RowsInv'
  <2>1. Outcomes' /\ RecordsItsOwn' /\ NotYet' /\ Carries' /\ FindsItsRow' /\ SentIsOnRecord'
    BY <1>5 DEF RowsInv, Outcomes, RecordsItsOwn, NotYet, Carries, FindsItsRow,
                SentIsOnRecord, UnderWay
  <2>2. RowTellsTheChain'
    BY <1>5 DEF RowsInv, RowTellsTheChain
  <2>3. QED
    BY <2>1, <2>2 DEF RowsInv
<1>6. CASE (\E b \in Burns : MintByOther(b)) \/ (\E q \in Quotes : QuoteExpires(q))
  BY <1>5, <1>6 DEF MintByOther, QuoteExpires
<1>7. CASE Tick
  BY <1>7, TickTells
<1>8. CASE UNCHANGED vars
  BY <1>5, <1>8 DEF vars, chainVars, nodeVars
<1>9. CASE \E a \in Attempts : Forget(a)
  BY <1>5, <1>9 DEF Forget, chainVars
<1>10. QED
  BY <1>1, <1>3, <1>4, <1>6, <1>7, <1>8, <1>9 DEF Next

LEMMA RowsInvariance == Spec => []RowsInv
<1>1. Init => RowsInv
  <2> SUFFICES ASSUME Init PROVE RowsInv
    OBVIOUS
  <2>1. /\ \A b \in Burns : relay[b].state = "none"
        /\ \A a \in Attempts : tx[a].status = "none" /\ tx[a].left = -1 /\ call[a].step = "idle"
        /\ minted = {} /\ leaves = <<>>
    BY DEF Init, NoRow, NoTx, NoCall
  <2>2. Outcomes /\ RecordsItsOwn /\ NotYet /\ Carries /\ FindsItsRow /\ SentIsOnRecord
    BY <2>1 DEF Outcomes, RecordsItsOwn, NotYet, Carries, FindsItsRow, SentIsOnRecord,
                UnderWay, Early, Carrying, Built, Late
  <2>3. RowTellsTheChain
    BY <2>1 DEF RowTellsTheChain
  <2>4. QED
    BY <2>2, <2>3 DEF RowsInv
<1>2. IInv /\ RowsInv /\ [Next]_vars => RowsInv'
  BY StepTells
<1>3. QED
  BY <1>1, <1>2, Invariance, PTL DEF Spec

\* The row of a burn and the chain never contradict each other: a mint the
\* operator made is on record or recorded, a row that says minted has its money
\* at the intake, and one that says deposited names its own leaf. It holds for
\* any number of calls, deadlines and failures, and does not need the sequence
\* lock.
THEOREM RowsTellTheChain == Spec => []RowTellsTheChain
<1>1. RowsInv => RowTellsTheChain
  BY DEF RowsInv
<1>2. QED
  BY <1>1, RowsInvariance, PTL

\* A leg goes back to where it started only when the transaction on record for it
\* failed or has run out, so that trying it again cannot make it happen twice.
THEOREM RetriesWhenDead == Spec => RetryOnlyWhenDead
<1> DEFINE Dead ==
      \A b \in Burns, leg \in Legs :
        relay[b].state = During(leg) /\ relay'[b].state = Before(leg) =>
          LET t == tx[relay[b][leg]] IN
            t.status = "failed" \/ (t.status \in {"prepared", "sent"} /\ t.left < 0)
<1>1. IInv /\ RowsInv /\ [Next]_vars => [Dead]_vars
  <2> SUFFICES ASSUME IInv, RowsInv, Next, NEW b \in Burns, NEW leg \in Legs,
                      relay[b].state = During(leg), relay'[b].state = Before(leg)
               PROVE  \/ tx[relay[b][leg]].status = "failed"
                      \/ /\ tx[relay[b][leg]].status \in {"prepared", "sent"}
                         /\ tx[relay[b][leg]].left < 0
    OBVIOUS
  <2>1. relay \in [Burns -> Rows] /\ relay'[b].state # relay[b].state
    BY Types DEF IInv, During, Before, Legs
  <2>2. ASSUME NEW a \in Attempts, NEW c \in Burns, Begin(a, c) PROVE FALSE
    <3>1. \/ relay' = relay
          \/ relay[c].state = "none" /\ relay' = [relay EXCEPT ![c].state = "validated"]
      BY <2>2 DEF Begin
    <3>2. QED
      BY <2>1, <3>1 DEF During
  <2>3. ASSUME NEW a \in Attempts, ClaimLease(a) PROVE FALSE
    <3>1. call[a].burn \in Burns
      BY <2>3 DEF ClaimLease, At, IInv, AboutBurns
    <3>2. relay' = [relay EXCEPT ![call[a].burn] =
                     [relay[call[a].burn] EXCEPT !.owner = a, !.lease = RelayLease]]
      BY <2>1, <2>3, <3>1 DEF ClaimLease
    <3>3. QED
      BY <2>1, <3>1, <3>2 DEF Rows
  <2>4. ASSUME NEW a \in Attempts, Checkpoint(a) PROVE FALSE
    <3>1. call[a].burn \in Burns /\ call[a].leg \in Legs
      BY <2>4, Types DEF Checkpoint, At, IInv, AboutBurns, Calls
    <3>2. /\ relay[call[a].burn].state = Before(call[a].leg)
          /\ relay' = [relay EXCEPT ![call[a].burn] =
               [relay[call[a].burn] EXCEPT !.state = During(call[a].leg), ![call[a].leg] = a]]
      BY <2>1, <2>4 DEF Checkpoint, Row
    <3>3. b = call[a].burn
      BY <2>1, <3>1, <3>2
    <3>4. QED
      BY <3>1, <3>2, <3>3 DEF During, Before, Legs
  <2>5. ASSUME NEW a \in Attempts, Record(a) PROVE FALSE
    <3>1. /\ call[a].burn \in Burns /\ call[a].leg \in Legs /\ call[a].step = "record"
          /\ tx[a] \in Txs /\ HoldsRow(a)
      BY <2>1, <2>5, Types DEF Record, At, IInv, AboutBurns, Calls
    <3> PICK c \in Burns, l \in Legs : call[a].burn = c /\ call[a].leg = l
      BY <3>1
    <3>2. UnderWay(c, l, a) /\ tx[a].leg = l
      BY <3>1 DEF RowsInv, FindsItsRow, Carries, Carrying, Late, HoldsRow, Row
    <3> DEFINE noted == [relay[c] EXCEPT ![l] = a]
    <3>3. relay' = [relay EXCEPT ![c] = Recorded(noted, tx[a])]
      BY <2>1, <2>5 DEF Record
    <3>4. noted \in Rows
      <4>1. relay[c] \in Rows
        BY <2>1
      <4>2. CASE l = "mint"
        BY <4>1, <4>2 DEF Rows
      <4>3. CASE l = "deposit"
        BY <4>1, <4>3 DEF Rows
      <4>4. QED
        BY <4>2, <4>3 DEF Legs
    <3> HIDE DEF noted
    <3>5. Recorded(noted, tx[a]).state = IF l = "mint" THEN "minted" ELSE "deposited"
      BY <3>1, <3>2, <3>4, RecordedRow
    <3>6. b = c
      BY <2>1, <3>3
    <3>7. QED
      BY <2>1, <3>2, <3>3, <3>5, <3>6 DEF UnderWay, During, Before, Legs
  <2>6. ASSUME NEW a \in Attempts, Resolve(a)
        PROVE  \/ tx[relay[b][leg]].status = "failed"
               \/ /\ tx[relay[b][leg]].status \in {"prepared", "sent"}
                  /\ tx[relay[b][leg]].left < 0
    <3>1. call[a].burn \in Burns /\ call[a].leg \in Legs
      BY <2>6, Types DEF Resolve, At, IInv, AboutBurns, Calls
    <3> PICK c \in Burns, l \in Legs : call[a].burn = c /\ call[a].leg = l
      BY <3>1
    <3>2. relay[c].state = During(l)
      BY <2>1, <2>6 DEF Resolve, Row
    <3>3. b = c
      BY <2>1, <2>6 DEF Resolve
    <3>4. leg = l
      BY <3>2, <3>3 DEF During, Legs
    <3>5. \/ tx[relay[c][l]].status = "success"
             /\ relay' = [relay EXCEPT ![c] = Recorded(relay[c], tx[relay[c][l]])]
          \/ tx[relay[c][l]].status = "failed"
          \/ tx[relay[c][l]].status \in {"prepared", "sent"} /\ tx[relay[c][l]].left < 0
      <4>1. relay[c][l] \in Attempts
        BY <3>2 DEF IInv, OnRecord, During, Legs
      <4>2. \A answer \in Answers(relay[c][l]) :
              /\ answer \in {"success", "failed"} => tx[relay[c][l]].status = answer
              /\ answer = "expired" =>
                   tx[relay[c][l]].status \in {"prepared", "sent"} /\ tx[relay[c][l]].left < 0
        BY <4>1, AnswerFacts
      <4>3. QED
        BY <2>1, <2>6, <4>2 DEF Resolve, Row
    <3>6. CASE /\ tx[relay[c][l]].status = "success"
               /\ relay' = [relay EXCEPT ![c] = Recorded(relay[c], tx[relay[c][l]])]
      <4> PICK x \in Attempts : relay[c][l] = x
        BY <3>2 DEF IInv, OnRecord, During, Legs
      <4>1. UnderWay(c, l, x)
        BY <3>2 DEF UnderWay, During, Legs
      <4>2. tx[x] \in Txs /\ tx[x].leg = l
        BY <4>1, Types DEF RowsInv, RecordsItsOwn, IInv
      <4>3. relay[c] \in Rows
        BY <2>1
      <4>4. Recorded(relay[c], tx[x]).state = IF l = "mint" THEN "minted" ELSE "deposited"
        BY <4>2, <4>3, RecordedRow
      <4>5. relay'[b].state = IF l = "mint" THEN "minted" ELSE "deposited"
        BY <2>1, <3>3, <3>6, <4>4
      <4>6. QED
        BY <3>4, <4>5 DEF Before, Legs
    <3>7. QED
      BY <3>3, <3>4, <3>5, <3>6
  <2>7. ASSUME Tick PROVE FALSE
    <3>1. relay'[b] = [relay[b] EXCEPT !.lease = Less(@, 1)]
      BY <2>7 DEF Tick
    <3>2. QED
      BY <2>1, <3>1 DEF Rows
  <2>8. QED
    BY <2>1, <2>2, <2>3, <2>4, <2>5, <2>6, <2>7
       DEF Next, Proceed, LeaseBusy, TakeLock, Build, AssertLock, Send, Confirm, GiveUp,
           Fail, Include, MintByOther, QuoteExpires, Forget
<1>2. QED
  BY <1>1, Invariance, RowsInvariance, PTL DEF Spec, RetryOnlyWhenDead
=============================================================================
