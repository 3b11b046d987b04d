-------------------------- MODULE NoteLedgerProofs --------------------------
(***************************************************************************)
(* The abstract ledger never owes more than it holds.                      *)
(***************************************************************************)
EXTENDS NoteLedger, PartialSumsProofs

\* A sequence of amounts has as many amounts as it is long.
LEMMA SeqOfNaturals ==
  ASSUME NEW S, S \subseteq Nat, NEW s \in Seq(S)
  PROVE  /\ Len(s) \in Nat
         /\ DOMAIN s = 1..Len(s)
         /\ \A i \in DOMAIN s : s[i] \in Nat
<1>1. Len(s) \in Nat /\ DOMAIN s = 1..Len(s)
  OBVIOUS
<1>2. \A i \in DOMAIN s : s[i] \in S
  OBVIOUS
<1>3. QED
  BY <1>1, <1>2

\* The claims are naturals, and so are the principals they come from.
LEMMA PrincipalType ==
  ASSUME Amounts \subseteq Nat, LedgerTypeOK
  PROVE  /\ Len(principal) \in Nat
         /\ DOMAIN principal = 1..Len(principal)
         /\ \A i \in DOMAIN principal : principal[i] \in Nat
BY SeqOfNaturals DEF LedgerTypeOK

LEMMA ClaimsType ==
  ASSUME Amounts \subseteq Nat, LedgerTypeOK
  PROVE  Claims \in [Nat -> Nat]
BY PrincipalType DEF Claims

\* The same of the next state.
LEMMA ClaimsTypeNext ==
  ASSUME Amounts \subseteq Nat, LedgerTypeOK'
  PROVE  Claims' \in [Nat -> Nat]
<1>1. \A i \in DOMAIN principal' : principal'[i] \in Nat
  BY SeqOfNaturals DEF LedgerTypeOK
<1>2. QED
  BY <1>1 DEF Claims

\* Adding a note leaves the older claims alone and adds its amount to what is
\* owed.
LEMMA AddOwes ==
  ASSUME Amounts \subseteq Nat, LedgerTypeOK, LedgerTypeOK',
         NEW amount \in Amounts, Add(amount)
  PROVE  Owed' = Owed + amount
<1> DEFINE n == Len(principal)
<1>1. n \in Nat /\ Len(principal') = n + 1 /\ n + 1 \notin redeemed
  BY DEF Add, LedgerTypeOK
<1>2. Claims \in [Nat -> Int] /\ Claims' \in [Nat -> Int]
  <2>1. Claims \in [Nat -> Nat] /\ Claims' \in [Nat -> Nat]
    BY ClaimsType, ClaimsTypeNext
  <2>2. QED
    BY <2>1
<1>3. \A k \in 1..n : Claims[k] = Claims'[k]
  BY DEF Add, LedgerTypeOK, Claims
<1>4. Claims'[n + 1] = amount
  BY DEF Add, LedgerTypeOK, Claims
<1> HIDE DEF n
<1>5. Sums(Claims')[n] = Sums(Claims)[n]
  BY <1>1, <1>2, <1>3, SumsAgree
<1>6. Sums(Claims')[n + 1] = Sums(Claims')[n] + Claims'[n + 1]
  BY <1>1, <1>2, SumsDef
<1>7. QED
  BY <1>1, <1>4, <1>5, <1>6 DEF Owed, n

\* Redeeming a note ends its claim and no other.
LEMMA RedeemOwes ==
  ASSUME Amounts \subseteq Nat, LedgerTypeOK, LedgerTypeOK',
         NEW i \in DOMAIN principal, Redeem(i)
  PROVE  Owed' = Owed - principal[i]
<1> DEFINE n == Len(principal)
<1>1. n \in Nat /\ i \in 1..n /\ principal' = principal /\ principal[i] \in Nat
  BY PrincipalType DEF Redeem
<1>2. Claims \in [Nat -> Int] /\ Claims' \in [Nat -> Int]
  <2>1. Claims \in [Nat -> Nat] /\ Claims' \in [Nat -> Nat]
    BY ClaimsType, ClaimsTypeNext
  <2>2. QED
    BY <2>1
<1>3. \A k \in 1..n : k # i => Claims[k] = Claims'[k]
  BY DEF Redeem, LedgerTypeOK, Claims
<1>4. Claims[i] = principal[i] /\ Claims'[i] = 0
  BY <1>1 DEF Redeem, LedgerTypeOK, Claims
<1> HIDE DEF n
<1>5. Sums(Claims')[n] = Sums(Claims)[n] + (Claims'[i] - Claims[i])
  BY <1>1, <1>2, <1>3, SumsChangeOne
<1>6. Sums(Claims)[n] \in Int
  BY <1>1, <1>2, SumsDef
<1>7. QED
  BY <1>1, <1>4, <1>5, <1>6 DEF Owed, n

\* The ledger is well typed.
THEOREM LedgerTyped ==
  ASSUME Amounts \subseteq Nat
  PROVE  Spec => []LedgerTypeOK
<1>1. Init => LedgerTypeOK
  BY DEF Init, LedgerTypeOK
<1>2. LedgerTypeOK /\ [Next]_ledgerVars => LedgerTypeOK'
  <2> SUFFICES ASSUME LedgerTypeOK, [Next]_ledgerVars PROVE LedgerTypeOK'
    OBVIOUS
  <2>1. ASSUME NEW amount \in Amounts, Add(amount) PROVE LedgerTypeOK'
    <3>1. principal' \in Seq(Amounts) /\ vault' \in Int
      BY <2>1 DEF Add, LedgerTypeOK
    <3>2. DOMAIN principal \subseteq DOMAIN principal'
      BY <2>1 DEF Add, LedgerTypeOK
    <3>3. QED
      BY <2>1, <3>1, <3>2 DEF Add, LedgerTypeOK
  <2>2. ASSUME NEW i \in DOMAIN principal, Redeem(i) PROVE LedgerTypeOK'
    <3>1. principal[i] \in Nat
      BY PrincipalType
    <3>2. QED
      BY <2>2, <3>1 DEF Redeem, LedgerTypeOK
  <2>3. CASE UNCHANGED ledgerVars
    BY <2>3 DEF LedgerTypeOK, ledgerVars
  <2>4. QED
    BY <2>1, <2>2, <2>3 DEF Next
<1>3. QED
  BY <1>1, <1>2, PTL DEF Spec

\* However notes are added and redeemed, the vault covers every claim.
THEOREM LedgerSolvent ==
  ASSUME Amounts \subseteq Nat
  PROVE  Spec => []Solvent
<1>1. Init => Solvent
  <2>1. ASSUME Init PROVE Claims = [k \in Nat |-> 0] /\ Len(principal) = 0 /\ vault = 0
    BY <2>1 DEF Init, Claims
  <2>2. [k \in Nat |-> 0] \in [Nat -> Int]
    OBVIOUS
  <2>3. Sums([k \in Nat |-> 0])[0] = 0
    BY <2>2, SumsDef
  <2>4. QED
    BY <2>1, <2>3 DEF Solvent, Owed
<1>2. LedgerTypeOK /\ LedgerTypeOK' /\ Solvent /\ [Next]_ledgerVars => Solvent'
  <2> SUFFICES ASSUME LedgerTypeOK, LedgerTypeOK', Solvent, [Next]_ledgerVars
               PROVE  Solvent'
    OBVIOUS
  <2>1. Owed \in Int
    <3>1. Claims \in [Nat -> Nat] /\ Len(principal) \in Nat
      BY ClaimsType, PrincipalType
    <3>2. Claims \in [Nat -> Int]
      BY <3>1
    <3>3. QED
      BY <3>1, <3>2, SumsDef DEF Owed
  <2>2. ASSUME NEW amount \in Amounts, Add(amount) PROVE Solvent'
    <3>1. Owed' = Owed + amount /\ vault' = vault + amount
      BY <2>2, AddOwes DEF Add
    <3>2. QED
      BY <2>1, <3>1 DEF Solvent, LedgerTypeOK
  <2>3. ASSUME NEW i \in DOMAIN principal, Redeem(i) PROVE Solvent'
    <3>1. Owed' = Owed - principal[i]
      BY <2>3, RedeemOwes
    <3>2. principal[i] \in Nat /\ vault' \in {vault - principal[i], vault}
      BY <2>3, PrincipalType DEF Redeem
    <3>3. QED
      BY <2>1, <3>1, <3>2 DEF Solvent, LedgerTypeOK
  <2>4. CASE UNCHANGED ledgerVars
    BY <2>4 DEF Solvent, Owed, Claims, ledgerVars
  <2>5. QED
    BY <2>2, <2>3, <2>4 DEF Next
<1>3. QED
  BY <1>1, <1>2, LedgerTyped, PTL DEF Spec

\* A note that is not redeemed is never worth more than the vault holds, so no
\* holder is turned away because others came first.
THEOREM LedgerCovers ==
  ASSUME Amounts \subseteq Nat, LedgerTypeOK, Solvent, NEW i \in DOMAIN principal \ redeemed
  PROVE  vault >= principal[i]
<1>1. Claims \in [Nat -> Nat] /\ Len(principal) \in Nat /\ i \in 1..Len(principal)
  BY ClaimsType, PrincipalType
<1>2. Claims[i] = principal[i] /\ principal[i] \in Nat
  BY <1>1, PrincipalType DEF Claims
<1>3. Claims[i] <= Owed /\ Owed \in Nat
  BY <1>1, SumsOfNaturals DEF Owed
<1>4. QED
  BY <1>1, <1>2, <1>3 DEF Solvent, LedgerTypeOK
=============================================================================
