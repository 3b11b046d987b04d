---------------------------- MODULE Verification ----------------------------
(***************************************************************************)
(* One business's identity check: web/src/server/modules/verification, the *)
(* suspension of businesses.service.ts and the commands of                 *)
(* verification-cases.mjs.                                                 *)
(*                                                                         *)
(* The provider reviews the applicant and notifies the server of it. Calls *)
(* of reconcileCase, made for a notification, for a case that is due or for *)
(* a member who refreshes, take a snapshot of the review, write it into the *)
(* case and bring the credential in line. A call may stop or stall between *)
(* any two of its writes.                                                  *)
(*                                                                         *)
(* A revision serves to tell whether the case has moved since a call read  *)
(* it, and is kept as that. A case may always be due: nextReconcileAt only *)
(* delays. One notification is followed, of any review: to the case, the   *)
(* handling of another is what that of a due case is. Age, publication and *)
(* the notices to members are left out.                                    *)
(***************************************************************************)
EXTENDS Integers, Sequences

CONSTANTS
  Reconcilers,  \* owners a lease may be given to
  Nobody,
  Reviews,      \* what the provider may answer
  MaxReviews,   \* bound on the answers it changes to
  MaxAttempts   \* MAX_EVENT_ATTEMPTS

Snapshot ==
  [status : {"init", "awaitingUser", "pending", "onHold", "completed"},
   answer : {"GREEN", "RED", "none"},
   mismatched : BOOLEAN,  \* of another type, level or environment
   screening : BOOLEAN,   \* rejectLabels has one of SCREENING_LABELS
   retry : BOOLEAN,       \* rejectType is RETRY
   evidence : BOOLEAN,    \* evidenceComplete
   persons : {"individual", "none", "green", "unresolved", "red"}]

ASSUME VerificationAssumption ==
  /\ Nobody \notin Reconcilers
  /\ Reviews \subseteq Snapshot
  /\ \E r \in Reviews : r.status = "init"
  /\ {MaxReviews, MaxAttempts} \subseteq Nat \ {0}

VARIABLES
  reviews,     \* the provider's review over time; empty without an applicant
  kase,        \* the row of verification_cases
  event,       \* a row of verification_events: the notification of one review
  credential,  \* the status of the row of identity_credentials
  work,        \* where each call is
  rebinding    \* an account is being bound, and the credential suspended for it

verificationVars == <<reviews, kase, event, credential, work, rebinding>>

Eligibilities == {"not_started", "needs_information", "pending", "manual_review",
                  "approved", "declined"}
NoEvent == [state |-> "none", of |-> 0, owner |-> Nobody, leased |-> FALSE, attempts |-> 0]
NoWork == [step |-> "idle", notified |-> FALSE, seen |-> 0, current |-> FALSE,
           verdict |-> "not_started", outcome |-> "ok"]

\* ensureCase has written the case, and no applicant is known yet.
VerificationInit ==
  /\ reviews = <<>>
  /\ kase = [applicant |-> FALSE, eligibility |-> "not_started", seen |-> 0,
             owner |-> Nobody, leased |-> FALSE]
  /\ event = NoEvent
  /\ credential = "none"
  /\ work = [w \in Reconcilers |-> NoWork]
  /\ rebinding = FALSE

\* evaluatePolicy
PersonsVerdict(persons) ==
  CASE persons \in {"individual", "green"} -> "approved"
    [] persons = "unresolved" -> "pending"
    [] OTHER -> "manual_review"

Completed(r) ==
  CASE r.answer = "RED" /\ ~r.screening -> IF r.retry THEN "needs_information" ELSE "declined"
    [] r.answer = "GREEN" /\ r.evidence -> PersonsVerdict(r.persons)
    [] OTHER -> "manual_review"

EvaluatePolicy(r) ==
  CASE r.mismatched \/ r.status = "onHold" -> "manual_review"
    [] ~r.mismatched /\ r.status = "init" -> "not_started"
    [] ~r.mismatched /\ r.status = "awaitingUser" -> "needs_information"
    [] ~r.mismatched /\ r.status = "pending" -> "pending"
    [] ~r.mismatched /\ r.status = "completed" -> Completed(r)
-----------------------------------------------------------------------------
\* startVerification: ensureApplicant, and the write that makes it known. Of two
\* starts the provider gives both the one applicant.
EnsureApplicant ==
  /\ reviews = <<>>
  /\ \E r \in Reviews : r.status = "init" /\ reviews' = <<r>>
  /\ UNCHANGED <<kase, event, credential, work, rebinding>>

StoreApplicant ==
  /\ reviews # <<>>
  /\ ~kase.applicant
  /\ kase' = [kase EXCEPT !.applicant = TRUE]
  /\ work' = [w \in Reconcilers |-> [work[w] EXCEPT !.current = FALSE]]
  /\ UNCHANGED <<reviews, event, credential, rebinding>>

\* The provider, once the applicant has been given a token.
ReviewChanges ==
  /\ kase.applicant
  /\ Len(reviews) < MaxReviews
  /\ \E r \in Reviews \ {reviews[Len(reviews)]} : reviews' = Append(reviews, r)
  /\ UNCHANGED <<kase, event, credential, work, rebinding>>

\* handleWebhook: late, in any order, or never. A repeated one is a duplicate key.
HandleWebhook ==
  /\ event.state = "none"
  /\ \E n \in DOMAIN reviews : event' = [event EXCEPT !.state = "queued", !.of = n]
  /\ UNCHANGED <<reviews, kase, credential, work, rebinding>>
-----------------------------------------------------------------------------
Doing(w, step) == work[w].step = step
\* What a call has read it needs no longer once it ends.
EndsAt(w, step, outcome) ==
  work' = [work EXCEPT ![w] = [NoWork EXCEPT !.step = step, !.notified = work[w].notified,
                                 !.outcome = IF work[w].notified THEN outcome ELSE @]]

\* claimNextEvent
Due(e) == e.state = "queued" /\ ~e.leased
ClaimEvent(w) ==
  /\ Doing(w, "idle")
  /\ Due(event)
  /\ event' = [event EXCEPT !.owner = w, !.leased = TRUE,
                            !.attempts = IF @ < MaxAttempts THEN @ + 1 ELSE @]
  /\ work' = [work EXCEPT ![w] = [NoWork EXCEPT !.step = "claim", !.notified = TRUE]]
  /\ UNCHANGED <<reviews, kase, credential, rebinding>>

\* claimCase: a copy of the case and its lease, or lease_lost. Without an
\* applicant there is nothing to do.
RefusedIsOk == "ok"
Refused == "retry"
ClaimCase(w) ==
  /\ Doing(w, "claim")
  /\ IF kase.leased
     THEN /\ EndsAt(w, "finish", Refused)
          /\ UNCHANGED kase
     ELSE /\ work' = [work EXCEPT ![w].step = IF kase.applicant THEN "snapshot" ELSE "release",
                                  ![w].current = TRUE]
          /\ kase' = [kase EXCEPT !.owner = w, !.leased = TRUE]
  /\ UNCHANGED <<reviews, event, credential, rebinding>>

\* claimDueCase, or the claimCase of refreshVerification.
ClaimDueCase(w) ==
  /\ Doing(w, "idle")
  /\ kase.applicant
  /\ ~kase.leased
  /\ kase' = [kase EXCEPT !.owner = w, !.leased = TRUE]
  /\ work' = [work EXCEPT ![w] = [NoWork EXCEPT !.step = "snapshot", !.current = TRUE]]
  /\ UNCHANGED <<reviews, event, credential, rebinding>>

\* client.snapshot
TakeSnapshot(w) ==
  /\ Doing(w, "snapshot")
  /\ work' = [work EXCEPT ![w].step = "write", ![w].seen = Len(reviews)]
  /\ UNCHANGED <<reviews, kase, event, credential, rebinding>>

\* applyCaseUpdate: for the owner of the lease, with the revision it has read.
\* A lease is compared with the time the call began, and so never seen to lapse.
\* A review that has begun anew asks for information first.
AnyWrite(w) == TRUE
MayWrite(w) == kase.owner = w /\ work[w].current

Reset(from, to) ==
  /\ reviews[to].status = "init"
  /\ from # 0 /\ reviews[from].status # "init"
Decision(w) ==
  IF Reset(kase.seen, work[w].seen) THEN "needs_information"
                                    ELSE EvaluatePolicy(reviews[work[w].seen])

NotSyncedUnlessChanged(verdict) == IF verdict = kase.eligibility THEN "release" ELSE "sync"
AfterWrite(verdict) == "sync"
ApplyCaseUpdate(w) ==
  /\ Doing(w, "write")
  /\ IF MayWrite(w)
     THEN /\ kase' = [kase EXCEPT !.eligibility = Decision(w), !.seen = work[w].seen]
          /\ work' = [v \in Reconcilers |->
                        IF v = w THEN [NoWork EXCEPT !.step = AfterWrite(Decision(w)),
                                                     !.notified = work[w].notified,
                                                     !.verdict = Decision(w)]
                                 ELSE [work[v] EXCEPT !.current = FALSE]]
     ELSE EndsAt(w, "release", "retry") /\ UNCHANGED kase
  /\ UNCHANGED <<reviews, event, credential, rebinding>>

\* syncCredential, by the case as it was written.
Synced(verdict) ==
  IF verdict = "approved" THEN "active"
  ELSE IF credential = "active" THEN "suspended" ELSE credential
SyncCredential(w) ==
  /\ Doing(w, "sync")
  /\ credential' = Synced(work[w].verdict)
  /\ EndsAt(w, "release", "ok")
  /\ UNCHANGED <<reviews, kase, event, rebinding>>

\* releaseCase
Released == [kase EXCEPT !.owner = Nobody, !.leased = FALSE]
ReleaseCase(w) ==
  /\ Doing(w, "release")
  /\ kase' = IF kase.owner = w THEN Released ELSE kase
  /\ IF work[w].notified THEN EndsAt(w, "finish", work[w].outcome)
                         ELSE work' = [work EXCEPT ![w] = NoWork]
  /\ UNCHANGED <<reviews, event, credential, rebinding>>

\* finishEvent: done, queued again, or parked. Attempts count while it is queued,
\* and from none after a requeue.
StateAfter(outcome) ==
  CASE outcome = "ok" -> "done"
    [] outcome = "retry" /\ event.attempts < MaxAttempts -> "queued"
    [] OTHER -> "parked"
FinishEvent(w) ==
  /\ Doing(w, "finish")
  /\ event' = IF event.owner = w
              THEN LET state == StateAfter(work[w].outcome) IN
                   [event EXCEPT !.state = state, !.owner = Nobody, !.leased = FALSE,
                                 !.attempts = IF state = "queued" THEN @ ELSE 0]
              ELSE event
  /\ work' = [work EXCEPT ![w] = NoWork]
  /\ UNCHANGED <<reviews, kase, credential, rebinding>>

\* A lease that is not released lapses after five minutes.
HoldsCase(w) == kase.owner = w /\ work[w].step \in {"snapshot", "write", "sync", "release"}
HoldsEvent(w) == event.owner = w /\ work[w].notified

CaseLeaseLapses ==
  /\ kase.leased
  /\ kase' = [kase EXCEPT !.leased = FALSE]
  /\ UNCHANGED <<reviews, event, credential, work, rebinding>>

EventLeaseLapses ==
  /\ event.leased
  /\ event' = [event EXCEPT !.leased = FALSE]
  /\ UNCHANGED <<reviews, kase, credential, work, rebinding>>
-----------------------------------------------------------------------------
\* The provider, the database or a conflict fails the call, which gives the case
\* back and may or may not be tried again.
CallFails(w) ==
  /\ work[w].step \in {"snapshot", "write", "sync"}
  /\ \E outcome \in {"retry", "park"} : EndsAt(w, "release", outcome)
  /\ UNCHANGED <<reviews, kase, event, credential, rebinding>>

CallDies(w) ==
  /\ ~Doing(w, "idle")
  /\ work' = [work EXCEPT ![w] = NoWork]
  /\ UNCHANGED <<reviews, kase, event, credential, rebinding>>

\* suspendForOwnershipChange, whose second write may not come.
SuspendForRebind ==
  /\ ~rebinding
  /\ credential' = IF credential = "active" THEN "suspended" ELSE credential
  /\ rebinding' = TRUE
  /\ UNCHANGED <<reviews, kase, event, work>>

ReviewAgain ==
  /\ rebinding
  /\ rebinding' = FALSE
  /\ \/ /\ kase.eligibility = "approved"
        /\ kase' = [kase EXCEPT !.eligibility = "manual_review"]
        /\ work' = [w \in Reconcilers |-> [work[w] EXCEPT !.current = FALSE]]
     \/ UNCHANGED <<kase, work>>
  /\ UNCHANGED <<reviews, event, credential>>

\* The operator's suspend and requeue-event.
OperatorSuspends ==
  /\ credential = "active"
  /\ credential' = "suspended"
  /\ UNCHANGED <<reviews, kase, event, work, rebinding>>

OperatorRequeues ==
  /\ event.state = "parked"
  /\ event' = [event EXCEPT !.state = "queued"]
  /\ UNCHANGED <<reviews, kase, credential, work, rebinding>>
-----------------------------------------------------------------------------
Carry(w) ==
  \/ ClaimCase(w) \/ TakeSnapshot(w) \/ ApplyCaseUpdate(w) \/ SyncCredential(w)
  \/ ReleaseCase(w) \/ FinishEvent(w)

DeadCaseLeaseLapses == (\A w \in Reconcilers : ~HoldsCase(w)) /\ CaseLeaseLapses
DeadEventLeaseLapses == (\A w \in Reconcilers : ~HoldsEvent(w)) /\ EventLeaseLapses

\* What happens while no call fails, stops or stalls and nobody steps in.
Steady ==
  \/ EnsureApplicant \/ StoreApplicant \/ ReviewChanges \/ HandleWebhook
  \/ DeadCaseLeaseLapses \/ DeadEventLeaseLapses
  \/ \E w \in Reconcilers : ClaimEvent(w) \/ ClaimDueCase(w) \/ Carry(w)

Trouble ==
  \/ \E w \in Reconcilers : CallFails(w) \/ CallDies(w)
  \/ CaseLeaseLapses \/ EventLeaseLapses
  \/ SuspendForRebind \/ ReviewAgain \/ OperatorSuspends \/ OperatorRequeues

VerificationNext == Steady \/ Trouble

VerificationSpec == VerificationInit /\ [][VerificationNext]_verificationVars

\* The worker runs for ever and asks for a notification whenever it begins; calls
\* go on, leases of dead ones lapse, and trouble ends at some time nobody knows.
VerificationFairness ==
  /\ SF_verificationVars(\E w \in Reconcilers : ClaimEvent(w))
  /\ WF_verificationVars(\E w \in Reconcilers : ClaimDueCase(w))
  /\ \A w \in Reconcilers : WF_verificationVars(Carry(w))
  /\ WF_verificationVars(DeadCaseLeaseLapses)
  /\ WF_verificationVars(DeadEventLeaseLapses)
  /\ <>[][Steady]_verificationVars

VerificationFairSpec == VerificationSpec /\ VerificationFairness
-----------------------------------------------------------------------------
VerificationTypeOK ==
  /\ reviews \in Seq(Reviews) /\ Len(reviews) <= MaxReviews
  /\ kase \in [applicant : BOOLEAN, eligibility : Eligibilities, seen : 0..Len(reviews),
               owner : Reconcilers \union {Nobody}, leased : BOOLEAN]
  /\ kase.leased => kase.owner # Nobody
  /\ event \in [state : {"none", "queued", "done", "parked"}, of : 0..Len(reviews),
                owner : Reconcilers \union {Nobody}, leased : BOOLEAN, attempts : 0..MaxAttempts]
  /\ credential \in {"none", "active", "suspended"}
  /\ rebinding \in BOOLEAN

\* The review a case was decided by is never replaced by an older one, whatever
\* calls with older snapshots are still on their way.
EvidenceNeverOlder == [][kase'.seen >= kase.seen]_kase

\* A notification that is done has been acted on: the case was decided by that
\* review or a later one. Except for that of the applicant itself, which may
\* arrive before the case knows of the applicant.
DoneIsSeen == event.state = "done" => kase.seen >= event.of \/ event.of = 1

\* In the end every notification is done or put before the operator, the case is
\* decided by the last review, even one nobody was told of, and the credential is
\* active just when the case is approved, wherever earlier calls have stopped.
CredentialFollows ==
  <>[](/\ event.state # "queued"
       /\ kase.applicant => /\ kase.seen = Len(reviews)
                            /\ credential = "active" <=> kase.eligibility = "approved")
=============================================================================
