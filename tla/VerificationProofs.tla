------------------------- MODULE VerificationProofs -------------------------
(***************************************************************************)
(* However calls overlap, stall and stop, a case is never decided by an    *)
(* older review than before, and a notification that is done was acted on. *)
(***************************************************************************)
EXTENDS Verification, TLAPS

(* The inductive invariant. What the properties say of a write and of a
   finished notification must hold of the calls on their way there: a snapshot
   is as new as the case for as long as the case has not moved, and as new as the
   notification it was taken for. *)

WorkType ==
  [step : {"idle", "claim", "snapshot", "write", "sync", "release", "finish"},
   notified : BOOLEAN, seen : Nat, current : BOOLEAN, verdict : Eligibilities,
   outcome : {"ok", "retry", "park"}]

Fresh(w) ==
  /\ work[w].step \in {"snapshot", "write"} => kase.applicant
  /\ work[w].step = "write" =>
       /\ work[w].seen \in 1..Len(reviews)
       /\ work[w].current => kase.seen <= work[w].seen

Vouches(w) ==
  \/ work[w].step = "sync"
  \/ work[w].step \in {"release", "finish"} /\ work[w].outcome = "ok"

ActsOn(w) ==
  IF work[w].notified
  THEN
    /\ event.state # "none"
    /\ work[w].step = "write" => event.of <= work[w].seen
    /\ Vouches(w) => kase.seen >= event.of \/ event.of = 1
  ELSE work[w].step \notin {"claim", "finish"}

CaseInv ==
  /\ VerificationTypeOK
  /\ work \in [Reconcilers -> WorkType]
  /\ IF kase.applicant THEN Len(reviews) >= 1 ELSE Len(reviews) <= 1
  /\ event.state # "none" => event.of >= 1
  /\ DoneIsSeen
  /\ \A w \in Reconcilers : Fresh(w) /\ ActsOn(w)
-----------------------------------------------------------------------------
\* The policy decides on every snapshot.
LEMMA PolicyDecides ==
  ASSUME NEW r \in Snapshot
  PROVE  EvaluatePolicy(r) \in Eligibilities
<1>1. PersonsVerdict(r.persons) \in Eligibilities
  BY DEF PersonsVerdict, Eligibilities
<1>2. Completed(r) \in Eligibilities
  BY <1>1 DEF Completed, Eligibilities
<1>3. QED
  BY <1>2 DEF EvaluatePolicy, Eligibilities, Snapshot

LEMMA CaseInvInit == VerificationInit => CaseInv
<1> SUFFICES ASSUME VerificationInit PROVE CaseInv
  OBVIOUS
<1>1. /\ reviews \in Seq(Reviews) /\ Len(reviews) = 0
      /\ MaxReviews \in Nat \ {0} /\ MaxAttempts \in Nat \ {0}
  BY VerificationAssumption DEF VerificationInit
<1>2. VerificationTypeOK
  <2>1. 0 \in 0..Len(reviews) /\ 0 \in 0..MaxAttempts /\ Len(reviews) <= MaxReviews
    BY <1>1
  <2>2. kase \in [applicant : BOOLEAN, eligibility : Eligibilities, seen : 0..Len(reviews),
                  owner : Reconcilers \union {Nobody}, leased : BOOLEAN]
        /\ ~kase.leased
    BY <2>1 DEF VerificationInit, Eligibilities
  <2>3. event \in [state : {"none", "queued", "done", "parked"}, of : 0..Len(reviews),
                   owner : Reconcilers \union {Nobody}, leased : BOOLEAN,
                   attempts : 0..MaxAttempts]
    BY <2>1 DEF VerificationInit, NoEvent
  <2>4. QED
    BY <1>1, <2>1, <2>2, <2>3 DEF VerificationInit, VerificationTypeOK
<1>3. work \in [Reconcilers -> WorkType]
  BY DEF VerificationInit, WorkType, NoWork, Eligibilities
<1>4. \A w \in Reconcilers : work[w].step = "idle" /\ work[w].notified = FALSE
  BY DEF VerificationInit, NoWork
<1>5. \A w \in Reconcilers : Fresh(w) /\ ActsOn(w)
  BY <1>4 DEF Fresh, ActsOn
<1>6. QED
  BY <1>1, <1>2, <1>3, <1>5 DEF CaseInv, VerificationInit, NoEvent, DoneIsSeen
-----------------------------------------------------------------------------
\* A call is not disturbed by what leaves it alone, or by a case that has moved
\* on to a review as new or newer and made its copy an old one.
LEMMA Undisturbed ==
  ASSUME CaseInv, NEW w \in Reconcilers,
         \/ work'[w] = work[w] /\ kase'.seen = kase.seen
         \/ work'[w] = [work[w] EXCEPT !.current = FALSE] /\ kase'.seen >= kase.seen,
         kase'.seen \in Nat,
         kase.applicant => kase'.applicant,
         Len(reviews') \in Nat, Len(reviews) <= Len(reviews'),
         event.state # "none" => event'.state # "none" /\ event'.of = event.of
  PROVE  Fresh(w)' /\ ActsOn(w)'
<1>1. /\ work[w] \in WorkType /\ Fresh(w) /\ ActsOn(w)
      /\ Len(reviews) \in Nat /\ kase.seen \in Nat /\ event.of \in Nat
  BY DEF CaseInv, VerificationTypeOK
<1>2. /\ work'[w].step = work[w].step /\ work'[w].notified = work[w].notified
      /\ work'[w].seen = work[w].seen /\ work'[w].outcome = work[w].outcome
      /\ work'[w].current => work[w].current /\ kase'.seen = kase.seen
  BY <1>1 DEF WorkType
<1>3. Fresh(w)'
  BY <1>1, <1>2 DEF Fresh, WorkType
<1>4. ActsOn(w)'
  BY <1>1, <1>2 DEF ActsOn, Vouches, WorkType
<1>5. QED
  BY <1>3, <1>4

\* What a call that ends keeps: what it has read is gone, and its outcome stays.
LEMMA EndsFacts ==
  ASSUME CaseInv, NEW w \in Reconcilers, NEW step \in {"release", "finish"},
         NEW outcome \in {"ok", "retry", "park"}, EndsAt(w, step, outcome)
  PROVE  /\ work' \in [Reconcilers -> WorkType]
         /\ work'[w].step = step
         /\ work'[w].notified = work[w].notified
         /\ work'[w].notified => work'[w].outcome = outcome
         /\ \A v \in Reconcilers \ {w} : work'[v] = work[v]
BY DEF CaseInv, EndsAt, NoWork, WorkType, Eligibilities

\* A call that only ends leaves the calls in order.
LEMMA EndKeeps ==
  ASSUME CaseInv, NEW w \in Reconcilers, NEW step \in {"release", "finish"},
         NEW outcome \in {"ok", "retry", "park"}, EndsAt(w, step, outcome),
         UNCHANGED <<reviews, event>>,
         kase'.applicant = kase.applicant, kase'.seen = kase.seen,
         outcome = "ok" /\ work[w].notified => kase.seen >= event.of \/ event.of = 1,
         step = "finish" => work[w].notified
  PROVE  /\ work' \in [Reconcilers -> WorkType]
         /\ \A v \in Reconcilers : Fresh(v)' /\ ActsOn(v)'
<1>1. /\ Len(reviews) \in Nat /\ kase.seen \in Nat
  BY DEF CaseInv, VerificationTypeOK
<1>2. \A v \in Reconcilers \ {w} : Fresh(v)' /\ ActsOn(v)'
  <2> TAKE v \in Reconcilers \ {w}
  <2>1. work'[v] = work[v]
    BY EndsFacts
  <2>2. /\ Len(reviews') \in Nat /\ Len(reviews) <= Len(reviews') /\ event' = event
        /\ kase'.seen \in Nat
    BY <1>1
  <2>3. QED
    BY <2>1, <2>2, Undisturbed
<1>3. Fresh(w)' /\ ActsOn(w)'
  <2>1. /\ work'[w].step = step
        /\ work'[w].notified = work[w].notified
        /\ work'[w].notified => work'[w].outcome = outcome
    BY EndsFacts
  <2>2. Fresh(w)'
    BY <2>1 DEF Fresh
  <2>3. ActsOn(w)'
    BY <2>1 DEF ActsOn, Vouches, CaseInv
  <2>4. QED
    BY <2>2, <2>3
<1>4. QED
  BY <1>2, <1>3, EndsFacts
-----------------------------------------------------------------------------
\* The provider's side, the page and the notification leave the calls in order.
LEMMA EnsureApplicantKeeps == CaseInv /\ EnsureApplicant => CaseInv'
<1> SUFFICES ASSUME CaseInv, EnsureApplicant PROVE CaseInv'
  OBVIOUS
<1>1. /\ reviews' \in Seq(Reviews) /\ Len(reviews) = 0 /\ Len(reviews') = 1
      /\ UNCHANGED <<kase, event, credential, work, rebinding>>
  BY DEF EnsureApplicant
<1>2. VerificationTypeOK'
  BY <1>1, VerificationAssumption DEF CaseInv, VerificationTypeOK
<1>3. \A w \in Reconcilers : Fresh(w)' /\ ActsOn(w)'
  BY <1>1, Undisturbed DEF CaseInv, VerificationTypeOK
<1>4. QED
  BY <1>1, <1>2, <1>3 DEF CaseInv, DoneIsSeen, VerificationTypeOK

LEMMA StoreApplicantKeeps == CaseInv /\ StoreApplicant => CaseInv'
<1> SUFFICES ASSUME CaseInv, StoreApplicant PROVE CaseInv'
  OBVIOUS
<1>1. /\ kase'.applicant = TRUE /\ kase'.seen = kase.seen
      /\ kase' \in [applicant : BOOLEAN, eligibility : Eligibilities, seen : 0..Len(reviews),
                    owner : Reconcilers \union {Nobody}, leased : BOOLEAN]
      /\ kase'.leased = kase.leased /\ kase'.owner = kase.owner
      /\ UNCHANGED <<reviews, event, credential, rebinding>>
  BY DEF StoreApplicant, CaseInv, VerificationTypeOK
<1>2. VerificationTypeOK'
  BY <1>1 DEF CaseInv, VerificationTypeOK
<1>3. /\ work' \in [Reconcilers -> WorkType]
      /\ \A w \in Reconcilers : work'[w] = [work[w] EXCEPT !.current = FALSE]
  BY DEF StoreApplicant, CaseInv, WorkType
<1>4. \A w \in Reconcilers : Fresh(w)' /\ ActsOn(w)'
  BY <1>1, <1>3, Undisturbed DEF CaseInv, VerificationTypeOK
<1>5. Len(reviews) >= 1
  BY DEF StoreApplicant, CaseInv, VerificationTypeOK
<1>6. QED
  BY <1>1, <1>2, <1>3, <1>4, <1>5 DEF CaseInv, DoneIsSeen

LEMMA ReviewChangesKeeps == CaseInv /\ ReviewChanges => CaseInv'
<1> SUFFICES ASSUME CaseInv, ReviewChanges PROVE CaseInv'
  OBVIOUS
<1>1. /\ Len(reviews) \in Nat /\ Len(reviews) >= 1 /\ Len(reviews) < MaxReviews
      /\ UNCHANGED <<kase, event, credential, work, rebinding>>
  BY DEF ReviewChanges, CaseInv, VerificationTypeOK
<1>2. reviews' \in Seq(Reviews) /\ Len(reviews') = Len(reviews) + 1
  BY DEF ReviewChanges, CaseInv, VerificationTypeOK
<1>3. VerificationTypeOK'
  BY <1>1, <1>2, VerificationAssumption DEF CaseInv, VerificationTypeOK
<1>4. \A w \in Reconcilers : Fresh(w)' /\ ActsOn(w)'
  BY <1>1, <1>2, Undisturbed DEF CaseInv, VerificationTypeOK
<1>5. QED
  BY <1>1, <1>2, <1>3, <1>4 DEF CaseInv, DoneIsSeen, ReviewChanges

LEMMA HandleWebhookKeeps == CaseInv /\ HandleWebhook => CaseInv'
<1> SUFFICES ASSUME CaseInv, HandleWebhook PROVE CaseInv'
  OBVIOUS
<1>1. /\ event.state = "none" /\ event'.state = "queued"
      /\ event'.of \in 1..Len(reviews)
      /\ event' \in [state : {"none", "queued", "done", "parked"}, of : 0..Len(reviews),
                     owner : Reconcilers \union {Nobody}, leased : BOOLEAN,
                     attempts : 0..MaxAttempts]
      /\ UNCHANGED <<reviews, kase, credential, work, rebinding>>
  <2>1. /\ reviews \in Seq(Reviews)
        /\ event \in [state : {"none", "queued", "done", "parked"}, of : 0..Len(reviews),
                      owner : Reconcilers \union {Nobody}, leased : BOOLEAN,
                      attempts : 0..MaxAttempts]
    BY DEF CaseInv, VerificationTypeOK
  <2>2. PICK n \in DOMAIN reviews : event' = [event EXCEPT !.state = "queued", !.of = n]
    BY DEF HandleWebhook
  <2>3. n \in 0..Len(reviews) /\ n \in 1..Len(reviews)
    BY <2>1
  <2>4. QED
    BY <2>1, <2>2, <2>3 DEF HandleWebhook
<1>2. VerificationTypeOK'
  BY <1>1 DEF CaseInv, VerificationTypeOK
<1>3. \A w \in Reconcilers : Fresh(w)' /\ ActsOn(w)'
  BY <1>1, Undisturbed DEF CaseInv, VerificationTypeOK
<1>4. QED
  BY <1>1, <1>2, <1>3 DEF CaseInv, DoneIsSeen
-----------------------------------------------------------------------------
\* What a write to the notification alone keeps, with a call that begins or ends.
LEMMA EventKeeps ==
  ASSUME CaseInv, NEW w \in Reconcilers,
         event' \in [state : {"none", "queued", "done", "parked"}, of : 0..Len(reviews),
                     owner : Reconcilers \union {Nobody}, leased : BOOLEAN,
                     attempts : 0..MaxAttempts],
         event'.of = event.of, event.state = "none" <=> event'.state = "none",
         event'.state = "done" => event.state = "done" \/ kase.seen >= event.of \/ event.of = 1,
         UNCHANGED <<reviews, kase, credential, rebinding>>,
         work' \in [Reconcilers -> WorkType],
         \A v \in Reconcilers \ {w} : work'[v] = work[v],
         Fresh(w)' /\ ActsOn(w)'
  PROVE  CaseInv'
<1>1. \A v \in Reconcilers : Fresh(v)' /\ ActsOn(v)'
  <2> SUFFICES ASSUME NEW v \in Reconcilers \ {w} PROVE Fresh(v)' /\ ActsOn(v)'
    OBVIOUS
  <2>1. /\ Len(reviews') \in Nat /\ Len(reviews) <= Len(reviews')
        /\ kase'.seen \in Nat /\ kase'.seen = kase.seen
    BY DEF CaseInv, VerificationTypeOK
  <2>2. QED
    BY <2>1, Undisturbed
<1>2. VerificationTypeOK'
  BY DEF CaseInv, VerificationTypeOK
<1>3. QED
  BY <1>1, <1>2 DEF CaseInv, DoneIsSeen

LEMMA ClaimEventKeeps == ASSUME CaseInv, NEW w \in Reconcilers, ClaimEvent(w) PROVE CaseInv'
<1>1. /\ event \in [state : {"none", "queued", "done", "parked"}, of : 0..Len(reviews),
                    owner : Reconcilers \union {Nobody}, leased : BOOLEAN,
                    attempts : 0..MaxAttempts]
      /\ MaxAttempts \in Nat /\ event.state = "queued"
  BY VerificationAssumption DEF CaseInv, VerificationTypeOK, ClaimEvent, Due
<1>2. (IF event.attempts < MaxAttempts THEN event.attempts + 1 ELSE event.attempts)
        \in 0..MaxAttempts
  BY <1>1
<1>3. /\ event' \in [state : {"none", "queued", "done", "parked"}, of : 0..Len(reviews),
                     owner : Reconcilers \union {Nobody}, leased : BOOLEAN,
                     attempts : 0..MaxAttempts]
      /\ event'.of = event.of /\ event'.state = "queued"
  BY <1>1, <1>2 DEF ClaimEvent
<1>4. /\ work' \in [Reconcilers -> WorkType]
      /\ work'[w].step = "claim" /\ work'[w].notified
      /\ \A v \in Reconcilers \ {w} : work'[v] = work[v]
  BY DEF ClaimEvent, CaseInv, WorkType, NoWork, Eligibilities
<1>5. Fresh(w)' /\ ActsOn(w)'
  BY <1>3, <1>4 DEF Fresh, ActsOn, Vouches
<1>6. QED
  BY <1>1, <1>3, <1>4, <1>5, EventKeeps DEF ClaimEvent

LEMMA FinishEventKeeps == ASSUME CaseInv, NEW w \in Reconcilers, FinishEvent(w) PROVE CaseInv'
<1>1. /\ event \in [state : {"none", "queued", "done", "parked"}, of : 0..Len(reviews),
                    owner : Reconcilers \union {Nobody}, leased : BOOLEAN,
                    attempts : 0..MaxAttempts]
      /\ MaxAttempts \in Nat
      /\ work[w] \in WorkType /\ work[w].step = "finish" /\ ActsOn(w)
  BY VerificationAssumption DEF CaseInv, VerificationTypeOK, FinishEvent, Doing
<1>2. /\ event' \in [state : {"none", "queued", "done", "parked"}, of : 0..Len(reviews),
                     owner : Reconcilers \union {Nobody}, leased : BOOLEAN,
                     attempts : 0..MaxAttempts]
      /\ event'.of = event.of
      /\ \/ event' = event
         \/ event'.state = StateAfter(work[w].outcome)
  <2>1. StateAfter(work[w].outcome) \in {"queued", "done", "parked"} /\ 0 \in 0..MaxAttempts
    BY <1>1 DEF StateAfter
  <2>2. QED
    BY <1>1, <2>1 DEF FinishEvent
<1>3. StateAfter(work[w].outcome) \in {"queued", "done", "parked"}
      /\ (StateAfter(work[w].outcome) = "done" => work[w].outcome = "ok")
  BY <1>1 DEF StateAfter
<1>4. /\ work' \in [Reconcilers -> WorkType]
      /\ work'[w].step = "idle" /\ ~work'[w].notified
      /\ \A v \in Reconcilers \ {w} : work'[v] = work[v]
  BY DEF FinishEvent, CaseInv, WorkType, NoWork, Eligibilities
<1>5. Fresh(w)' /\ ActsOn(w)'
  BY <1>4 DEF Fresh, ActsOn
<1>6. /\ work[w].notified /\ event.state # "none"
      /\ work[w].outcome = "ok" => kase.seen >= event.of \/ event.of = 1
  BY <1>1 DEF ActsOn, Vouches
<1>7. /\ event.state = "none" <=> event'.state = "none"
      /\ event'.state = "done" => event.state = "done" \/ kase.seen >= event.of \/ event.of = 1
  BY <1>2, <1>3, <1>6
<1>8. UNCHANGED <<reviews, kase, credential, rebinding>>
  BY DEF FinishEvent
<1>9. QED
  BY <1>2, <1>4, <1>5, <1>7, <1>8, EventKeeps
-----------------------------------------------------------------------------
\* What a write to the case keeps that leaves its review alone, and does not make
\* a call's copy a new one.
CaseType ==
  [applicant : BOOLEAN, eligibility : Eligibilities, seen : 0..Len(reviews),
   owner : Reconcilers \union {Nobody}, leased : BOOLEAN]

LEMMA CaseKeeps ==
  ASSUME CaseInv, NEW w \in Reconcilers, kase' \in CaseType, kase'.leased => kase'.owner # Nobody,
         kase'.applicant = kase.applicant, kase'.seen = kase.seen,
         UNCHANGED <<reviews, event, credential, rebinding>>,
         work' \in [Reconcilers -> WorkType],
         \A v \in Reconcilers \ {w} : work'[v] = work[v],
         Fresh(w)' /\ ActsOn(w)'
  PROVE  CaseInv'
<1>1. \A v \in Reconcilers : Fresh(v)' /\ ActsOn(v)'
  <2> SUFFICES ASSUME NEW v \in Reconcilers \ {w} PROVE Fresh(v)' /\ ActsOn(v)'
    OBVIOUS
  <2>1. /\ Len(reviews') \in Nat /\ Len(reviews) <= Len(reviews') /\ kase'.seen \in Nat
    BY DEF CaseInv, VerificationTypeOK
  <2>2. QED
    BY <2>1, Undisturbed
<1>2. VerificationTypeOK'
  BY DEF CaseInv, VerificationTypeOK, CaseType
<1>3. QED
  BY <1>1, <1>2 DEF CaseInv, DoneIsSeen

LEMMA CaseTyped ==
  ASSUME CaseInv
  PROVE  /\ kase \in CaseType
         /\ kase.leased => kase.owner # Nobody
         /\ Len(reviews) \in Nat /\ event.of \in 0..Len(reviews) /\ event.of \in Nat
BY DEF CaseInv, VerificationTypeOK, CaseType

LEMMA ClaimCaseKeeps == ASSUME CaseInv, NEW w \in Reconcilers, ClaimCase(w) PROVE CaseInv'
<1>1. /\ work[w] \in WorkType /\ work[w].step = "claim" /\ ActsOn(w) /\ work[w].notified
      /\ event.state # "none" /\ event.of >= 1 /\ Nobody # w
      /\ UNCHANGED <<reviews, event, credential, rebinding>>
  BY VerificationAssumption DEF ClaimCase, Doing, CaseInv, ActsOn
<1>2. CASE kase.leased
  <2>1. EndsAt(w, "finish", "retry") /\ UNCHANGED kase
    BY <1>2 DEF ClaimCase, Refused
  <2>2. work' \in [Reconcilers -> WorkType] /\ \A v \in Reconcilers : Fresh(v)' /\ ActsOn(v)'
    BY <1>1, <2>1, EndKeeps
  <2>3. \A v \in Reconcilers \ {w} : work'[v] = work[v]
    BY <2>1, EndsFacts
  <2>4. kase' \in CaseType /\ (kase'.leased => kase'.owner # Nobody)
    BY <2>1, CaseTyped DEF CaseType
  <2>5. QED
    BY <1>1, <2>1, <2>2, <2>3, <2>4, CaseKeeps
<1>3. CASE ~kase.leased
  <2>1. /\ kase' = [kase EXCEPT !.owner = w, !.leased = TRUE]
        /\ work' = [work EXCEPT ![w].step = IF kase.applicant THEN "snapshot" ELSE "release",
                                ![w].current = TRUE]
    BY <1>3 DEF ClaimCase
  <2>2. /\ work' \in [Reconcilers -> WorkType]
        /\ \A v \in Reconcilers \ {w} : work'[v] = work[v]
        /\ work'[w].step = IF kase.applicant THEN "snapshot" ELSE "release"
        /\ work'[w].notified
    BY <1>1, <2>1 DEF CaseInv, WorkType
  <2>3. /\ kase' \in CaseType /\ kase'.owner # Nobody
        /\ kase'.applicant = kase.applicant /\ kase'.seen = kase.seen
    BY <1>1, <2>1, CaseTyped DEF CaseType
  <2>4. kase.applicant \/ event.of = 1
    BY <1>1, CaseTyped DEF CaseInv
  <2>5. Fresh(w)' /\ ActsOn(w)'
    BY <1>1, <2>2, <2>3, <2>4 DEF Fresh, ActsOn, Vouches
  <2>6. QED
    BY <1>1, <2>2, <2>3, <2>5, CaseKeeps
<1>4. QED
  BY <1>2, <1>3

LEMMA ClaimDueCaseKeeps == ASSUME CaseInv, NEW w \in Reconcilers, ClaimDueCase(w) PROVE CaseInv'
<1>1. /\ kase' = [kase EXCEPT !.owner = w, !.leased = TRUE] /\ Nobody # w /\ kase.applicant
      /\ UNCHANGED <<reviews, event, credential, rebinding>>
  BY VerificationAssumption DEF ClaimDueCase
<1>2. /\ work' \in [Reconcilers -> WorkType]
      /\ \A v \in Reconcilers \ {w} : work'[v] = work[v]
      /\ work'[w].step = "snapshot" /\ ~work'[w].notified
  BY DEF ClaimDueCase, CaseInv, WorkType, NoWork, Eligibilities
<1>3. /\ kase' \in CaseType /\ kase'.owner # Nobody
      /\ kase'.applicant = kase.applicant /\ kase'.seen = kase.seen
  BY <1>1, CaseTyped DEF CaseType
<1>4. Fresh(w)' /\ ActsOn(w)'
  BY <1>1, <1>2, <1>3 DEF Fresh, ActsOn
<1>5. QED
  BY <1>1, <1>2, <1>3, <1>4, CaseKeeps

LEMMA TakeSnapshotKeeps == ASSUME CaseInv, NEW w \in Reconcilers, TakeSnapshot(w) PROVE CaseInv'
<1>1. /\ work[w] \in WorkType /\ work[w].step = "snapshot" /\ Fresh(w) /\ ActsOn(w)
      /\ UNCHANGED <<reviews, kase, event, credential, rebinding>>
  BY DEF CaseInv, TakeSnapshot, Doing
<1>2. kase.applicant /\ Len(reviews) >= 1
  BY <1>1 DEF Fresh, CaseInv
<1>3. /\ work' \in [Reconcilers -> WorkType]
      /\ \A v \in Reconcilers \ {w} : work'[v] = work[v]
      /\ work'[w].step = "write" /\ work'[w].seen = Len(reviews)
      /\ work'[w].notified = work[w].notified
  BY <1>1, CaseTyped DEF TakeSnapshot, CaseInv, WorkType
<1>4. /\ Len(reviews) \in Nat /\ kase.seen <= Len(reviews) /\ event.of <= Len(reviews)
      /\ kase' = kase /\ reviews' = reviews /\ event' = event
  BY <1>1 DEF CaseInv, VerificationTypeOK
<1>5. Fresh(w)'
  BY <1>2, <1>3, <1>4 DEF Fresh
<1>6. ActsOn(w)'
  BY <1>1, <1>3, <1>4 DEF ActsOn, Vouches
<1>7. kase' \in CaseType /\ (kase'.leased => kase'.owner # Nobody)
  BY <1>1, CaseTyped DEF CaseType
<1>8. QED
  BY <1>1, <1>3, <1>5, <1>6, <1>7, CaseKeeps
-----------------------------------------------------------------------------
\* The write is that of a call with a fresh copy, so it decides by a review that is
\* as new as the one before.
LEMMA WritesForward ==
  ASSUME CaseInv, NEW w \in Reconcilers, ApplyCaseUpdate(w), MayWrite(w)
  PROVE  /\ kase' \in CaseType
         /\ kase'.applicant = kase.applicant /\ kase.applicant
         /\ kase'.leased = kase.leased /\ kase'.owner = kase.owner
         /\ kase'.seen = work[w].seen /\ kase.seen <= work[w].seen
         /\ Decision(w) \in Eligibilities
<1>1. /\ work[w] \in WorkType /\ work[w].step = "write" /\ Fresh(w) /\ work[w].current
      /\ kase' = [kase EXCEPT !.eligibility = Decision(w), !.seen = work[w].seen]
  BY DEF ApplyCaseUpdate, MayWrite, Doing, CaseInv
<1>2. work[w].seen \in 1..Len(reviews) /\ kase.seen <= work[w].seen /\ kase.applicant
  BY <1>1 DEF Fresh
<1>3. work[w].seen \in 0..Len(reviews)
  BY <1>2, CaseTyped
<1>4. reviews[work[w].seen] \in Snapshot
  BY <1>2, VerificationAssumption DEF CaseInv, VerificationTypeOK
<1>5. Decision(w) \in Eligibilities
  BY <1>4, PolicyDecides DEF Decision, Eligibilities
<1>6. QED
  BY <1>1, <1>2, <1>3, <1>5, CaseTyped DEF CaseType

LEMMA ApplyCaseUpdateKeeps ==
  ASSUME CaseInv, NEW w \in Reconcilers, ApplyCaseUpdate(w) PROVE CaseInv'
<1>1. /\ work[w] \in WorkType /\ work[w].step = "write" /\ Fresh(w) /\ ActsOn(w)
      /\ UNCHANGED <<reviews, event, credential, rebinding>>
  BY DEF ApplyCaseUpdate, Doing, CaseInv
<1>2. CASE ~MayWrite(w)
  <2>1. EndsAt(w, "release", "retry") /\ UNCHANGED kase
    BY <1>2 DEF ApplyCaseUpdate
  <2>2. work' \in [Reconcilers -> WorkType] /\ \A v \in Reconcilers : Fresh(v)' /\ ActsOn(v)'
    BY <1>1, <2>1, EndKeeps
  <2>3. \A v \in Reconcilers \ {w} : work'[v] = work[v]
    BY <2>1, EndsFacts
  <2>4. kase' \in CaseType /\ (kase'.leased => kase'.owner # Nobody)
    BY <2>1, CaseTyped DEF CaseType
  <2>5. QED
    BY <1>1, <2>1, <2>2, <2>3, <2>4, CaseKeeps
<1>3. CASE MayWrite(w)
  <2>1. /\ kase' \in CaseType
        /\ kase'.applicant = kase.applicant
        /\ kase'.leased = kase.leased /\ kase'.owner = kase.owner
        /\ kase'.seen = work[w].seen /\ kase.seen <= work[w].seen
        /\ Decision(w) \in Eligibilities
    BY <1>3, WritesForward
  <2>2. work' = [v \in Reconcilers |->
                   IF v = w THEN [NoWork EXCEPT !.step = "sync", !.notified = work[w].notified,
                                                !.verdict = Decision(w)]
                            ELSE [work[v] EXCEPT !.current = FALSE]]
    BY <1>3 DEF ApplyCaseUpdate, AfterWrite
  <2>3. work' \in [Reconcilers -> WorkType]
    <3>1. \A v \in Reconcilers : [work[v] EXCEPT !.current = FALSE] \in WorkType
      BY DEF CaseInv, WorkType
    <3>2. [NoWork EXCEPT !.step = "sync", !.notified = work[w].notified,
                         !.verdict = Decision(w)] \in WorkType
      BY <1>1, <2>1 DEF NoWork, WorkType
    <3>3. QED
      BY <2>2, <3>1, <3>2
  <2>4. \A v \in Reconcilers \ {w} : Fresh(v)' /\ ActsOn(v)'
    <3> TAKE v \in Reconcilers \ {w}
    <3>1. work'[v] = [work[v] EXCEPT !.current = FALSE]
      BY <2>2
    <3>2. /\ Len(reviews') \in Nat /\ Len(reviews) <= Len(reviews')
          /\ kase'.seen \in Nat /\ kase'.seen >= kase.seen
      BY <1>1, <2>1, CaseTyped DEF CaseType
    <3>3. QED
      BY <1>1, <2>1, <3>1, <3>2, Undisturbed
  <2>5. /\ work'[w].step = "sync" /\ work'[w].notified = work[w].notified
    BY <2>2 DEF NoWork
  <2>6. Fresh(w)' /\ ActsOn(w)'
    BY <1>1, <2>1, <2>5 DEF Fresh, ActsOn, Vouches
  <2>7. VerificationTypeOK'
    BY <1>1, <2>1 DEF CaseInv, VerificationTypeOK, CaseType
  <2>8. DoneIsSeen'
    BY <1>1, <2>1, CaseTyped DEF CaseInv, DoneIsSeen, CaseType
  <2>9. QED
    BY <1>1, <2>1, <2>3, <2>4, <2>6, <2>7, <2>8 DEF CaseInv
<1>4. QED
  BY <1>2, <1>3

LEMMA ReleaseCaseKeeps == ASSUME CaseInv, NEW w \in Reconcilers, ReleaseCase(w) PROVE CaseInv'
<1>1. /\ work[w] \in WorkType /\ work[w].step = "release" /\ ActsOn(w)
      /\ UNCHANGED <<reviews, event, credential, rebinding>>
  BY DEF ReleaseCase, Doing, CaseInv
<1>2. /\ kase' \in CaseType /\ (kase'.leased => kase'.owner # Nobody)
      /\ kase'.applicant = kase.applicant /\ kase'.seen = kase.seen
  BY CaseTyped DEF ReleaseCase, Released, CaseType
<1>3. CASE work[w].notified
  <2>1. EndsAt(w, "finish", work[w].outcome) /\ work[w].outcome \in {"ok", "retry", "park"}
    BY <1>1, <1>3 DEF ReleaseCase, WorkType
  <2>2. work[w].outcome = "ok" => kase.seen >= event.of \/ event.of = 1
    BY <1>1, <1>3 DEF ActsOn, Vouches
  <2>3. work' \in [Reconcilers -> WorkType] /\ \A v \in Reconcilers : Fresh(v)' /\ ActsOn(v)'
    BY <1>1, <1>2, <1>3, <2>1, <2>2, EndKeeps
  <2>4. \A v \in Reconcilers \ {w} : work'[v] = work[v]
    BY <2>1, EndsFacts
  <2>5. QED
    BY <1>1, <1>2, <2>3, <2>4, CaseKeeps
<1>4. CASE ~work[w].notified
  <2>1. /\ work' \in [Reconcilers -> WorkType]
        /\ work'[w].step = "idle" /\ ~work'[w].notified
        /\ \A v \in Reconcilers \ {w} : work'[v] = work[v]
    <3>1. work' = [work EXCEPT ![w] = NoWork]
      BY <1>4 DEF ReleaseCase
    <3>2. NoWork \in WorkType /\ NoWork.step = "idle" /\ ~NoWork.notified
      BY DEF NoWork, WorkType, Eligibilities
    <3>3. QED
      BY <3>1, <3>2 DEF CaseInv
  <2>2. Fresh(w)' /\ ActsOn(w)'
    BY <2>1 DEF Fresh, ActsOn
  <2>3. QED
    BY <1>1, <1>2, <2>1, <2>2, CaseKeeps
<1>5. QED
  BY <1>3, <1>4
-----------------------------------------------------------------------------
\* What only the credential, the leases or the binding show is nothing to the calls.
Quietly ==
  /\ UNCHANGED <<reviews, work>>
  /\ kase' \in CaseType /\ (kase'.leased => kase'.owner # Nobody)
  /\ kase'.applicant = kase.applicant /\ kase'.seen = kase.seen
  /\ \/ event' = event
     \/ event' = [event EXCEPT !.leased = FALSE]
     \/ event.state = "parked" /\ event' = [event EXCEPT !.state = "queued"]
  /\ credential' \in {"none", "active", "suspended"}
  /\ rebinding' \in BOOLEAN

LEMMA QuietKeeps == CaseInv /\ Quietly => CaseInv'
<1> SUFFICES ASSUME CaseInv, Quietly PROVE CaseInv'
  OBVIOUS
<1> USE DEF Quietly
<1>1. /\ event' \in [state : {"none", "queued", "done", "parked"}, of : 0..Len(reviews),
                     owner : Reconcilers \union {Nobody}, leased : BOOLEAN,
                     attempts : 0..MaxAttempts]
      /\ event'.of = event.of /\ event'.state = "none" <=> event.state = "none"
      /\ event'.state = "done" => event.state = "done"
  BY DEF CaseInv, VerificationTypeOK
<1>2. \A w \in Reconcilers : Fresh(w)' /\ ActsOn(w)'
  <2> TAKE w \in Reconcilers
  <2>1. /\ work'[w] = work[w] /\ Len(reviews') \in Nat /\ Len(reviews) <= Len(reviews')
        /\ kase'.seen \in Nat
    BY CaseTyped DEF CaseType
  <2>2. QED
    BY <1>1, <2>1, Undisturbed
<1>3. VerificationTypeOK'
  BY <1>1 DEF CaseInv, VerificationTypeOK, CaseType
<1>4. QED
  BY <1>1, <1>2, <1>3 DEF CaseInv, DoneIsSeen

LEMMA SyncCredentialKeeps ==
  ASSUME CaseInv, NEW w \in Reconcilers, SyncCredential(w) PROVE CaseInv'
<1>1. /\ ActsOn(w) /\ work[w].step = "sync" /\ EndsAt(w, "release", "ok")
      /\ credential' \in {"none", "active", "suspended"}
      /\ UNCHANGED <<reviews, kase, event, rebinding>>
  BY DEF SyncCredential, Doing, Synced, CaseInv, VerificationTypeOK
<1>2. work[w].notified => kase.seen >= event.of \/ event.of = 1
  BY <1>1 DEF ActsOn, Vouches
<1>3. work' \in [Reconcilers -> WorkType] /\ \A v \in Reconcilers : Fresh(v)' /\ ActsOn(v)'
  BY <1>1, <1>2, EndKeeps
<1>4. VerificationTypeOK'
  BY <1>1 DEF CaseInv, VerificationTypeOK
<1>5. QED
  BY <1>1, <1>3, <1>4 DEF CaseInv, DoneIsSeen

LEMMA CallFailsKeeps == ASSUME CaseInv, NEW w \in Reconcilers, CallFails(w) PROVE CaseInv'
<1>1. UNCHANGED <<reviews, kase, event, credential, rebinding>>
  BY DEF CallFails
<1>2. PICK outcome \in {"retry", "park"} : EndsAt(w, "release", outcome)
  BY DEF CallFails
<1>3. /\ work' \in [Reconcilers -> WorkType]
      /\ \A v \in Reconcilers : Fresh(v)' /\ ActsOn(v)'
  BY <1>1, <1>2, EndKeeps
<1>4. \A v \in Reconcilers \ {w} : work'[v] = work[v]
  BY <1>2, EndsFacts
<1>5. kase' \in CaseType /\ (kase'.leased => kase'.owner # Nobody)
  BY <1>1, CaseTyped DEF CaseType
<1>6. QED
  BY <1>1, <1>3, <1>4, <1>5, CaseKeeps

LEMMA CallDiesKeeps == ASSUME CaseInv, NEW w \in Reconcilers, CallDies(w) PROVE CaseInv'
<1>1. UNCHANGED <<reviews, kase, event, credential, rebinding>>
  BY DEF CallDies
<1>2. NoWork \in WorkType /\ NoWork.step = "idle" /\ ~NoWork.notified
  BY DEF NoWork, WorkType, Eligibilities
<1>3. /\ work' \in [Reconcilers -> WorkType]
      /\ work'[w].step = "idle" /\ ~work'[w].notified
      /\ \A v \in Reconcilers \ {w} : work'[v] = work[v]
  BY <1>2 DEF CallDies, CaseInv
<1>4. Fresh(w)' /\ ActsOn(w)'
  BY <1>3 DEF Fresh, ActsOn
<1>5. kase' \in CaseType /\ (kase'.leased => kase'.owner # Nobody)
  BY <1>1, CaseTyped DEF CaseType
<1>6. QED
  BY <1>1, <1>3, <1>4, <1>5, CaseKeeps

LEMMA ReviewAgainKeeps == CaseInv /\ ReviewAgain => CaseInv'
<1> SUFFICES ASSUME CaseInv, ReviewAgain PROVE CaseInv'
  OBVIOUS
<1>1. /\ rebinding' \in BOOLEAN /\ UNCHANGED <<reviews, event, credential>>
  BY DEF ReviewAgain
<1>2. /\ kase' \in CaseType /\ (kase'.leased => kase'.owner # Nobody)
      /\ kase'.applicant = kase.applicant /\ kase'.seen = kase.seen
  BY CaseTyped DEF ReviewAgain, CaseType, Eligibilities
<1>3. CASE UNCHANGED <<kase, work>>
  <2>1. Quietly
    BY <1>1, <1>2, <1>3 DEF Quietly, CaseInv, VerificationTypeOK
  <2>2. QED
    BY <2>1, QuietKeeps
<1>4. CASE work' = [w \in Reconcilers |-> [work[w] EXCEPT !.current = FALSE]]
  <2>1. /\ work' \in [Reconcilers -> WorkType]
        /\ \A w \in Reconcilers : work'[w] = [work[w] EXCEPT !.current = FALSE]
    BY <1>4 DEF CaseInv, WorkType
  <2>2. \A w \in Reconcilers : Fresh(w)' /\ ActsOn(w)'
    <3> TAKE w \in Reconcilers
    <3>1. /\ Len(reviews') \in Nat /\ Len(reviews) <= Len(reviews')
          /\ kase'.seen \in Nat /\ kase'.seen >= kase.seen
      BY <1>1, <1>2, CaseTyped DEF CaseType
    <3>2. QED
      BY <1>1, <1>2, <2>1, <3>1, Undisturbed
  <2>3. VerificationTypeOK'
    BY <1>1, <1>2 DEF CaseInv, VerificationTypeOK, CaseType
  <2>4. QED
    BY <1>1, <1>2, <2>1, <2>2, <2>3 DEF CaseInv, DoneIsSeen
<1>5. QED
  BY <1>3, <1>4 DEF ReviewAgain
-----------------------------------------------------------------------------
LEMMA CaseInvNext == CaseInv /\ [VerificationNext]_verificationVars => CaseInv'
<1> SUFFICES ASSUME CaseInv, [VerificationNext]_verificationVars PROVE CaseInv'
  OBVIOUS
<1> USE CaseTyped
<1>1. CASE EnsureApplicant
  BY <1>1, EnsureApplicantKeeps
<1>2. CASE StoreApplicant
  BY <1>2, StoreApplicantKeeps
<1>3. CASE ReviewChanges
  BY <1>3, ReviewChangesKeeps
<1>4. CASE HandleWebhook
  BY <1>4, HandleWebhookKeeps
<1>5. ASSUME NEW w \in Reconcilers, ClaimEvent(w) \/ FinishEvent(w) PROVE CaseInv'
  BY <1>5, ClaimEventKeeps, FinishEventKeeps
<1>6. ASSUME NEW w \in Reconcilers, ClaimCase(w) \/ ClaimDueCase(w) \/ ReleaseCase(w)
      PROVE  CaseInv'
  BY <1>6, ClaimCaseKeeps, ClaimDueCaseKeeps, ReleaseCaseKeeps
<1>7. ASSUME NEW w \in Reconcilers, TakeSnapshot(w) \/ ApplyCaseUpdate(w) \/ SyncCredential(w)
      PROVE  CaseInv'
  BY <1>7, TakeSnapshotKeeps, ApplyCaseUpdateKeeps, SyncCredentialKeeps
<1>8. ASSUME NEW w \in Reconcilers, CallFails(w) \/ CallDies(w) PROVE CaseInv'
  BY <1>8, CallFailsKeeps, CallDiesKeeps
<1>9. CASE CaseLeaseLapses
  <2>1. /\ kase' \in CaseType /\ ~kase'.leased
        /\ kase'.applicant = kase.applicant /\ kase'.seen = kase.seen
    BY <1>9 DEF CaseLeaseLapses, CaseType
  <2>2. Quietly
    BY <1>9, <2>1 DEF Quietly, CaseLeaseLapses, CaseInv, VerificationTypeOK
  <2>3. QED
    BY <2>2, QuietKeeps
<1>10. CASE EventLeaseLapses
  <2>1. Quietly
    BY <1>10 DEF Quietly, EventLeaseLapses, CaseInv, VerificationTypeOK
  <2>2. QED
    BY <2>1, QuietKeeps
<1>11. CASE SuspendForRebind
  <2>1. Quietly
    BY <1>11 DEF Quietly, SuspendForRebind, CaseInv, VerificationTypeOK
  <2>2. QED
    BY <2>1, QuietKeeps
<1>12. CASE ReviewAgain
  BY <1>12, ReviewAgainKeeps
<1>13. CASE OperatorSuspends
  <2>1. Quietly
    BY <1>13 DEF Quietly, OperatorSuspends, CaseInv, VerificationTypeOK
  <2>2. QED
    BY <2>1, QuietKeeps
<1>14. CASE OperatorRequeues
  <2>1. Quietly
    BY <1>14 DEF Quietly, OperatorRequeues, CaseInv, VerificationTypeOK
  <2>2. QED
    BY <2>1, QuietKeeps
<1>15. CASE UNCHANGED verificationVars
  <2>1. Quietly
    BY <1>15 DEF Quietly, verificationVars, CaseInv, VerificationTypeOK
  <2>2. QED
    BY <2>1, QuietKeeps
<1>16. QED
  BY <1>1, <1>2, <1>3, <1>4, <1>5, <1>6, <1>7, <1>8, <1>9, <1>10, <1>11, <1>12, <1>13,
     <1>14, <1>15
     DEF VerificationNext, Steady, Trouble, Carry, DeadCaseLeaseLapses, DeadEventLeaseLapses

LEMMA CaseInvAlways == VerificationSpec => []CaseInv
BY CaseInvInit, CaseInvNext, PTL DEF VerificationSpec

\* The case, the notification and the credential keep their types.
THEOREM VerificationTypeCorrect == VerificationSpec => []VerificationTypeOK
BY CaseInvAlways, PTL DEF CaseInv

\* A notification that finishEvent marks as done has been acted on, however often
\* it was claimed and whatever calls stopped on the way.
THEOREM DoneIsSeenAlways == VerificationSpec => []DoneIsSeen
BY CaseInvAlways, PTL DEF CaseInv

LEMMA StepForward == CaseInv /\ [VerificationNext]_verificationVars => [kase'.seen >= kase.seen]_kase
<1> SUFFICES ASSUME CaseInv, [VerificationNext]_verificationVars
             PROVE  kase'.seen >= kase.seen \/ kase' = kase
  OBVIOUS
<1>1. kase.seen \in Nat
  BY CaseTyped DEF CaseType
<1>2. ASSUME NEW w \in Reconcilers, ApplyCaseUpdate(w) PROVE kase'.seen >= kase.seen \/ kase' = kase
  <2>1. CASE MayWrite(w)
    BY <1>2, <2>1, WritesForward
  <2>2. CASE ~MayWrite(w)
    BY <1>2, <2>2 DEF ApplyCaseUpdate
  <2>3. QED
    BY <2>1, <2>2
<1>3. ASSUME NEW w \in Reconcilers, ClaimCase(w) \/ ClaimDueCase(w) \/ ReleaseCase(w)
      PROVE  kase'.seen = kase.seen
  BY <1>3, CaseTyped DEF ClaimCase, ClaimDueCase, ReleaseCase, Released, CaseType
<1>4. CASE StoreApplicant \/ CaseLeaseLapses \/ ReviewAgain
  BY <1>4, CaseTyped DEF StoreApplicant, CaseLeaseLapses, ReviewAgain, CaseType
<1>5. ASSUME NEW w \in Reconcilers,
             ClaimEvent(w) \/ TakeSnapshot(w) \/ SyncCredential(w) \/ FinishEvent(w)
               \/ CallFails(w) \/ CallDies(w)
      PROVE  kase' = kase
  BY <1>5 DEF ClaimEvent, TakeSnapshot, SyncCredential, FinishEvent, CallFails, CallDies
<1>6. CASE \/ EnsureApplicant \/ ReviewChanges \/ HandleWebhook \/ EventLeaseLapses
           \/ SuspendForRebind \/ OperatorSuspends \/ OperatorRequeues
           \/ UNCHANGED verificationVars
  BY <1>6 DEF EnsureApplicant, ReviewChanges, HandleWebhook, EventLeaseLapses,
              SuspendForRebind, OperatorSuspends, OperatorRequeues, verificationVars
<1>7. QED
  BY <1>1, <1>2, <1>3, <1>4, <1>5, <1>6
     DEF VerificationNext, Steady, Trouble, Carry, DeadCaseLeaseLapses, DeadEventLeaseLapses

\* The write of applyCaseUpdate never puts an older review in the place of a newer one.
THEOREM EvidenceNeverOlderAlways == VerificationSpec => EvidenceNeverOlder
<1>1. CaseInv /\ [VerificationNext]_verificationVars => [kase'.seen >= kase.seen]_kase
  BY StepForward
<1>2. QED
  BY <1>1, CaseInvAlways, PTL DEF VerificationSpec, EvidenceNeverOlder
=============================================================================
