---------------------------- MODULE Settlements ----------------------------
(***************************************************************************)
(* How the server books a payment that reached the pool: invoices and      *)
(* their versions, payment intents, settlements, allocations and refunds.  *)
(* web/src/server/modules/settlements/settlements.service.ts and .policy,  *)
(* invoices/invoices.service.ts and .state, feeQuotes attribution.         *)
(*                                                                         *)
(* There are no transactions: an operation is a call that reads and writes *)
(* one document at a time, and every read, every write below is a step.    *)
(* The worker's lease is not renewed and not looked at by these writes, so *)
(* that calls of every kind overlap, and a call may die at any step.       *)
(*                                                                         *)
(* A payment stands for its intent, its settlement and its one allocation: *)
(* the allocation's id is made of settlement, invoice and version, and a   *)
(* settlement has the one intent its quote was issued for.                 *)
(***************************************************************************)
EXTENDS Integers, FiniteSets, FiniteSetsExt

CONSTANTS
  Payments,
  Paid,           \* what each pays
  Invoices,
  InvoiceOf,      \* the invoice each payment is quoted for
  Dues,           \* amounts an invoice may be written over
  Withdrawals,    \* indexed withdrawals, which refunds refer to
  Withdrawn,      \* what each took out
  Calls,
  None,
  MaxVersion,     \* bound on the versions of an invoice
  MaxCrashes      \* bound on calls that die half way

ASSUME SettlementsAssumption ==
  /\ IsFiniteSet(Payments) /\ IsFiniteSet(Withdrawals)
  /\ Paid \in [Payments -> Nat \ {0}]
  /\ InvoiceOf \in [Payments -> Invoices]
  /\ Dues \subseteq Nat \ {0}
  /\ Withdrawn \in [Withdrawals -> Nat \ {0}]
  /\ None \notin Payments \union Invoices \union Withdrawals
  /\ MaxVersion \in Nat \ {0} /\ MaxCrashes \in Nat

VARIABLES
  invoice,       \* invoices
  versions,      \* invoice_versions, as pairs of invoice and number
  intent,        \* payment_intents
  settlement,    \* settlements
  alloc,         \* settlement_allocations
  adjust,        \* settlement_adjustments: the payment a withdrawal refunds
  call,          \* where each call is, and what it has read
  reconciled,    \* payments the worker's watermark has passed
  crashes

books == <<invoice, versions, intent, settlement, alloc, adjust>>
vars == <<books, call, reconciled, crashes>>

Open == {"issued", "partially_paid"}   \* PAYABLE_STATES
Revisable == {"draft", "issued"}
InvoiceStates == Open \union Revisable \union {"paid", "cancelled", "void"}
InvoicesOver(dues) ==
  [version : 1..MaxVersion, due : dues, state : InvoiceStates, issued : BOOLEAN,
   closed : {"no", "cancelled", "void"}, allocated : Nat, refunded : Nat,
   applied : SUBSET Payments, rev : Nat]

NewInvoice(due, state) ==
  [version |-> 1, due |-> due, state |-> state, issued |-> state = "issued",
   closed |-> "no", allocated |-> 0, refunded |-> 0, applied |-> {}, rev |-> 0]
NoIntent == [state |-> "none", version |-> 0, lapsed |-> FALSE, paid |-> FALSE]
NoSettlement == [exists |-> FALSE, holds |-> FALSE, refunded |-> 0, refunds |-> {},
                 counted |-> FALSE]
NoAllocation == [exists |-> FALSE, amount |-> 0, applied |-> FALSE, reversed |-> FALSE]
NoCall == [at |-> "idle", op |-> "none", pay |-> None, inv |-> None, wd |-> None,
           then |-> "end", head |-> NewInvoice(1, "draft"), picked |-> {},
           shown |-> <<0, 0>>, tries |-> 1, counted |-> FALSE]

Total(f, S) == MapThenSumSet(LAMBDA x : f[x], S)
Less(n, k) == IF n > k THEN n - k ELSE 0
Least(n, k) == IF n < k THEN n ELSE k

\* What of the payment is allocated to its invoice.
Allocated(p) == IF settlement[p].holds THEN alloc[p].amount ELSE 0
Live(p) == alloc[p].exists /\ ~alloc[p].reversed

\* refundSharesByAllocation: refunds eat what is not allocated first.
ShareUnclipped(p) ==
  IF settlement[p].holds /\ Live(p)
  THEN Least(settlement[p].refunded - (Paid[p] - alloc[p].amount), alloc[p].amount)
  ELSE 0
Share(p) ==
  IF settlement[p].holds /\ Live(p)
  THEN Least(Less(settlement[p].refunded, Paid[p] - alloc[p].amount), alloc[p].amount)
  ELSE 0

\* deriveInvoiceState
Derived(head, allocated, refunded) ==
  IF head.closed # "no" THEN head.closed
  ELSE IF ~head.issued THEN "draft"
  ELSE IF allocated - refunded <= 0 THEN "issued"
  ELSE IF allocated - refunded < head.due THEN "partially_paid" ELSE "paid"

RemainingDue(head) == Less(head.due, head.allocated - head.refunded)

\* What $expr asks of the two documents an allocation is added to.
FitsSettlement(p) == alloc[p].amount <= Paid[p] - Allocated(p)
FitsInvoiceAlone(p) == alloc[p].amount <= invoice[InvoiceOf[p]].due
FitsInvoice(p) ==
  LET i == invoice[InvoiceOf[p]] IN i.allocated - i.refunded + alloc[p].amount <= i.due
FitsRefund(p, w) == settlement[p].refunded + Withdrawn[w] <= Paid[p]
-----------------------------------------------------------------------------
Init ==
  /\ invoice \in [Invoices -> {NewInvoice(d, s) : d \in Dues, s \in Revisable}]
  /\ versions = {<<i, 1>> : i \in Invoices}
  /\ intent = [p \in Payments |-> NoIntent]
  /\ settlement = [p \in Payments |-> NoSettlement]
  /\ alloc = [p \in Payments |-> NoAllocation]
  /\ adjust = [w \in Withdrawals |-> None]
  /\ call = [c \in Calls |-> NoCall]
  /\ reconciled = {}
  /\ crashes = 0

At(c, step) == call[c].at = step
Pay(c) == call[c].pay
Start(c, with) == At(c, "idle") /\ call' = [call EXCEPT ![c] = with] /\ UNCHANGED reconciled
Goto(c, step) == call' = [call EXCEPT ![c].at = step] /\ UNCHANGED reconciled
Return(c) ==
  /\ call' = [call EXCEPT ![c] = NoCall]
  /\ reconciled' = IF call[c].op = "settle" THEN reconciled \union {Pay(c)} ELSE reconciled
Recompute(c, i, then) ==
  /\ call' = [call EXCEPT ![c].at = "head", ![c].inv = i, ![c].then = then]
  /\ UNCHANGED reconciled
-----------------------------------------------------------------------------
(* issueFeeQuote for an invoice: the invoice is read, and an intent stored  *)
(* some calls later.                                                        *)

BeginQuote(c, p) ==
  /\ intent[p].state = "none"
  /\ \A d \in Calls : ~(call[d].op = "quote" /\ Pay(d) = p)
  /\ invoice[InvoiceOf[p]].state \in Open
  /\ Start(c, [NoCall EXCEPT !.at = "intent", !.op = "quote", !.pay = p,
                             !.head = invoice[InvoiceOf[p]]])
  /\ UNCHANGED <<books, crashes>>

InsertIntent(c) ==
  /\ At(c, "intent")
  /\ intent' = [intent EXCEPT ![Pay(c)] =
       [NoIntent EXCEPT !.state = "open", !.version = call[c].head.version]]
  /\ Return(c)
  /\ UNCHANGED <<invoice, versions, settlement, alloc, adjust, crashes>>

\* An intent expires with its quote, and a burn made before may still be
\* deposited.
Lapse(p) ==
  /\ intent[p].state = "open" /\ ~intent[p].lapsed
  /\ intent' = [intent EXCEPT ![p].lapsed = TRUE]
  /\ UNCHANGED <<invoice, versions, settlement, alloc, adjust, call, reconciled, crashes>>

\* The deposit is in the pool and published by the indexer.
Publish(p) ==
  /\ intent[p].state = "open" /\ ~intent[p].paid
  /\ intent' = [intent EXCEPT ![p].paid = TRUE]
  /\ UNCHANGED <<invoice, versions, settlement, alloc, adjust, call, reconciled, crashes>>
-----------------------------------------------------------------------------
(* reconcileDeposit, by the worker or for a leaf on request.                *)

Reconcile(c, p) ==
  /\ intent[p].paid
  /\ settlement' = IF settlement[p].exists THEN settlement
                   ELSE [settlement EXCEPT ![p] =
                     [NoSettlement EXCEPT !.exists = TRUE, !.counted = TRUE]]
  /\ Start(c, [NoCall EXCEPT !.at = "settle", !.op = "settle", !.pay = p])
  /\ UNCHANGED <<invoice, versions, intent, alloc, adjust, crashes>>

\* finishSettlement
SettleIntent(c) ==
  /\ At(c, "settle")
  /\ intent' = [intent EXCEPT ![Pay(c)].state = "settled"]
  /\ Goto(c, "find")
  /\ UNCHANGED <<invoice, versions, settlement, alloc, adjust, crashes>>

\* allocateToInvoice, up to its call of recomputeInvoice.
FindAllocation(c) ==
  /\ At(c, "find")
  /\ LET p == Pay(c) IN
     \/ alloc[p].reversed /\ Return(c)
     \/ Live(p) /\ alloc[p].applied /\ Recompute(c, InvoiceOf[p], "end")
     \/ Live(p) /\ ~alloc[p].applied /\ Goto(c, "applySettlement")
     \/ ~alloc[p].exists /\ Recompute(c, InvoiceOf[p], "insert")
  /\ UNCHANGED <<books, crashes>>

InsertAllocation(c) ==
  /\ At(c, "insert")
  /\ LET p == Pay(c)
         amount == Least(Paid[p] - Allocated(p), RemainingDue(call[c].head))
     IN \/ amount <= 0 /\ UNCHANGED alloc /\ Return(c)
        \/ /\ amount > 0 /\ ~alloc[p].exists
           /\ alloc' = [alloc EXCEPT ![p] =
                [NoAllocation EXCEPT !.exists = TRUE, !.amount = amount]]
           /\ Goto(c, "applySettlement")
        \/ /\ amount > 0 /\ alloc[p].exists
           /\ UNCHANGED alloc
           /\ IF alloc[p].reversed \/ alloc[p].applied
              THEN Return(c) ELSE Goto(c, "applySettlement")
  /\ UNCHANGED <<invoice, versions, intent, settlement, adjust, crashes>>

\* repairPendingAllocations
Repair(c, p) ==
  /\ Live(p) /\ ~alloc[p].applied
  /\ Start(c, [NoCall EXCEPT !.at = "applySettlement", !.op = "repair", !.pay = p])
  /\ UNCHANGED <<books, crashes>>
-----------------------------------------------------------------------------
(* applyAllocation                                                          *)

ApplyToSettlement(c) ==
  /\ At(c, "applySettlement")
  /\ LET p == Pay(c) IN
     IF ~settlement[p].holds /\ FitsSettlement(p)
     THEN settlement' = [settlement EXCEPT ![p].holds = TRUE] /\ Goto(c, "applyInvoice")
     ELSE UNCHANGED settlement /\ Goto(c, "checkSettlement")
  /\ UNCHANGED <<invoice, versions, intent, alloc, adjust, crashes>>

TakeAsBusy(c) ==
  /\ At(c, "checkSettlement")
  /\ Return(c)
  /\ UNCHANGED <<books, crashes>>
CheckSettlement(c) ==
  /\ At(c, "checkSettlement")
  /\ Goto(c, IF settlement[Pay(c)].holds THEN "applyInvoice" ELSE "reverse")
  /\ UNCHANGED <<books, crashes>>

TakeUnmatchedAsApplied(c) ==
  /\ At(c, "applyInvoice")
  /\ LET p == Pay(c)
         i == InvoiceOf[p]
     IN IF p \notin invoice[i].applied /\ FitsInvoice(p)
        THEN invoice' = [invoice EXCEPT ![i] =
               [invoice[i] EXCEPT !.applied = @ \union {p}, !.rev = @ + 1,
                                  !.allocated = @ + alloc[p].amount]]
        ELSE UNCHANGED invoice
  /\ Goto(c, "mark")
  /\ UNCHANGED <<versions, intent, settlement, alloc, adjust, crashes>>
ApplyToInvoice(c) ==
  /\ At(c, "applyInvoice")
  /\ LET p == Pay(c)
         i == InvoiceOf[p]
     IN IF p \notin invoice[i].applied /\ FitsInvoice(p)
        THEN /\ invoice' = [invoice EXCEPT ![i] =
                  [invoice[i] EXCEPT !.applied = @ \union {p}, !.rev = @ + 1,
                                     !.allocated = @ + alloc[p].amount]]
             /\ Goto(c, "mark")
        ELSE UNCHANGED invoice /\ Goto(c, "checkInvoice")
  /\ UNCHANGED <<versions, intent, settlement, alloc, adjust, crashes>>

CheckInvoice(c) ==
  /\ At(c, "checkInvoice")
  /\ Goto(c, IF Pay(c) \in invoice[InvoiceOf[Pay(c)]].applied THEN "mark" ELSE "undo")
  /\ UNCHANGED <<books, crashes>>

\* The settlement's increment is compensated.
Undo(c) ==
  /\ At(c, "undo")
  /\ settlement' = [settlement EXCEPT ![Pay(c)].holds = FALSE]
  /\ Goto(c, "reverse")
  /\ UNCHANGED <<invoice, versions, intent, alloc, adjust, crashes>>

ReverseAllocation(c) ==
  /\ At(c, "reverse")
  /\ alloc' = [alloc EXCEPT ![Pay(c)].reversed = TRUE]
  /\ Return(c)
  /\ UNCHANGED <<invoice, versions, intent, settlement, adjust, crashes>>

MarkApplied(c) ==
  /\ At(c, "mark")
  /\ alloc' = [alloc EXCEPT ![Pay(c)].applied = TRUE]
  /\ Recompute(c, InvoiceOf[Pay(c)], "end")
  /\ UNCHANGED <<invoice, versions, intent, settlement, adjust, crashes>>
-----------------------------------------------------------------------------
(* recomputeInvoice                                                         *)

ReadHead(c) ==
  /\ At(c, "head")
  /\ call' = [call EXCEPT ![c].at = "allocations", ![c].head = invoice[call[c].inv]]
  /\ UNCHANGED <<books, reconciled, crashes>>

ReadAllocations(c) ==
  /\ At(c, "allocations")
  /\ call' = [call EXCEPT ![c].at = "settlements",
                          ![c].picked = {p \in call[c].head.applied : ~alloc[p].reversed}]
  /\ UNCHANGED <<books, reconciled, crashes>>

ReadSettlements(c) ==
  /\ At(c, "settlements")
  /\ LET picked == call[c].picked IN
     call' = [call EXCEPT ![c].at = "write", ![c].picked = {},
                ![c].shown = <<Total([p \in picked |-> alloc[p].amount], picked),
                               Total([p \in picked |-> Share(p)], picked)>>]
  /\ UNCHANGED <<books, reconciled, crashes>>

\* The head as it was read, with the projection just computed.
Projected(head, shown) ==
  [head EXCEPT !.allocated = shown[1], !.refunded = shown[2],
               !.state = Derived(head, shown[1], shown[2])]
AnyRevision(i, head) == TRUE
SameRevision(i, head) == invoice[i].rev = head.rev

\* Nothing to write, written, or overtaken: then it starts again, at most
\* five times.
WriteProjection(c) ==
  /\ At(c, "write")
  /\ LET i == call[c].inv
         read == call[c].head
         head == Projected(read, call[c].shown)
         done == IF call[c].then = "end" THEN Return(c)
                 ELSE /\ call' = [call EXCEPT ![c] =
                           [call[c] EXCEPT !.at = "insert", !.inv = None, !.then = "end",
                                           !.head = head, !.shown = <<0, 0>>, !.tries = 1]]
                      /\ UNCHANGED reconciled
     IN \/ head = read /\ UNCHANGED invoice /\ done
        \/ /\ head # read /\ SameRevision(i, read)
           /\ invoice' = [invoice EXCEPT ![i] =
                [invoice[i] EXCEPT !.allocated = head.allocated, !.refunded = head.refunded,
                                   !.state = head.state, !.rev = @ + 1]]
           /\ done
        \/ /\ head # read /\ ~SameRevision(i, read)
           /\ UNCHANGED invoice
           /\ call' = IF call[c].tries < 5
                      THEN [call EXCEPT ![c].at = "head", ![c].tries = @ + 1]
                      ELSE [call EXCEPT ![c] = NoCall]
           /\ UNCHANGED reconciled
  /\ UNCHANGED <<versions, intent, settlement, alloc, adjust, crashes>>
-----------------------------------------------------------------------------
(* recordRefund, and requalify                                              *)

BeginRefund(c, p, w) ==
  /\ settlement[p].exists
  /\ \/ adjust[w] = p
     \/ adjust[w] = None /\ FitsRefund(p, w)
  /\ Start(c, [NoCall EXCEPT !.at = IF adjust[w] = p THEN "refund" ELSE "adjust",
                             !.op = "refund", !.pay = p, !.wd = w])
  /\ UNCHANGED <<books, crashes>>

\* The withdrawal is claimed for this settlement; its id is the key.
AdjustAnyway(c) ==
  /\ At(c, "adjust")
  /\ adjust' = [adjust EXCEPT ![call[c].wd] = Pay(c)]
  /\ Goto(c, "refund")
  /\ UNCHANGED <<invoice, versions, intent, settlement, alloc, crashes>>
Adjust(c) ==
  /\ At(c, "adjust")
  /\ LET w == call[c].wd IN
     \/ /\ adjust[w] \in {None, Pay(c)}
        /\ adjust' = [adjust EXCEPT ![w] = Pay(c)]
        /\ Goto(c, "refund")
     \/ adjust[w] \notin {None, Pay(c)} /\ UNCHANGED adjust /\ Return(c)
  /\ UNCHANGED <<invoice, versions, intent, settlement, alloc, crashes>>

ApplyRefund(c) ==
  /\ At(c, "refund")
  /\ LET p == Pay(c)
         w == call[c].wd
     IN IF w \notin settlement[p].refunds /\ FitsRefund(p, w)
        THEN /\ settlement' = [settlement EXCEPT ![p].refunded = @ + Withdrawn[w],
                                                  ![p].refunds = @ \union {w}]
             /\ Goto(c, "requalify")
        ELSE UNCHANGED settlement /\ Goto(c, "checkRefund")
  /\ UNCHANGED <<invoice, versions, intent, alloc, adjust, crashes>>

CheckRefund(c) ==
  /\ At(c, "checkRefund")
  /\ Goto(c, IF call[c].wd \in settlement[Pay(c)].refunds THEN "requalify" ELSE "unadjust")
  /\ UNCHANGED <<books, crashes>>

Unadjust(c) ==
  /\ At(c, "unadjust")
  /\ adjust' = [adjust EXCEPT ![call[c].wd] = IF @ = Pay(c) THEN None ELSE @]
  /\ Return(c)
  /\ UNCHANGED <<invoice, versions, intent, settlement, alloc, crashes>>

\* requalify reads the settlement, and writes what followed from it.
Requalify(c) ==
  /\ At(c, "requalify")
  /\ call' = [call EXCEPT ![c].at = "qualify",
                          ![c].counted = settlement[Pay(c)].refunded < Paid[Pay(c)]]
  /\ UNCHANGED <<books, reconciled, crashes>>

Qualify(c) ==
  /\ At(c, "qualify")
  /\ settlement' = [settlement EXCEPT ![Pay(c)].counted = call[c].counted]
  /\ Goto(c, "spread")
  /\ UNCHANGED <<invoice, versions, intent, alloc, adjust, crashes>>

SpreadNothing(c) ==
  /\ At(c, "spread")
  /\ Return(c)
  /\ UNCHANGED <<books, crashes>>
SpreadRefund(c) ==
  /\ At(c, "spread")
  /\ IF Live(Pay(c)) THEN Recompute(c, InvoiceOf[Pay(c)], "end") ELSE Return(c)
  /\ UNCHANGED <<books, crashes>>
-----------------------------------------------------------------------------
(* reviseInvoice and issueInvoice, with insertNextVersion; cancelInvoice    *)

BeginVersion(c, i, op) ==
  /\ invoice[i].state \in (IF op = "revise" THEN Revisable ELSE {"draft"})
  /\ invoice[i].version < MaxVersion
  /\ Start(c, [NoCall EXCEPT !.at = IF op = "revise" THEN "countAllocations" ELSE "version",
                             !.op = op, !.inv = i, !.head = invoice[i]])
  /\ UNCHANGED <<books, crashes>>

CountAllocations(c) ==
  /\ At(c, "countAllocations")
  /\ IF \E p \in Payments : InvoiceOf[p] = call[c].inv /\ Live(p)
     THEN Return(c) ELSE Goto(c, "countIntents")
  /\ UNCHANGED <<books, crashes>>

CountIntents(c) ==
  /\ At(c, "countIntents")
  /\ IF \E p \in Payments :
          InvoiceOf[p] = call[c].inv /\ intent[p].state = "open" /\ ~intent[p].lapsed
     THEN Return(c) ELSE Goto(c, "version")
  /\ UNCHANGED <<books, crashes>>

InsertVersion(c) ==
  /\ At(c, "version")
  /\ LET next == <<call[c].inv, call[c].head.version + 1>> IN
     IF next \in versions
     THEN UNCHANGED versions /\ Return(c)
     ELSE versions' = versions \union {next} /\ Goto(c, "publish")
  /\ UNCHANGED <<invoice, intent, settlement, alloc, adjust, crashes>>

Unmoved(i, c) ==
  /\ invoice[i].version = call[c].head.version
  /\ invoice[i].state \in (IF call[c].op = "revise" THEN Revisable ELSE {"draft"})

PublishVersion(c) ==
  /\ At(c, "publish")
  /\ LET i == call[c].inv IN
     \/ /\ Unmoved(i, c)
        /\ \E due \in IF call[c].op = "revise" THEN Dues ELSE {call[c].head.due} :
             invoice' = [invoice EXCEPT ![i] =
               [invoice[i] EXCEPT !.version = @ + 1, !.due = due, !.rev = @ + 1,
                                  !.state = IF call[c].op = "issue" THEN "issued" ELSE @,
                                  !.issued = @ \/ call[c].op = "issue"]]
        /\ Return(c)
     \/ ~Unmoved(i, c) /\ UNCHANGED invoice /\ Goto(c, "unversion")
  /\ UNCHANGED <<versions, intent, settlement, alloc, adjust, crashes>>

KeepVersion(c) ==
  /\ At(c, "unversion")
  /\ Return(c)
  /\ UNCHANGED <<books, crashes>>
DropVersion(c) ==
  /\ At(c, "unversion")
  /\ versions' = versions \ {<<call[c].inv, call[c].head.version + 1>>}
  /\ Return(c)
  /\ UNCHANGED <<invoice, intent, settlement, alloc, adjust, crashes>>

BeginCancel(c, i) ==
  /\ invoice[i].state \in Open \union {"draft"}
  /\ Start(c, [NoCall EXCEPT !.at = "cancel", !.op = "cancel", !.inv = i, !.head = invoice[i]])
  /\ UNCHANGED <<books, crashes>>

Cancel(c) ==
  /\ At(c, "cancel")
  /\ LET i == call[c].inv
         closed == IF call[c].head.state = "draft" THEN "void" ELSE "cancelled"
     IN IF invoice[i].state = call[c].head.state
        THEN invoice' = [invoice EXCEPT ![i] =
               [invoice[i] EXCEPT !.state = closed, !.closed = closed, !.rev = @ + 1]]
        ELSE UNCHANGED invoice
  /\ Return(c)
  /\ UNCHANGED <<versions, intent, settlement, alloc, adjust, crashes>>
-----------------------------------------------------------------------------
Crash(c) ==
  /\ crashes < MaxCrashes
  /\ ~At(c, "idle")
  /\ call' = [call EXCEPT ![c] = NoCall]
  /\ crashes' = crashes + 1
  /\ UNCHANGED <<books, reconciled>>

Begin(c) ==
  \/ \E p \in Payments : BeginQuote(c, p) \/ Reconcile(c, p) \/ Repair(c, p)
  \/ \E p \in Payments, w \in Withdrawals : BeginRefund(c, p, w)
  \/ \E i \in Invoices : BeginCancel(c, i) \/ \E op \in {"revise", "issue"} : BeginVersion(c, i, op)

Proceed(c) ==
  \/ InsertIntent(c) \/ SettleIntent(c) \/ FindAllocation(c) \/ InsertAllocation(c)
  \/ ApplyToSettlement(c) \/ CheckSettlement(c) \/ ApplyToInvoice(c) \/ CheckInvoice(c)
  \/ Undo(c) \/ ReverseAllocation(c) \/ MarkApplied(c)
  \/ ReadHead(c) \/ ReadAllocations(c) \/ ReadSettlements(c) \/ WriteProjection(c)
  \/ Adjust(c) \/ ApplyRefund(c) \/ CheckRefund(c) \/ Unadjust(c)
  \/ Requalify(c) \/ Qualify(c) \/ SpreadRefund(c)
  \/ CountAllocations(c) \/ CountIntents(c) \/ InsertVersion(c) \/ PublishVersion(c)
  \/ DropVersion(c) \/ Cancel(c)

Next ==
  \/ \E c \in Calls : Begin(c) \/ Proceed(c) \/ Crash(c)
  \/ \E p \in Payments : Lapse(p) \/ Publish(p)

Spec == Init /\ [][Next]_vars

FairSpec ==
  /\ Spec
  /\ \A c \in Calls : WF_vars(Proceed(c))
  /\ \A p \in Payments :
       /\ SF_vars(\E c \in Calls : p \notin reconciled /\ Reconcile(c, p))
       /\ SF_vars(\E c \in Calls : Repair(c, p))
-----------------------------------------------------------------------------
Steps ==
  {"idle", "intent", "settle", "find", "insert", "applySettlement", "checkSettlement",
   "applyInvoice", "checkInvoice", "undo", "reverse", "mark", "head", "allocations",
   "settlements", "write", "adjust", "refund", "checkRefund", "unadjust", "requalify",
   "qualify", "spread", "countAllocations", "countIntents", "version", "publish",
   "unversion", "cancel"}

TypeOK ==
  /\ invoice \in [Invoices -> InvoicesOver(Dues)]
  /\ versions \subseteq Invoices \X (1..MaxVersion)
  /\ intent \in [Payments -> [state : {"none", "open", "settled"}, version : 0..MaxVersion,
                              lapsed : BOOLEAN, paid : BOOLEAN]]
  /\ settlement \in [Payments -> [exists : BOOLEAN, holds : BOOLEAN, refunded : Nat,
                                  refunds : SUBSET Withdrawals, counted : BOOLEAN]]
  /\ alloc \in [Payments -> [exists : BOOLEAN, amount : Nat, applied : BOOLEAN,
                             reversed : BOOLEAN]]
  /\ adjust \in [Withdrawals -> Payments \union {None}]
  /\ call \in [Calls -> [at : Steps,
                         op : {"none", "quote", "settle", "repair", "refund", "revise",
                               "issue", "cancel"},
                         pay : Payments \union {None}, inv : Invoices \union {None},
                         wd : Withdrawals \union {None}, then : {"end", "insert"},
                         head : InvoicesOver(Nat), picked : SUBSET Payments,
                         shown : Nat \X Nat, tries : 1..5, counted : BOOLEAN]]
  /\ reconciled \subseteq Payments
  /\ crashes \in 0..MaxCrashes

\* Nobody is in the middle of anything, and nobody died there.
AtRest == crashes = 0 /\ \A c \in Calls : At(c, "idle")

\* A call takes the allocation back from its settlement, or has done so.
TakenBack(p) ==
  \/ alloc[p].reversed
  \/ \E c \in Calls : Pay(c) = p /\ call[c].at \in {"undo", "reverse"}

\* What an invoice shows as paid never exceeds what is due, although the sum an
\* allocation is checked against is itself a projection that other calls are
\* rewriting. This is said of an invoice with its first terms, and as long as no
\* refunded payment is taken back from it: when a call that read an allocation as
\* pending applies it again, its refund counts and then does not.
InvoiceNotOverbooked ==
  \A i \in Invoices :
    (/\ invoice[i].version = 1
     /\ \A p \in Payments : InvoiceOf[p] = i /\ settlement[p].refunded > 0 =>
          crashes = 0 /\ ~TakenBack(p))
    => invoice[i].allocated - invoice[i].refunded <= invoice[i].due

\* An allocation that counts is in both documents, however many calls applied
\* it at once.
AppliedOnBothSides ==
  AtRest => \A p \in Payments :
    Live(p) /\ alloc[p].applied => settlement[p].holds /\ p \in invoice[InvoiceOf[p]].applied

\* Once nobody works on it, an invoice shows what its allocations and their
\* refunds add up to: no recomputation from old reads gets the last word. One of
\* whose allocations was reversed after the invoice took it is not made to.
ShowsItsAllocations(i) ==
  LET S == {p \in invoice[i].applied : Live(p)} IN
  invoice[i] = Projected(invoice[i], <<Total([p \in S |-> alloc[p].amount], S),
                                       Total([p \in S |-> Share(p)], S)>>)
ProjectionAtRest ==
  AtRest => \A i \in Invoices :
    ShowsItsAllocations(i) \/ \E p \in invoice[i].applied : alloc[p].reversed

\* A cancelled or discarded invoice is not brought back by a recomputation
\* that read it before.
ClosedStaysClosed == \A i \in Invoices : invoice[i].closed # "no" => invoice[i].state = invoice[i].closed

\* No payment is refunded by more than it paid, and each withdrawal refunds at
\* most the one settlement that claims it: the claim is made before the money is
\* counted, and one that is taken back was never counted.
RefundsAreClaimed ==
  \A p \in Payments :
    /\ settlement[p].refunded <= Paid[p]
    /\ settlement[p].refunded = Total(Withdrawn, settlement[p].refunds)
    /\ \A w \in settlement[p].refunds : adjust[w] = p

\* The next version number of an invoice is free, so that a draft can be revised
\* and issued: the version document and the invoice move together, whoever
\* revises, issues and cancels at once. A call that dies in between breaks this.
NextVersionFree ==
  AtRest => \A i \in Invoices : <<i, invoice[i].version + 1>> \notin versions

\* A reversed allocation takes nothing of its settlement.
ReversedIsReleased ==
  AtRest => \A p \in Payments : alloc[p].reversed => ~settlement[p].holds

\* Whatever calls died, a payment's allocation ends applied or reversed, or is
\* not made because nothing was due.
EveryPaymentLands ==
  \A p \in Payments :
    intent[p].paid ~> /\ p \in reconciled
                      /\ alloc[p].exists => alloc[p].applied \/ alloc[p].reversed

\* A payment that has been applied is shown by its invoice in the end: the
\* state of an invoice is a projection of its allocations.
AppliedIsShown ==
  \A p \in Payments : Live(p) /\ alloc[p].applied ~> ShowsItsAllocations(InvoiceOf[p])
=============================================================================
