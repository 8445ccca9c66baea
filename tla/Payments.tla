------------------------------ MODULE Payments ------------------------------
(***************************************************************************)
(* The installments of one booking: PaymentsService (initiate, the         *)
(* provider's webhook, refunds, the reconciliation that marks the PAYMENT  *)
(* step) and the payment provider it talks to.  The provider is external:  *)
(* it charges or declines, and reports by callbacks that may be repeated,  *)
(* delayed and reordered; the callbacks are truthful.                      *)
(*                                                                         *)
(* A request moves by one database access or provider call at a time.      *)
(* How a step DONE becomes a confirmation, and the agency's own updates    *)
(* of the steps, are in Bookings; here a paid booking may be confirmed,    *)
(* and any booking cancelled, at any time.                                 *)
(*                                                                         *)
(* A definition commented "Mutant" is no part of the specification.        *)
(***************************************************************************)
EXTENDS Naturals, FiniteSets, FiniteSetsExt

CONSTANTS
  Payments,      \* provider references, one per installment
  Amount,        \* the amount of each
  Price,         \* the price of the package
  Requests,      \* slots for the requests in flight
  Refunders,     \* the slots that may be serving a refund request
  Initiators,    \* the slots that may be serving an initiation
  Orderly,       \* TRUE: one callback per payment, with its outcome, handled once
  MayFail,       \* TRUE: a request may die between two accesses
  NoPayment

ASSUME PaymentsAssumption ==
  /\ IsFiniteSet(Payments) /\ NoPayment \notin Payments
  /\ Amount \in [Payments -> Nat \ {0}]   \* @IsPositive() amount
  /\ Price \in Nat \ {0}
  /\ Refunders \subseteq Requests /\ Initiators \subseteq Requests
  /\ Orderly \in BOOLEAN /\ MayFail \in BOOLEAN

VARIABLES
  payment,    \* the payment rows: status, receipt (confirmedAt set), number
  booking,    \* the status of the booking
  stepDone,   \* the PAYMENT step of its dossier is DONE
  req,        \* the requests in flight
  provider,   \* external: the provider's own state of each charge
  callbacks,  \* external: the callbacks it has sent and may (re)deliver
  refunds,    \* external: the refund orders it received, per charge
  covered     \* history: the succeeded installments once covered the price

vars == <<payment, booking, stepDone, req, provider, callbacks, refunds, covered>>
world == <<provider, callbacks, refunds>>

-----------------------------------------------------------------------------
Status == {"pending", "succeeded", "failed", "refunded"}
PaymentRow == [status : Status \union {"absent"}, receipt : BOOLEAN, number : Nat]
Absent == [status |-> "absent", receipt |-> FALSE, number |-> 0]

Pc == {"idle", "charge", "createPayment", "reconcile", "markStep",
       "refundRate", "refundCall", "refundWrite"}
Request == [pc : Pc, target : Payments \union {NoPayment}, number : Nat]
Idle == [pc |-> "idle", target |-> NoPayment, number |-> 0]

Exists(p) == payment[p].status # "absent"
Existing == {p \in Payments : Exists(p)}
Succeeded == {p \in Payments : payment[p].status = "succeeded"}
TotalOf(S) == MapThenSumSet(LAMBDA p : Amount[p], S)

\* History: the price was covered, now or before.
Remember == covered' = (covered \/ TotalOf(Succeeded') >= Price)

More(n) == IF n = 2 THEN 2 ELSE n + 1   \* 0, 1, more than once
Goto(r, pc) == req' = [req EXCEPT ![r].pc = pc]
Finish(r) == req' = [req EXCEPT ![r] = Idle]
Start(r, pc, p) == req' = [req EXCEPT ![r] = [Idle EXCEPT !.pc = pc, !.target = p]]

\* A row only takes a status of the enum, whatever the callbacks say.
TypeOK ==
  /\ payment \in [Payments -> PaymentRow]
  /\ booking \in {"pending_payment", "confirmed", "cancelled"}
  /\ stepDone \in BOOLEAN
  /\ req \in [Requests -> Request]
  /\ provider \in [Payments -> {"none", "pending", "paid", "declined"}]
  /\ callbacks \subseteq Payments \X Status
  /\ refunds \in [Payments -> 0..2]
  /\ covered \in BOOLEAN

Init ==
  /\ payment = [p \in Payments |-> Absent]
  /\ booking = "pending_payment"
  /\ stepDone = FALSE
  /\ req = [r \in Requests |-> Idle]
  /\ provider = [p \in Payments |-> "none"]
  /\ callbacks = {}
  /\ refunds = [p \in Payments |-> 0]
  /\ covered = (TotalOf({}) >= Price)

-----------------------------------------------------------------------------
(* PaymentsService.initiate, called by the pilgrim and by the savings cron: *)
(* the rows are counted, the provider is called, the row is inserted.       *)

\* Bound: an initiation starts only if a reference is left for it.
ReferenceLeft ==
  Cardinality({p \in Payments : provider[p] = "none"})
    > Cardinality({r \in Requests : req[r].pc = "charge"})

CountPayments(r) ==
  /\ r \in Initiators /\ req[r].pc = "idle" /\ ReferenceLeft
  /\ req' = [req EXCEPT ![r] = [pc |-> "charge", target |-> NoPayment,
                                number |-> Cardinality(Existing) + 1]]
  /\ UNCHANGED <<payment, booking, stepDone, world, covered>>

ProviderInitiate(r, p) ==
  /\ req[r].pc = "charge" /\ provider[p] = "none"
  /\ provider' = [provider EXCEPT ![p] = "pending"]
  /\ callbacks' = IF Orderly THEN callbacks ELSE callbacks \union {<<p, "pending">>}
  /\ req' = [req EXCEPT ![r].pc = "createPayment", ![r].target = p]
  /\ UNCHANGED <<payment, booking, stepDone, refunds, covered>>

CreatePayment(r) ==
  /\ req[r].pc = "createPayment"
  /\ payment' = [payment EXCEPT ![req[r].target] =
                   [status |-> "pending", receipt |-> FALSE, number |-> req[r].number]]
  /\ Remember
  /\ Finish(r)
  /\ UNCHANGED <<booking, stepDone, world>>

-----------------------------------------------------------------------------
(* PaymentsService.handleWebhook: the status is whatever the callback says, *)
(* whatever the row said before; a success is followed by a reconciliation. *)
(* A callback whose row does not exist yet is answered 404 and stays with   *)
(* the provider, which retries.                                             *)

\* Mutant: every callback leaves a receipt.
WebhookReceipts(r, p, s) ==
  /\ req[r].pc = "idle" /\ <<p, s>> \in callbacks /\ Exists(p)
  /\ payment' = [payment EXCEPT ![p].status = s, ![p].receipt = TRUE]
  /\ callbacks' = IF Orderly THEN callbacks \ {<<p, s>>} ELSE callbacks
  /\ Remember
  /\ IF s = "succeeded" THEN Start(r, "reconcile", p) ELSE UNCHANGED req
  /\ UNCHANGED <<booking, stepDone, provider, refunds>>

\* Mutant: only the first success is reconciled.
WebhookReconcilesFirst(r, p, s) ==
  /\ req[r].pc = "idle" /\ <<p, s>> \in callbacks /\ Exists(p)
  /\ payment' = [payment EXCEPT ![p].status = s, ![p].receipt = @ \/ s = "succeeded"]
  /\ callbacks' = IF Orderly THEN callbacks \ {<<p, s>>} ELSE callbacks
  /\ Remember
  /\ IF s = "succeeded" /\ Succeeded = {} THEN Start(r, "reconcile", p) ELSE UNCHANGED req
  /\ UNCHANGED <<booking, stepDone, provider, refunds>>

Webhook(r, p, s) ==
  /\ req[r].pc = "idle" /\ <<p, s>> \in callbacks /\ Exists(p)
  /\ payment' = [payment EXCEPT ![p].status = s, ![p].receipt = @ \/ s = "succeeded"]
  /\ callbacks' = IF Orderly THEN callbacks \ {<<p, s>>} ELSE callbacks
  /\ Remember
  /\ IF s = "succeeded" THEN Start(r, "reconcile", p) ELSE UNCHANGED req
  /\ UNCHANGED <<booking, stepDone, provider, refunds>>

\* Mutant: installments given back still count.
ReconcileCountsRefunds(r) ==
  /\ req[r].pc = "reconcile"
  /\ IF TotalOf({p \in Payments : payment[p].receipt}) >= Price
       THEN Goto(r, "markStep") ELSE Finish(r)
  /\ UNCHANGED <<payment, booking, stepDone, world, covered>>

Reconcile(r) ==
  /\ req[r].pc = "reconcile"
  /\ IF TotalOf(Succeeded) >= Price THEN Goto(r, "markStep") ELSE Finish(r)
  /\ UNCHANGED <<payment, booking, stepDone, world, covered>>

MarkStep(r) ==
  /\ req[r].pc = "markStep"
  /\ stepDone' = TRUE
  /\ Finish(r)
  /\ UNCHANGED <<payment, booking, world, covered>>

-----------------------------------------------------------------------------
(* PaymentsService.requestRefund: the payment must read SUCCEEDED and the   *)
(* rate of the booking's schedule must not be zero; the provider is called, *)
(* then the row is written.                                                 *)

\* Mutant: the status of the payment is not tested.
RefundReadAny(r, p) ==
  /\ r \in Refunders /\ req[r].pc = "idle" /\ Exists(p)
  /\ Start(r, "refundRate", p)
  /\ UNCHANGED <<payment, booking, stepDone, world, covered>>

RefundRead(r, p) ==
  /\ r \in Refunders /\ req[r].pc = "idle" /\ payment[p].status = "succeeded"
  /\ Start(r, "refundRate", p)
  /\ UNCHANGED <<payment, booking, stepDone, world, covered>>

\* A confirmed booking is refunded by its schedule, which may say zero; a
\* cancelled one never is (RefundPolicy!Rate).
RefundRate(r) ==
  /\ req[r].pc = "refundRate"
  /\ \/ booking \in {"pending_payment", "confirmed"} /\ Goto(r, "refundCall")
     \/ booking \in {"confirmed", "cancelled"} /\ Finish(r)
  /\ UNCHANGED <<payment, booking, stepDone, world, covered>>

\* The provider may or may not report the refund by a callback of its own.
RefundCall(r) ==
  /\ req[r].pc = "refundCall"
  /\ refunds' = [refunds EXCEPT ![req[r].target] = More(@)]
  /\ callbacks' \in {callbacks, callbacks \union {<<req[r].target, "refunded">>}}
  /\ Goto(r, "refundWrite")
  /\ UNCHANGED <<payment, booking, stepDone, provider, covered>>

RefundWrite(r) ==
  /\ req[r].pc = "refundWrite"
  /\ payment' = [payment EXCEPT ![req[r].target].status = "refunded"]
  /\ Remember
  /\ Finish(r)
  /\ UNCHANGED <<booking, stepDone, world>>

-----------------------------------------------------------------------------
Drop(r) ==
  /\ MayFail /\ req[r].pc # "idle"
  /\ Finish(r)
  /\ UNCHANGED <<payment, booking, stepDone, world, covered>>

\* External: the provider settles a charge and says so.
ProviderSettles(p) ==
  /\ provider[p] = "pending"
  /\ \/ /\ provider' = [provider EXCEPT ![p] = "paid"]
        /\ callbacks' = callbacks \union {<<p, "succeeded">>}
     \/ /\ provider' = [provider EXCEPT ![p] = "declined"]
        /\ callbacks' = callbacks \union {<<p, "failed">>}
  /\ UNCHANGED <<payment, booking, stepDone, req, refunds, covered>>

BookingMoves ==
  /\ \/ stepDone /\ booking = "pending_payment" /\ booking' = "confirmed"
     \/ booking' = "cancelled"
  /\ UNCHANGED <<payment, stepDone, req, world, covered>>

Continue(r) ==
  \/ \E p \in Payments : ProviderInitiate(r, p)
  \/ CreatePayment(r) \/ Reconcile(r) \/ MarkStep(r)
  \/ RefundRate(r) \/ RefundCall(r) \/ RefundWrite(r)

Call(r) ==
  \/ CountPayments(r)
  \/ \E p \in Payments, s \in Status : Webhook(r, p, s)
  \/ \E p \in Payments : RefundRead(r, p)

Next ==
  \/ \E r \in Requests : Call(r) \/ Continue(r) \/ Drop(r)
  \/ \E p \in Payments : ProviderSettles(p)
  \/ BookingMoves

Spec == Init /\ [][Next]_vars
FairSpec == Spec /\ \A r \in Requests : WF_vars(Continue(r))

-----------------------------------------------------------------------------
(* Properties *)

\* A payment shown paid or given back, and every receipt, is backed by a charge
\* the provider settled: no status comes from anywhere but its callback, however
\* callbacks, refunds and failures interleave.
MoneyWasReceived ==
  \A p \in Payments :
    payment[p].receipt \/ payment[p].status \in {"succeeded", "refunded"}
      => provider[p] = "paid"

\* The provider is only ever ordered to give back what it has received, and only
\* for a payment that carries a receipt.
RefundsWerePaid ==
  \A p \in Payments : refunds[p] > 0 => payment[p].receipt /\ provider[p] = "paid"

\* The PAYMENT step is marked by payments only if the installments that were
\* SUCCEEDED together covered the price at some moment.
StepWasCovered == stepDone => covered

\* When the succeeded installments end up covering the price, the step is marked
\* even if their callbacks were handled concurrently.
CoveredBookingIsMarked == <>[](TotalOf(Succeeded) >= Price) => <>stepDone

\* With one refund request at a time, callbacks handled once and no failure, each
\* payment follows its lifecycle, whatever webhooks and initiations interleave.
Lifecycle == INSTANCE PaymentLifecycle WITH
  status <- [p \in Payments |-> payment[p].status],
  orders <- refunds
ImplementsLifecycle == Lifecycle!Spec

\* Only a payment that still reads SUCCEEDED is refunded.
RefundedOnce == \A p \in Payments : refunds[p] <= 1
=============================================================================
