--------------------------- MODULE PaymentsProofs ---------------------------
(***************************************************************************)
(* Proofs about Payments for any number of installments and of concurrent  *)
(* requests, any amounts and any price.                                    *)
(***************************************************************************)
EXTENDS Payments, FiniteSetTheorems, TLAPS

-----------------------------------------------------------------------------
(* How a handler moves its own slot *)

LEMMA IdleIsRequest == Idle \in Request
  BY PaymentsAssumption DEF Idle, Request, Pc

Others(r) == \A q \in Requests \ {r} : req'[q] = req[q]

LEMMA SlotTypes ==
  ASSUME req \in [Requests -> Request], NEW r \in Requests,
         NEW pc \in Pc, NEW p \in Payments \union {NoPayment}
  PROVE  /\ Finish(r) => req' \in [Requests -> Request]
         /\ Goto(r, pc) => req' \in [Requests -> Request]
         /\ Start(r, pc, p) => req' \in [Requests -> Request]
  <1>1. [Idle EXCEPT !.pc = pc, !.target = p] \in Request
    BY IdleIsRequest DEF Request, Idle
  <1>2. [req[r] EXCEPT !.pc = pc] \in Request
    BY DEF Request
  <1>3. Goto(r, pc) => req' = [req EXCEPT ![r] = [req[r] EXCEPT !.pc = pc]]
    BY DEF Goto
  <1>4. QED
    BY <1>1, <1>2, <1>3, IdleIsRequest DEF Finish, Start

LEMMA SlotEffects ==
  ASSUME req \in [Requests -> Request], NEW r \in Requests,
         NEW pc \in Pc, NEW p \in Payments \union {NoPayment}
  PROVE  /\ Finish(r) => Others(r) /\ req'[r].pc = "idle"
         /\ Goto(r, pc) => Others(r) /\ req'[r].pc = pc /\ req'[r].target = req[r].target
         /\ Start(r, pc, p) => Others(r) /\ req'[r].pc = pc /\ req'[r].target = p
  <1>1. Finish(r) => Others(r) /\ req'[r].pc = "idle"
    BY DEF Finish, Others, Idle
  <1>2. Goto(r, pc) => Others(r) /\ req'[r].pc = pc /\ req'[r].target = req[r].target
    BY DEF Goto, Others, Request
  <1>3. Start(r, pc, p) => Others(r) /\ req'[r].pc = pc /\ req'[r].target = p
    BY DEF Start, Others, Idle
  <1>4. QED
    BY <1>1, <1>2, <1>3

-----------------------------------------------------------------------------
(* Types *)

LEMMA MoreIsCount == ASSUME NEW n \in 0..2 PROVE More(n) \in 0..2
  BY DEF More

LEMMA RowUpdate ==
  ASSUME NEW row \in PaymentRow, NEW s \in Status, NEW c \in BOOLEAN
  PROVE  [row EXCEPT !.status = s, !.receipt = c] \in PaymentRow
  BY DEF PaymentRow

LEMMA NumberIsNat == Existing \subseteq Payments /\ Cardinality(Existing) + 1 \in Nat
  BY PaymentsAssumption, FS_Subset, FS_CardinalityType DEF Existing

\* A request inside initiate or requestRefund knows its payment.
WithTarget == {"createPayment", "refundRate", "refundCall", "refundWrite"}
TargetInv == \A r \in Requests : req[r].pc \in WithTarget => req[r].target \in Payments

\* Every variable keeps its type: a row only ever holds a status of the enum.
LEMMA TypesHold == Spec => [](TypeOK /\ TargetInv)
  <1> USE PaymentsAssumption, IdleIsRequest
  <1>1. Init => TypeOK /\ TargetInv
    <2> SUFFICES ASSUME Init PROVE TypeOK /\ TargetInv
      OBVIOUS
    <2>1. covered \in BOOLEAN
      BY DEF Init
    <2>2. Absent \in PaymentRow
      BY DEF Absent, PaymentRow
    <2>3. TargetInv
      BY DEF Init, TargetInv, WithTarget, Idle
    <2>4. /\ payment \in [Payments -> PaymentRow]
          /\ req \in [Requests -> Request]
      BY <2>2 DEF Init
    <2>5. /\ provider \in [Payments -> {"none", "pending", "paid", "declined"}]
          /\ callbacks \subseteq Payments \X Status
          /\ refunds \in [Payments -> 0..2]
          /\ booking = "pending_payment" /\ stepDone = FALSE
      BY DEF Init
    <2>6. QED
      BY <2>1, <2>3, <2>4, <2>5 DEF TypeOK
  <1>2. TypeOK /\ TargetInv /\ [Next]_vars => TypeOK'
    <2> SUFFICES ASSUME TypeOK, TargetInv, [Next]_vars PROVE TypeOK'
      OBVIOUS
    <2> USE DEF TypeOK, world
    <2>1. ASSUME NEW r \in Requests, CountPayments(r) PROVE TypeOK'
      <3>1. [pc |-> "charge", target |-> NoPayment,
             number |-> Cardinality(Existing) + 1] \in Request
        BY NumberIsNat DEF Request, Pc
      <3>2. QED
        BY <2>1, <3>1 DEF CountPayments
    <2>2. ASSUME NEW r \in Requests, NEW p \in Payments, ProviderInitiate(r, p) PROVE TypeOK'
      <3>1. [req[r] EXCEPT !.pc = "createPayment", !.target = p] \in Request
        BY DEF Request, Pc
      <3>2. req' = [req EXCEPT ![r] = [req[r] EXCEPT !.pc = "createPayment", !.target = p]]
        BY <2>2 DEF ProviderInitiate
      <3>3. QED
        BY <2>2, <3>1, <3>2 DEF ProviderInitiate, Status
    <2>3. ASSUME NEW r \in Requests, CreatePayment(r) PROVE TypeOK'
      <3>1. [status |-> "pending", receipt |-> FALSE, number |-> req[r].number] \in PaymentRow
        BY DEF PaymentRow, Status, Request
      <3>2. payment' \in [Payments -> PaymentRow] /\ req' \in [Requests -> Request]
        BY <2>3, <3>1, SlotTypes DEF CreatePayment, Pc
      <3>3. covered' \in BOOLEAN
        BY <2>3 DEF CreatePayment, Remember
      <3>4. QED
        BY <2>3, <3>2, <3>3 DEF CreatePayment
    <2>4. ASSUME NEW r \in Requests, NEW p \in Payments, NEW s \in Status, Webhook(r, p, s)
          PROVE  TypeOK'
      <3>1. payment' \in [Payments -> PaymentRow]
        <4>1. PICK c \in BOOLEAN :
                payment' = [payment EXCEPT ![p] = [payment[p] EXCEPT !.status = s, !.receipt = c]]
          BY <2>4 DEF Webhook, PaymentRow
        <4>2. QED
          BY <4>1, RowUpdate
      <3>2. req' \in [Requests -> Request] /\ callbacks' \subseteq Payments \X Status
        BY <2>4, SlotTypes DEF Webhook, Pc
      <3>3. covered' \in BOOLEAN
        BY <2>4 DEF Webhook, Remember
      <3>4. QED
        BY <2>4, <3>1, <3>2, <3>3 DEF Webhook
    <2>5. ASSUME NEW r \in Requests, Reconcile(r) PROVE TypeOK'
      BY <2>5, SlotTypes DEF Reconcile, Pc
    <2>6. ASSUME NEW r \in Requests, MarkStep(r) PROVE TypeOK'
      BY <2>6, SlotTypes DEF MarkStep, Pc
    <2>7. ASSUME NEW r \in Requests, NEW p \in Payments, RefundRead(r, p) PROVE TypeOK'
      BY <2>7, SlotTypes DEF RefundRead, Pc
    <2>8. ASSUME NEW r \in Requests, RefundRate(r) PROVE TypeOK'
      BY <2>8, SlotTypes DEF RefundRate, Pc
    <2>9. ASSUME NEW r \in Requests, RefundCall(r) PROVE TypeOK'
      <3>1. refunds' \in [Payments -> 0..2]
        BY <2>9, MoreIsCount DEF RefundCall
      <3>2. callbacks' \subseteq Payments \X Status
        BY <2>9 DEF RefundCall, Status, TargetInv, WithTarget
      <3>3. QED
        BY <2>9, <3>1, <3>2, SlotTypes DEF RefundCall, Pc
    <2>10. ASSUME NEW r \in Requests, RefundWrite(r) PROVE TypeOK'
      <3>1. payment' \in [Payments -> PaymentRow]
        BY <2>10 DEF RefundWrite, PaymentRow, Status
      <3>2. req' \in [Requests -> Request]
        BY <2>10, SlotTypes DEF RefundWrite, Pc
      <3>3. covered' \in BOOLEAN
        BY <2>10 DEF RefundWrite, Remember
      <3>4. QED
        BY <2>10, <3>1, <3>2, <3>3 DEF RefundWrite
    <2>11. ASSUME NEW r \in Requests, Drop(r) PROVE TypeOK'
      BY <2>11, SlotTypes DEF Drop, Pc
    <2>12. ASSUME NEW p \in Payments, ProviderSettles(p) PROVE TypeOK'
      BY <2>12 DEF ProviderSettles, Status
    <2>13. CASE BookingMoves
      BY <2>13 DEF BookingMoves
    <2>14. CASE UNCHANGED vars
      BY <2>14 DEF vars
    <2>15. QED
      BY <2>1, <2>2, <2>3, <2>4, <2>5, <2>6, <2>7, <2>8, <2>9, <2>10, <2>11, <2>12,
         <2>13, <2>14 DEF Next, Call, Continue
  <1>3. TypeOK /\ TargetInv /\ [Next]_vars => TargetInv'
    <2> SUFFICES ASSUME TypeOK, TargetInv, [Next]_vars PROVE TargetInv'
      OBVIOUS
    <2> USE DEF TargetInv, WithTarget, Others
    <2>1. ASSUME NEW r \in Requests, Call(r) PROVE TargetInv'
      <3>1. CASE CountPayments(r)
        BY <3>1 DEF CountPayments
      <3>2. ASSUME NEW p \in Payments, NEW s \in Status, Webhook(r, p, s) PROVE TargetInv'
        BY <3>2, SlotEffects DEF Webhook, Pc, TypeOK
      <3>3. ASSUME NEW p \in Payments, RefundRead(r, p) PROVE TargetInv'
        BY <3>3, SlotEffects DEF RefundRead, Pc, TypeOK
      <3>4. QED
        BY <2>1, <3>1, <3>2, <3>3 DEF Call
    <2>2. ASSUME NEW r \in Requests, NEW p \in Payments, ProviderInitiate(r, p)
          PROVE  TargetInv'
      BY <2>2 DEF ProviderInitiate, TypeOK, Request
    <2>3. ASSUME NEW r \in Requests,
                 CreatePayment(r) \/ MarkStep(r) \/ RefundWrite(r) \/ Drop(r)
          PROVE  TargetInv'
      BY <2>3, SlotEffects DEF CreatePayment, MarkStep, RefundWrite, Drop, Pc, TypeOK
    <2>4. ASSUME NEW r \in Requests, Reconcile(r) \/ RefundRate(r) \/ RefundCall(r)
          PROVE  TargetInv'
      BY <2>4, SlotEffects DEF Reconcile, RefundRate, RefundCall, Pc, TypeOK
    <2>5. ASSUME NEW p \in Payments, ProviderSettles(p) PROVE TargetInv'
      BY <2>5 DEF ProviderSettles
    <2>6. CASE BookingMoves
      BY <2>6 DEF BookingMoves
    <2>7. CASE UNCHANGED vars
      BY <2>7 DEF vars
    <2>8. QED
      BY <2>1, <2>2, <2>3, <2>4, <2>5, <2>6, <2>7 DEF Next, Continue
  <1>4. QED
    BY <1>1, <1>2, <1>3, PTL DEF Spec

\* Every variable keeps its type, for any number of installments and requests.
THEOREM TypeCorrect == Spec => []TypeOK
  BY TypesHold, PTL

\* How a slot comes to serve a refund, and how it comes to mark the step.
LEMMA SlotSteps ==
  ASSUME TypeOK, [Next]_vars, NEW r \in Requests
  PROVE  \/ req'[r] = req[r]
         \/ Call(r) \/ Continue(r) \/ Drop(r)
  <1>1. ASSUME NEW q \in Requests \ {r}, Call(q) \/ Continue(q) \/ Drop(q)
        PROVE  req'[r] = req[r]
    BY <1>1, SlotEffects
    DEF Call, Continue, Drop, CountPayments, ProviderInitiate, CreatePayment, Webhook,
        Reconcile, MarkStep, RefundRead, RefundRate, RefundCall, RefundWrite, TypeOK,
        Others, Pc
  <1>2. CASE BookingMoves \/ UNCHANGED vars \/ \E p \in Payments : ProviderSettles(p)
    BY <1>2 DEF BookingMoves, vars, ProviderSettles
  <1>3. QED
    BY <1>1, <1>2 DEF Next

LEMMA RefundSteps ==
  ASSUME TypeOK, [Next]_vars, NEW r \in Requests,
         req'[r].pc \in {"refundRate", "refundCall", "refundWrite"}
  PROVE  \/ req'[r] = req[r]
         \/ RefundRate(r) \/ RefundCall(r)
         \/ \E p \in Payments : RefundRead(r, p)
  <1>1. CASE CountPayments(r) \/ Drop(r) \/ CreatePayment(r) \/ Reconcile(r) \/ MarkStep(r)
               \/ RefundWrite(r)
    BY <1>1, SlotEffects
    DEF Drop, CountPayments, CreatePayment, Reconcile, MarkStep, RefundWrite, TypeOK, Pc
  <1>2. ASSUME NEW p \in Payments, ProviderInitiate(r, p) PROVE FALSE
    BY <1>2 DEF ProviderInitiate, TypeOK, Request
  <1>3. ASSUME NEW p \in Payments, NEW s \in Status, Webhook(r, p, s) PROVE req'[r] = req[r]
    BY <1>3, SlotEffects DEF Webhook, TypeOK, Pc
  <1>4. QED
    BY <1>1, <1>2, <1>3, SlotSteps DEF Call, Continue

LEMMA MarkSteps ==
  ASSUME TypeOK, [Next]_vars, NEW r \in Requests, req'[r].pc = "markStep"
  PROVE  req[r].pc = "markStep" \/ (Reconcile(r) /\ TotalOf(Succeeded) >= Price)
  <1>1. CASE CountPayments(r) \/ Drop(r) \/ CreatePayment(r) \/ MarkStep(r)
               \/ RefundRate(r) \/ RefundCall(r) \/ RefundWrite(r)
    BY <1>1, SlotEffects
    DEF Drop, CountPayments, CreatePayment, MarkStep, RefundRate, RefundCall, RefundWrite,
        TypeOK, Pc
  <1>2. ASSUME NEW p \in Payments, ProviderInitiate(r, p) PROVE FALSE
    BY <1>2 DEF ProviderInitiate, TypeOK, Request
  <1>3. ASSUME NEW p \in Payments, NEW s \in Status, Webhook(r, p, s) PROVE req'[r] = req[r]
    BY <1>3, SlotEffects DEF Webhook, TypeOK, Pc
  <1>4. ASSUME NEW p \in Payments, RefundRead(r, p) PROVE FALSE
    BY <1>4, SlotEffects DEF RefundRead, TypeOK, Pc
  <1>5. ASSUME Reconcile(r) PROVE TotalOf(Succeeded) >= Price
    BY <1>5, SlotEffects DEF Reconcile, TypeOK, Pc
  <1>6. CASE req'[r] = req[r] \/ Drop(r)
    BY <1>1, <1>6
  <1>7. CASE Call(r)
    BY <1>1, <1>3, <1>4, <1>6, <1>7 DEF Call
  <1>8. CASE Continue(r)
    BY <1>1, <1>2, <1>5, <1>6, <1>8 DEF Continue
  <1>9. QED
    BY <1>6, <1>7, <1>8, SlotSteps

-----------------------------------------------------------------------------
(* The money.  A receipt is only issued by a callback, and a truthful       *)
(* provider only says "succeeded" of a charge it was paid; a refund is only *)
(* ordered by a request that once read the payment SUCCEEDED.  The first    *)
(* conjuncts say that an initiation still owns a reference without a row,   *)
(* so that inserting it destroys no receipt.                                *)

CreateInv ==
  /\ \A p \in Payments : Exists(p) \/ payment[p].receipt => provider[p] # "none"
  /\ \A r \in Requests : req[r].pc = "createPayment" =>
       /\ provider[req[r].target] # "none"
       /\ ~Exists(req[r].target) /\ ~payment[req[r].target].receipt
  /\ \A r, q \in Requests :
       /\ req[r].pc = "createPayment" /\ req[q].pc = "createPayment"
       /\ req[r].target = req[q].target
       => r = q

\* A refund works on a row that exists.
RefundInv == \A r \in Requests :
  req[r].pc \in {"refundRate", "refundCall", "refundWrite"} => Exists(req[r].target)

Backed(p) == payment[p].receipt /\ provider[p] = "paid"

\* No row is ever deleted, and only three handlers write one.
LEMMA RowsAreKept ==
  ASSUME TypeOK, TargetInv, [Next]_vars, NEW p \in Payments, Exists(p)
  PROVE  Exists(p)'
  <1>1. ASSUME NEW r \in Requests, CreatePayment(r) PROVE Exists(p)'
    BY <1>1 DEF CreatePayment, Exists, TypeOK, TargetInv, WithTarget
  <1>2. ASSUME NEW r \in Requests, NEW q \in Payments, NEW s \in Status, Webhook(r, q, s)
        PROVE  Exists(p)'
    BY <1>2 DEF Webhook, Exists, TypeOK, PaymentRow, Status
  <1>3. ASSUME NEW r \in Requests, RefundWrite(r) PROVE Exists(p)'
    BY <1>3 DEF RefundWrite, Exists, TypeOK, PaymentRow
  <1>4. CASE UNCHANGED payment
    BY <1>4 DEF Exists
  <1>5. QED
    BY <1>1, <1>2, <1>3, <1>4
    DEF Next, Call, Continue, CountPayments, ProviderInitiate, Reconcile, MarkStep,
        RefundRead, RefundRate, RefundCall, Drop, ProviderSettles, BookingMoves, vars

LEMMA RefundInvHolds == Spec => []RefundInv
  <1>1. Init => RefundInv
    BY DEF Init, RefundInv, Idle
  <1>2. TypeOK /\ TargetInv /\ RefundInv /\ [Next]_vars => RefundInv'
    <2> SUFFICES ASSUME TypeOK, TargetInv, RefundInv, [Next]_vars,
                        NEW r \in Requests,
                        req'[r].pc \in {"refundRate", "refundCall", "refundWrite"}
                 PROVE  payment'[req'[r].target].status # "absent"
      BY DEF RefundInv, Exists
    <2>1. /\ req'[r].target \in Payments
          /\ Exists(req'[r].target)
      <3>1. CASE req'[r] = req[r] \/ RefundRate(r) \/ RefundCall(r)
        <4>1. /\ req[r].pc \in {"refundRate", "refundCall", "refundWrite"}
              /\ req'[r].target = req[r].target
          BY <3>1, SlotEffects DEF RefundRate, RefundCall, TypeOK, Pc
        <4>2. QED
          BY <4>1 DEF RefundInv, TargetInv, WithTarget
      <3>2. ASSUME NEW p \in Payments, RefundRead(r, p)
            PROVE  req'[r].target = p /\ Exists(p)
        BY <3>2, SlotEffects DEF RefundRead, Exists, TypeOK, Pc
      <3>3. QED
        BY <3>1, <3>2, RefundSteps
    <2>2. PICK p \in Payments : p = req'[r].target
      BY <2>1
    <2>3. Exists(p)'
      BY <2>1, <2>2, RowsAreKept
    <2>4. QED
      BY <2>2, <2>3 DEF Exists
  <1>3. QED
    BY <1>1, <1>2, TypesHold, PTL DEF Spec

\* A handler that writes an existing row, and inserts none, keeps it.
LEMMA KeepsCreateInv ==
  ASSUME CreateInv, TargetInv, NEW r \in Requests, NEW p \in Payments,
         Exists(p), Exists(p)', \A q \in Payments \ {p} : payment'[q] = payment[q],
         Others(r), req'[r].pc # "createPayment", UNCHANGED provider
  PROVE  CreateInv'
  <1>1. \A q \in Requests : req'[q].pc = "createPayment" =>
          q # r /\ req'[q] = req[q] /\ req[q].target \in Payments \ {p}
    BY DEF Others, CreateInv, TargetInv, WithTarget
  <1>2. \A q \in Payments \ {p} : Exists(q)' = Exists(q)
    BY DEF Exists
  <1>3. \A q \in Payments : Exists(q)' \/ payment'[q].receipt => provider'[q] # "none"
    BY <1>2 DEF CreateInv
  <1>4. \A q \in Requests : req'[q].pc = "createPayment" =>
          /\ provider'[req'[q].target] # "none"
          /\ payment'[req'[q].target].status = "absent" /\ ~payment'[req'[q].target].receipt
    <2> SUFFICES ASSUME NEW q \in Requests, req'[q].pc = "createPayment"
                 PROVE  /\ provider'[req'[q].target] # "none"
                        /\ payment'[req'[q].target].status = "absent"
                        /\ ~payment'[req'[q].target].receipt
      OBVIOUS
    <2>1. req'[q] = req[q] /\ req[q].target \in Payments \ {p}
      BY <1>1
    <2>2. QED
      BY <2>1 DEF CreateInv, Exists
  <1>5. \A q, u \in Requests :
          /\ req'[q].pc = "createPayment" /\ req'[u].pc = "createPayment"
          /\ req'[q].target = req'[u].target
          => q = u
    BY <1>1 DEF CreateInv
  <1>6. QED
    BY <1>3, <1>4, <1>5 DEF CreateInv, Exists

LEMMA CreateInvHolds == Spec => []CreateInv
  <1>1. Init => CreateInv
    BY DEF Init, CreateInv, Exists, Absent, Idle
  <1>2. TypeOK /\ TargetInv /\ RefundInv /\ CreateInv /\ [Next]_vars => CreateInv'
    <2> SUFFICES ASSUME TypeOK, TargetInv, RefundInv, CreateInv, [Next]_vars PROVE CreateInv'
      OBVIOUS
    <2>1. ASSUME NEW r \in Requests, CountPayments(r) PROVE CreateInv'
      BY <2>1 DEF CountPayments, CreateInv, Exists, world, TypeOK, TargetInv, WithTarget
    <2>2. ASSUME NEW r \in Requests, NEW p \in Payments, ProviderInitiate(r, p)
          PROVE  CreateInv'
      BY <2>2 DEF ProviderInitiate, CreateInv, Exists, TypeOK, Request, TargetInv, WithTarget
    <2>3. ASSUME NEW r \in Requests, CreatePayment(r) PROVE CreateInv'
      BY <2>3, SlotEffects
      DEF CreatePayment, CreateInv, Exists, world, TypeOK, PaymentRow, TargetInv,
          WithTarget, Others, Pc
    <2>4. ASSUME NEW r \in Requests, NEW p \in Payments, NEW s \in Status, Webhook(r, p, s)
          PROVE  CreateInv'
      <3>1. /\ Exists(p) /\ Exists(p)'
            /\ \A q \in Payments \ {p} : payment'[q] = payment[q]
        BY <2>4 DEF Webhook, Exists, TypeOK, PaymentRow, Status
      <3>2. Others(r) /\ req'[r].pc # "createPayment"
        BY <2>4, SlotEffects DEF Webhook, TypeOK, Others, Pc
      <3>3. UNCHANGED provider
        BY <2>4 DEF Webhook
      <3>4. QED
        BY <3>1, <3>2, <3>3, KeepsCreateInv
    <2>5. ASSUME NEW r \in Requests,
                 Reconcile(r) \/ MarkStep(r) \/ RefundRate(r) \/ RefundCall(r) \/ Drop(r)
          PROVE  CreateInv'
      <3>1. Others(r) /\ req'[r].pc # "createPayment"
        BY <2>5, SlotEffects
        DEF Reconcile, MarkStep, RefundRate, RefundCall, Drop, TypeOK, Pc
      <3>2. UNCHANGED <<payment, provider>>
        BY <2>5 DEF Reconcile, MarkStep, RefundRate, RefundCall, Drop, world
      <3>3. QED
        BY <3>1, <3>2 DEF CreateInv, Exists, Others
    <2>6. ASSUME NEW r \in Requests, NEW p \in Payments, RefundRead(r, p) PROVE CreateInv'
      BY <2>6, SlotEffects DEF RefundRead, CreateInv, Exists, world, TypeOK, Others, Pc
    <2>7. ASSUME NEW r \in Requests, RefundWrite(r) PROVE CreateInv'
      <3> DEFINE t == req[r].target
      <3>0. t \in Payments
        BY <2>7 DEF RefundWrite, TargetInv, WithTarget
      <3>1. PICK p \in Payments : p = t
        BY <3>0
      <3>2. Exists(p)' /\ \A q \in Payments \ {p} : payment'[q] = payment[q]
        BY <2>7, <3>1 DEF RefundWrite, Exists, TypeOK, PaymentRow
      <3>3. Others(r) /\ req'[r].pc # "createPayment"
        BY <2>7, SlotEffects DEF RefundWrite, TypeOK, Others, Pc
      <3>4. UNCHANGED provider
        BY <2>7 DEF RefundWrite, world
      <3>5. Exists(p)
        BY <2>7, <3>1 DEF RefundWrite, RefundInv
      <3>6. QED
        BY <3>2, <3>3, <3>4, <3>5, KeepsCreateInv
    <2>8. ASSUME NEW p \in Payments, ProviderSettles(p) PROVE CreateInv'
      BY <2>8 DEF ProviderSettles, CreateInv, Exists, TypeOK, TargetInv, WithTarget
    <2>9. CASE BookingMoves \/ UNCHANGED vars
      BY <2>9 DEF BookingMoves, vars, world, CreateInv, Exists
    <2>10. QED
      BY <2>1, <2>2, <2>3, <2>4, <2>5, <2>6, <2>7, <2>8, <2>9 DEF Next, Call, Continue
  <1>3. QED
    BY <1>1, <1>2, TypesHold, RefundInvHolds, PTL DEF Spec
\* A paid charge stays paid, and a receipt is never taken away.
LEMMA PaidIsKept ==
  ASSUME TypeOK, [Next]_vars, NEW p \in Payments, provider[p] = "paid"
  PROVE  provider'[p] = "paid"
  <1>1. ASSUME NEW r \in Requests, NEW q \in Payments, ProviderInitiate(r, q)
        PROVE  provider'[p] = "paid"
    BY <1>1 DEF ProviderInitiate, TypeOK
  <1>2. ASSUME NEW q \in Payments, ProviderSettles(q) PROVE provider'[p] = "paid"
    BY <1>2 DEF ProviderSettles, TypeOK
  <1>3. CASE UNCHANGED provider
    BY <1>3
  <1>4. QED
    BY <1>1, <1>2, <1>3
    DEF Next, Call, Continue, CountPayments, CreatePayment, Webhook, Reconcile, MarkStep,
        RefundRead, RefundRate, RefundCall, RefundWrite, Drop, BookingMoves, vars, world

LEMMA ReceiptIsKept ==
  ASSUME TypeOK, TargetInv, CreateInv, [Next]_vars, NEW p \in Payments, payment[p].receipt
  PROVE  payment'[p].receipt
  <1>1. ASSUME NEW r \in Requests, CreatePayment(r) PROVE payment'[p].receipt
    BY <1>1 DEF CreatePayment, TypeOK, CreateInv
  <1>2. ASSUME NEW r \in Requests, NEW q \in Payments, NEW s \in Status, Webhook(r, q, s)
        PROVE  payment'[p].receipt
    BY <1>2 DEF Webhook, TypeOK, PaymentRow
  <1>3. ASSUME NEW r \in Requests, RefundWrite(r) PROVE payment'[p].receipt
    BY <1>3 DEF RefundWrite, TypeOK, PaymentRow
  <1>4. CASE UNCHANGED payment
    BY <1>4
  <1>5. QED
    BY <1>1, <1>2, <1>3, <1>4
    DEF Next, Call, Continue, CountPayments, ProviderInitiate, Reconcile, MarkStep,
        RefundRead, RefundRate, RefundCall, Drop, ProviderSettles, BookingMoves, vars

\* The parts of MoneyInv.
ShownInv == \A p \in Payments :
  /\ payment[p].receipt => provider[p] = "paid"
  /\ payment[p].status \in {"succeeded", "refunded"} => provider[p] = "paid"
  /\ payment[p].status = "succeeded" => payment[p].receipt
CallbackInv == \A p \in Payments :
  <<p, "succeeded">> \in callbacks \/ <<p, "refunded">> \in callbacks => provider[p] = "paid"
OrderInv == \A r \in Requests :
  req[r].pc \in {"refundRate", "refundCall", "refundWrite"} => Backed(req[r].target)

MoneyInv == ShownInv /\ CallbackInv /\ OrderInv /\ RefundsWerePaid

LEMMA MoneyInvHolds == Spec => []MoneyInv
  <1>1. Init => MoneyInv
    BY DEF Init, MoneyInv, ShownInv, CallbackInv, OrderInv, RefundsWerePaid, Absent, Idle
  <1> DEFINE Old == TypeOK /\ TargetInv /\ CreateInv /\ MoneyInv
  <1>2. Old /\ [Next]_vars => ShownInv'
    <2> SUFFICES ASSUME TypeOK, TargetInv, CreateInv, MoneyInv, [Next]_vars,
                        NEW p \in Payments
                 PROVE  /\ payment'[p].receipt => provider'[p] = "paid"
                        /\ payment'[p].status \in {"succeeded", "refunded"}
                             => provider'[p] = "paid"
                        /\ payment'[p].status = "succeeded" => payment'[p].receipt
      BY DEF ShownInv
    <2> USE PaidIsKept DEF MoneyInv, ShownInv
    <2>1. ASSUME NEW r \in Requests, CreatePayment(r)
          PROVE  \/ payment'[p] = payment[p]
                 \/ payment'[p].status = "pending" /\ ~payment'[p].receipt
      <3>1. CASE p = req[r].target
        BY <2>1, <3>1 DEF CreatePayment, TypeOK
      <3>2. CASE p # req[r].target
        BY <2>1, <3>2 DEF CreatePayment, TypeOK
      <3>3. QED
        BY <3>1, <3>2
    <2>2. ASSUME NEW r \in Requests, NEW q \in Payments, NEW s \in Status, Webhook(r, q, s)
          PROVE  \/ payment'[p] = payment[p]
                 \/ /\ <<p, s>> \in callbacks
                    /\ payment'[p].status = s
                    /\ payment'[p].receipt = (payment[p].receipt \/ s = "succeeded")
      <3>1. CASE p = q
        BY <2>2, <3>1 DEF Webhook, TypeOK, PaymentRow
      <3>2. CASE p # q
        BY <2>2, <3>2 DEF Webhook, TypeOK, PaymentRow
      <3>3. QED
        BY <3>1, <3>2
    <2>3. ASSUME NEW r \in Requests, RefundWrite(r)
          PROVE  \/ payment'[p] = payment[p]
                 \/ /\ Backed(p)
                    /\ payment'[p].status = "refunded"
                    /\ payment'[p].receipt = payment[p].receipt
      <3>1. req[r].target \in Payments /\ Backed(req[r].target)
        BY <2>3 DEF RefundWrite, TargetInv, WithTarget, OrderInv
      <3>2. CASE p = req[r].target
        BY <2>3, <3>1, <3>2 DEF RefundWrite, TypeOK, PaymentRow
      <3>3. CASE p # req[r].target
        BY <2>3, <3>3 DEF RefundWrite, TypeOK, PaymentRow
      <3>4. QED
        BY <3>2, <3>3
    <2>4. CASE UNCHANGED payment
      BY <2>4
    <2>5. ASSUME NEW r \in Requests, NEW q \in Payments, NEW s \in Status, Webhook(r, q, s)
          PROVE  /\ payment'[p].receipt => provider'[p] = "paid"
                 /\ payment'[p].status \in {"succeeded", "refunded"}
                      => provider'[p] = "paid"
                 /\ payment'[p].status = "succeeded" => payment'[p].receipt
      <3>1. CASE payment'[p] = payment[p]
        BY <3>1
      <3>2. CASE /\ <<p, s>> \in callbacks
                 /\ payment'[p].status = s
                 /\ payment'[p].receipt = (payment[p].receipt \/ s = "succeeded")
        <4>1. s \in {"succeeded", "refunded"} => provider[p] = "paid"
          BY <3>2 DEF CallbackInv
        <4>2. provider[p] = "paid" => provider'[p] = "paid"
          OBVIOUS
        <4>3. QED
          BY <3>2, <4>1, <4>2
      <3>3. QED
        BY <2>2, <2>5, <3>1, <3>2
    <2>6. QED
      BY <2>1, <2>3, <2>4, <2>5
      DEF Next, Call, Continue, CountPayments, ProviderInitiate, Reconcile, MarkStep,
          RefundRead, RefundRate, RefundCall, Drop, ProviderSettles, BookingMoves, vars,
          Backed
  <1>3. Old /\ [Next]_vars => CallbackInv'
    <2> SUFFICES ASSUME TypeOK, TargetInv, CreateInv, MoneyInv, [Next]_vars,
                        NEW p \in Payments,
                        <<p, "succeeded">> \in callbacks' \/ <<p, "refunded">> \in callbacks'
                 PROVE  provider'[p] = "paid"
      BY DEF CallbackInv
    <2> USE PaidIsKept DEF MoneyInv, CallbackInv
    <2>1. CASE callbacks' \subseteq callbacks
      BY <2>1
    <2>2. ASSUME NEW r \in Requests, NEW q \in Payments, ProviderInitiate(r, q)
          PROVE  provider'[p] = "paid"
      BY <2>2 DEF ProviderInitiate
    <2>3. ASSUME NEW r \in Requests, RefundCall(r) PROVE provider'[p] = "paid"
      BY <2>3 DEF RefundCall, OrderInv, Backed
    <2>4. ASSUME NEW q \in Payments, ProviderSettles(q) PROVE provider'[p] = "paid"
      BY <2>4 DEF ProviderSettles, TypeOK
    <2>5. ASSUME NEW r \in Requests, NEW q \in Payments, NEW s \in Status, Webhook(r, q, s)
          PROVE  callbacks' \subseteq callbacks
      BY <2>5 DEF Webhook
    <2>6. QED
      BY <2>1, <2>2, <2>3, <2>4, <2>5
      DEF Next, Call, Continue, CountPayments, CreatePayment, Reconcile, MarkStep,
          RefundRead, RefundRate, RefundWrite, Drop, BookingMoves, vars, world
  <1>4. Old /\ [Next]_vars => OrderInv'
    <2> SUFFICES ASSUME TypeOK, TargetInv, CreateInv, MoneyInv, [Next]_vars,
                        NEW r \in Requests,
                        req'[r].pc \in {"refundRate", "refundCall", "refundWrite"}
                 PROVE  payment'[req'[r].target].receipt /\ provider'[req'[r].target] = "paid"
      BY DEF OrderInv, Backed
    <2>1. /\ req'[r].target \in Payments
          /\ Backed(req'[r].target)
      <3>1. CASE \E p \in Payments : RefundRead(r, p)
        <4>1. PICK p \in Payments : RefundRead(r, p)
          BY <3>1
        <4>2. req'[r].target = p /\ payment[p].status = "succeeded"
          BY <4>1, SlotEffects DEF RefundRead, TypeOK, Pc
        <4>3. QED
          BY <4>2 DEF MoneyInv, ShownInv, Backed
      <3>2. CASE req'[r] = req[r] \/ RefundRate(r) \/ RefundCall(r)
        <4>1. /\ req[r].pc \in {"refundRate", "refundCall", "refundWrite"}
              /\ req'[r].target = req[r].target
          BY <3>2, SlotEffects DEF RefundRate, RefundCall, TypeOK, Pc
        <4>2. QED
          BY <4>1 DEF MoneyInv, OrderInv, TargetInv, WithTarget
      <3>3. QED
        BY <3>1, <3>2, RefundSteps
    <2>2. PICK p \in Payments : p = req'[r].target
      BY <2>1
    <2>3. QED
      BY <2>1, <2>2, PaidIsKept, ReceiptIsKept DEF Backed
  <1>5. Old /\ [Next]_vars => RefundsWerePaid'
    <2> SUFFICES ASSUME TypeOK, TargetInv, CreateInv, MoneyInv, [Next]_vars,
                        NEW p \in Payments, refunds'[p] > 0
                 PROVE  payment'[p].receipt /\ provider'[p] = "paid"
      BY DEF RefundsWerePaid
    <2>1. ASSUME NEW r \in Requests, RefundCall(r) PROVE refunds[p] > 0 \/ p = req[r].target
      BY <2>1 DEF RefundCall, TypeOK
    <2>2. ASSUME NEW r \in Requests, RefundCall(r) PROVE Backed(req[r].target)
      BY <2>2 DEF RefundCall, MoneyInv, OrderInv
    <2>3. (\E r \in Requests : RefundCall(r)) \/ UNCHANGED refunds
      BY DEF Next, Call, Continue, CountPayments, ProviderInitiate, CreatePayment, Webhook,
         Reconcile, MarkStep, RefundRead, RefundRate, RefundWrite, Drop, ProviderSettles,
         BookingMoves, vars, world
    <2>4. Backed(p)
      BY <2>1, <2>2, <2>3 DEF MoneyInv, RefundsWerePaid, Backed
    <2>5. QED
      BY <2>4, PaidIsKept, ReceiptIsKept DEF Backed
  <1>6. Old /\ [Next]_vars => MoneyInv'
    BY <1>2, <1>3, <1>4, <1>5 DEF MoneyInv
  <1>7. QED
    BY <1>1, <1>6, TypesHold, CreateInvHolds, PTL DEF Spec

\* Whatever callbacks, refunds, failures and initiations interleave, a payment shown
\* paid or given back is backed by a charge the provider settled.
THEOREM ReceiptsAreBacked == Spec => []MoneyWasReceived
  <1>1. MoneyInv => MoneyWasReceived
    BY DEF MoneyInv, ShownInv, MoneyWasReceived
  <1>2. QED
    BY <1>1, MoneyInvHolds, PTL

\* The provider is never ordered to give back a charge that it was not paid, or
\* whose payment carries no receipt.
THEOREM RefundsAreBacked == Spec => []RefundsWerePaid
  <1>1. MoneyInv => RefundsWerePaid
    BY DEF MoneyInv
  <1>2. QED
    BY <1>1, MoneyInvHolds, PTL

-----------------------------------------------------------------------------
(* The reconciliation.  A request about to mark the step has read a         *)
(* covering total, and "covered" remembers every such total.                *)

CoverInv ==
  /\ TotalOf(Succeeded) >= Price => covered
  /\ \A r \in Requests : req[r].pc = "markStep" => covered
  /\ stepDone => covered

LEMMA CoverInvHolds == Spec => []CoverInv
  <1>1. Init => CoverInv
    <2> SUFFICES ASSUME Init PROVE CoverInv
      OBVIOUS
    <2>1. Succeeded = {}
      BY DEF Init, Succeeded, Absent
    <2>2. QED
      BY <2>1 DEF Init, CoverInv, Idle
  <1>2. TypeOK /\ CoverInv /\ [Next]_vars => CoverInv'
    <2> SUFFICES ASSUME TypeOK, CoverInv, [Next]_vars PROVE CoverInv'
      OBVIOUS
    <2>1. UNCHANGED payment => UNCHANGED Succeeded
      BY DEF Succeeded
    <2>2. covered => covered'
      BY DEF Next, Call, Continue, CountPayments, ProviderInitiate, CreatePayment, Webhook,
         Reconcile, MarkStep, RefundRead, RefundRate, RefundCall, RefundWrite, Drop,
         ProviderSettles, BookingMoves, vars, world, Remember
    <2>3. TotalOf(Succeeded') >= Price => covered'
      BY <2>1
      DEF CoverInv, Next, Call, Continue, CountPayments, ProviderInitiate, CreatePayment,
          Webhook, Reconcile, MarkStep, RefundRead, RefundRate, RefundCall, RefundWrite,
          Drop, ProviderSettles, BookingMoves, vars, world, Remember
    <2>4. stepDone' => covered'
      BY <2>2
      DEF CoverInv, Next, Call, Continue, CountPayments, ProviderInitiate, CreatePayment,
          Webhook, Reconcile, MarkStep, RefundRead, RefundRate, RefundCall, RefundWrite,
          Drop, ProviderSettles, BookingMoves, vars, world
    <2>5. ASSUME NEW r \in Requests, req'[r].pc = "markStep" PROVE covered'
      <3>1. req[r].pc = "markStep" \/ (Reconcile(r) /\ TotalOf(Succeeded) >= Price)
        BY <2>5, MarkSteps
      <3>2. QED
        BY <3>1, <2>2 DEF CoverInv
    <2>6. (TotalOf(Succeeded) >= Price => covered)'
      BY <2>3
    <2>7. (\A r \in Requests : req[r].pc = "markStep" => covered)'
      BY <2>5
    <2>8. QED
      BY <2>4, <2>6, <2>7, Zenon DEF CoverInv
  <1>3. QED
    BY <1>1, <1>2, TypesHold, PTL DEF Spec

\* The PAYMENT step is only marked by payments when the succeeded installments
\* covered the price together.
THEOREM StepsAreCovered == Spec => []StepWasCovered
  <1>1. CoverInv => StepWasCovered
    BY DEF CoverInv, StepWasCovered
  <1>2. QED
    BY <1>1, CoverInvHolds, PTL

-----------------------------------------------------------------------------
(* The lifecycle, when refunds do not overlap *)

\* One request at a time gives refunds, no request dies, and the provider delivers each
\* callback once; any number of initiations and callbacks interleave with the refund.
OneRefundAtATime == Orderly /\ ~MayFail /\ \A r, q \in Refunders : r = q

\* What is known of a payment: an outcome that waits to be delivered finds it pending, and
\* one whose refund was ordered once, and does not show yet, has the refund to finish.
LifeAt(p) ==
  /\ <<p, "pending">> \notin callbacks
  /\ <<p, "succeeded">> \in callbacks =>
       provider[p] = "paid" /\ payment[p].status \in {"absent", "pending"}
  /\ <<p, "failed">> \in callbacks =>
       provider[p] = "declined" /\ payment[p].status \in {"absent", "pending"}
  /\ <<p, "refunded">> \in callbacks => refunds[p] = 1
  /\ provider[p] \in {"none", "pending"} => payment[p].status \in {"absent", "pending"}
  /\ refunds[p] # 0 => refunds[p] = 1 /\ payment[p].status \in {"succeeded", "refunded"}
  /\ refunds[p] = 1 /\ payment[p].status = "succeeded" =>
       \E r \in Refunders : req[r].pc = "refundWrite" /\ req[r].target = p

\* What a refund knows of its payment.
LifeOf(r) ==
  /\ req[r].pc \in {"refundRate", "refundCall"} =>
       r \in Refunders /\ payment[req[r].target].status = "succeeded" /\ refunds[req[r].target] = 0
  /\ req[r].pc = "refundWrite" => r \in Refunders /\ refunds[req[r].target] = 1

LifeInv == (\A p \in Payments : LifeAt(p)) /\ (\A r \in Requests : LifeOf(r))

\* The abstract steps, on the status shown for each payment.
SameShown == \A q \in Payments : payment'[q].status = payment[q].status
Shows(p, s) ==
  /\ payment'[p].status = s
  /\ \A q \in Payments \ {p} : payment'[q].status = payment[q].status

LifeStep ==
  \/ SameShown /\ UNCHANGED refunds
  \/ \E p \in Payments : UNCHANGED refunds /\
       \/ payment[p].status = "absent" /\ Shows(p, "pending")
       \/ payment[p].status = "pending" /\ \E s \in {"succeeded", "failed"} : Shows(p, s)
       \/ payment[p].status = "succeeded" /\ refunds[p] = 1 /\ Shows(p, "refunded")
  \/ \E p \in Payments :
       /\ SameShown /\ payment[p].status = "succeeded" /\ refunds[p] = 0
       /\ refunds' = [refunds EXCEPT ![p] = 1]

\* A step of a slot that neither enters nor leaves the writing of a refund, and a step of
\* no slot at all.
LEMMA LifeFrame ==
  ASSUME LifeInv, SameShown, UNCHANGED <<provider, callbacks, refunds>>, TypeOK, TargetInv,
         \/ UNCHANGED req
         \/ \E r \in Requests :
              /\ Others(r) /\ req[r].pc # "refundWrite"
              /\ req'[r].pc \notin {"refundRate", "refundCall", "refundWrite"}
  PROVE  LifeInv' /\ LifeStep
  <1>1. ASSUME NEW q \in Requests,
               req'[q].pc \in {"refundRate", "refundCall", "refundWrite"}
        PROVE  req'[q] = req[q]
    BY <1>1 DEF Others
  <1>2. ASSUME NEW q \in Requests, req[q].pc = "refundWrite"
        PROVE  req'[q] = req[q]
    BY <1>2 DEF Others
  <1>3. ASSUME NEW p \in Payments PROVE LifeAt(p)'
    <2>1. payment'[p].status = payment[p].status
      BY DEF SameShown
    <2> QED
      BY <2>1, <1>2, PaymentsAssumption DEF LifeInv, LifeAt
  <1>4. ASSUME NEW q \in Requests PROVE LifeOf(q)'
    <2>1. CASE req'[q] = req[q]
      BY <2>1 DEF LifeInv, LifeOf, SameShown, TargetInv, WithTarget
    <2>2. CASE req'[q] # req[q]
      BY <2>2, <1>1 DEF LifeOf
    <2> QED
      BY <2>1, <2>2
  <1> QED
    BY <1>3, <1>4 DEF LifeInv, LifeStep

\* A payment that is opened: nothing was reported of it, and no refund touches it.
LEMMA LifeCreate ==
  ASSUME LifeInv, TypeOK, TargetInv, CreateInv, NEW r \in Requests, CreatePayment(r)
  PROVE  LifeInv' /\ LifeStep
  <1>1. PICK t \in Payments : t = req[r].target
    BY DEF CreatePayment, TargetInv, WithTarget
  <1>2. /\ payment[t].status = "absent" /\ UNCHANGED <<provider, callbacks, refunds>>
        /\ req[r].pc = "createPayment"
    BY <1>1 DEF CreatePayment, CreateInv, Exists, world
  <1>3. Shows(t, "pending")
    BY <1>1 DEF CreatePayment, Shows, TypeOK
  <1>4. Others(r) /\ req'[r].pc = "idle"
    BY SlotEffects DEF CreatePayment, TypeOK, Pc
  <1>5. ASSUME NEW p \in Payments PROVE LifeAt(p)'
    <2>1. LifeAt(p) /\ LifeAt(t)
      BY DEF LifeInv
    <2>2. CASE p = t
      BY <2>1, <2>2, <1>2, <1>3 DEF LifeAt, Shows
    <2>3. CASE p # t
      <3>1. payment'[p].status = payment[p].status
        BY <2>3, <1>3 DEF Shows
      <3> QED
        BY <2>1, <3>1, <1>2, <1>4, PaymentsAssumption DEF LifeAt, Others
    <2> QED
      BY <2>2, <2>3
  <1>6. ASSUME NEW q \in Requests PROVE LifeOf(q)'
    <2>1. CASE q = r
      BY <2>1, <1>4 DEF LifeOf
    <2>2. CASE q # r
      <3>1. req'[q] = req[q] /\ LifeOf(q)
        BY <2>2, <1>4 DEF Others, LifeInv
      <3>2. req[q].pc \in {"refundRate", "refundCall"} =>
              req[q].target \in Payments \ {t}
        BY <3>1, <1>2 DEF LifeOf, TargetInv, WithTarget
      <3> QED
        BY <3>1, <3>2, <1>2, <1>3 DEF LifeOf, Shows
    <2> QED
      BY <2>1, <2>2
  <1> QED
    BY <1>2, <1>3, <1>5, <1>6 DEF LifeInv, LifeStep

\* A callback: an outcome settles a pending payment, a refund that the provider reports
\* before it is written shows one that was ordered, and after it changes nothing.
LEMMA LifeWebhook ==
  ASSUME OneRefundAtATime, LifeInv, TypeOK, TargetInv,
         NEW r \in Requests, NEW t \in Payments, NEW s \in Status, Webhook(r, t, s)
  PROVE  LifeInv' /\ LifeStep
  <1>1. /\ req[r].pc = "idle" /\ <<t, s>> \in callbacks /\ Exists(t)
        /\ callbacks' = callbacks \ {<<t, s>>} /\ UNCHANGED <<provider, refunds>>
    BY DEF Webhook, OneRefundAtATime
  <1>2. Shows(t, s)
    BY DEF Webhook, Shows, TypeOK, PaymentRow
  <1>3. Others(r) /\ req'[r].pc \in {"idle", "reconcile"}
    BY <1>1, SlotEffects DEF Webhook, TypeOK, Pc, Others
  <1>4. LifeAt(t) /\ payment[t].status # "absent"
    BY <1>1 DEF LifeInv, Exists
  <1>5. \/ s \in {"succeeded", "failed"} /\ payment[t].status = "pending" /\ refunds[t] = 0
        \/ s = "refunded" /\ payment[t].status \in {"succeeded", "refunded"} /\ refunds[t] = 1
    BY <1>1, <1>4 DEF LifeAt, Status
  <1>6. LifeStep
    <2>1. CASE payment[t].status = s
      <3>1. SameShown
        BY <2>1, <1>2 DEF Shows, SameShown
      <3> QED
        BY <3>1, <1>1 DEF LifeStep
    <2>2. CASE payment[t].status # s
      <3>1. \/ s \in {"succeeded", "failed"} /\ payment[t].status = "pending"
            \/ s = "refunded" /\ payment[t].status = "succeeded" /\ refunds[t] = 1
        BY <2>2, <1>5
      <3> QED
        BY <3>1, <1>1, <1>2 DEF LifeStep
    <2> QED
      BY <2>1, <2>2
  <1>7. ASSUME NEW p \in Payments PROVE LifeAt(p)'
    <2>1. LifeAt(p)
      BY DEF LifeInv
    <2>2. \A q \in Refunders : req[q].pc = "refundWrite" => req'[q] = req[q]
      BY <1>1, <1>3, PaymentsAssumption DEF Others
    <2>3. CASE p # t
      <3>1. payment'[p].status = payment[p].status
        BY <2>3, <1>2 DEF Shows
      <3> QED
        BY <2>1, <2>2, <2>3, <3>1, <1>1 DEF LifeAt
    <2>4. CASE p = t
      <3>1. payment'[p].status = s
        BY <2>4, <1>2 DEF Shows
      <3>2. /\ <<p, "pending">> \notin callbacks'
            /\ <<p, "refunded">> \in callbacks' => refunds'[p] = 1
        BY <2>1, <1>1 DEF LifeAt
      <3>3. <<p, "succeeded">> \notin callbacks' /\ <<p, "failed">> \notin callbacks'
        BY <2>1, <2>4, <1>1, <1>5 DEF LifeAt
      <3>4. provider'[p] \notin {"none", "pending"}
        BY <2>1, <2>4, <1>1, <1>5 DEF LifeAt
      <3> QED
        BY <2>1, <2>4, <3>1, <3>2, <3>3, <3>4, <1>1, <1>5 DEF LifeAt
    <2> QED
      BY <2>3, <2>4
  <1>8. ASSUME NEW q \in Requests PROVE LifeOf(q)'
    <2>1. CASE q = r
      BY <2>1, <1>3 DEF LifeOf
    <2>2. CASE q # r
      <3>1. req'[q] = req[q] /\ LifeOf(q)
        BY <2>2, <1>3 DEF Others, LifeInv
      <3>2. req[q].pc \in {"refundRate", "refundCall"} =>
              req[q].target \in Payments \ {t}
        BY <3>1, <1>5 DEF LifeOf, TargetInv, WithTarget
      <3> QED
        BY <3>1, <3>2, <1>1, <1>2 DEF LifeOf, Shows
    <2> QED
      BY <2>1, <2>2
  <1> QED
    BY <1>6, <1>7, <1>8 DEF LifeInv

\* A refund: it starts on a payment that no order was sent for, since the one request
\* that could have sent it is idle; its order is the abstract one.
LEMMA LifeRefund ==
  ASSUME OneRefundAtATime, LifeInv, TypeOK, TargetInv, NEW r \in Requests,
         (\E p \in Payments : RefundRead(r, p)) \/ RefundRate(r) \/ RefundCall(r)
  PROVE  LifeInv' /\ LifeStep
  <1>1. ASSUME NEW t \in Payments, RefundRead(r, t) PROVE LifeInv' /\ LifeStep
    <2>1. /\ r \in Refunders /\ req[r].pc = "idle" /\ payment[t].status = "succeeded"
          /\ UNCHANGED <<payment, provider, callbacks, refunds>>
      BY <1>1 DEF RefundRead, world
    <2>2. Others(r) /\ req'[r].pc = "refundRate" /\ req'[r].target = t
      BY <1>1, SlotEffects DEF RefundRead, TypeOK, Pc
    <2>3. refunds[t] = 0
      <3>1. LifeAt(t)
        BY DEF LifeInv
      <3>2. \A q \in Refunders : q = r
        BY <2>1 DEF OneRefundAtATime
      <3>3. refunds[t] = 1 => FALSE
        BY <3>1, <3>2, <2>1 DEF LifeAt
      <3> QED
        BY <3>1, <3>3 DEF LifeAt
    <2>4. ASSUME NEW p \in Payments PROVE LifeAt(p)'
      <3>1. \A q \in Refunders : req[q].pc = "refundWrite" => req'[q] = req[q]
        BY <2>1, <2>2, PaymentsAssumption DEF Others
      <3> QED
        BY <3>1, <2>1 DEF LifeInv, LifeAt
    <2>5. ASSUME NEW q \in Requests PROVE LifeOf(q)'
      <3>1. CASE q = r
        BY <3>1, <2>1, <2>2, <2>3 DEF LifeOf
      <3>2. CASE q # r
        BY <3>2, <2>1, <2>2 DEF LifeOf, LifeInv, Others
      <3> QED
        BY <3>1, <3>2
    <2> QED
      BY <2>1, <2>4, <2>5 DEF LifeInv, LifeStep, SameShown
  <1>2. ASSUME RefundRate(r), req'[r].pc = "idle" PROVE LifeInv' /\ LifeStep
    <2>1. /\ req[r].pc = "refundRate" /\ Others(r)
          /\ UNCHANGED <<payment, provider, callbacks, refunds>>
      BY <1>2, SlotEffects DEF RefundRate, world, TypeOK, Pc
    <2>2. SameShown
      BY <2>1 DEF SameShown
    <2> QED
      BY <1>2, <2>1, <2>2, LifeFrame
  <1>3. ASSUME RefundRate(r), req'[r].pc # "idle" PROVE LifeInv' /\ LifeStep
    <2>1. /\ req[r].pc = "refundRate" /\ Others(r) /\ req'[r].pc = "refundCall"
          /\ req'[r].target = req[r].target
          /\ UNCHANGED <<payment, provider, callbacks, refunds>>
      BY <1>3, SlotEffects DEF RefundRate, world, TypeOK, Pc
    <2>2. ASSUME NEW p \in Payments PROVE LifeAt(p)'
      <3>1. \A q \in Refunders : req[q].pc = "refundWrite" => req'[q] = req[q]
        BY <2>1, PaymentsAssumption DEF Others
      <3> QED
        BY <3>1, <2>1 DEF LifeInv, LifeAt
    <2>3. ASSUME NEW q \in Requests PROVE LifeOf(q)'
      <3>1. CASE q = r
        BY <3>1, <2>1 DEF LifeOf, LifeInv
      <3>2. CASE q # r
        BY <3>2, <2>1 DEF LifeOf, LifeInv, Others
      <3> QED
        BY <3>1, <3>2
    <2> QED
      BY <2>1, <2>2, <2>3 DEF LifeInv, LifeStep, SameShown
  <1>4. ASSUME RefundCall(r) PROVE LifeInv' /\ LifeStep
    <2>1. PICK t \in Payments : t = req[r].target
      BY <1>4 DEF RefundCall, TargetInv, WithTarget
    <2>2. r \in Refunders /\ payment[t].status = "succeeded" /\ refunds[t] = 0
      BY <1>4, <2>1 DEF RefundCall, LifeInv, LifeOf
    <2>3. /\ refunds' = [refunds EXCEPT ![t] = 1] /\ req[r].pc = "refundCall"
          /\ callbacks' \in {callbacks, callbacks \union {<<t, "refunded">>}}
          /\ UNCHANGED <<payment, provider>>
      BY <1>4, <2>1, <2>2 DEF RefundCall, More, TypeOK
    <2>4. refunds'[t] = 1 /\ \A p \in Payments \ {t} : refunds'[p] = refunds[p]
      BY <2>3 DEF TypeOK
    <2>5. Others(r) /\ req'[r].pc = "refundWrite" /\ req'[r].target = t
      BY <1>4, <2>1, SlotEffects DEF RefundCall, TypeOK, Pc
    <2>6. ASSUME NEW p \in Payments PROVE LifeAt(p)'
      <3>1. LifeAt(p) /\ \A q \in Refunders : req[q].pc = "refundWrite" => req'[q] = req[q]
        BY <2>3, <2>5, PaymentsAssumption DEF Others, LifeInv
      <3>2. CASE p = t
        <4>1. \E q \in Refunders : req'[q].pc = "refundWrite" /\ req'[q].target = p
          BY <3>2, <2>2, <2>5
        <4>2. /\ <<p, "pending">> \notin callbacks'
              /\ <<p, "succeeded">> \in callbacks' => <<p, "succeeded">> \in callbacks
              /\ <<p, "failed">> \in callbacks' => <<p, "failed">> \in callbacks
          BY <3>1, <2>3 DEF LifeAt
        <4> QED
          BY <3>1, <3>2, <4>1, <4>2, <2>2, <2>3, <2>4 DEF LifeAt
      <3>3. CASE p # t
        <4>1. \A s \in Status : <<p, s>> \in callbacks' => <<p, s>> \in callbacks
          BY <3>3, <2>3
        <4> QED
          BY <3>1, <3>3, <4>1, <2>3, <2>4 DEF LifeAt, Status
      <3> QED
        BY <3>2, <3>3
    <2>7. ASSUME NEW q \in Requests PROVE LifeOf(q)'
      <3>1. CASE q = r
        BY <3>1, <2>2, <2>4, <2>5 DEF LifeOf
      <3>2. CASE q # r
        <4>1. req'[q] = req[q] /\ LifeOf(q)
          BY <3>2, <2>5 DEF Others, LifeInv
        <4>2. req[q].pc \notin {"refundRate", "refundCall", "refundWrite"}
          BY <3>2, <4>1, <2>2 DEF LifeOf, OneRefundAtATime
        <4> QED
          BY <4>1, <4>2 DEF LifeOf
      <3> QED
        BY <3>1, <3>2
    <2>8. LifeStep
      BY <2>2, <2>3 DEF LifeStep, SameShown
    <2> QED
      BY <2>6, <2>7, <2>8 DEF LifeInv
  <1> QED
    BY <1>1, <1>2, <1>3, <1>4

\* The row of a refund is written last, whether or not a callback already showed it.
LEMMA LifeRefundWrite ==
  ASSUME OneRefundAtATime, LifeInv, TypeOK, TargetInv, NEW r \in Requests, RefundWrite(r)
  PROVE  LifeInv' /\ LifeStep
  <1>1. PICK t \in Payments : t = req[r].target
    BY DEF RefundWrite, TargetInv, WithTarget
  <1>2. /\ req[r].pc = "refundWrite" /\ r \in Refunders /\ refunds[t] = 1
        /\ payment[t].status \in {"succeeded", "refunded"}
        /\ UNCHANGED <<provider, callbacks, refunds>>
    <2>1. LifeOf(r) /\ LifeAt(t)
      BY DEF LifeInv
    <2>2. /\ req[r].pc = "refundWrite" /\ UNCHANGED <<provider, callbacks, refunds>>
          /\ r \in Refunders /\ refunds[t] = 1
      BY <1>1, <2>1 DEF RefundWrite, world, LifeOf
    <2> QED
      BY <2>1, <2>2 DEF LifeAt
  <1>3. Shows(t, "refunded")
    BY <1>1 DEF RefundWrite, Shows, TypeOK, PaymentRow
  <1>4. Others(r) /\ req'[r].pc = "idle"
    BY SlotEffects DEF RefundWrite, TypeOK, Pc
  <1>5. LifeStep
    <2>1. CASE payment[t].status = "refunded"
      <3>1. SameShown
        BY <2>1, <1>3 DEF Shows, SameShown
      <3> QED
        BY <3>1, <1>2 DEF LifeStep
    <2>2. CASE payment[t].status = "succeeded"
      BY <2>2, <1>2, <1>3 DEF LifeStep
    <2> QED
      BY <2>1, <2>2, <1>2
  <1>6. ASSUME NEW p \in Payments PROVE LifeAt(p)'
    <2>1. LifeAt(p)
      BY DEF LifeInv
    <2>2. CASE p = t
      <3>1. payment'[p].status = "refunded"
        BY <2>2, <1>3 DEF Shows
      <3> QED
        BY <2>1, <2>2, <3>1, <1>2 DEF LifeAt
    <2>3. CASE p # t
      <3>1. payment'[p].status = payment[p].status
        BY <2>3, <1>3 DEF Shows
      <3>2. refunds[p] = 1 /\ payment[p].status = "succeeded" => FALSE
        BY <2>1, <2>3, <1>1, <1>2 DEF LifeAt, OneRefundAtATime
      <3> QED
        BY <2>1, <3>1, <3>2, <1>2 DEF LifeAt
    <2> QED
      BY <2>2, <2>3
  <1>7. ASSUME NEW q \in Requests PROVE LifeOf(q)'
    <2>1. CASE q = r
      BY <2>1, <1>4 DEF LifeOf
    <2>2. CASE q # r
      <3>1. req'[q] = req[q] /\ LifeOf(q)
        BY <2>2, <1>4 DEF Others, LifeInv
      <3>2. req[q].pc \notin {"refundRate", "refundCall", "refundWrite"}
        BY <2>2, <3>1, <1>2 DEF LifeOf, OneRefundAtATime
      <3> QED
        BY <3>1, <3>2 DEF LifeOf
    <2> QED
      BY <2>1, <2>2
  <1> QED
    BY <1>5, <1>6, <1>7 DEF LifeInv

\* The provider opens a charge, then settles it and says so: the payment is pending still.
LEMMA LifeProvider ==
  ASSUME OneRefundAtATime, LifeInv, TypeOK, TargetInv, NEW t \in Payments,
         (\E r \in Requests : ProviderInitiate(r, t)) \/ ProviderSettles(t)
  PROVE  LifeInv' /\ LifeStep
  <1>1. SameShown /\ UNCHANGED <<payment, refunds>>
    BY DEF SameShown, ProviderInitiate, ProviderSettles
  <1>2. /\ provider[t] \in {"none", "pending"}
        /\ \A p \in Payments \ {t} : provider'[p] = provider[p]
        /\ \/ provider'[t] = "pending" /\ callbacks' = callbacks
           \/ provider'[t] = "paid" /\ callbacks' = callbacks \union {<<t, "succeeded">>}
           \/ provider'[t] = "declined" /\ callbacks' = callbacks \union {<<t, "failed">>}
    BY DEF OneRefundAtATime, ProviderInitiate, ProviderSettles, TypeOK
  <1>3. \A q \in Requests :
          \/ req'[q] = req[q]
          \/ req[q].pc = "charge" /\ req'[q].pc = "createPayment"
    BY DEF ProviderInitiate, ProviderSettles, TypeOK, Request
  <1>4. ASSUME NEW p \in Payments PROVE LifeAt(p)'
    <2>1. LifeAt(p)
      BY DEF LifeInv
    <2>2. \A q \in Refunders : req[q].pc = "refundWrite" => req'[q] = req[q]
      BY <1>3, PaymentsAssumption
    <2>3. CASE p # t
      <3>1. \A s \in Status : <<p, s>> \in callbacks' => <<p, s>> \in callbacks
        BY <2>3, <1>2
      <3> QED
        BY <2>1, <2>2, <2>3, <3>1, <1>1, <1>2 DEF LifeAt, Status
    <2>4. CASE p = t
      <3>1. /\ payment'[p].status \in {"absent", "pending"} /\ refunds[p] = 0
            /\ \A s \in Status : <<p, s>> \notin callbacks
        BY <2>1, <2>4, <1>1, <1>2 DEF LifeAt, Status
      <3> QED
        BY <2>4, <3>1, <1>1, <1>2 DEF LifeAt, Status
    <2> QED
      BY <2>3, <2>4
  <1>5. ASSUME NEW q \in Requests PROVE LifeOf(q)'
    <2>1. CASE req'[q] = req[q]
      BY <2>1, <1>1 DEF LifeInv, LifeOf
    <2>2. CASE req'[q].pc = "createPayment"
      BY <2>2 DEF LifeOf
    <2> QED
      BY <2>1, <2>2, <1>3
  <1> QED
    BY <1>1, <1>4, <1>5 DEF LifeInv, LifeStep

LEMMA LifeMoves ==
  ASSUME OneRefundAtATime, LifeInv, TypeOK, TargetInv, CreateInv, [Next]_vars
  PROVE  LifeInv' /\ LifeStep
  <1>1. ASSUME NEW r \in Requests, CountPayments(r) \/ Reconcile(r) \/ MarkStep(r)
        PROVE  LifeInv' /\ LifeStep
    <2>1. SameShown /\ UNCHANGED <<provider, callbacks, refunds>>
      BY <1>1 DEF SameShown, CountPayments, Reconcile, MarkStep, world
    <2>2. /\ Others(r) /\ req[r].pc # "refundWrite"
          /\ req'[r].pc \notin {"refundRate", "refundCall", "refundWrite"}
      <3>1. CASE CountPayments(r)
        BY <3>1 DEF CountPayments, Others, TypeOK
      <3>2. CASE Reconcile(r) \/ MarkStep(r)
        BY <3>2, SlotEffects DEF Reconcile, MarkStep, TypeOK, Pc
      <3> QED
        BY <1>1, <3>1, <3>2
    <2> QED
      BY <2>1, <2>2, LifeFrame
  <1>2. CASE BookingMoves \/ UNCHANGED vars
    <2>1. SameShown /\ UNCHANGED <<req, provider, callbacks, refunds>>
      BY <1>2 DEF SameShown, BookingMoves, vars, world
    <2> QED
      BY <2>1, LifeFrame
  <1>3. ASSUME NEW r \in Requests, Drop(r) PROVE FALSE
    BY <1>3 DEF Drop, OneRefundAtATime
  <1> QED
    BY <1>1, <1>2, <1>3, LifeCreate, LifeWebhook, LifeRefund, LifeRefundWrite, LifeProvider
       DEF Next, Call, Continue

\* Each of them is a step of the lifecycle of PaymentLifecycle, or none.
LEMMA StepOfLifecycle ==
  ASSUME LifeStep
  PROVE  [Lifecycle!Next]_<<[p \in Payments |-> payment[p].status], refunds>>
  <1> DEFINE st == [p \in Payments |-> payment[p].status]
  <1>1. SameShown => st' = st
    BY DEF SameShown
  <1>2. ASSUME NEW p \in Payments, NEW s, Shows(p, s) PROVE st' = [st EXCEPT ![p] = s]
    BY <1>2 DEF Shows
  <1>3. \A p \in Payments : st[p] = payment[p].status
    OBVIOUS
  <1>4. CASE SameShown /\ UNCHANGED refunds
    BY <1>1, <1>4
  <1>5. ASSUME NEW p \in Payments, UNCHANGED refunds, NEW from, NEW to,
               payment[p].status = from, Shows(p, to)
        PROVE  Lifecycle!Move(p, from, to)
    BY <1>2, <1>3, <1>5 DEF Lifecycle!Move
  <1>6. ASSUME NEW p \in Payments, SameShown, payment[p].status = "succeeded",
               refunds[p] = 0, refunds' = [refunds EXCEPT ![p] = 1]
        PROVE  Lifecycle!OrderRefund(p)
    BY <1>1, <1>3, <1>6 DEF Lifecycle!OrderRefund
  <1> QED
    BY <1>4, <1>5, <1>6 DEF LifeStep, Lifecycle!Next, Lifecycle!Open, Lifecycle!Settle,
       Lifecycle!ShowRefund

\* As long as refunds do not overlap, whatever callbacks and initiations interleave with
\* them, every payment is opened, settled once with the outcome that was reported, and
\* given back at most once, by one order to the provider.
THEOREM PaymentsImplementLifecycle ==
  ASSUME OneRefundAtATime
  PROVE  Spec => ImplementsLifecycle
  <1>1. Init => LifeInv
    BY DEF Init, LifeInv, LifeAt, LifeOf, Absent, Idle
  <1>2. Init => Lifecycle!Init
    BY DEF Init, Lifecycle!Init, Absent
  <1>3. TypeOK /\ TargetInv /\ CreateInv /\ LifeInv /\ [Next]_vars =>
          /\ LifeInv'
          /\ [Lifecycle!Next]_<<[p \in Payments |-> payment[p].status], refunds>>
    BY LifeMoves, StepOfLifecycle
  <1> QED
    BY <1>1, <1>2, <1>3, TypesHold, CreateInvHolds, PTL
       DEF Spec, ImplementsLifecycle, Lifecycle!Spec

=============================================================================
