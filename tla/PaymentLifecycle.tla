-------------------------- MODULE PaymentLifecycle --------------------------
(***************************************************************************)
(* What a payment promises: it is opened pending, settled once with the    *)
(* outcome the provider reported, and a settled payment is given back at   *)
(* most once, by one order to the provider.                                *)
(***************************************************************************)
EXTENDS Naturals

CONSTANT Payments

VARIABLES
  status,  \* the status shown for each payment
  orders   \* refund orders sent to the provider for each payment

Init ==
  /\ status = [p \in Payments |-> "absent"]
  /\ orders = [p \in Payments |-> 0]

Move(p, from, to) ==
  /\ status[p] = from
  /\ status' = [status EXCEPT ![p] = to]
  /\ UNCHANGED orders

Open(p) == Move(p, "absent", "pending")
Settle(p) == \E outcome \in {"succeeded", "failed"} : Move(p, "pending", outcome)
OrderRefund(p) ==
  /\ status[p] = "succeeded" /\ orders[p] = 0
  /\ orders' = [orders EXCEPT ![p] = 1]
  /\ UNCHANGED status
ShowRefund(p) == orders[p] = 1 /\ Move(p, "succeeded", "refunded")

Next == \E p \in Payments : Open(p) \/ Settle(p) \/ OrderRefund(p) \/ ShowRefund(p)

Spec == Init /\ [][Next]_<<status, orders>>
=============================================================================
