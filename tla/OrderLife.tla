----------------------------- MODULE OrderLife -----------------------------
(* One order from its payment to its end: fulfilment, delivery sweeps,     *)
(* cancellation, returns, the seller's own refund record and reviews.      *)
(*                                                                         *)
(* Every handler here is one transaction that locks the order row, so each *)
(* is one action.  order is that row:                                      *)
(*   kind      fulfilment: shipping, pickup or digital                     *)
(*   state     the order machine's state                                   *)
(*   receipt   a receipt exists                                            *)
(*   ret       return_request.state, "none" without a return request       *)
(*   refund    external_refund, NoRefund when the column is NULL           *)
(*   reversed  payment_reversed_at is set                                  *)
(*   review    gateway_refund_review_at is set                             *)
(*   note      the newest attestor annotation about a refund               *)
(*   sold      the lines whose unit is counted as sold                     *)
(*   instant   the delivery instant is on file: shipment.delivered_at, the *)
(*             handover row or digital_delivered_at                        *)
(*   handed    who confirmed the handover of a pickup order                *)
(*   reviewed  the parties whose review is on file                         *)
EXTENDS Integers, FiniteSets

CONSTANTS
    LinesOf,    \* LinesOf[kind]: the lines an order of that fulfilment has
    Reviewers,  \* the parties that may review it
    Total       \* total_minor

ASSUME TotalAssumption == Total \in Nat \ {0}

VARIABLE order

Parties == {"buyer", "seller"}
Lines == UNION {LinesOf[kind] : kind \in DOMAIN LinesOf}
OrderLines == LinesOf[order.kind]

\* The transaction id a seller types when the refund did not go through PayPal.
OwnTxn == 0
NoRefund == [txn |-> OwnTxn, amount |-> 0]

\* States in which an order has ended; a completed one still downloads.
DigitalEnded == {"cancelled", "refunded_external", "closed"}
Terminal == DigitalEnded \union {"completed"}

Placed(kind) ==
    [kind |-> kind, state |-> "pending_payment", receipt |-> FALSE, ret |-> "none",
     refund |-> NoRefund, reversed |-> FALSE, review |-> FALSE, note |-> "none",
     sold |-> {}, instant |-> FALSE, handed |-> "none", reviewed |-> {}]

\* The receipt transaction: stock becomes sold, and an order whose lines are
\* all instant digital ones is delivered in the same write.
Confirmed(o, delivered) ==
    [o EXCEPT !.state = IF delivered THEN "delivered" ELSE "paid",
              !.receipt = TRUE, !.sold = LinesOf[o.kind], !.instant = delivered]

-----------------------------------------------------------------------------
(* Fulfilment *)

Ship ==
    /\ order.kind = "shipping"
    /\ order.state \in {"paid", "processing"}
    /\ order' = [order EXCEPT !.state = "shipped"]

ConfirmDelivery ==
    /\ order.kind = "shipping"
    /\ order.state = "shipped"
    /\ order' = [order EXCEPT !.state = "delivered", !.instant = TRUE]

MarkReady ==
    /\ order.kind = "pickup"
    /\ order.state = "paid"
    /\ order' = [order EXCEPT !.state = "ready_for_pickup"]

\* Faulty: the handover leaves no row the completion sweep goes by.
NoHandoverRow(who, termsChanged) ==
    /\ order.kind = "pickup"
    /\ order.state \in {"paid", "ready_for_pickup"}
    /\ who = "seller" => ~termsChanged
    /\ order' = [order EXCEPT !.state = "delivered", !.handed = who]

\* Either party confirms the handover; the seller may not while the buyer has
\* an unanswered change of the pickup terms.
ConfirmPickup(who, termsChanged) ==
    /\ order.kind = "pickup"
    /\ order.state \in {"paid", "ready_for_pickup"}
    /\ who = "seller" => ~termsChanged
    /\ order' = [order EXCEPT !.state = "delivered", !.instant = TRUE, !.handed = who]

\* The sweeps: a shipped order past its window counts as delivered, a
\* delivered one past its protection window is completed.  The windows are
\* long; the model lets them end at any moment.
AssumeDelivered ==
    /\ order.kind # "digital"
    /\ order.state = "shipped"
    /\ order' = [order EXCEPT !.state = "delivered", !.instant = TRUE]

CompleteDelivered ==
    /\ order.state = "delivered"
    /\ order.instant
    /\ order' = [order EXCEPT !.state = "completed"]

-----------------------------------------------------------------------------
(* Cancellation *)

\* atOnce: the terms changed after payment or the buyer has seen the place.
RequestCancel(atOnce) ==
    \/ /\ order.state = "pending_payment"
       /\ order' = [order EXCEPT !.state = "cancelled"]
    \/ /\ order.kind = "pickup"
       /\ order.state \in {"paid", "ready_for_pickup"}
       /\ atOnce
       /\ order' = [order EXCEPT !.state = "cancelled", !.sold = {}]
    \/ /\ order.state \in {"paid", "processing", "ready_for_pickup"}
       /\ ~(order.kind = "pickup" /\ atOnce)
       /\ order' = [order EXCEPT !.state = "cancel_requested"]

\* Faulty: opened lines return to stock.
RestocksOpened(opened) ==
    /\ order.state = "cancel_requested"
    /\ order' = [order EXCEPT !.state = "cancelled", !.sold = {}]

\* The seller approves: every line but the opened instant ones is restocked.
ApproveCancel(opened) ==
    /\ order.state = "cancel_requested"
    /\ order' = [order EXCEPT !.state = "cancelled", !.sold = @ \intersect opened]

-----------------------------------------------------------------------------
(* Returns and the seller's own refund record *)

RequestReturn ==
    /\ order.kind # "digital"
    /\ order.state \in {"delivered", "completed"}
    /\ order' = [order EXCEPT !.state = "return_requested", !.ret = "requested"]

ApproveReturn ==
    /\ order.state = "return_requested"
    /\ order' = [order EXCEPT !.state = "return_approved", !.ret = "approved"]

ReceiveReturn ==
    /\ order.state = "return_approved"
    /\ order' = [order EXCEPT !.state = "return_received", !.ret = "received"]

\* recorded: the transactions PayPal's ledger of this order holds.  A refund
\* already on file must be one of those, and the new record must cover it.
RecordExternalRefund(txn, amount, recorded) ==
    /\ \/ order.state \in {"return_received", "cancelled"}
       \/ order.kind = "digital" /\ order.state \in {"delivered", "completed"}
    /\ order.refund # NoRefund =>
         order.refund.txn \in recorded /\ amount >= order.refund.amount
    /\ order' = [order EXCEPT !.state = "refunded_external",
                              !.refund = [txn |-> txn, amount |-> amount],
                              !.ret = IF @ = "none" THEN @ ELSE "refunded",
                              !.note = "refunded"]

-----------------------------------------------------------------------------
(* Reviews: one per party; the first on a delivered order completes it *)

Review(who) ==
    /\ order.state \in {"delivered", "completed", "closed"}
    /\ who \notin order.reviewed
    /\ order' = [order EXCEPT !.state = IF @ = "delivered" THEN "completed" ELSE @,
                              !.reviewed = @ \union {who}]

=============================================================================
