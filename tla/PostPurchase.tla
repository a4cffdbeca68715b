---------------------------- MODULE PostPurchase ----------------------------
(* An order paid through PayPal, from its payment to its end: the order's  *)
(* own life, PayPal's refund notifications, pickup terms and digital       *)
(* delivery over the one order row they share.                             *)
EXTENDS GatewayRefunds, PickupTerms, DigitalDelivery

vars == <<order, gateway, pickupVars, digitalVars>>

Init ==
    \E kind \in DOMAIN LinesOf :
      /\ order = Placed(kind)
      /\ gateway = NotSeen
      /\ \E kept \in SUBSET LinesOf[kind] :
           /\ kept # {} => kind = "pickup"
           /\ terms = [l \in Lines |-> IF l \in kept THEN FirstTerms ELSE NoTerms]
      /\ pinned = [l \in Lines |-> NoRow]
      /\ reveal = "hidden"
      /\ lineKind \in IF kind = "digital" THEN Assortments
                                     ELSE {[l \in Lines |-> "none"]}
      /\ catalogue = [l \in Lines |-> FirstVersion(lineKind[l])]
      /\ pins = [l \in Lines |-> 0]
      /\ opened = {} /\ marked = {}
      /\ address = IF "email" \in OrderManualKinds THEN "sealed" ELSE "none"

-----------------------------------------------------------------------------
(* Payment *)

Payable == order.state = "pending_payment" /\ ~Unpinnable

\* PayPal's Completed notification, possibly again: the receipt while the
\* payment still waits for it, and the replay of held refunds in any case.
PaymentCompleted ==
    LET w == SettleVerifiedPayment(IF Payable THEN Confirmed(order, AllLinesInstant) ELSE order)
    IN /\ order' = w.order
       /\ gateway' = w.gateway
       /\ IF Payable THEN PinPickupLines /\ PinDigitalLines ELSE UNCHANGED <<pinned, pins>>
       /\ UNCHANGED <<terms, reveal, lineKind, catalogue, opened, address, marked>>

\* The seller attests the payment: the receipt without a PayPal transaction.
SellerConfirms ==
    /\ Payable
    /\ order' = Confirmed(order, AllLinesInstant)
    /\ PinPickupLines /\ PinDigitalLines
    /\ UNCHANGED <<gateway, terms, reveal, lineKind, catalogue, opened, address, marked>>

-----------------------------------------------------------------------------

Fulfilment ==
    \/ Ship
    \/ ConfirmDelivery
    \/ MarkReady
    \/ \E who \in Parties : ConfirmPickup(who, TermsChanged)

Withdrawal ==
    \/ RequestCancel(TermsChanged \/ reveal = "shown")
    \/ ApproveCancel(opened \intersect InstantLines)
    \/ RequestReturn
    \/ ApproveReturn
    \/ ReceiveReturn

\* The seller types an id of their own, or the one PayPal gave a refund whose
\* notification has not been recorded.  paypal_refund.rs takes for granted that
\* the id is in no ledger row; record_external does not check it.
RefundIds ==
    {OwnTxn} \union
    {t \in Sent[order.kind] \ Recorded(gateway.ledger) : Notice[t].status = "Refunded"}

SellerRefund ==
    \E txn \in RefundIds, amount \in 1..Total :
      RecordExternalRefund(txn, amount, Recorded(gateway.ledger))

PickupDetails ==
    /\ order.kind = "pickup"
    /\ \/ \E l \in OrderLines : SetDetails(l) \/ ClearDetails(l)
       \/ StartReveal
       \/ StampReveal

Deliverables ==
    /\ order.kind = "digital"
    /\ \/ \E l \in OrderLines : \/ \E kind \in DigitalKinds : SetDelivery(l, kind)
                                \/ ClearDelivery(l)
                                \/ Download(l)
       \/ SetDeliveryEmail
       \/ PurgeDeliveryEmail

Sweeps ==
    /\ AssumeDelivered \/ CompleteDelivered
    /\ UNCHANGED <<gateway, pickupVars, digitalVars>>

Next ==
    \/ PaymentCompleted
    \/ SellerConfirms
    \/ /\ Fulfilment \/ Withdrawal \/ SellerRefund \/ \E who \in Reviewers : Review(who)
       /\ UNCHANGED <<gateway, pickupVars, digitalVars>>
    \/ Sweeps
    \/ \E t \in Sent[order.kind] : ReceiveNotice(t) /\ UNCHANGED <<pickupVars, digitalVars>>
    \/ PickupDetails /\ UNCHANGED <<order, gateway, digitalVars>>
    \/ Deliverables /\ UNCHANGED <<order, gateway, pickupVars>>
    \/ \E channel \in ManualKinds :
         DeliverDigital(channel) /\ UNCHANGED <<gateway, pickupVars>>

\* The sweeps run on a timer for as long as the service is up.
Spec == Init /\ [][Next]_vars /\ WF_vars(Sweeps)

-----------------------------------------------------------------------------
(* Properties *)

\* Whatever the order in which PayPal's notifications arrive, repeat or are
\* replayed: an order is refunded_external when PayPal returned the whole
\* total and has not taken it back, or when its seller recorded a refund, and
\* otherwise a person was asked to look; payment_reversed_at is set exactly
\* while a reversal is outstanding (record_on_order).
RefundsAgree ==
    /\ order.state = "refunded_external" =>
         \/ Effective(gateway.ledger) >= Total
         \/ ManualExternal(order, gateway.ledger)
         \/ order.review
    /\ Effective(gateway.ledger) >= Total => order.state = "refunded_external" \/ order.review
    /\ order.reversed <=> OutstandingReversal(gateway.ledger) > 0

\* Nothing is released for money PayPal took back or the seller returned:
\* no line downloads and the seller reads no address (payment_taken_back).
WithheldWhenTakenBack ==
    (\E l \in Lines : MayDownload(l)) \/ SellerMayReadAddress =>
        /\ Effective(gateway.ledger) = 0
        /\ order.note # "refunded"

\* An order under review that a cancelled reversal took back to a state which
\* may be older than its cancellation, beside a refund in the ledger.
RestoredUnderReview ==
    /\ order.review
    /\ order.note = "refund_reversal_cancelled"
    /\ Amount(gateway.ledger, "Refunded") > 0

\* Units sold to a paid order return to stock only through a cancellation,
\* and a line the buyer has opened never does (releasable_lines); a refund by
\* itself restocks nothing.  The one exception is RestoredUnderReview: GiveBack
\* restores the state that the ledger row remembers, not what became of the
\* order's units since.
StockFollowsOrder ==
    order.receipt =>
        /\ opened \subseteq order.sold
        /\ \/ RestoredUnderReview
           \/ /\ order.state \notin {"cancelled", "refunded_external"} => order.sold = OrderLines
              /\ order.state = "cancelled" => order.sold = opened

\* An order waiting for its payment can always be delivered: the seller cannot
\* withdraw or change the kind of what is being paid for (unpinnable says this
\* is unreachable through commands).
PayableIsDeliverable == order.state = "pending_payment" => ~Unpinnable

\* A seller confirms a handover only on the terms the buyer paid under: every
\* pinned line's place is still the one in force, whatever edits and clears
\* came in between (confirm_pickup, order_has_unresolved_terms_change).
HandoverOnPinnedTerms ==
    [][order'.handed = "seller" /\ order.handed # "seller" =>
         \A l \in Lines : pinned[l] # NoRow => CurrentDetails(l).place = pinned[l].place]_vars

\* No shipped or delivered order stays so: the sweeps assume its delivery and
\* complete it (assume_due_deliveries, complete_due_delivered_orders).
DeliveredOrdersEnd ==
    order.state \in {"shipped", "delivered"} ~> order.state \notin {"shipped", "delivered"}

=============================================================================
