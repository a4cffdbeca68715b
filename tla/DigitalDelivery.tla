-------------------------- MODULE DigitalDelivery --------------------------
(* Digital goods: the seller's deliverable per listing, the copy pinned to *)
(* a paid order, the buyer's downloads, and the manual channels (email and *)
(* message) with the sealed delivery address (handlers/digital.rs,         *)
(* digital_orders.rs, digital_manual.rs).                                  *)
(*                                                                         *)
(* Every line has its own listing.  lineKind is what checkout copied from  *)
(* the listing onto the line; instant kinds are downloaded, manual kinds   *)
(* are marked delivered by the seller.                                     *)
EXTENDS OrderLife, Functions

CONSTANTS
    InstantKinds,   \* file, link, text
    Assortments,    \* which kinds the lines of a digital order may have
    MaxUpdates      \* bound: how often deliverables are replaced, over all listings

ManualKinds == {"email", "message"}
DigitalKinds == InstantKinds \union ManualKinds

VARIABLES
    lineKind,   \* [Lines -> DigitalKinds]
    catalogue,  \* [Lines -> [last, rows]]: the listing's version counter and rows
    pins,       \* [Lines -> Nat]: the pinned version, 0 without a pin
    opened,     \* the lines with an access row
    address,    \* the delivery address: "none", "sealed" or "purged"
    marked      \* the manual kinds the seller marked delivered

digitalVars == <<lineKind, catalogue, pins, opened, address, marked>>

InstantLines == {l \in OrderLines : lineKind[l] \in InstantKinds}
OrderManualKinds == {lineKind[l] : l \in OrderLines} \intersect ManualKinds
AllLinesInstant == order.kind = "digital" /\ InstantLines = OrderLines

Live(rows) == {r \in rows : r.live}

Updates == FoldFunction(LAMBDA c, n : c.last - 1 + n, 0, catalogue)

FirstVersion(kind) ==
    [last |-> 1, rows |-> {[version |-> 1, kind |-> kind, live |-> TRUE]}]

-----------------------------------------------------------------------------
(* What the order may still receive *)

\* Faulty: forgets the refunds.
OnlyReversals == order.reversed

\* A reversal outstanding, or a refund on an order that has not ended.
PaymentTakenBack ==
    \/ order.reversed
    \/ order.refund # NoRefund /\ order.state \notin DigitalEnded

Entitled ==
    /\ order.kind = "digital"
    /\ order.receipt
    /\ ~PaymentTakenBack
    /\ order.state \notin DigitalEnded

MayDownload(l) == Entitled /\ pins[l] # 0

SellerMayReadAddress ==
    /\ "email" \in OrderManualKinds
    /\ Entitled
    /\ address = "sealed"

-----------------------------------------------------------------------------
(* The seller's deliverable *)

\* Faulty: an order counts from its payment on only.
InUseOncePaid ==
    order.kind = "digital" /\ order.receipt /\ order.state \notin DigitalEnded

\* A buyer is paying for, or still entitled to, this listing's delivery.
ListingInUse ==
    /\ order.kind = "digital"
    /\ \/ order.state = "pending_payment"
       \/ order.receipt /\ order.state \notin DigitalEnded

\* Superseded rows stay only while an unfinished order pins them.
Superseded(l) ==
    {[r EXCEPT !.live = FALSE] :
       r \in {q \in catalogue[l].rows : q.version = pins[l] /\ order.state \notin DigitalEnded}}

SetDelivery(l, kind) ==
    /\ Updates < MaxUpdates
    /\ (\E r \in Live(catalogue[l].rows) : r.kind # kind) => ~ListingInUse
    /\ LET version == catalogue[l].last + 1
       IN catalogue' = [catalogue EXCEPT ![l] =
            [last |-> version,
             rows |-> Superseded(l) \union
                        {[version |-> version, kind |-> kind, live |-> TRUE]}]]
    /\ UNCHANGED <<lineKind, pins, opened, address, marked>>

ClearDelivery(l) ==
    /\ ~ListingInUse
    /\ catalogue' = [catalogue EXCEPT ![l].rows = Superseded(l)]
    /\ UNCHANGED <<lineKind, pins, opened, address, marked>>

-----------------------------------------------------------------------------
(* The receipt transaction *)

\* An instant line whose listing no longer offers the kind the buyer paid for.
Unpinnable ==
    /\ order.kind = "digital"
    /\ \E l \in InstantLines :
         ~\E r \in Live(catalogue[l].rows) : r.kind = lineKind[l]

PinDigitalLines ==
    pins' = [l \in Lines |->
               IF order.kind = "digital" /\ l \in InstantLines
                 THEN (CHOOSE r \in Live(catalogue[l].rows) : TRUE).version
                 ELSE pins[l]]

-----------------------------------------------------------------------------
(* Downloads and manual delivery *)

Download(l) ==
    /\ MayDownload(l)
    /\ opened' = opened \union {l}
    /\ UNCHANGED <<lineKind, catalogue, pins, address, marked>>

SetDeliveryEmail ==
    /\ order.kind = "digital" /\ "email" \in OrderManualKinds
    /\ order.state \in {"pending_payment", "paid"}
    /\ "email" \notin marked
    /\ address' = "sealed"
    /\ UNCHANGED <<lineKind, catalogue, pins, opened, marked>>

\* The order is delivered when the last manual channel is marked.
DeliverDigital(channel) ==
    /\ order.kind = "digital" /\ channel \in OrderManualKinds
    /\ order.state = "paid"
    /\ channel \notin marked
    /\ channel = "email" => address = "sealed"
    /\ marked' = marked \union {channel}
    /\ order' = IF OrderManualKinds \subseteq marked'
                  THEN [order EXCEPT !.state = "delivered", !.instant = TRUE]
                  ELSE order
    /\ UNCHANGED <<lineKind, catalogue, pins, opened, address>>

\* Thirty days after a paid order ends, seven after an unpaid one does.
PurgeDeliveryEmail ==
    /\ address = "sealed"
    /\ \/ order.receipt /\ order.state \in Terminal
       \/ ~order.receipt /\ order.state = "cancelled"
    /\ address' = "purged"
    /\ UNCHANGED <<lineKind, catalogue, pins, opened, marked>>

=============================================================================
