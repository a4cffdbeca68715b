----------------------------- MODULE Settlement -----------------------------
(***************************************************************************)
(* How an order of the marketplace gets stock, gets paid, and gives stock  *)
(* back.  The module models the rows three tables carry (listings, orders, *)
(* payments) and one action per database transaction that moves them: the  *)
(* checkout, the payment-method bind, the hold acquisition, the five       *)
(* settlement rails, the buyer's and the seller's cancellation, the expiry *)
(* sweeps, the late-money fork and the manual-review resolution.           *)
(*                                                                         *)
(* Every transaction takes row locks in one order (payment, order,         *)
(* listings) and re-reads what it decides on under them, so a transaction  *)
(* is one step.  A handler that calls Paykit, Stripe or the Lock Server    *)
(* between two transactions is one step per transaction: the reply is      *)
(* chosen freely when the second one runs, whatever happened in between.   *)
(*                                                                         *)
(* Orders here are fixed-price shipped or pickup orders.  Drops, auctions  *)
(* and digital delivery put further conditions on the same transactions.   *)
(***************************************************************************)
EXTENDS ListingStock

CONSTANTS
    PickupOrders,  \* the orders collected in person
    Rails,         \* the settlement rails this deployment offers
    MaxAttempts    \* bound: bitcoin binds one order may make

ASSUME AttemptsType == MaxAttempts \in Nat
ASSUME KindsType    == PickupOrders \subseteq Orders

VARIABLES
    order,         \* the orders row
    payment,       \* the payments row of the order
    released,      \* paykit_superseded_attempts.state
    receipts       \* receipts issued for the order

vars  == <<available, reserved, sold, total, lstate, deleted, older,
           order, payment, released, receipts>>

OrderStates == {"none", "pending_payment", "paid", "cancel_requested",
                "cancelled", "refunded_external"}
PaymentStates == {"awaiting_entitlement", "detected", "confirmed",
                  "expired", "manual_review"}
Attempts == 1..MaxAttempts

(* The sats Paykit saw, against the sats the invoice asked for.            *)
Amounts == {"null", "matched", "mismatched"}

(* hold is hold_expires_at: NULL, an instant still ahead, or one passed;   *)
(* method, activation, request, attempt, invoice and observed are          *)
(* payment_method, paykit_activation_state, paykit_request_state,          *)
(* paykit_bind_attempt, paykit_invoice_id and paykit_observed_sats.        *)
OrderRow ==
    [state      : OrderStates,
     stock_held : BOOLEAN,
     hold       : {"null", "armed", "elapsed"},
     method     : {"null", "bitcoin", "stripe", "paypal"},
     activation : {"null", "preparing", "active", "voided"},
     request    : {"null", "preparing", "pending", "detected",
                   "awaiting_seller_confirmation", "confirmed"},
     attempt    : 0..MaxAttempts,
     invoice    : 0..MaxAttempts,
     observed   : Amounts]

Adapters    == {"sandbox", "locks", "paykit", "stripe", "paypal"}
Reasons     == {"null", "late_settlement", "refund_required", "amount_mismatch"}
Outcomes    == {"paid", "refunded", "abandoned"}
LocksStages == {"null", "prepared", "registered", "done"}

PaymentRow ==
    [state      : PaymentStates,
     adapter    : Adapters,
     reason     : Reasons,
     resolution : Outcomes \union {"null"},
     locks      : LocksStages]

NoOrder ==
    [state |-> "none", stock_held |-> FALSE, hold |-> "null",
     method |-> "null", activation |-> "null", request |-> "null",
     attempt |-> 0, invoice |-> 0, observed |-> "null"]

NewPayment ==
    [state |-> "awaiting_entitlement", adapter |-> "sandbox",
     reason |-> "null", resolution |-> "null", locks |-> "null"]

Init ==
    /\ StockInit
    /\ order = [o \in Orders |-> NoOrder]
    /\ payment = [o \in Orders |-> NewPayment]
    /\ released = [o \in Orders |-> [i \in Attempts |-> "null"]]
    /\ receipts = [o \in Orders |-> 0]

-----------------------------------------------------------------------------
(* Stock movements that look at the order.                                 *)

KeepsHold(o) == UNCHANGED stock            \* faulty: the units stay reserved
ReleaseIfHeld(o) ==
    IF order[o].stock_held THEN ReleaseReserved(o) ELSE UNCHANGED stock

(* Faulty: finds the units free and does not reserve them.                 *)
AcquireNothing(o) ==
    /\ order[o].state = "pending_payment"
    /\ order[o].stock_held \/ Fits(o)
    /\ UNCHANGED stock

(* The payment lock point: re-arm a hold that exists, else reserve.        *)
AcquirePaymentHold(o) ==
    /\ order[o].state = "pending_payment"
    /\ IF order[o].stock_held THEN UNCHANGED stock
       ELSE Fits(o) /\ Reserve(o, Lines(o))

-----------------------------------------------------------------------------
(* Row edits several transactions share.                                   *)

Held(r)   == [r EXCEPT !.stock_held = TRUE, !.hold = "armed"]
Paid(r)   == [r EXCEPT !.state = "paid", !.stock_held = FALSE, !.hold = "null"]
Cancel(r) == [r EXCEPT !.state = "cancelled", !.stock_held = FALSE, !.hold = "null"]

(* The states order_machine() lets reach "paid", whatever the trigger.     *)
Payable == {"pending_payment", "cancelled", "refunded_external"}

(* confirm_order accepts the order: its hold is there to be consumed.      *)
CanConfirm(o) ==
    /\ order[o].state \in Payable
    /\ order[o].stock_held
    /\ \A l \in Lines(o) : reserved[l] >= Quantity[o][l]

(* record_released_attempt: the order's present invoice, if it has one,    *)
(* goes under watch once.                                                  *)
Watched(o) ==
    [i \in Attempts |->
        IF i = order[o].invoice /\ released[o][i] = "null"
        THEN "watching" ELSE released[o][i]]

WatchNothing(o) == UNCHANGED released      \* faulty: the old invoice is forgotten
WatchAttempt(o) == released' = [released EXCEPT ![o] = Watched(o)]

(* The first amount Paykit reports is frozen onto the order.               *)
Freeze(r, seen) == [r EXCEPT !.observed = IF @ = "null" THEN seen ELSE @]

Issue(o) == receipts' = [receipts EXCEPT ![o] = @ + 1]

(* apply_late_money on an order whose rows read r and p in this            *)
(* transaction.  A pending order that still holds its stock goes to        *)
(* review; otherwise stock that is free completes the order, and stock     *)
(* that is gone asks for a refund.  reacquire_hold walks the lines one by  *)
(* one and the refund branch commits: the lines it had already taken when  *)
(* it met the one that does not fit stay reserved.                         *)
LateMoney(o, r, p) ==
    /\ r.request # "awaiting_seller_confirmation"
    /\ p.resolution = "null"
    /\ p.state \in {"expired", "awaiting_entitlement"}
    /\ \/ /\ r.state = "pending_payment" /\ r.stock_held
          /\ order' = [order EXCEPT ![o] = r]
          /\ payment' = [payment EXCEPT ![o] =
                [p EXCEPT !.state = "manual_review", !.reason = "late_settlement"]]
          /\ UNCHANGED <<stock, receipts>>
       \/ /\ ~(r.state = "pending_payment" /\ r.stock_held)
          /\ r.state \in Payable
          /\ Fits(o)
          /\ Take(o)
          /\ order' = [order EXCEPT ![o] = Paid(r)]
          /\ payment' = [payment EXCEPT ![o] =
                [p EXCEPT !.state = "confirmed", !.reason = "null"]]
          /\ Issue(o)
       \/ /\ ~(r.state = "pending_payment" /\ r.stock_held)
          /\ ~Fits(o)
          /\ \E taken \in SUBSET {l \in Lines(o) : LineFits(o, l)} : Reserve(o, taken)
          /\ order' = [order EXCEPT ![o] =
                IF r.state = "pending_payment" THEN Cancel(r) ELSE r]
          /\ payment' = [payment EXCEPT ![o] =
                [p EXCEPT !.state = "manual_review", !.reason = "refund_required"]]
          /\ UNCHANGED receipts

(* Faulty: does not look whether the payment is still open.                *)
SettleAgain(o, r, p) ==
    IF CanConfirm(o)
    THEN /\ Convert(o)
         /\ order' = [order EXCEPT ![o] = Paid(r)]
         /\ payment' = [payment EXCEPT ![o] = [p EXCEPT !.state = "confirmed"]]
         /\ Issue(o)
    ELSE /\ order' = [order EXCEPT ![o] = r]
         /\ payment' = [payment EXCEPT ![o] = [p EXCEPT !.state = "manual_review"]]
         /\ UNCHANGED <<stock, receipts>>

(* A verified payment of an order whose rows read r and p: the order is    *)
(* confirmed, or, when it can no longer be, the confirmation rolls back    *)
(* and a second transaction puts the payment under review.                 *)
Settle(o, r, p) ==
    /\ p.state = "awaiting_entitlement"
    /\ IF CanConfirm(o)
       THEN /\ Convert(o)
            /\ order' = [order EXCEPT ![o] = Paid(r)]
            /\ payment' = [payment EXCEPT ![o] = [p EXCEPT !.state = "confirmed"]]
            /\ Issue(o)
       ELSE /\ order' = [order EXCEPT ![o] = r]
            /\ payment' = [payment EXCEPT ![o] = [p EXCEPT !.state = "manual_review"]]
            /\ UNCHANGED <<stock, receipts>>

-----------------------------------------------------------------------------
(* Buyers: checkout, bind, sandbox, cancellation.                          *)

(* checkout.create moves no stock: only a payment locks an item.           *)
Checkout(o) ==
    /\ order[o].state = "none"
    /\ \A l \in Lines(o) : LineFits(o, l) /\ lstate[l] = "available"
    /\ order' = [order EXCEPT ![o].state = "pending_payment"]
    /\ UNCHANGED <<stock, payment, released, receipts>>

Unbound(o) ==
    /\ order[o].state = "pending_payment"
    /\ order[o].method = "null"
    /\ payment[o].state = "awaiting_entitlement"
    /\ payment[o].adapter # "locks"

BindFiat(o, gateway) ==
    /\ gateway \in Rails
    /\ Unbound(o)
    /\ AcquirePaymentHold(o)
    /\ order' = [order EXCEPT ![o] = [Held(@) EXCEPT !.method = gateway]]
    /\ payment' = [payment EXCEPT ![o].adapter = gateway]
    /\ WatchAttempt(o)
    /\ UNCHANGED receipts

(* A bitcoin bind commits only with the prepared invoice Paykit returned;  *)
(* an invoice the order still carries is a released attempt from then on.  *)
(* The attempt number is reserved before the transaction; a bind that      *)
(* rolls back leaves a gap in the numbers, and its invoice was never       *)
(* published: neither is counted here.                                     *)
BindBitcoin(o) ==
    /\ "bitcoin" \in Rails
    /\ Unbound(o)
    /\ order[o].attempt < MaxAttempts
    /\ AcquirePaymentHold(o)
    /\ order' = [order EXCEPT ![o] =
          [Held(@) EXCEPT !.method = "bitcoin",
                          !.attempt = order[o].attempt + 1,
                          !.invoice = order[o].attempt + 1,
                          !.activation = "preparing", !.request = "preparing"]]
    /\ payment' = [payment EXCEPT ![o].adapter = "paykit"]
    /\ WatchAttempt(o)
    /\ UNCHANGED receipts

(* payment.prepare_locks, once per payment.                                *)
PrepareLocks(o) ==
    /\ "locks" \in Rails
    /\ Unbound(o)
    /\ payment[o].locks = "null"
    /\ AcquirePaymentHold(o)
    /\ order' = [order EXCEPT ![o] = Held(@)]
    /\ payment' = [payment EXCEPT ![o].adapter = "locks", ![o].locks = "prepared"]
    /\ UNCHANGED <<released, receipts>>

(* payment.register_locks: only inside the prepared window.                *)
RegisterLocks(o) ==
    /\ payment[o].state = "awaiting_entitlement"
    /\ payment[o].locks = "prepared"
    /\ order[o].state = "pending_payment" /\ order[o].stock_held
    /\ order[o].hold = "armed"
    /\ payment' = [payment EXCEPT ![o].locks = "registered"]
    /\ UNCHANGED <<stock, order, released, receipts>>

(* payment.advance on the sandbox adapter.  The first step locks stock     *)
(* whatever its target is; a confirmation that is refused changes nothing. *)
SandboxAdvance(o, target) ==
    /\ "sandbox" \in Rails
    /\ payment[o].adapter = "sandbox"
    /\ \/ /\ payment[o].state = "awaiting_entitlement"
          /\ target \in {"detected", "expired", "manual_review"}
          /\ AcquirePaymentHold(o)
          /\ order' = [order EXCEPT ![o] = Held(@)]
          /\ UNCHANGED receipts
       \/ /\ payment[o].state = "awaiting_entitlement"
          /\ target = "confirmed"
          /\ order[o].state = "pending_payment"
          /\ IF order[o].stock_held THEN CanConfirm(o) /\ Convert(o)
             ELSE Fits(o) /\ Take(o)
          /\ order' = [order EXCEPT ![o] = Paid(@)]
          /\ Issue(o)
       \/ /\ payment[o].state = "detected"
          /\ target = "manual_review"
          /\ UNCHANGED <<stock, order, receipts>>
       \/ /\ payment[o].state = "detected"
          /\ target = "confirmed"
          /\ CanConfirm(o) /\ Convert(o)
          /\ order' = [order EXCEPT ![o] = Paid(@)]
          /\ Issue(o)
    /\ payment' = [payment EXCEPT ![o].state = target]
    /\ UNCHANGED released

(* order.cancel_request on an unpaid order: immediate, unless Paykit has   *)
(* already seen money.  A Paykit payment ends with it; a request still     *)
(* being prepared is voided and watched.                                   *)
CancelUnpaid(o) ==
    /\ order[o].state = "pending_payment"
    /\ order[o].request \notin
          {"detected", "awaiting_seller_confirmation", "confirmed"}
    /\ ReleaseIfHeld(o)
    /\ LET ends == payment[o].adapter = "paykit"
           voids == ends /\ order[o].activation = "preparing"
       IN /\ order' = [order EXCEPT ![o] =
                IF voids THEN [Cancel(@) EXCEPT !.activation = "voided",
                                                !.request = "null"]
                ELSE Cancel(@)]
          /\ payment' = [payment EXCEPT ![o].state =
                IF ends /\ @ = "awaiting_entitlement" THEN "expired" ELSE @]
          /\ IF voids THEN WatchAttempt(o) ELSE UNCHANGED released
    /\ UNCHANGED receipts

(* order.cancel_request on a paid order waits for the seller ...           *)
CancelPaid(o) ==
    /\ order[o].state = "paid"
    /\ order' = [order EXCEPT ![o].state = "cancel_requested"]
    /\ UNCHANGED <<stock, payment, released, receipts>>

(* ... except the unilateral exits of a pickup order.                      *)
CancelPickup(o) ==
    /\ o \in PickupOrders
    /\ order[o].state = "paid"
    /\ ReleaseSold(o)
    /\ order' = [order EXCEPT ![o] = Cancel(@)]
    /\ UNCHANGED <<payment, released, receipts>>

-----------------------------------------------------------------------------
(* Sellers: approval, refunds, stock, deletion.                            *)

(* Faulty: cancels the order and keeps its units sold.                     *)
ApproveKeepsStock(o) ==
    /\ order[o].state = "cancel_requested"
    /\ order' = [order EXCEPT ![o] = Cancel(@)]
    /\ UNCHANGED <<stock, payment, released, receipts>>

ApproveCancel(o) ==
    /\ order[o].state = "cancel_requested"
    /\ ReleaseSold(o)
    /\ order' = [order EXCEPT ![o] = Cancel(@)]
    /\ UNCHANGED <<payment, released, receipts>>

(* order.record_external_refund looks at the order, not at its payment.    *)
RecordExternalRefund(o) ==
    /\ order[o].state = "cancelled"
    /\ order' = [order EXCEPT ![o].state = "refunded_external"]
    /\ UNCHANGED <<stock, payment, released, receipts>>

AdjustInventory(l, delta) ==
    /\ Adjust(l, delta)
    /\ UNCHANGED <<order, payment, released, receipts>>

Tombstone(l) ==
    /\ Retire(l)
    /\ UNCHANGED <<order, payment, released, receipts>>

(* listing.register and listing.sync.                                      *)
RegisterListing(l, quantity) ==
    /\ Register(l, quantity, {o \in Orders : order[o].state # "none"})
    /\ UNCHANGED <<order, payment, released, receipts>>

-----------------------------------------------------------------------------
(* The gateways and the Lock Server report money.                          *)

(* apply_fiat_paid, for Stripe verification, PayPal IPN and the seller's   *)
(* confirmation alike.                                                     *)
FiatPaid(o) ==
    /\ payment[o].adapter \in {"stripe", "paypal"}
    /\ \/ /\ payment[o].state = "expired"
          /\ LateMoney(o, order[o], payment[o])
       \/ Settle(o, order[o], payment[o])
    /\ UNCHANGED released

(* apply_completed_lifecycle: a completed Locks task, applied once.        *)
LocksCompleted(o) ==
    /\ payment[o].locks = "registered"
    /\ LET p == [payment[o] EXCEPT !.locks = "done"]
       IN \/ /\ p.state = "expired"
             /\ LateMoney(o, order[o], p)
          \/ Settle(o, order[o], p)
    /\ UNCHANGED released

(* record_upstream_terminal: the task failed; the payment is untouched.    *)
LocksTerminal(o) ==
    /\ payment[o].locks = "registered"
    /\ payment' = [payment EXCEPT ![o].locks = "done"]
    /\ UNCHANGED <<stock, order, released, receipts>>

-----------------------------------------------------------------------------
(* Paykit: activation of a prepared invoice, status reports, the seller.   *)

(* The paykit.activate row is delivered: Paykit publishes the invoice ...  *)
ActivateOk(o) ==
    /\ order[o].activation = "preparing"
    /\ order' = [order EXCEPT ![o].activation = "active", ![o].request = "pending"]
    /\ UNCHANGED <<stock, payment, released, receipts>>

(* ... or refuses for good, and void_prepare_effects undoes the bind.      *)
ActivateRefused(o) ==
    /\ order[o].activation = "preparing"
    /\ ReleaseIfHeld(o)
    /\ order' = [order EXCEPT ![o] =
          [@ EXCEPT !.activation = "voided", !.request = "null", !.method = "null",
                    !.stock_held = FALSE, !.hold = "null"]]
    /\ payment' = [payment EXCEPT ![o].adapter = "sandbox"]
    /\ WatchAttempt(o)
    /\ UNCHANGED receipts

(* track_invoice_live_after_void: an activation or a void delivery learns  *)
(* that the invoice went live before the cancel or the sweep voided it.    *)
(* (A void Paykit itself asked for clears the method and leaves no row.)   *)
TrackAfterVoid(o) ==
    /\ order[o].activation = "voided" /\ order[o].method = "bitcoin"
    /\ order[o].state # "pending_payment"
    /\ order' = [order EXCEPT ![o].activation = "active", ![o].request = "pending"]
    /\ payment' = [payment EXCEPT ![o].state =
          IF payment[o].adapter = "paykit" /\ @ = "awaiting_entitlement"
          THEN "expired" ELSE @]
    /\ UNCHANGED <<stock, released, receipts>>

(* A status report reaches the order some time after the poll claimed it.  *)
Polled(o) == order[o].activation = "active" /\ payment[o].adapter = "paykit"

PaykitDetected(o) ==
    /\ Polled(o)
    /\ order[o].request = "pending"
    /\ order' = [order EXCEPT ![o].request = "detected"]
    /\ UNCHANGED <<stock, payment, released, receipts>>

(* A shared_manual creator: the order waits 24 h for its seller.           *)
SharedObserved(o, seen) ==
    /\ Polled(o)
    /\ payment[o].state = "awaiting_entitlement"
    /\ order[o].request \in {"pending", "detected"}
    /\ order' = [order EXCEPT ![o] =
          [Freeze(@, seen) EXCEPT !.request = "awaiting_seller_confirmation",
                                  !.hold = "armed"]]
    /\ UNCHANGED <<stock, payment, released, receipts>>

(* apply_confirmed_paykit_payment.  Lateness is looked at before the       *)
(* amount: late is Paykit's own flag, and an expired payment is late.      *)
PaykitConfirmed(o, late, amount, seen) ==
    /\ Polled(o)
    /\ order[o].request # "awaiting_seller_confirmation"
    /\ seen \in {"null", amount}
    /\ LET r == [Freeze(order[o], seen) EXCEPT !.request = "confirmed"]
           p == payment[o]
       IN \/ /\ p.state = "expired" \/ late
             /\ LateMoney(o, r, p)
          \/ /\ p.state = "awaiting_entitlement" /\ ~late
             /\ amount = "mismatched"
             /\ order' = [order EXCEPT ![o] = r]
             /\ payment' = [payment EXCEPT ![o] =
                   [p EXCEPT !.state = "manual_review", !.reason = "amount_mismatch"]]
             /\ UNCHANGED <<stock, receipts>>
          \/ /\ ~late /\ amount = "matched"
             /\ Settle(o, r, p)
    /\ UNCHANGED released

(* confirm_bitcoin_payment: the seller attests the payment.                *)
SellerConfirms(o) ==
    /\ order[o].request = "awaiting_seller_confirmation"
    /\ payment[o].state = "awaiting_entitlement"
    /\ CanConfirm(o)
    /\ Convert(o)
    /\ order' = [order EXCEPT ![o] = [Paid(@) EXCEPT !.request = "confirmed"]]
    /\ payment' = [payment EXCEPT ![o].state = "confirmed"]
    /\ Issue(o)
    /\ UNCHANGED released

(* The 24 h passed without the seller: review, with the hold kept.         *)
RouteSellerWindow(o) ==
    /\ order[o].request = "awaiting_seller_confirmation"
    /\ order[o].hold = "elapsed"
    /\ payment[o].state = "awaiting_entitlement"
    /\ order' = [order EXCEPT ![o].request = "confirmed", ![o].hold = "null"]
    /\ payment' = [payment EXCEPT ![o].state = "manual_review"]
    /\ UNCHANGED <<stock, released, receipts>>

(* The schema keeps a resolved payment out of manual_review for good       *)
(* (payments_resolution_check): an update that would put it there fails    *)
(* and takes its transaction with it.                                      *)
ReviewableAgain(p) == TRUE                 \* faulty: the constraint is missing
Reviewable(p) == p.resolution = "null"

(* route_released_settlement: confirmed money on a released attempt.       *)
ReleasedSettled(o, i, amount, seen) ==
    /\ released[o][i] = "watching"
    /\ ~(order[o].invoice = i /\ order[o].request # "null")
    /\ seen \in {"null", amount}
    /\ LET otherRail == \/ order[o].method \notin {"null", "bitcoin"}
                        \/ payment[o].adapter \notin {"paykit", "sandbox"}
           settled == \/ payment[o].state \notin {"awaiting_entitlement", "expired"}
                      \/ order[o].request = "awaiting_seller_confirmation"
           r == [order[o] EXCEPT !.method = "bitcoin", !.invoice = i,
                                 !.activation = "active", !.request = "confirmed",
                                 !.observed = seen]
           p == [payment[o] EXCEPT !.adapter = "paykit"]
       IN \/ /\ otherRail \/ settled
             /\ released' = [released EXCEPT ![o][i] = "needs_review"]
             /\ UNCHANGED <<stock, order, payment, receipts>>
          \/ /\ ~otherRail /\ ~settled
             /\ released' = [released EXCEPT ![o] =
                   [Watched(o) EXCEPT ![i] = "late_money"]]
             /\ \/ /\ amount = "mismatched" /\ Reviewable(p)
                   /\ order' = [order EXCEPT ![o] = r]
                   /\ payment' = [payment EXCEPT ![o] =
                         [p EXCEPT !.state = "manual_review",
                                   !.reason = "amount_mismatch"]]
                   /\ UNCHANGED <<stock, receipts>>
                \/ /\ amount = "matched"
                   /\ LateMoney(o, r, p)

(* Nothing came by the end of the tail, or a detection never confirmed.    *)
AttemptCloses(o, i, as) ==
    /\ released[o][i] = "watching"
    /\ released' = [released EXCEPT ![o][i] = as]
    /\ UNCHANGED <<stock, order, payment, receipts>>

-----------------------------------------------------------------------------
(* Faulty: only reviews of orders that are still pending.                  *)
ResolvablePending(o) ==
    /\ payment[o].adapter = "paykit"
    /\ payment[o].state = "manual_review"
    /\ payment[o].resolution = "null"
    /\ order[o].state = "pending_payment"

Resolvable(o) ==
    /\ payment[o].adapter = "paykit"
    /\ payment[o].state = "manual_review"
    /\ payment[o].resolution = "null"
    /\ order[o].state \in {"pending_payment", "cancelled"}

(* apply_manual_review_resolution: the seller's decision, and with         *)
(* "abandoned" the seven-day reaper's.  An effect that fails rolls the     *)
(* decision back with it.                                                  *)
Resolve(o, outcome) ==
    /\ Resolvable(o)
    /\ \/ /\ outcome = "paid"
          /\ payment[o].reason # "refund_required"
          /\ IF order[o].state = "pending_payment" /\ order[o].stock_held
             THEN CanConfirm(o) /\ Convert(o)
             ELSE Fits(o) /\ Take(o)
          /\ order' = [order EXCEPT ![o] = Paid(@)]
          /\ Issue(o)
       \/ /\ outcome = "refunded"
          /\ order[o].observed # "null"
          /\ IF order[o].state = "pending_payment"
             THEN ReleaseIfHeld(o) ELSE UNCHANGED stock
          /\ order' = [order EXCEPT ![o] =
                [Cancel(@) EXCEPT !.state = "refunded_external"]]
          /\ UNCHANGED receipts
       \/ /\ outcome = "abandoned"
          /\ IF order[o].state = "pending_payment"
             THEN ReleaseIfHeld(o) ELSE UNCHANGED stock
          /\ order' = [order EXCEPT ![o] = Cancel(@)]
          /\ UNCHANGED receipts
    /\ payment' = [payment EXCEPT ![o].resolution = outcome,
          ![o].state = IF outcome = "abandoned" THEN "expired" ELSE "confirmed"]
    /\ UNCHANGED released

(* watch_manual_reviews: a payment that waited seven days is abandoned;    *)
(* against the seller's own decision, the first to commit wins.            *)
Abandon(o) == Resolve(o, "abandoned")

-----------------------------------------------------------------------------
(* The sweeps.                                                             *)

HoldElapses(o) ==
    /\ order[o].hold = "armed"
    /\ order' = [order EXCEPT ![o].hold = "elapsed"]
    /\ UNCHANGED <<stock, payment, released, receipts>>

Expire(p) == IF p.state = "awaiting_entitlement"
             THEN [p EXCEPT !.state = "expired"] ELSE p

(* Faulty: sweeps holds whose payment is under review.                     *)
HeldDueAnyPayment(o) ==
    /\ order[o].state = "pending_payment" /\ order[o].stock_held
    /\ order[o].hold \in {"null", "elapsed"}

(* Faulty: forgets payments that were advanced to detected or expired.     *)
HeldDueOpenPayment(o) ==
    /\ order[o].state = "pending_payment" /\ order[o].stock_held
    /\ order[o].hold \in {"null", "elapsed"}
    /\ payment[o].state = "awaiting_entitlement"

HeldDue(o) ==
    /\ order[o].state = "pending_payment" /\ order[o].stock_held
    /\ order[o].hold \in {"null", "elapsed"}
    /\ payment[o].state \in {"awaiting_entitlement", "detected", "expired"}

(* expire_held_order for every hold that is due, except those that wait    *)
(* for Paykit or for the seller.                                           *)
SweepHeld(o) ==
    /\ HeldDue(o)
    /\ order[o].activation # "preparing"
    /\ order[o].request # "awaiting_seller_confirmation"
    /\ ReleaseReserved(o)
    /\ order' = [order EXCEPT ![o] = Cancel(@)]
    /\ payment' = [payment EXCEPT ![o] = Expire(@)]
    /\ UNCHANGED <<released, receipts>>

(* expire_preparing_order: Paykit voids the invoice, or cannot be reached  *)
(* for the whole grace period, and the order expires with it ...           *)
SweepPreparing(o) ==
    /\ HeldDue(o)
    /\ payment[o].state = "awaiting_entitlement"
    /\ order[o].activation = "preparing"
    /\ ReleaseReserved(o)
    /\ order' = [order EXCEPT ![o] =
          [Cancel(@) EXCEPT !.activation = "voided", !.request = "null"]]
    /\ payment' = [payment EXCEPT ![o] = Expire(@)]
    /\ WatchAttempt(o)
    /\ UNCHANGED receipts

(* ... or it was published after all, and the order goes on being watched. *)
SweepFindsPublished(o) ==
    /\ HeldDue(o)
    /\ payment[o].state = "awaiting_entitlement"
    /\ order[o].activation = "preparing"
    /\ order' = [order EXCEPT ![o].activation = "active", ![o].request = "pending"]
    /\ UNCHANGED <<stock, payment, released, receipts>>

(* A checkout nobody bound is cancelled; it holds nothing.                 *)
SweepIdle(o) ==
    /\ order[o].state = "pending_payment" /\ ~order[o].stock_held
    /\ order[o].method = "null"
    /\ payment[o].state = "awaiting_entitlement"
    /\ order' = [order EXCEPT ![o] = Cancel(@)]
    /\ payment' = [payment EXCEPT ![o] = Expire(@)]
    /\ UNCHANGED <<stock, released, receipts>>

-----------------------------------------------------------------------------
Buyer(o) ==
    \/ Checkout(o)
    \/ \E gateway \in {"stripe", "paypal"} : BindFiat(o, gateway)
    \/ BindBitcoin(o)
    \/ PrepareLocks(o)
    \/ RegisterLocks(o)
    \/ \E target \in PaymentStates : SandboxAdvance(o, target)
    \/ CancelUnpaid(o)
    \/ CancelPaid(o)
    \/ CancelPickup(o)

Seller(o) ==
    \/ ApproveCancel(o)
    \/ RecordExternalRefund(o)
    \/ SellerConfirms(o)
    \/ \E outcome \in Outcomes : Resolve(o, outcome)

Upstream(o) ==
    \/ FiatPaid(o)
    \/ LocksCompleted(o)
    \/ LocksTerminal(o)
    \/ ActivateOk(o)
    \/ ActivateRefused(o)
    \/ TrackAfterVoid(o)
    \/ PaykitDetected(o)
    \/ \E seen \in Amounts : SharedObserved(o, seen)
    \/ \E late \in BOOLEAN, amount \in {"matched", "mismatched"}, seen \in Amounts :
          PaykitConfirmed(o, late, amount, seen)
    \/ \E i \in Attempts, amount \in {"matched", "mismatched"}, seen \in Amounts :
          ReleasedSettled(o, i, amount, seen)
    \/ \E i \in Attempts, as \in {"closed_unpaid", "needs_review"} :
          AttemptCloses(o, i, as)

Sweeps(o) ==
    \/ HoldElapses(o)
    \/ SweepHeld(o)
    \/ SweepPreparing(o)
    \/ SweepFindsPublished(o)
    \/ SweepIdle(o)
    \/ RouteSellerWindow(o)

ListingStep(l) ==
    \/ Tombstone(l)
    \/ \E d \in {-1, 1} : AdjustInventory(l, d)
    \/ \E quantity \in 1..MaxTotal : RegisterListing(l, quantity)

Next ==
    \/ \E o \in Orders : Buyer(o) \/ Seller(o) \/ Upstream(o) \/ Sweeps(o)
    \/ \E l \in Listings : ListingStep(l)

Spec == Init /\ [][Next]_vars

(* The workers run every sweep again and again, and time passes; nothing   *)
(* is assumed of buyers, sellers, gateways or Paykit.                      *)
Fairness ==
    \A o \in Orders :
        /\ WF_vars(HoldElapses(o))
        /\ WF_vars(SweepHeld(o))
        /\ WF_vars(SweepPreparing(o))
        /\ WF_vars(SweepIdle(o))
        /\ WF_vars(RouteSellerWindow(o))
        /\ WF_vars(Abandon(o))

FairSpec == Spec /\ Fairness

-----------------------------------------------------------------------------
(* Properties.                                                             *)

(* Every row holds values of its column's type; the quantity columns never *)
(* go below zero, which the listings table checks.                         *)
TypeOK ==
    /\ StockTypeOK
    /\ order \in [Orders -> OrderRow]
    /\ payment \in [Orders -> PaymentRow]
    /\ released \in [Orders -> [Attempts ->
          {"null", "watching", "closed_unpaid", "late_money", "needs_review"}]]
    /\ receipts \in [Orders -> Nat]

HeldOrders == {o \in Orders : order[o].stock_held}
SoldOrders == {o \in Orders : order[o].state \in {"paid", "cancel_requested"}}

(* The stock side of this module is the ledger, with the orders that have  *)
(* stock_held set as its holds and the paid ones as its sales.             *)
Ledger == INSTANCE StockLedger WITH held <- HeldOrders, bought <- SoldOrders

(* Whatever the rails, the sweeps, the sellers and late money do, in any   *)
(* order, every step moves stock the way the ledger allows, or not at all. *)
StockFollowsLedger == Ledger!LedgerSpec

(* Two orders never hold the same unit: what all orders with stock_held    *)
(* claim is in reserved_quantity, so confirm_order never finds it gone.    *)
HoldsAreBacked == Ledger!HoldsBacked

(* sold_quantity counts the units of the orders that were paid and not     *)
(* called off, whichever rail, late completion or resolution paid them.    *)
SoldIsPaidFor == Ledger!SalesCounted

(* The converse of HoldsAreBacked: every reserved unit has an order that   *)
(* holds it, and will give it back.                                        *)
ReservedHasHolder ==
    \A l \in Listings : Cardinality(Units(l, HeldOrders)) = reserved[l]

(* One receipt per order, issued exactly with the confirmed payment: a     *)
(* settlement reported twice, late, or by two rails never confirms twice,  *)
(* and a payment is confirmed without a receipt only by a refund.          *)
ReceiptOncePerPayment ==
    \A o \in Orders :
        /\ receipts[o] <= 1
        /\ receipts[o] = 1 <=> payment[o].state = "confirmed"
                                /\ payment[o].resolution # "refunded"
        /\ order[o].state \in {"paid", "cancel_requested"} => receipts[o] = 1

(* Every invoice an order ever had stays polled, or its watch was closed:  *)
(* it is the one the order row tracks under the Paykit adapter, or it has  *)
(* a released-attempt row that the order row does not shadow.              *)
InvoicesStayWatched ==
    \A o \in Orders : \A i \in 1..order[o].attempt :
        LET tracked == order[o].invoice = i /\ order[o].request # "null"
        IN  IF tracked THEN payment[o].adapter = "paykit"
            ELSE released[o][i] # "null"

(* Stock held for money that was seen stays until someone decides: while   *)
(* the seller is waited for, or a Paykit payment is under review, no sweep *)
(* and no cancellation takes the hold away.                                *)
SeenMoneyKeepsStock ==
    [][\A o \in Orders :
        (/\ order[o].stock_held /\ ~order'[o].stock_held
         /\ \/ order[o].request = "awaiting_seller_confirmation"
            \/ payment[o].adapter = "paykit" /\ payment[o].state = "manual_review")
        => order'[o].state = "paid" \/ payment'[o].resolution # "null"]_vars

(* A review is decided once: whatever money arrives later, on the order's  *)
(* invoice or on a released one, and whoever else would decide, a resolved *)
(* payment keeps its row (the resolution CAS, the predicates of            *)
(* complete_late_order and stamp_review_reason, payments_resolution_check). *)
DecisionsAreFinal ==
    [][\A o \in Orders :
        payment[o].resolution # "null" => payment'[o] = payment[o]]_vars

(* No buyer can keep stock for ever by not paying: a hold ends, unless a   *)
(* payment on a rail without resolution waits in review.                   *)
HoldsEnd ==
    \A o \in Orders :
        order[o].stock_held ~>
            \/ ~order[o].stock_held
            \/ payment[o].state = "manual_review" /\ payment[o].adapter # "paykit"

(* A Paykit payment under review is decided in the end, by the seller or   *)
(* by the seven-day reaper, unless the seller recorded a refund outside.   *)
ReviewsEnd ==
    \A o \in Orders :
        payment[o].state = "manual_review" /\ payment[o].adapter = "paykit" ~>
            \/ payment[o].resolution # "null"
            \/ order[o].state = "refunded_external"

=============================================================================
