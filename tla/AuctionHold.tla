---------------------------- MODULE AuctionHold ----------------------------
(***************************************************************************)
(* An auction over a listing with stock.  The winner's hold is not a hold  *)
(* of the order but a row of the reservations table, the table in which    *)
(* inventory.reserve, which any buyer may use on the same listing, keeps   *)
(* its rows; the order finds its hold by listing and buyer.  The bidding   *)
(* is AuctionBids, whose close is here the whole transaction: the sale     *)
(* takes a unit and makes the reservation, the order and its payment.      *)
(*                                                                         *)
(* The winner pays by bitcoin or by a fiat gateway; the rails are those of *)
(* Settlement, cut down to what reaches an auction order, which never has  *)
(* stock_held and is swept by no order sweep.  The two phases of a bitcoin *)
(* bind are one step, and a deletion is final.                             *)
(***************************************************************************)
EXTENDS AuctionBids, FiniteSetsExt

CONSTANTS
    Reservations,      \* the ids reservations may get
    Quantity,          \* the units the listing is registered with
    MaxTotal           \* bound: the units a seller may raise it to

ASSUME QuantityPositive == Quantity \in Nat \ {0} /\ MaxTotal \in Nat

VARIABLES
    stock,         \* the quantity columns and the state of the listing
    reservation,   \* the reservations table
    order          \* the winning order with its payment

holdVars == <<stock, reservation, order>>
auctionVars == <<now, terms, auction, bids, deleted, stock, reservation, order>>

NoReservation == [status |-> "none", buyer |-> NoOne, quantity |-> 0, due |-> FALSE]

(* request is paykit_request_state, money the payment's state, reason its  *)
(* review_reason.                                                          *)
NoOrder == [state |-> "none", buyer |-> NoOne, rail |-> "null", request |-> "null",
            money |-> "awaiting", reason |-> "null", resolution |-> "null"]

AuctionInit ==
    /\ BidInit
    /\ stock = [available |-> Quantity, reserved |-> 0, sold |-> 0, state |-> "available"]
    /\ reservation = [r \in Reservations |-> NoReservation]
    /\ order = NoOrder

-----------------------------------------------------------------------------
(* The reservations table.                                                 *)

Having(status, b) == {r \in Reservations :
    reservation[r].status = status /\ reservation[r].buyer = b}
ActiveOf(b) == Having("active", b)
LapsedOf(b) == Having("expired", b) \union Having("released", b)

Marked(rs, status) == [r \in Reservations |->
    IF r \in rs THEN [reservation[r] EXCEPT !.status = status] ELSE reservation[r]]

UnitsIn(rs) == MapThenSumSet(LAMBDA r : reservation[r].quantity, rs)

(* q units reserved, released or sold in one update of the listing row.    *)
Reserved(x, q) ==
    [x EXCEPT !.available = @ - q, !.reserved = @ + q,
              !.state = IF x.available = q THEN "reserved" ELSE "available"]
Released(x, q) ==
    [x EXCEPT !.available = @ + q, !.reserved = @ - q, !.state = "available"]
Sold(x) ==
    [x EXCEPT !.reserved = @ - 1, !.sold = @ + 1,
              !.state = IF x.available > 0 THEN "available"
                        ELSE IF x.reserved > 1 THEN "reserved" ELSE "sold"]

UnitFree == ~deleted /\ stock.available >= 1

(* inventory.reserve does not look at the sale format.                     *)
ReserveInventory(r, b, q) ==
    /\ reservation[r].status = "none"
    /\ ~deleted
    /\ q <= stock.available
    /\ stock.state = "sold" => q < stock.available
    /\ stock' = Reserved(stock, q)
    /\ reservation' = [reservation EXCEPT ![r] =
          [status |-> "active", buyer |-> b, quantity |-> q, due |-> FALSE]]
    /\ UNCHANGED <<bidVars, order>>

(* expires_at passes.                                                      *)
Lapse(r) ==
    /\ reservation[r].status = "active" /\ ~reservation[r].due
    /\ reservation' = [reservation EXCEPT ![r].due = TRUE]
    /\ UNCHANGED <<bidVars, stock, order>>

(* The winner's reservation is kept while their bitcoin waits for the      *)
(* seller or sits in review.                                               *)
PreservesNothing(r) == FALSE             \* faulty: every due hold is swept
PreservesWinner(r) == order.buyer = reservation[r].buyer   \* faulty: never swept
Preserved(r) ==
    /\ order.state # "none" /\ order.buyer = reservation[r].buyer
    /\ order.rail = "bitcoin"
    /\ order.request = "awaiting_seller" \/ order.money = "manual_review"

Due == {r \in Reservations :
    reservation[r].status = "active" /\ reservation[r].due /\ ~Preserved(r)}

(* expire_due_reservations: one transaction for the batch.  A row whose    *)
(* units the listing does not have reserved fails it whole.                *)
ExpireDue ==
    /\ Due # {}
    /\ UnitsIn(Due) <= stock.reserved
    /\ reservation' = Marked(Due, "expired")
    /\ stock' = Released(stock, UnitsIn(Due))
    /\ UNCHANGED <<bidVars, order>>

-----------------------------------------------------------------------------
(* The close, and the winner's order.                                      *)

(* The unit the sale takes must be there: the columns' CHECK fails the     *)
(* close otherwise, and the worker tries again.                            *)
CloseSold(r) ==
    /\ Close /\ auction'.status = "sold"
    /\ reservation[r].status = "none"
    /\ stock.available >= 1
    /\ stock' = [stock EXCEPT !.available = @ - 1, !.reserved = @ + 1,
                                  !.state = "reserved"]
    /\ reservation' = [reservation EXCEPT ![r] =
          [status |-> "active", buyer |-> auction.leader, quantity |-> 1, due |-> FALSE]]
    /\ order' = [NoOrder EXCEPT !.state = "pending_payment", !.buyer = auction.leader]

CloseUnsold ==
    /\ Close /\ auction'.status = "unsold"
    /\ stock' = [stock EXCEPT !.state = "available"]
    /\ UNCHANGED <<reservation, order>>

(* The bind's lock point leaves an auction order alone.                    *)
Bind(rail) ==
    /\ order.state = "pending_payment" /\ order.rail = "null"
    /\ order.money = "awaiting"
    /\ order' = [order EXCEPT !.rail = rail,
                              !.request = IF rail = "bitcoin" THEN "pending" ELSE "null"]
    /\ UNCHANGED <<bidVars, stock, reservation>>

Payable == {"pending_payment", "cancelled", "refunded_external"}

(* confirm_order accepts an auction order that has a reservation, and      *)
(* consumes every active reservation its buyer has on the listing.         *)
CanConfirm ==
    /\ order.state \in Payable
    /\ ActiveOf(order.buyer) # {}
    /\ stock.reserved >= 1

ConfirmOrder(o) ==
    /\ reservation' = Marked(ActiveOf(order.buyer), "converted")
    /\ stock' = Sold(stock)
    /\ order' = [o EXCEPT !.state = "paid", !.money = "confirmed", !.reason = "null"]

(* Money in time: confirmed, or put under review when it cannot be.        *)
MoneyArrives ==
    /\ order.rail # "null" /\ order.money = "awaiting"
    /\ order.request # "awaiting_seller"
    /\ LET o == [order EXCEPT !.request = IF order.rail = "bitcoin" THEN "confirmed" ELSE @]
       IN  IF CanConfirm THEN ConfirmOrder(o)
           ELSE /\ order' = [o EXCEPT !.money = "manual_review"]
                /\ UNCHANGED <<stock, reservation>>
    /\ UNCHANGED bidVars

MoneyMismatched ==
    /\ order.rail = "bitcoin" /\ order.money = "awaiting"
    /\ order.request # "awaiting_seller"
    /\ order' = [order EXCEPT !.request = "confirmed", !.money = "manual_review",
                              !.reason = "amount_mismatch"]
    /\ UNCHANGED <<bidVars, stock, reservation>>

MoneyDetected ==
    /\ order.rail = "bitcoin" /\ order.request = "pending"
    /\ order' = [order EXCEPT !.request = "detected"]
    /\ UNCHANGED <<bidVars, stock, reservation>>

(* A shared_manual sighting: the winner's reservations are extended to the *)
(* seller's 24 hours.                                                      *)
SharedObserved ==
    /\ order.rail = "bitcoin" /\ order.money = "awaiting"
    /\ order.request \in {"pending", "detected"}
    /\ order' = [order EXCEPT !.request = "awaiting_seller"]
    /\ reservation' = [r \in Reservations |->
          IF r \in ActiveOf(order.buyer) THEN [reservation[r] EXCEPT !.due = FALSE]
          ELSE reservation[r]]
    /\ UNCHANGED <<bidVars, stock>>

SellerConfirms ==
    /\ order.request = "awaiting_seller" /\ order.money = "awaiting"
    /\ CanConfirm
    /\ ConfirmOrder([order EXCEPT !.request = "confirmed"])
    /\ UNCHANGED bidVars

RouteSellerWindow ==
    /\ order.request = "awaiting_seller" /\ order.money = "awaiting"
    /\ order' = [order EXCEPT !.request = "confirmed", !.money = "manual_review"]
    /\ UNCHANGED <<bidVars, stock, reservation>>

(* release_reserved_hold: whichever active reservations the buyer has are  *)
(* released, and one unit with them.                                       *)
ReleaseReservedHold ==
    IF ActiveOf(order.buyer) = {} THEN UNCHANGED <<stock, reservation>>
    ELSE /\ stock.reserved >= 1
         /\ reservation' = Marked(ActiveOf(order.buyer), "released")
         /\ stock' = Released(stock, 1)

(* order.cancel_request of the unpaid order; a bitcoin payment ends.       *)
CancelUnpaid ==
    /\ order.state = "pending_payment"
    /\ order.request \in {"null", "pending"}
    /\ ReleaseReservedHold
    /\ order' = [order EXCEPT !.state = "cancelled", !.money =
          IF order.rail = "bitcoin" /\ @ = "awaiting" THEN "expired" ELSE @]
    /\ UNCHANGED bidVars

(* A paid order is called off with its seller, and its unit is restocked.  *)
CancelPaid ==
    /\ order.state = "paid"
    /\ order' = [order EXCEPT !.state = "cancel_requested"]
    /\ UNCHANGED <<bidVars, stock, reservation>>

ApproveCancel ==
    /\ order.state = "cancel_requested"
    /\ stock.sold >= 1
    /\ stock' = [stock EXCEPT !.sold = @ - 1, !.available = @ + 1, !.state = "available"]
    /\ order' = [order EXCEPT !.state = "cancelled"]
    /\ UNCHANGED <<bidVars, reservation>>

RecordExternalRefund ==
    /\ order.state = "cancelled"
    /\ order' = [order EXCEPT !.state = "refunded_external"]
    /\ UNCHANGED <<bidVars, stock, reservation>>

(* reacquire_hold: exactly one lapsed reservation of the buyer, and a unit *)
(* of the live listing.                                                    *)
OneLapsed == Cardinality(LapsedOf(order.buyer)) = 1

Reacquired ==
    LET back == LapsedOf(order.buyer)
    IN  /\ reservation' = Marked(back \union ActiveOf(order.buyer), "converted")
        /\ stock' = Sold(Reserved(stock, 1))

(* apply_late_money: bitcoin after the payment ended, or flagged late.     *)
(* Only orders with stock_held count as still held.  The refund branch     *)
(* commits what reacquire_hold had written before it failed.               *)
LateMoney ==
    /\ order.rail = "bitcoin" /\ order.money \in {"awaiting", "expired"}
    /\ order.request # "awaiting_seller" /\ order.resolution = "null"
    /\ \/ /\ OneLapsed /\ UnitFree /\ order.state \in Payable
          /\ Reacquired
          /\ order' = [order EXCEPT !.state = "paid", !.money = "confirmed",
                                    !.request = "confirmed"]
       \/ /\ ~(OneLapsed /\ UnitFree)
          /\ reservation' = IF OneLapsed
                            THEN [r \in Reservations |->
                                    IF r \in LapsedOf(order.buyer)
                                    THEN [reservation[r] EXCEPT !.status = "active", !.due = FALSE]
                                    ELSE reservation[r]]
                            ELSE reservation
          /\ order' = [order EXCEPT
                !.state = IF @ = "pending_payment" THEN "cancelled" ELSE @,
                !.request = "confirmed", !.money = "manual_review", !.reason = "refund_required"]
          /\ UNCHANGED stock
    /\ UNCHANGED bidVars

(* apply_manual_review_resolution by the seller, or "abandoned" by the     *)
(* seven-day reaper.                                                       *)
Resolve(outcome) ==
    /\ order.rail = "bitcoin" /\ order.money = "manual_review"
    /\ order.resolution = "null"
    /\ order.state \in {"pending_payment", "cancelled"}
    /\ \/ /\ outcome = "paid" /\ order.reason # "refund_required"
          /\ IF order.state = "pending_payment" /\ ActiveOf(order.buyer) # {}
             THEN /\ CanConfirm
                  /\ reservation' = Marked(ActiveOf(order.buyer), "converted")
                  /\ stock' = Sold(stock)
             ELSE OneLapsed /\ UnitFree /\ Reacquired
          /\ order' = [order EXCEPT !.state = "paid", !.money = "confirmed",
                                    !.resolution = outcome]
       \/ /\ outcome \in {"refunded", "abandoned"}
          /\ IF order.state = "pending_payment" THEN ReleaseReservedHold
             ELSE UNCHANGED <<stock, reservation>>
          /\ order' = [order EXCEPT
                !.state = IF outcome = "refunded" THEN "refunded_external" ELSE "cancelled",
                !.money = IF outcome = "refunded" THEN "confirmed" ELSE "expired",
                !.resolution = outcome]
    /\ UNCHANGED bidVars

-----------------------------------------------------------------------------
(* The seller's stock: listing.register of the same terms, and             *)
(* inventory.adjust, which moves the total by what it moves the shelf.     *)
Committed == stock.reserved + stock.sold

Reregister(quantity) ==
    /\ ~deleted
    /\ quantity >= Committed
    /\ stock' = [stock EXCEPT !.available = quantity - Committed,
          !.state = IF quantity > Committed THEN "available"
                    ELSE IF Committed > 0 THEN "reserved" ELSE "sold"]
    /\ UNCHANGED <<bidVars, reservation, order>>

AdjustInventory(delta) ==
    /\ ~deleted
    /\ stock.available + delta >= 0
    /\ Committed + stock.available + delta \in 0..MaxTotal
    /\ stock' = [stock EXCEPT !.available = @ + delta,
          !.state = IF stock.available + delta > 0 THEN "available"
                    ELSE IF stock.reserved > 0 THEN "reserved" ELSE "sold"]
    /\ UNCHANGED <<bidVars, reservation, order>>

(* The reserve of an auction that has opened is fixed.                     *)
Bidding ==
    /\ \/ Tick \/ TombstoneAuction
       \/ \E b \in Bidders, maximum \in 1..MaxAmount : PlaceBid(b, maximum)
    /\ UNCHANGED holdVars

Closing == CloseUnsold \/ \E r \in Reservations : CloseSold(r)

Paying ==
    \/ \E rail \in {"bitcoin", "fiat"} : Bind(rail)
    \/ MoneyArrives \/ MoneyMismatched \/ MoneyDetected
    \/ SharedObserved \/ SellerConfirms \/ RouteSellerWindow
    \/ CancelUnpaid \/ CancelPaid \/ ApproveCancel \/ RecordExternalRefund
    \/ \E outcome \in {"paid", "refunded", "abandoned"} : Resolve(outcome)

Reserving ==
    \/ \E r \in Reservations, b \in Bidders, q \in 1..MaxTotal : ReserveInventory(r, b, q)
    \/ \E r \in Reservations : Lapse(r)
    \/ ExpireDue

Stocking ==
    \/ \E quantity \in 1..MaxTotal : Reregister(quantity)
    \/ \E delta \in {-1, 1} : AdjustInventory(delta)

AuctionNext == Bidding \/ Closing \/ Paying \/ LateMoney \/ Reserving \/ Stocking

(* The workers run their sweeps in every cycle and time passes; nothing is *)
(* assumed of buyers, sellers or money.                                    *)
Fairness ==
    /\ WF_auctionVars(Tick /\ UNCHANGED holdVars) /\ WF_auctionVars(Closing)
    /\ \A r \in Reservations : WF_auctionVars(Lapse(r))
    /\ WF_auctionVars(ExpireDue) /\ WF_auctionVars(RouteSellerWindow) /\ WF_auctionVars(Resolve("abandoned"))

AuctionSpec == AuctionInit /\ [][AuctionNext]_auctionVars /\ Fairness

-----------------------------------------------------------------------------
(* Properties.                                                             *)

Active == {r \in Reservations : reservation[r].status = "active"}

(* Stock stays held while the buyer's bitcoin waits for the seller or for  *)
(* a decision: no sweep takes a reservation from under it.                 *)
Waiting(o) == o.rail = "bitcoin"
                  /\ (o.request = "awaiting_seller" \/ o.money = "manual_review")
WaitingMoneyKeepsHold ==
    [][Waiting(order) /\ Waiting(order') =>
          \A r \in ActiveOf(order.buyer) : reservation'[r].status = "active"]_auctionVars

(* Two ways a hold is left behind that the code does not mend: a           *)
(* reservation without a unit, which a failed re-acquisition or the        *)
(* release of a winner's second reservation leaves and which fails the     *)
(* whole batch of the sweep; and a refund recorded while the payment is    *)
(* under review, which then can no longer be resolved.                     *)
Unbacked == UnitsIn(Active) > stock.reserved
RefundedInReview == order.state = "refunded_external" /\ order.money = "manual_review"

(* Holds end: every active reservation is at last converted, released or   *)
(* expired, whatever the buyer and the seller do or leave undone and       *)
(* however late money comes, unless one of those two happened.             *)
ReservationsEnd ==
    \A r \in Reservations :
        reservation[r].status = "active"
            ~> reservation[r].status # "active" \/ Unbacked \/ RefundedInReview

=============================================================================
