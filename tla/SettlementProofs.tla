-------------------------- MODULE SettlementProofs --------------------------
(***************************************************************************)
(* What each transaction of the settlement does to the order rows, to the  *)
(* stock and to the payment rows, for any orders, listings, quantities,    *)
(* rails and numbers of attempts.                                          *)
(*                                                                         *)
(* First, every step is a step of the stock ledger and keeps every row     *)
(* within its columns' types.  The argument needs one fact of the order    *)
(* rows alone: an order that holds stock is pending_payment.  With it a    *)
(* confirmation is a sale of units that were held, a late completion a     *)
(* sale of units that were not, and no order ever holds and owns units at  *)
(* once.                                                                   *)
(*                                                                         *)
(* Then the money: how the columns of an order row and of its payment row  *)
(* constrain each other, from which receipts, decisions, seen money and    *)
(* watched invoices follow.                                                *)
(*                                                                         *)
(* Last, with the theorem of the ledger itself, the invariants of the      *)
(* stock: no unit is lost, holds are backed and sales are paid for.        *)
(***************************************************************************)
EXTENDS Settlement, TLAPS

(* The inductive invariant of the order rows.                              *)
OrdersOK ==
    /\ order \in [Orders -> OrderRow]
    /\ \A o \in Orders : order[o].stock_held => order[o].state = "pending_payment"

SoldStates == {"paid", "cancel_requested"}

(* A step rewrites the row of one order.                                   *)
Becomes(o, r) == r \in OrderRow /\ order' = [order EXCEPT ![o] = r]

(* What a step owes the ledger.                                            *)
StockStep == [Ledger!LedgerNext]_(Ledger!ledger)

-----------------------------------------------------------------------------
(* The sets the ledger sees, after one row was rewritten.                  *)

(* A command rewrites the row of its order and no other.                   *)
LEMMA RowRewritten ==
    ASSUME OrdersOK, NEW o \in Orders, NEW r, Becomes(o, r)
    PROVE  /\ order' \in [Orders -> OrderRow]
           /\ order'[o] = r
           /\ \A q \in Orders : q # o => order'[q] = order[q]
BY DEF OrdersOK, Becomes

(* How rewriting a row changes the sets the ledger sees.                   *)
LEMMA SetsAfter ==
    ASSUME OrdersOK, NEW o \in Orders, NEW r, Becomes(o, r),
           r.stock_held => r.state = "pending_payment"
    PROVE  /\ OrdersOK'
           /\ HeldOrders' = IF r.stock_held THEN HeldOrders \union {o} ELSE HeldOrders \ {o}
           /\ SoldOrders' = IF r.state \in SoldStates THEN SoldOrders \union {o}
                                                      ELSE SoldOrders \ {o}
<1>1. /\ order' \in [Orders -> OrderRow]
      /\ order'[o] = r
      /\ \A q \in Orders : q # o => order'[q] = order[q]
  BY RowRewritten
<1>2. OrdersOK'
  BY <1>1 DEF OrdersOK
<1>3. HeldOrders' = IF r.stock_held THEN HeldOrders \union {o} ELSE HeldOrders \ {o}
  BY <1>1 DEF HeldOrders
<1>4. SoldOrders' = IF r.state \in SoldStates THEN SoldOrders \union {o}
                                              ELSE SoldOrders \ {o}
  BY <1>1 DEF SoldOrders, SoldStates
<1> QED
  BY <1>2, <1>3, <1>4

(* The ledger's movements are this module's, on the same columns.          *)
LEMMA SameMovements ==
    ASSUME NEW o \in Orders
    PROVE  /\ Ledger!Lines(o) = Lines(o)
           /\ Ledger!Fits(o) <=> Fits(o)
           /\ \A l \in Listings : Ledger!LineFits(o, l) <=> LineFits(o, l)
           /\ \A ls : Ledger!Reserve(o, ls) <=> Reserve(o, ls)
           /\ Ledger!Convert(o) <=> Convert(o)
           /\ Ledger!Take(o) <=> Take(o)
           /\ Ledger!ReleaseReserved(o) <=> ReleaseReserved(o)
           /\ Ledger!ReleaseSold(o) <=> ReleaseSold(o)
BY Zenon DEF Ledger!Lines, Lines, Ledger!Fits, Fits, Ledger!LineFits, LineFits,
       Ledger!Reserve, Reserve, Ledger!Convert, Convert, Ledger!Take, Take,
       Ledger!ReleaseReserved, ReleaseReserved, Ledger!ReleaseSold, ReleaseSold

-----------------------------------------------------------------------------
(* One lemma per kind of step.                                             *)

(* The row changes, the stock does not.                                    *)
LEMMA NoMovement ==
    ASSUME OrdersOK, NEW o \in Orders, NEW r, Becomes(o, r), UNCHANGED stock,
           r.stock_held = order[o].stock_held,
           r.stock_held => r.state = "pending_payment",
           r.state \in SoldStates <=> order[o].state \in SoldStates
    PROVE  OrdersOK' /\ StockStep
<1>1. HeldOrders' = HeldOrders
  BY SetsAfter DEF HeldOrders
<1>2. SoldOrders' = SoldOrders
  BY SetsAfter DEF SoldOrders, SoldStates
<1>3. UNCHANGED Ledger!ledger
  BY <1>1, <1>2 DEF Ledger!ledger, stock
<1> QED
  BY <1>3, SetsAfter DEF StockStep

(* acquire_payment_hold is a hold, or changes no stock.                    *)
LEMMA Acquires ==
    ASSUME OrdersOK, NEW o \in Orders, NEW r, Becomes(o, r), AcquirePaymentHold(o),
           r.stock_held, r.state = "pending_payment"
    PROVE  OrdersOK' /\ StockStep
<1>1. CASE order[o].stock_held
  BY <1>1, NoMovement, Zenon DEF AcquirePaymentHold, SoldStates
<1>2. CASE ~order[o].stock_held
  <2>1. OrdersOK' /\ HeldOrders' = HeldOrders \union {o} /\ SoldOrders' = SoldOrders \ {o}
    BY SetsAfter DEF SoldStates
  <2>2. o \notin HeldOrders \union SoldOrders
    BY <1>2 DEF HeldOrders, SoldOrders, AcquirePaymentHold
  <2>3. Fits(o) /\ Reserve(o, Lines(o))
    BY <1>2 DEF AcquirePaymentHold
  <2>4. Ledger!TakeHold(o)
    BY <2>1, <2>2, <2>3, SameMovements DEF Ledger!TakeHold
  <2> QED
    BY <2>1, <2>4 DEF StockStep, Ledger!LedgerNext
<1> QED
  BY <1>1, <1>2 DEF OrdersOK, OrderRow

(* A confirmation is a sale of the hold.                                   *)
LEMMA Confirms ==
    ASSUME OrdersOK, NEW o \in Orders, NEW r, Becomes(o, r), CanConfirm(o), Convert(o),
           ~r.stock_held, r.state = "paid"
    PROVE  OrdersOK' /\ StockStep
<1>1. OrdersOK' /\ HeldOrders' = HeldOrders \ {o} /\ SoldOrders' = SoldOrders \union {o}
  BY SetsAfter DEF SoldStates
<1>2. o \in HeldOrders \ SoldOrders
  BY DEF HeldOrders, SoldOrders, CanConfirm, OrdersOK
<1>3. Ledger!SellHeld(o)
  BY <1>1, <1>2, SameMovements, Zenon DEF Ledger!SellHeld, CanConfirm
<1> QED
  BY <1>1, <1>3 DEF StockStep, Ledger!LedgerNext

(* A payment of an order without a hold is a sale from the shelf.          *)
LEMMA Takes ==
    ASSUME OrdersOK, NEW o \in Orders, NEW r, Becomes(o, r), Fits(o), Take(o),
           ~order[o].stock_held, order[o].state \notin SoldStates,
           ~r.stock_held, r.state = "paid"
    PROVE  OrdersOK' /\ StockStep
<1>1. OrdersOK' /\ HeldOrders' = HeldOrders \ {o} /\ SoldOrders' = SoldOrders \union {o}
  BY SetsAfter DEF SoldStates
<1>2. o \notin HeldOrders \union SoldOrders
  BY Zenon DEF HeldOrders, SoldOrders, SoldStates
<1>3. Ledger!SellFree(o)
  BY <1>1, <1>2, SameMovements DEF Ledger!SellFree
<1> QED
  BY <1>1, <1>3 DEF StockStep, Ledger!LedgerNext

(* An unpaid order that ends gives back what it holds, if anything.        *)
LEMMA Releases ==
    ASSUME OrdersOK, NEW o \in Orders, NEW r, Becomes(o, r), ReleaseIfHeld(o),
           order[o].state \notin SoldStates,
           ~r.stock_held, r.state \notin SoldStates
    PROVE  OrdersOK' /\ StockStep
<1>1. CASE ~order[o].stock_held
  BY <1>1, NoMovement, Zenon DEF ReleaseIfHeld, OrdersOK, OrderRow, Becomes
<1>2. CASE order[o].stock_held
  <2>1. OrdersOK' /\ HeldOrders' = HeldOrders \ {o} /\ SoldOrders' = SoldOrders \ {o}
    BY SetsAfter
  <2>2. o \in HeldOrders /\ o \notin SoldOrders
    BY <1>2 DEF HeldOrders, SoldOrders, SoldStates
  <2>3. ReleaseReserved(o)
    BY <1>2 DEF ReleaseIfHeld
  <2>4. Ledger!DropHold(o)
    BY <2>1, <2>2, <2>3, SameMovements, Zenon DEF Ledger!DropHold
  <2> QED
    BY <2>1, <2>4, Zenon DEF StockStep, Ledger!LedgerNext
<1> QED
  BY <1>1, <1>2

(* A called-off sale goes back to the shelf.                               *)
LEMMA CallsOff ==
    ASSUME OrdersOK, NEW o \in Orders, NEW r, Becomes(o, r), ReleaseSold(o),
           order[o].state \in SoldStates,
           ~r.stock_held, r.state \notin SoldStates
    PROVE  OrdersOK' /\ StockStep
<1>1. OrdersOK' /\ HeldOrders' = HeldOrders \ {o} /\ SoldOrders' = SoldOrders \ {o}
  BY SetsAfter
<1>2. o \notin HeldOrders /\ o \in SoldOrders
  BY DEF HeldOrders, SoldOrders, SoldStates, OrdersOK
<1>3. Ledger!CallOff(o)
  BY <1>1, <1>2, SameMovements, Zenon DEF Ledger!CallOff
<1> QED
  BY <1>1, <1>3, Zenon DEF StockStep, Ledger!LedgerNext

(* Late money without a hold that finds a line it cannot serve.            *)
LEMMA Leaks ==
    ASSUME OrdersOK, NEW o \in Orders, NEW r, Becomes(o, r), ~Fits(o),
           \E taken \in SUBSET {l \in Lines(o) : LineFits(o, l)} : Reserve(o, taken),
           ~order[o].stock_held, ~r.stock_held,
           r.state \in SoldStates <=> order[o].state \in SoldStates
    PROVE  OrdersOK' /\ StockStep
<1>1. OrdersOK'
  BY SetsAfter, Zenon
<1>2. HeldOrders' = HeldOrders
  BY SetsAfter, Zenon DEF HeldOrders
<1>3. SoldOrders' = SoldOrders
  BY SetsAfter, Zenon DEF SoldOrders, SoldStates
<1>4. PICK taken \in SUBSET {l \in Lines(o) : LineFits(o, l)} : Reserve(o, taken)
  BY Zenon
<1>5. taken \in SUBSET {l \in Ledger!Lines(o) : Ledger!LineFits(o, l)}
  BY <1>4, SameMovements, Zenon DEF Lines
<1>6. Ledger!LeakLines(o)
  BY <1>2, <1>3, <1>4, <1>5, SameMovements, Zenon DEF Ledger!LeakLines
<1> QED
  BY <1>1, <1>6, Zenon DEF StockStep, Ledger!LedgerNext

-----------------------------------------------------------------------------
(* The row edits, and the two outcomes of money several rails share.       *)

(* What the three edits of an order row leave in it.                       *)
LEMMA RowEdits ==
    ASSUME NEW r \in OrderRow
    PROVE  /\ Held(r) \in OrderRow
           /\ Held(r).stock_held /\ Held(r).state = r.state
           /\ Paid(r) \in OrderRow
           /\ ~Paid(r).stock_held /\ Paid(r).state = "paid"
           /\ Cancel(r) \in OrderRow
           /\ ~Cancel(r).stock_held /\ Cancel(r).state = "cancelled"
BY ZenonT(60) DEF Held, Paid, Cancel, OrderRow, OrderStates

(* apply_late_money: a sale, a hold, a leak or nothing.                    *)
LEMMA LateMoneyMoves ==
    ASSUME OrdersOK, NEW o \in Orders, NEW r \in OrderRow, NEW p, LateMoney(o, r, p),
           r.state = order[o].state, r.stock_held = order[o].stock_held
    PROVE  OrdersOK' /\ StockStep
<1>1. CASE r.state = "pending_payment" /\ r.stock_held
  <2>1. Becomes(o, r) /\ UNCHANGED stock
    BY <1>1 DEF LateMoney, Becomes
  <2> QED
    BY <1>1, <2>1, NoMovement, Zenon
<1>2. CASE ~(r.state = "pending_payment" /\ r.stock_held)
  <2>1. ~order[o].stock_held
    BY <1>2 DEF OrdersOK
  <2>2. CASE /\ r.state \in Payable /\ Fits(o) /\ Take(o)
             /\ order' = [order EXCEPT ![o] = Paid(r)]
    <3>1. Becomes(o, Paid(r))
      BY <2>2, RowEdits DEF Becomes
    <3>2. order[o].state \notin SoldStates
      BY <2>2 DEF Payable, SoldStates
    <3> QED
      BY <2>1, <2>2, <3>1, <3>2, RowEdits, Takes, Zenon
  <2>3. CASE /\ ~Fits(o)
             /\ \E taken \in SUBSET {l \in Lines(o) : LineFits(o, l)} : Reserve(o, taken)
             /\ order' = [order EXCEPT ![o] =
                   IF r.state = "pending_payment" THEN Cancel(r) ELSE r]
    <3>1. CASE r.state = "pending_payment"
      <4>1. Becomes(o, Cancel(r))
        BY <2>3, <3>1, RowEdits DEF Becomes
      <4> QED
        BY <2>1, <2>3, <3>1, <4>1, RowEdits, Leaks, Zenon DEF SoldStates
    <3>2. CASE r.state # "pending_payment"
      <4>1. Becomes(o, r)
        BY <2>3, <3>2 DEF Becomes
      <4> QED
        BY <2>1, <2>3, <4>1, Leaks, Zenon
    <3> QED
      BY <3>1, <3>2
  <2> QED
    BY <1>2, <2>2, <2>3, Zenon DEF LateMoney
<1> QED
  BY <1>1, <1>2

(* Money on an open order is a sale, on a closed one late money.           *)
LEMMA SettleMoves ==
    ASSUME OrdersOK, NEW o \in Orders, NEW r \in OrderRow, NEW p, Settle(o, r, p),
           r.state = order[o].state, r.stock_held = order[o].stock_held
    PROVE  OrdersOK' /\ StockStep
<1>1. CASE CanConfirm(o)
  <2>1. Becomes(o, Paid(r)) /\ Convert(o)
    BY <1>1, RowEdits DEF Settle, Becomes
  <2> QED
    BY <1>1, <2>1, RowEdits, Confirms, Zenon
<1>2. CASE ~CanConfirm(o)
  <2>1. Becomes(o, r) /\ UNCHANGED stock
    BY <1>2 DEF Settle, Becomes
  <2> QED
    BY <2>1, NoMovement, Zenon DEF OrdersOK
<1> QED
  BY <1>1, <1>2, Zenon

-----------------------------------------------------------------------------
(* One step per action.                                                    *)

(* Every command of the buyer is a ledger movement or none.                *)
LEMMA BuyerMoves ==
    ASSUME OrdersOK, NEW o \in Orders, Buyer(o)
    PROVE  OrdersOK' /\ StockStep
<1>0. order[o] \in OrderRow
  BY DEF OrdersOK
<1>1. CASE Checkout(o)
  <2> DEFINE r == [order[o] EXCEPT !.state = "pending_payment"]
  <2>1. Becomes(o, r) /\ UNCHANGED stock
    BY <1>0, <1>1 DEF Checkout, Becomes, OrderRow, OrderStates
  <2>2. r.state = "pending_payment" /\ r.stock_held = order[o].stock_held
    BY <1>0 DEF OrderRow
  <2> HIDE DEF r
  <2> QED
    BY <1>1, <2>1, <2>2, NoMovement DEF Checkout, SoldStates
<1>2. ASSUME NEW gateway \in {"stripe", "paypal"}, BindFiat(o, gateway)
      PROVE  OrdersOK' /\ StockStep
  <2> DEFINE r == [Held(order[o]) EXCEPT !.method = gateway]
  <2>1. r \in OrderRow /\ r.stock_held /\ r.state = order[o].state
    BY <1>0, Zenon DEF Held, OrderRow
  <2>2. Becomes(o, r)
    BY <1>2, <2>1 DEF BindFiat, Becomes
  <2> HIDE DEF r
  <2> QED
    BY <1>2, <2>1, <2>2, Acquires DEF BindFiat, AcquirePaymentHold
<1>3. CASE BindBitcoin(o)
  <2> DEFINE e(h, n) == [h EXCEPT !.method = "bitcoin", !.attempt = n, !.invoice = n,
                                  !.activation = "preparing", !.request = "preparing"]
             r == e(Held(order[o]), order[o].attempt + 1)
  <2>1. order[o].attempt + 1 \in 0..MaxAttempts
    BY <1>0, <1>3, AttemptsType DEF BindBitcoin, OrderRow
  <2>2. \A h \in OrderRow, n \in 0..MaxAttempts :
          e(h, n) \in OrderRow /\ e(h, n).stock_held = h.stock_held /\ e(h, n).state = h.state
    BY ZenonT(60) DEF OrderRow
  <2>3. order' = [order EXCEPT ![o] = r]
    BY <1>3 DEF BindBitcoin
  <2> HIDE DEF e
  <2>4. r \in OrderRow /\ r.stock_held /\ r.state = order[o].state
    BY <1>0, <2>1, <2>2, RowEdits, SMTT(60)
  <2> HIDE DEF r
  <2>5. Becomes(o, r)
    BY <2>3, <2>4 DEF Becomes
  <2> QED
    BY <1>3, <2>4, <2>5, Acquires DEF BindBitcoin, AcquirePaymentHold
<1>4. CASE PrepareLocks(o)
  <2>1. Becomes(o, Held(order[o]))
    BY <1>0, <1>4, RowEdits DEF PrepareLocks, Becomes
  <2> QED
    BY <1>0, <1>4, <2>1, RowEdits, Acquires DEF PrepareLocks, AcquirePaymentHold
<1>5. CASE RegisterLocks(o)
  <2>1. Becomes(o, order[o]) /\ UNCHANGED stock
    BY <1>0, <1>5 DEF RegisterLocks, Becomes, OrdersOK
  <2> QED
    BY <2>1, NoMovement, Zenon DEF OrdersOK
<1>6. ASSUME NEW target \in PaymentStates, SandboxAdvance(o, target)
      PROVE  OrdersOK' /\ StockStep
  <2>1. CASE AcquirePaymentHold(o) /\ order' = [order EXCEPT ![o] = Held(@)]
    <3>1. Becomes(o, Held(order[o]))
      BY <1>0, <2>1, RowEdits, Zenon DEF Becomes
    <3> QED
      BY <1>0, <2>1, <3>1, RowEdits, Acquires, Zenon DEF AcquirePaymentHold
  <2>2. CASE CanConfirm(o) /\ Convert(o) /\ order' = [order EXCEPT ![o] = Paid(@)]
    <3>1. Becomes(o, Paid(order[o]))
      BY <1>0, <2>2, RowEdits, Zenon DEF Becomes
    <3> QED
      BY <1>0, <2>2, <3>1, RowEdits, Confirms, Zenon
  <2>3. CASE /\ order[o].state = "pending_payment" /\ ~order[o].stock_held
             /\ Fits(o) /\ Take(o) /\ order' = [order EXCEPT ![o] = Paid(@)]
    <3>1. Becomes(o, Paid(order[o]))
      BY <1>0, <2>3, RowEdits, Zenon DEF Becomes
    <3> QED
      BY <1>0, <2>3, <3>1, RowEdits, Takes, Zenon DEF SoldStates
  <2>4. CASE UNCHANGED <<stock, order>>
    <3>1. Becomes(o, order[o]) /\ UNCHANGED stock
      BY <1>0, <2>4 DEF Becomes, OrdersOK
    <3> QED
      BY <3>1, NoMovement, Zenon DEF OrdersOK
  <2> QED
    BY <1>6, <2>1, <2>2, <2>3, <2>4, Zenon DEF SandboxAdvance
<1>7. CASE CancelUnpaid(o)
  <2> DEFINE v == [Cancel(order[o]) EXCEPT !.activation = "voided", !.request = "null"]
  <2>1. v \in OrderRow /\ ~v.stock_held /\ v.state = "cancelled"
    BY <1>0, Zenon DEF Cancel, OrderRow, OrderStates
  <2>2. Becomes(o, v) \/ Becomes(o, Cancel(order[o]))
    BY <1>0, <1>7, <2>1, RowEdits, Zenon DEF CancelUnpaid, Becomes
  <2> HIDE DEF v
  <2> QED
    BY <1>0, <1>7, <2>1, <2>2, RowEdits, Releases, Zenon DEF CancelUnpaid, SoldStates
<1>8. CASE CancelPaid(o)
  <2> DEFINE r == [order[o] EXCEPT !.state = "cancel_requested"]
  <2>1. /\ r \in OrderRow /\ r.state = "cancel_requested"
        /\ r.stock_held = order[o].stock_held
    BY <1>0 DEF OrderRow, OrderStates
  <2>2. Becomes(o, r) /\ UNCHANGED stock
    BY <1>8, <2>1 DEF CancelPaid, Becomes
  <2> HIDE DEF r
  <2> QED
    BY <1>8, <2>1, <2>2, NoMovement DEF CancelPaid, SoldStates, OrdersOK
<1>9. CASE CancelPickup(o)
  <2>1. Becomes(o, Cancel(order[o]))
    BY <1>0, <1>9, RowEdits, Zenon DEF CancelPickup, Becomes
  <2> QED
    BY <1>0, <1>9, <2>1, RowEdits, CallsOff, Zenon DEF CancelPickup, SoldStates
<1> QED
  BY <1>1, <1>2, <1>3, <1>4, <1>5, <1>6, <1>7, <1>8, <1>9 DEF Buyer

(* Every command of the seller is one or none.                             *)
LEMMA SellerMoves ==
    ASSUME OrdersOK, NEW o \in Orders, Seller(o)
    PROVE  OrdersOK' /\ StockStep
<1>0. order[o] \in OrderRow
  BY DEF OrdersOK
<1>1. CASE ApproveCancel(o)
  <2>1. Becomes(o, Cancel(order[o]))
    BY <1>0, <1>1, RowEdits, Zenon DEF ApproveCancel, Becomes
  <2> QED
    BY <1>0, <1>1, <2>1, RowEdits, CallsOff, Zenon DEF ApproveCancel, SoldStates
<1>2. CASE RecordExternalRefund(o)
  <2> DEFINE r == [order[o] EXCEPT !.state = "refunded_external"]
  <2>1. /\ r \in OrderRow /\ r.state = "refunded_external"
        /\ r.stock_held = order[o].stock_held
    BY <1>0 DEF OrderRow, OrderStates
  <2>2. Becomes(o, r) /\ UNCHANGED stock
    BY <1>2, <2>1 DEF RecordExternalRefund, Becomes
  <2> HIDE DEF r
  <2> QED
    BY <1>2, <2>1, <2>2, NoMovement DEF RecordExternalRefund, SoldStates, OrdersOK
<1>3. CASE SellerConfirms(o)
  <2> DEFINE r == [Paid(order[o]) EXCEPT !.request = "confirmed"]
  <2>1. r \in OrderRow /\ r.state = "paid" /\ ~r.stock_held
    BY <1>0, ZenonT(60) DEF Paid, OrderRow, OrderStates
  <2>2. Becomes(o, r)
    BY <1>3, <2>1 DEF SellerConfirms, Becomes
  <2> HIDE DEF r
  <2> QED
    BY <1>3, <2>1, <2>2, Confirms DEF SellerConfirms
<1>4. ASSUME NEW outcome \in Outcomes, Resolve(o, outcome)
      PROVE  OrdersOK' /\ StockStep
  <2>0. order[o].state \notin SoldStates
    BY <1>4 DEF Resolve, Resolvable, SoldStates
  <2>1. CASE outcome = "paid"
    <3>1. Becomes(o, Paid(order[o]))
      BY <1>0, <1>4, <2>1, RowEdits DEF Resolve, Becomes
    <3>2. CASE order[o].state = "pending_payment" /\ order[o].stock_held
      BY <1>0, <1>4, <2>1, <3>1, <3>2, RowEdits, Confirms DEF Resolve
    <3>3. CASE ~(order[o].state = "pending_payment" /\ order[o].stock_held)
      <4>1. ~order[o].stock_held /\ Fits(o) /\ Take(o)
        BY <1>4, <2>1, <3>3 DEF Resolve, OrdersOK
      <4> QED
        BY <1>0, <2>0, <3>1, <4>1, RowEdits, Takes, Zenon
    <3> QED
      BY <3>2, <3>3, Zenon
  <2>2. CASE outcome # "paid"
    <3> DEFINE r == [Cancel(order[o]) EXCEPT !.state = "refunded_external"]
    <3>1. r \in OrderRow /\ r.state = "refunded_external" /\ ~r.stock_held
      BY <1>0, Zenon DEF Cancel, OrderRow, OrderStates
    <3>2. Becomes(o, r) \/ Becomes(o, Cancel(order[o]))
      BY <1>0, <1>4, <2>2, <3>1, RowEdits, Zenon DEF Resolve, Becomes
    <3>3. ReleaseIfHeld(o)
      BY <1>4, <2>2, Zenon DEF Resolve, ReleaseIfHeld, OrdersOK
    <3> HIDE DEF r
    <3> QED
      BY <1>0, <2>0, <3>1, <3>2, <3>3, RowEdits, Releases, Zenon DEF SoldStates
  <2> QED
    BY <2>1, <2>2
<1> QED
  BY <1>1, <1>2, <1>3, <1>4, Zenon DEF Seller

(* Fields other than state and stock_held do not concern the ledger.       *)
LEMMA OtherFields ==
    ASSUME OrdersOK, NEW o \in Orders, NEW r \in OrderRow,
           order' = [order EXCEPT ![o] = r], UNCHANGED stock,
           r.state = order[o].state, r.stock_held = order[o].stock_held
    PROVE  OrdersOK' /\ StockStep
<1>1. Becomes(o, r)
  BY DEF Becomes
<1> QED
  BY <1>1, NoMovement, Zenon DEF OrdersOK

(* Every sweep is one or none.                                             *)
LEMMA SweepsMove ==
    ASSUME OrdersOK, NEW o \in Orders, Sweeps(o)
    PROVE  OrdersOK' /\ StockStep
<1>0. order[o] \in OrderRow
  BY DEF OrdersOK
<1>1. CASE HoldElapses(o)
  <2> DEFINE r == [order[o] EXCEPT !.hold = "elapsed"]
  <2>1. r \in OrderRow /\ r.state = order[o].state /\ r.stock_held = order[o].stock_held
    BY <1>0 DEF OrderRow
  <2>2. order' = [order EXCEPT ![o] = r] /\ UNCHANGED stock
    BY <1>1 DEF HoldElapses
  <2> HIDE DEF r
  <2> QED
    BY <2>1, <2>2, OtherFields, Zenon
<1>2. CASE SweepHeld(o)
  <2>1. Becomes(o, Cancel(order[o])) /\ ReleaseIfHeld(o)
    BY <1>0, <1>2, RowEdits, Zenon DEF SweepHeld, HeldDue, ReleaseIfHeld, Becomes
  <2> QED
    BY <1>0, <1>2, <2>1, RowEdits, Releases, Zenon DEF SweepHeld, HeldDue, SoldStates
<1>3. CASE SweepPreparing(o)
  <2> DEFINE r == [Cancel(order[o]) EXCEPT !.activation = "voided", !.request = "null"]
  <2>1. r \in OrderRow /\ r.state = "cancelled" /\ ~r.stock_held
    BY <1>0, ZenonT(60) DEF Cancel, OrderRow, OrderStates
  <2>2. Becomes(o, r) /\ ReleaseIfHeld(o)
    BY <1>3, <2>1 DEF SweepPreparing, HeldDue, ReleaseIfHeld, Becomes
  <2> HIDE DEF r
  <2> QED
    BY <1>3, <2>1, <2>2, Releases DEF SweepPreparing, HeldDue, SoldStates
<1>4. CASE SweepFindsPublished(o)
  <2> DEFINE r == [order[o] EXCEPT !.activation = "active", !.request = "pending"]
  <2>1. r \in OrderRow /\ r.state = order[o].state /\ r.stock_held = order[o].stock_held
    BY <1>0, Zenon DEF OrderRow
  <2>2. order' = [order EXCEPT ![o] = r] /\ UNCHANGED stock
    BY <1>4, Zenon DEF SweepFindsPublished
  <2> HIDE DEF r
  <2> QED
    BY <2>1, <2>2, OtherFields, Zenon
<1>5. CASE SweepIdle(o)
  <2>1. Becomes(o, Cancel(order[o])) /\ ReleaseIfHeld(o)
    BY <1>0, <1>5, RowEdits, Zenon DEF SweepIdle, ReleaseIfHeld, Becomes
  <2> QED
    BY <1>0, <1>5, <2>1, RowEdits, Releases, Zenon DEF SweepIdle, SoldStates
<1>6. CASE RouteSellerWindow(o)
  <2> DEFINE r == [order[o] EXCEPT !.request = "confirmed", !.hold = "null"]
  <2>1. r \in OrderRow /\ r.state = order[o].state /\ r.stock_held = order[o].stock_held
    BY <1>0, Zenon DEF OrderRow
  <2>2. order' = [order EXCEPT ![o] = r] /\ UNCHANGED stock
    BY <1>6, Zenon DEF RouteSellerWindow
  <2> HIDE DEF r
  <2> QED
    BY <2>1, <2>2, OtherFields, Zenon
<1> QED
  BY <1>1, <1>2, <1>3, <1>4, <1>5, <1>6 DEF Sweeps

(* Every answer of Paykit, Locks or a gateway is one or none.              *)
LEMMA UpstreamMoves ==
    ASSUME OrdersOK, NEW o \in Orders, Upstream(o)
    PROVE  OrdersOK' /\ StockStep
<1>0. order[o] \in OrderRow
  BY DEF OrdersOK
<1>1. CASE FiatPaid(o)
  BY <1>0, <1>1, LateMoneyMoves, SettleMoves, Zenon DEF FiatPaid
<1>2. CASE LocksCompleted(o)
  BY <1>0, <1>2, LateMoneyMoves, SettleMoves DEF LocksCompleted
<1>3. CASE UNCHANGED <<stock, order>>
  <2>1. order' = [order EXCEPT ![o] = order[o]] /\ UNCHANGED stock
    BY <1>3 DEF OrdersOK
  <2> QED
    BY <1>0, <2>1, OtherFields, Zenon
<1>4. CASE ActivateOk(o) \/ TrackAfterVoid(o)
  <2> DEFINE r == [order[o] EXCEPT !.activation = "active", !.request = "pending"]
  <2>1. r \in OrderRow /\ r.state = order[o].state /\ r.stock_held = order[o].stock_held
    BY <1>0, Zenon DEF OrderRow
  <2>2. order' = [order EXCEPT ![o] = r] /\ UNCHANGED stock
    BY <1>4, Zenon DEF ActivateOk, TrackAfterVoid
  <2> HIDE DEF r
  <2> QED
    BY <2>1, <2>2, OtherFields, Zenon
<1>5. CASE ActivateRefused(o)
  <2> DEFINE r == [order[o] EXCEPT !.activation = "voided", !.request = "null",
                      !.method = "null", !.stock_held = FALSE, !.hold = "null"]
  <2>1. r \in OrderRow /\ r.state = order[o].state /\ ~r.stock_held
    BY <1>0, Zenon DEF OrderRow
  <2>2. order' = [order EXCEPT ![o] = r] /\ ReleaseIfHeld(o)
    BY <1>5 DEF ActivateRefused
  <2> HIDE DEF r
  <2>3. CASE order[o].stock_held
    <3>1. order[o].state \notin SoldStates
      BY <2>3 DEF OrdersOK, SoldStates
    <3> QED
      BY <2>1, <2>2, <3>1, Releases, Zenon DEF Becomes
  <2>4. CASE ~order[o].stock_held
    <3>1. r.stock_held = order[o].stock_held /\ UNCHANGED stock
      BY <1>0, <2>1, <2>2, <2>4, Zenon DEF ReleaseIfHeld, OrderRow
    <3> QED
      BY <2>1, <2>2, <3>1, OtherFields, Zenon
  <2> QED
    BY <2>3, <2>4
<1>6. CASE PaykitDetected(o)
  <2> DEFINE r == [order[o] EXCEPT !.request = "detected"]
  <2>1. r \in OrderRow /\ r.state = order[o].state /\ r.stock_held = order[o].stock_held
    BY <1>0 DEF OrderRow
  <2>2. order' = [order EXCEPT ![o] = r] /\ UNCHANGED stock
    BY <1>6 DEF PaykitDetected
  <2> HIDE DEF r
  <2> QED
    BY <2>1, <2>2, OtherFields, Zenon
<1>7. ASSUME NEW seen \in Amounts, SharedObserved(o, seen)
      PROVE  OrdersOK' /\ StockStep
  <2> DEFINE r == [Freeze(order[o], seen) EXCEPT
                      !.request = "awaiting_seller_confirmation", !.hold = "armed"]
  <2>1. r \in OrderRow /\ r.state = order[o].state /\ r.stock_held = order[o].stock_held
    BY <1>0, ZenonT(60) DEF Freeze, OrderRow
  <2>2. order' = [order EXCEPT ![o] = r] /\ UNCHANGED stock
    BY <1>7 DEF SharedObserved
  <2> HIDE DEF r
  <2> QED
    BY <2>1, <2>2, OtherFields, Zenon
<1>8. ASSUME NEW late \in BOOLEAN, NEW amount \in {"matched", "mismatched"},
             NEW seen \in Amounts, PaykitConfirmed(o, late, amount, seen)
      PROVE  OrdersOK' /\ StockStep
  <2> DEFINE r == [Freeze(order[o], seen) EXCEPT !.request = "confirmed"]
  <2>1. r \in OrderRow /\ r.state = order[o].state /\ r.stock_held = order[o].stock_held
    BY <1>0, ZenonT(60) DEF Freeze, OrderRow
  <2>2. \/ LateMoney(o, r, payment[o])
        \/ Settle(o, r, payment[o])
        \/ order' = [order EXCEPT ![o] = r] /\ UNCHANGED stock
    BY <1>8 DEF PaykitConfirmed
  <2> HIDE DEF r
  <2> QED
    BY <2>1, <2>2, OtherFields, LateMoneyMoves, SettleMoves, Zenon
<1>9. ASSUME NEW i \in Attempts, NEW amount \in {"matched", "mismatched"},
             NEW seen \in Amounts, ReleasedSettled(o, i, amount, seen)
      PROVE  OrdersOK' /\ StockStep
  <2> DEFINE r == [order[o] EXCEPT !.method = "bitcoin", !.invoice = i,
                      !.activation = "active", !.request = "confirmed", !.observed = seen]
             p == [payment[o] EXCEPT !.adapter = "paykit"]
  <2>0. i \in 0..MaxAttempts
    BY AttemptsType DEF Attempts
  <2>1. r \in OrderRow /\ r.state = order[o].state /\ r.stock_held = order[o].stock_held
    BY <1>0, <2>0, Zenon DEF OrderRow
  <2>2. \/ LateMoney(o, r, p)
        \/ order' = [order EXCEPT ![o] = r] /\ UNCHANGED stock
        \/ UNCHANGED <<stock, order>>
    BY <1>9, Zenon DEF ReleasedSettled
  <2> HIDE DEF r, p
  <2> QED
    BY <1>3, <2>1, <2>2, OtherFields, LateMoneyMoves, Zenon
<1> QED
  BY <1>1, <1>2, <1>3, <1>4, <1>5, <1>6, <1>7, <1>8, <1>9
  DEF Upstream, LocksTerminal, AttemptCloses

-----------------------------------------------------------------------------
(* The settlement implements the ledger.                                   *)

(* The first state is one of the ledger.                                   *)
LEMMA InitRefines == Init => OrdersOK /\ Ledger!LedgerInit
<1> SUFFICES ASSUME Init PROVE OrdersOK /\ Ledger!LedgerInit
  OBVIOUS
<1>1. NoOrder \in OrderRow /\ ~NoOrder.stock_held /\ NoOrder.state = "none"
  BY AttemptsType DEF NoOrder, OrderRow, OrderStates, Amounts
<1>2. OrdersOK
  BY <1>1 DEF Init, OrdersOK
<1>3. HeldOrders = {} /\ SoldOrders = {}
  BY <1>1 DEF Init, HeldOrders, SoldOrders
<1> QED
  BY <1>2, <1>3, Zenon DEF Init, Ledger!LedgerInit, Ledger!StockInit, StockInit

(* What the seller does to a listing is a movement of the ledger.          *)
LEMMA ListingMoves ==
    ASSUME OrdersOK, NEW l \in Listings,
           ListingStep(l)
    PROVE  OrdersOK' /\ StockStep
<1>1. order' = order
  BY Zenon DEF ListingStep, Tombstone, AdjustInventory, RegisterListing
<1>2. HeldOrders' = HeldOrders /\ SoldOrders' = SoldOrders
  BY <1>1, Zenon DEF HeldOrders, SoldOrders
<1>3. Ledger!Restock(l)
  BY <1>2, SMTT(60) DEF Ledger!Restock, Ledger!Retire, Retire, Tombstone,
              Ledger!Adjust, Adjust, AdjustInventory, ListingStep,
              Ledger!Register, Register, RegisterListing
<1> QED
  BY <1>1, <1>3 DEF StockStep, Ledger!LedgerNext, OrdersOK

(* Every step of the settlement is a ledger step or leaves stock alone.    *)
LEMMA NextRefines == OrdersOK /\ [Next]_vars => OrdersOK' /\ StockStep
<1> SUFFICES ASSUME OrdersOK, [Next]_vars PROVE OrdersOK' /\ StockStep
  OBVIOUS
<1>1. CASE \E o \in Orders : Buyer(o) \/ Seller(o) \/ Upstream(o) \/ Sweeps(o)
  BY <1>1, BuyerMoves, SellerMoves, UpstreamMoves, SweepsMove
<1>2. CASE \E l \in Listings : ListingStep(l)
  BY <1>2, ListingMoves
<1>3. CASE UNCHANGED vars
  BY <1>3, Zenon DEF vars, OrdersOK, StockStep, Ledger!ledger, HeldOrders, SoldOrders
<1> QED
  BY <1>1, <1>2, <1>3, Zenon DEF Next

(* Every transaction that touches stock, on every rail, moves it the way   *)
(* the ledger allows: holds come from free units, sales from holds or free *)
(* units, releases give back what was held or sold, once.                  *)
THEOREM SettlementImplementsLedger == Spec => StockFollowsLedger
<1>1. Init => OrdersOK /\ Ledger!LedgerInit
  BY InitRefines
<1>2. OrdersOK /\ [Next]_vars => OrdersOK' /\ [Ledger!LedgerNext]_(Ledger!ledger)
  BY NextRefines DEF StockStep
<1> QED
  BY <1>1, <1>2, PTL DEF Spec, StockFollowsLedger, Ledger!LedgerSpec

-----------------------------------------------------------------------------
(* The payment rows, the watched attempts and the receipts.                *)

(* The values the code writes are values of their columns.                 *)
LEMMA ColumnValues ==
    /\ {"awaiting_entitlement", "confirmed", "expired", "manual_review"} \subseteq PaymentStates
    /\ {"null", "late_settlement", "refund_required", "amount_mismatch"} \subseteq Reasons
    /\ {"sandbox", "locks", "paykit", "stripe", "paypal"} \subseteq Adapters
    /\ {"prepared", "registered", "done"} \subseteq LocksStages
BY DEF PaymentStates, Reasons, Adapters, LocksStages

(* A payment row with one or two columns rewritten is a payment row.       *)
LEMMA PaymentColumns ==
    ASSUME NEW p \in PaymentRow, NEW s \in PaymentStates
    PROVE  /\ [p EXCEPT !.state = s] \in PaymentRow
           /\ \A n \in Reasons : [p EXCEPT !.state = s, !.reason = n] \in PaymentRow
           /\ \A d \in Outcomes : [p EXCEPT !.resolution = d, !.state = s] \in PaymentRow
           /\ \A a \in Adapters : [p EXCEPT !.adapter = a] \in PaymentRow
           /\ \A k \in LocksStages : [p EXCEPT !.locks = k] \in PaymentRow
           /\ \A a \in Adapters, k \in LocksStages :
                 [p EXCEPT !.adapter = a, !.locks = k] \in PaymentRow
<1>1. [p EXCEPT !.state = s] \in PaymentRow
  BY DEF PaymentRow
<1>2. \A n \in Reasons : [p EXCEPT !.state = s, !.reason = n] \in PaymentRow
  BY Zenon DEF PaymentRow
<1>3. \A d \in Outcomes : [p EXCEPT !.resolution = d, !.state = s] \in PaymentRow
  BY Zenon DEF PaymentRow
<1>4. \A a \in Adapters : [p EXCEPT !.adapter = a] \in PaymentRow
  BY DEF PaymentRow
<1>5. \A k \in LocksStages : [p EXCEPT !.locks = k] \in PaymentRow
  BY DEF PaymentRow
<1>6. \A a \in Adapters, k \in LocksStages :
         [p EXCEPT !.adapter = a, !.locks = k] \in PaymentRow
  BY Zenon DEF PaymentRow
<1> QED
  BY <1>1, <1>2, <1>3, <1>4, <1>5, <1>6, Zenon

(* A step that rewrites one payment row with a row of the right type.      *)
LEMMA PaymentSet ==
    ASSUME payment \in [Orders -> PaymentRow], NEW o \in Orders, NEW q \in PaymentRow,
           payment' = [payment EXCEPT ![o] = q]
    PROVE  payment' \in [Orders -> PaymentRow]
OBVIOUS

(* A payment completes, is parked as late money, or goes to review: the    *)
(* row keeps its type and the receipt count grows by at most one.          *)
LEMMA MoneyTypes ==
    ASSUME payment \in [Orders -> PaymentRow], receipts \in [Orders -> Nat],
           NEW o \in Orders, NEW r, NEW p \in PaymentRow,
           LateMoney(o, r, p) \/ Settle(o, r, p)
    PROVE  payment' \in [Orders -> PaymentRow] /\ receipts' \in [Orders -> Nat]
<1>1. receipts' \in [Orders -> Nat]
  BY DEF LateMoney, Settle, Issue
<1>2. ASSUME NEW s \in PaymentStates, payment' = [payment EXCEPT ![o] = [p EXCEPT !.state = s]]
      PROVE  payment' \in [Orders -> PaymentRow]
  BY <1>2, PaymentColumns, PaymentSet, Zenon
<1>3. ASSUME NEW s \in PaymentStates, NEW n \in Reasons,
             payment' = [payment EXCEPT ![o] = [p EXCEPT !.state = s, !.reason = n]]
      PROVE  payment' \in [Orders -> PaymentRow]
  BY <1>3, PaymentColumns, PaymentSet, Zenon
<1>4. \/ \E s \in PaymentStates : payment' = [payment EXCEPT ![o] = [p EXCEPT !.state = s]]
      \/ \E s \in PaymentStates, n \in Reasons :
            payment' = [payment EXCEPT ![o] = [p EXCEPT !.state = s, !.reason = n]]
  BY ColumnValues, Zenon DEF LateMoney, Settle
<1> QED
  BY <1>1, <1>2, <1>3, <1>4, Zenon

AttemptStates == {"null", "watching", "closed_unpaid", "late_money", "needs_review"}

RowsOK ==
    /\ payment \in [Orders -> PaymentRow]
    /\ released \in [Orders -> [Attempts -> AttemptStates]]
    /\ receipts \in [Orders -> Nat]

(* The attempts of an order, one of them released, stay attempts.          *)
LEMMA WatchedType ==
    ASSUME RowsOK, NEW o \in Orders
    PROVE  Watched(o) \in [Attempts -> AttemptStates]
BY DEF RowsOK, Watched, AttemptStates

(* And so does the table of released attempts.                             *)
LEMMA WatchType ==
    ASSUME RowsOK, NEW o \in Orders, WatchAttempt(o)
    PROVE  released' \in [Orders -> [Attempts -> AttemptStates]]
BY WatchedType, Zenon DEF RowsOK, WatchAttempt

(* A step that sets one or two columns of the payment row.                 *)
LEMMA PaymentStateSet ==
    ASSUME RowsOK, NEW o \in Orders, NEW s \in PaymentStates,
           payment' = [payment EXCEPT ![o].state = s]
    PROVE  payment' \in [Orders -> PaymentRow]
<1>1. payment[o] \in PaymentRow
  BY DEF RowsOK
<1>2. payment' = [payment EXCEPT ![o] = [payment[o] EXCEPT !.state = s]]
  OBVIOUS
<1> QED
  BY <1>1, <1>2, PaymentColumns, PaymentSet, Zenon DEF RowsOK

(* Binding another rail changes one column of one payment.                 *)
LEMMA AdapterSet ==
    ASSUME RowsOK, NEW o \in Orders, NEW a \in Adapters,
           payment' = [payment EXCEPT ![o].adapter = a]
    PROVE  payment' \in [Orders -> PaymentRow]
<1>1. payment[o] \in PaymentRow
  BY DEF RowsOK
<1>2. payment' = [payment EXCEPT ![o] = [payment[o] EXCEPT !.adapter = a]]
  OBVIOUS
<1> QED
  BY <1>1, <1>2, PaymentColumns, PaymentSet, ColumnValues, Zenon DEF RowsOK

(* So does a step of the Locks deal.                                       *)
LEMMA LocksColumnSet ==
    ASSUME RowsOK, NEW o \in Orders, NEW k \in LocksStages,
           payment' = [payment EXCEPT ![o].locks = k]
    PROVE  payment' \in [Orders -> PaymentRow]
<1>1. payment[o] \in PaymentRow
  BY DEF RowsOK
<1>2. payment' = [payment EXCEPT ![o] = [payment[o] EXCEPT !.locks = k]]
  OBVIOUS
<1> QED
  BY <1>1, <1>2, PaymentColumns, PaymentSet, ColumnValues, Zenon DEF RowsOK

(* The buyer's commands keep every row typed.                              *)
LEMMA BuyerRows ==
    ASSUME RowsOK, NEW o \in Orders, Buyer(o)
    PROVE  RowsOK'
<1>1. payment' \in [Orders -> PaymentRow]
  <2>1. ASSUME NEW gateway \in {"stripe", "paypal"}, BindFiat(o, gateway)
        PROVE  payment' \in [Orders -> PaymentRow]
    BY <2>1, AdapterSet, ColumnValues, Zenon DEF BindFiat
  <2>2. CASE BindBitcoin(o)
    BY <2>2, AdapterSet, ColumnValues, Zenon DEF BindBitcoin
  <2>3. CASE PrepareLocks(o)
    <3>1. payment[o] \in PaymentRow
      BY DEF RowsOK
    <3>2. payment' = [payment EXCEPT ![o] =
              [payment[o] EXCEPT !.adapter = "locks", !.locks = "prepared"]]
      BY <2>3, Zenon DEF PrepareLocks
    <3> QED
      BY <3>1, <3>2, PaymentColumns, PaymentSet, ColumnValues, Zenon DEF RowsOK
  <2>4. CASE RegisterLocks(o)
    BY <2>4, LocksColumnSet, ColumnValues, Zenon DEF RegisterLocks
  <2>5. ASSUME NEW target \in PaymentStates, SandboxAdvance(o, target)
        PROVE  payment' \in [Orders -> PaymentRow]
    BY <2>5, PaymentStateSet, Zenon DEF SandboxAdvance
  <2>6. CASE CancelUnpaid(o)
    <3>1. payment[o].state \in PaymentStates /\ "expired" \in PaymentStates
      BY ColumnValues DEF RowsOK, PaymentRow
    <3>2. \E s \in PaymentStates : payment' = [payment EXCEPT ![o].state = s]
      BY <2>6, <3>1, Zenon DEF CancelUnpaid
    <3> QED
      BY <3>2, PaymentStateSet, Zenon
  <2>7. CASE UNCHANGED payment
    BY <2>7 DEF RowsOK
  <2> QED
    BY <2>1, <2>2, <2>3, <2>4, <2>5, <2>6, <2>7
    DEF Buyer, Checkout, CancelPaid, CancelPickup
<1>2. released' \in [Orders -> [Attempts -> AttemptStates]]
  <2>1. WatchAttempt(o) \/ UNCHANGED released
    BY Zenon DEF Buyer, Checkout, BindFiat, BindBitcoin, PrepareLocks, RegisterLocks,
           SandboxAdvance, CancelUnpaid, CancelPaid, CancelPickup
  <2> QED
    BY <2>1, WatchType, Zenon DEF RowsOK
<1>3. receipts' \in [Orders -> Nat]
  <2>1. Issue(o) \/ UNCHANGED receipts
    BY Zenon DEF Buyer, Checkout, BindFiat, BindBitcoin, PrepareLocks, RegisterLocks,
           SandboxAdvance, CancelUnpaid, CancelPaid, CancelPickup
  <2> QED
    BY <2>1 DEF Issue, RowsOK
<1> QED
  BY <1>1, <1>2, <1>3, Zenon DEF RowsOK

(* So do the seller's.                                                     *)
LEMMA SellerRows ==
    ASSUME RowsOK, NEW o \in Orders, Seller(o)
    PROVE  RowsOK'
<1>1. payment' \in [Orders -> PaymentRow]
  <2>1. CASE SellerConfirms(o)
    BY <2>1, PaymentStateSet, ColumnValues, Zenon DEF SellerConfirms
  <2>2. ASSUME NEW outcome \in Outcomes, Resolve(o, outcome)
        PROVE  payment' \in [Orders -> PaymentRow]
    <3> DEFINE s == IF outcome = "abandoned" THEN "expired" ELSE "confirmed"
               p == [payment[o] EXCEPT !.resolution = outcome, !.state = s]
    <3>1. payment[o] \in PaymentRow /\ s \in PaymentStates
      BY ColumnValues, Zenon DEF RowsOK
    <3>2. p \in PaymentRow
      <4> HIDE DEF s
      <4> QED  BY <3>1, PaymentColumns, Zenon
    <3>3. payment' = [payment EXCEPT ![o] = p]
      BY <2>2, Zenon DEF Resolve
    <3> HIDE DEF p
    <3> QED
      BY <3>2, <3>3, PaymentSet, Zenon DEF RowsOK
  <2> QED
    BY <2>1, <2>2 DEF Seller, ApproveCancel, RecordExternalRefund, RowsOK
<1>2. released' = released
  BY Zenon DEF Seller, ApproveCancel, RecordExternalRefund, SellerConfirms, Resolve
<1>3. Issue(o) \/ UNCHANGED receipts
  BY Zenon DEF Seller, ApproveCancel, RecordExternalRefund, SellerConfirms, Resolve
<1> QED
  BY <1>1, <1>2, <1>3 DEF RowsOK, Issue

(* So do the answers of Paykit, Locks and the gateways.                    *)
LEMMA UpstreamRows ==
    ASSUME RowsOK, NEW o \in Orders, Upstream(o)
    PROVE  RowsOK'
<1>0. payment[o] \in PaymentRow
  BY DEF RowsOK
<1>1. CASE FiatPaid(o)
  BY <1>0, <1>1, MoneyTypes, Zenon DEF FiatPaid, RowsOK
<1>2. CASE LocksCompleted(o)
  <2> DEFINE p == [payment[o] EXCEPT !.locks = "done"]
  <2>1. p \in PaymentRow
    BY <1>0, PaymentColumns, ColumnValues, Zenon
  <2>2. LateMoney(o, order[o], p) \/ Settle(o, order[o], p)
    BY <1>2 DEF LocksCompleted
  <2> HIDE DEF p
  <2> QED
    BY <1>2, <2>1, <2>2, MoneyTypes DEF LocksCompleted, RowsOK
<1>3. CASE LocksTerminal(o)
  BY <1>3, LocksColumnSet, ColumnValues, Zenon DEF LocksTerminal, RowsOK
<1>4. CASE ActivateRefused(o)
  <2>1. payment' \in [Orders -> PaymentRow]
    BY <1>4, AdapterSet, ColumnValues, Zenon DEF ActivateRefused
  <2> QED
    BY <1>4, <2>1, WatchType DEF ActivateRefused, RowsOK
<1>5. CASE TrackAfterVoid(o)
  <2>1. payment[o].state \in PaymentStates /\ "expired" \in PaymentStates
    BY <1>0, ColumnValues, Zenon DEF PaymentRow
  <2>2. \E s \in PaymentStates : payment' = [payment EXCEPT ![o].state = s]
    BY <1>5, <2>1, Zenon DEF TrackAfterVoid
  <2> QED
    BY <1>5, <2>2, PaymentStateSet, Zenon DEF TrackAfterVoid, RowsOK
<1>6. ASSUME NEW late \in BOOLEAN, NEW amount \in {"matched", "mismatched"},
             NEW seen \in Amounts, PaykitConfirmed(o, late, amount, seen)
      PROVE  RowsOK'
  <2> DEFINE r == [Freeze(order[o], seen) EXCEPT !.request = "confirmed"]
             m == [payment[o] EXCEPT !.state = "manual_review", !.reason = "amount_mismatch"]
  <2>1. m \in PaymentRow
    BY <1>0, PaymentColumns, ColumnValues, Zenon
  <2>2. \/ LateMoney(o, r, payment[o]) \/ Settle(o, r, payment[o])
        \/ payment' = [payment EXCEPT ![o] = m] /\ UNCHANGED receipts
    BY <1>6 DEF PaykitConfirmed
  <2> HIDE DEF r, m
  <2> QED
    BY <1>0, <1>6, <2>1, <2>2, MoneyTypes, PaymentSet, Zenon DEF PaykitConfirmed, RowsOK
<1>7. ASSUME NEW i \in Attempts, NEW amount \in {"matched", "mismatched"},
             NEW seen \in Amounts, ReleasedSettled(o, i, amount, seen)
      PROVE  RowsOK'
  <2> DEFINE r == [order[o] EXCEPT !.method = "bitcoin", !.invoice = i,
                      !.activation = "active", !.request = "confirmed", !.observed = seen]
             p == [payment[o] EXCEPT !.adapter = "paykit"]
             m == [p EXCEPT !.state = "manual_review", !.reason = "amount_mismatch"]
             w == [Watched(o) EXCEPT ![i] = "late_money"]
  <2>1. p \in PaymentRow
    BY <1>0, PaymentColumns, ColumnValues, Zenon
  <2>1a. m \in PaymentRow
    <3> HIDE DEF p
    <3> QED  BY <2>1, PaymentColumns, ColumnValues, Zenon
  <2>2. w \in [Attempts -> AttemptStates]
    BY WatchedType DEF AttemptStates
  <2>3. \/ LateMoney(o, r, p)
        \/ payment' = [payment EXCEPT ![o] = m] /\ UNCHANGED receipts
        \/ UNCHANGED <<payment, receipts>>
    BY <1>7 DEF ReleasedSettled
  <2>4. \/ released' = [released EXCEPT ![o] = w]
        \/ released' = [released EXCEPT ![o][i] = "needs_review"]
    BY <1>7, Zenon DEF ReleasedSettled
  <2> HIDE DEF r, p, m, w
  <2>5. released' \in [Orders -> [Attempts -> AttemptStates]]
    BY <2>2, <2>4 DEF RowsOK, AttemptStates
  <2>6. payment' \in [Orders -> PaymentRow] /\ receipts' \in [Orders -> Nat]
    BY <2>1, <2>1a, <2>3, MoneyTypes, PaymentSet, Zenon DEF RowsOK
  <2> QED
    BY <2>5, <2>6 DEF RowsOK
<1>8. ASSUME NEW i \in Attempts, NEW as \in {"closed_unpaid", "needs_review"},
             AttemptCloses(o, i, as)
      PROVE  RowsOK'
  BY <1>8, Zenon DEF AttemptCloses, RowsOK, AttemptStates
<1>9. CASE UNCHANGED <<payment, released, receipts>>
  BY <1>9, Zenon DEF RowsOK
<1> QED
  BY <1>1, <1>2, <1>3, <1>4, <1>5, <1>6, <1>7, <1>8, <1>9, Zenon
  DEF Upstream, ActivateOk, PaykitDetected, SharedObserved

(* So do the sweeps.                                                       *)
LEMMA SweepRows ==
    ASSUME RowsOK, NEW o \in Orders, Sweeps(o)
    PROVE  RowsOK'
<1>0. payment[o] \in PaymentRow /\ Expire(payment[o]) \in PaymentRow
  BY PaymentColumns, ColumnValues, Zenon DEF RowsOK, Expire
<1>1. CASE SweepHeld(o) \/ SweepIdle(o)
  BY <1>0, <1>1, Zenon DEF SweepHeld, SweepIdle, RowsOK
<1>2. CASE SweepPreparing(o)
  <2>1. payment' \in [Orders -> PaymentRow]
    BY <1>0, <1>2 DEF SweepPreparing, RowsOK
  <2> QED
    BY <1>2, <2>1, WatchType DEF SweepPreparing, RowsOK
<1>3. CASE RouteSellerWindow(o)
  <2>1. payment' \in [Orders -> PaymentRow]
    BY <1>3, PaymentStateSet, ColumnValues, Zenon DEF RouteSellerWindow
  <2> QED
    BY <1>3, <2>1 DEF RouteSellerWindow, RowsOK
<1>4. CASE UNCHANGED <<payment, released, receipts>>
  BY <1>4 DEF RowsOK
<1> QED
  BY <1>1, <1>2, <1>3, <1>4 DEF Sweeps, HoldElapses, SweepFindsPublished

(* Every row is typed at the start.                                        *)
LEMMA InitRows == Init => RowsOK
BY DEF Init, RowsOK, NewPayment, PaymentRow, PaymentStates, Adapters, Reasons, LocksStages,
       AttemptStates

(* Types are inductive.                                                    *)
LEMMA NextRows == RowsOK /\ [Next]_vars => RowsOK'
<1> SUFFICES ASSUME RowsOK, [Next]_vars PROVE RowsOK'
  OBVIOUS
<1>1. CASE \E o \in Orders : Buyer(o) \/ Seller(o) \/ Upstream(o) \/ Sweeps(o)
  BY <1>1, BuyerRows, SellerRows, UpstreamRows, SweepRows, Zenon
<1>2. CASE \E l \in Listings : ListingStep(l)
  BY <1>2, Zenon DEF ListingStep, Tombstone, AdjustInventory, RegisterListing, RowsOK
<1>3. CASE UNCHANGED vars
  BY <1>3, Zenon DEF vars, RowsOK
<1> QED
  BY <1>1, <1>2, <1>3 DEF Next

-----------------------------------------------------------------------------
(* The columns of an order and of its payment, together.                   *)

ConfirmedSale(p) == p.state = "confirmed" /\ p.resolution # "refunded"

(* Every Paykit request sits on a bitcoin bind and every bitcoin bind on   *)
(* the paykit adapter; a Locks stage on the locks adapter.  While an       *)
(* invoice is being prepared nothing has happened to the payment; a        *)
(* payment under Paykit review has a live, confirmed request, which is     *)
(* what cancel_request looks at; a decision left the state it chose.  n    *)
(* counts the receipts.                                                    *)
MoneyRow(r, p, n) ==
    /\ r.request # "null" => r.method = "bitcoin"
    /\ r.activation = "active" => r.request # "null"
    /\ r.method = "bitcoin" => p.adapter = "paykit"
    /\ p.locks # "null" => p.adapter = "locks"
    /\ r.activation = "preparing" =>
          r.request = "preparing" /\ p.state = "awaiting_entitlement"
    /\ r.request = "awaiting_seller_confirmation" => r.activation = "active"
    /\ p.adapter = "paykit" /\ p.state = "manual_review" =>
          r.activation = "active" /\ r.request = "confirmed"
    /\ p.resolution # "null" =>
          /\ p.adapter = "paykit"
          /\ p.state = IF p.resolution = "abandoned" THEN "expired" ELSE "confirmed"
    /\ n = IF ConfirmedSale(p) THEN 1 ELSE 0
    /\ r.state \in SoldStates => ConfirmedSale(p)

MoneyOK(o) == MoneyRow(order[o], payment[o], receipts[o])

(* Every invoice is tracked by the order row or has a released-attempt     *)
(* row.                                                                    *)
WatchOK(o) ==
    \A i \in 1..order[o].attempt :
        \/ order[o].invoice = i /\ order[o].request # "null"
        \/ released[o][i] # "null"

(* Paykit saw money that nobody has decided on.                            *)
SeenMoney(r, p) == \/ r.request = "awaiting_seller_confirmation"
                   \/ p.adapter = "paykit" /\ p.state = "manual_review"

(* What a step may not do to a resolved payment and to stock that is held  *)
(* for money that was seen.                                                *)
Decided(o) ==
    /\ payment[o].resolution # "null" => payment'[o] = payment[o]
    /\ order[o].stock_held /\ ~order'[o].stock_held /\ SeenMoney(order[o], payment[o]) =>
          order'[o].state = "paid" \/ payment'[o].resolution # "null"

(* The buyer's commands keep the columns in step.  A bind needs an         *)
(* awaiting payment and no method, so it never meets a resolved one or a   *)
(* live request.                                                           *)
LEMMA BuyerMoney ==
    ASSUME OrdersOK, RowsOK, NEW o \in Orders, MoneyOK(o), Buyer(o)
    PROVE  MoneyOK(o)' /\ Decided(o)
<1> USE DEF MoneyOK, MoneyRow, ConfirmedSale, SoldStates, Decided, SeenMoney
<1>0. /\ order \in [Orders -> OrderRow] /\ payment \in [Orders -> PaymentRow]
      /\ receipts \in [Orders -> Nat]
      /\ order[o] \in OrderRow /\ payment[o] \in PaymentRow
      /\ order[o].stock_held => order[o].state = "pending_payment"
  BY Zenon DEF OrdersOK, RowsOK
<1>1. CASE Checkout(o)
  BY <1>0, <1>1 DEF Checkout, OrderRow
<1>2. ASSUME NEW gateway \in {"stripe", "paypal"}, BindFiat(o, gateway)
      PROVE  MoneyOK(o)' /\ Decided(o)
  BY <1>0, <1>2 DEF BindFiat, Unbound, Held, OrderRow, PaymentRow
<1>3. CASE BindBitcoin(o)
  BY <1>0, <1>3 DEF BindBitcoin, Unbound, Held, OrderRow, PaymentRow
<1>4. CASE PrepareLocks(o)
  BY <1>0, <1>4 DEF PrepareLocks, Unbound, Held, OrderRow, PaymentRow
<1>5. CASE RegisterLocks(o)
  BY <1>0, <1>5 DEF RegisterLocks, OrderRow, PaymentRow
<1>6. ASSUME NEW target \in PaymentStates, SandboxAdvance(o, target)
      PROVE  MoneyOK(o)' /\ Decided(o)
  <2>1. /\ payment[o].adapter = "sandbox"
        /\ payment[o].state \in {"awaiting_entitlement", "detected"}
        /\ payment'[o] = [payment[o] EXCEPT !.state = target]
    BY <1>0, <1>6 DEF SandboxAdvance
  <2>2. CASE target # "confirmed" /\ receipts' = receipts /\ order'[o] = Held(order[o])
    BY <1>0, <2>1, <2>2 DEF Held, OrderRow, PaymentRow
  <2>4. CASE target # "confirmed" /\ receipts' = receipts /\ order' = order
    BY <1>0, <2>1, <2>4, ZenonT(60) DEF PaymentRow
  <2>3. CASE target = "confirmed" /\ Issue(o) /\ order'[o] = Paid(order[o])
    BY <1>0, <2>1, <2>3 DEF Paid, Issue, OrderRow, PaymentRow
  <2> QED
    BY <1>0, <1>6, <2>2, <2>3, <2>4, Zenon DEF SandboxAdvance
<1>7. CASE CancelUnpaid(o)
  <2>1. CASE payment[o].adapter = "paykit" /\ order[o].activation = "preparing"
    BY <1>0, <1>7, <2>1 DEF CancelUnpaid, Cancel, OrderRow, PaymentRow
  <2>2. CASE ~(payment[o].adapter = "paykit" /\ order[o].activation = "preparing")
    BY <1>0, <1>7, <2>2 DEF CancelUnpaid, Cancel, OrderRow, PaymentRow
  <2> QED
    BY <2>1, <2>2, Zenon
<1>8. CASE CancelPaid(o)
  BY <1>0, <1>8 DEF CancelPaid, OrderRow
<1>9. CASE CancelPickup(o)
  BY <1>0, <1>9 DEF CancelPickup, Cancel, OrderRow
<1> QED
  BY <1>1, <1>2, <1>3, <1>4, <1>5, <1>6, <1>7, <1>8, <1>9, Zenon DEF Buyer

(* Late money, on rows that already read as a live Paykit attempt or       *)
(* belong to another rail.  Only an undecided payment reaches it.          *)
LEMMA LateMoneyRow ==
    ASSUME OrdersOK, RowsOK, NEW o \in Orders, NEW r \in OrderRow, NEW p \in PaymentRow,
           MoneyRow(r, p, receipts[o]),
           p.adapter = "paykit" => r.activation = "active" /\ r.request = "confirmed",
           p.resolution = payment[o].resolution,
           r.state = order[o].state, r.stock_held = order[o].stock_held,
           LateMoney(o, r, p)
    PROVE  MoneyOK(o)' /\ Decided(o)
<1> USE DEF MoneyOK, MoneyRow, ConfirmedSale, SoldStates, Decided, SeenMoney
<1>0. /\ order \in [Orders -> OrderRow] /\ payment \in [Orders -> PaymentRow]
      /\ receipts \in [Orders -> Nat]
      /\ r.stock_held => r.state = "pending_payment"
  BY Zenon DEF OrdersOK, RowsOK
<1>1. p.resolution = "null" /\ p.state \in {"expired", "awaiting_entitlement"}
  BY Zenon DEF LateMoney
<1>2. CASE /\ order'[o] = r /\ receipts' = receipts
           /\ payment'[o] = [p EXCEPT !.state = "manual_review", !.reason = "late_settlement"]
  BY <1>0, <1>1, <1>2 DEF OrderRow, PaymentRow
<1>3. CASE /\ order'[o] = Paid(r) /\ Issue(o)
           /\ payment'[o] = [p EXCEPT !.state = "confirmed", !.reason = "null"]
  BY <1>0, <1>1, <1>3 DEF Paid, Issue, OrderRow, PaymentRow
<1>4. CASE /\ ~r.stock_held
           /\ order'[o] = (IF r.state = "pending_payment" THEN Cancel(r) ELSE r)
           /\ receipts' = receipts
           /\ payment'[o] = [p EXCEPT !.state = "manual_review", !.reason = "refund_required"]
  BY <1>0, <1>1, <1>4 DEF Cancel, OrderRow, PaymentRow
<1> QED
  BY <1>0, <1>2, <1>3, <1>4, Zenon DEF LateMoney

(* A verified payment, likewise: it only meets an awaiting payment, whose  *)
(* receipt has not been issued.                                            *)
LEMMA SettleRow ==
    ASSUME OrdersOK, RowsOK, NEW o \in Orders, NEW r \in OrderRow, NEW p \in PaymentRow,
           MoneyRow(r, p, receipts[o]),
           p.adapter = "paykit" => r.activation = "active" /\ r.request = "confirmed",
           p.resolution = payment[o].resolution,
           r.state = order[o].state, r.stock_held = order[o].stock_held,
           Settle(o, r, p)
    PROVE  MoneyOK(o)' /\ Decided(o)
<1> USE DEF MoneyOK, MoneyRow, ConfirmedSale, SoldStates, Decided, SeenMoney
<1>0. /\ order \in [Orders -> OrderRow] /\ payment \in [Orders -> PaymentRow]
      /\ receipts \in [Orders -> Nat]
  BY Zenon DEF OrdersOK, RowsOK
<1>1. p.resolution = "null" /\ p.state = "awaiting_entitlement"
  BY DEF Settle
<1>2. CASE /\ order'[o] = Paid(r) /\ Issue(o)
           /\ payment'[o] = [p EXCEPT !.state = "confirmed"]
  BY <1>0, <1>1, <1>2 DEF Paid, Issue, OrderRow, PaymentRow
<1>3. CASE /\ order'[o] = r /\ receipts' = receipts
           /\ payment'[o] = [p EXCEPT !.state = "manual_review"]
  BY <1>0, <1>1, <1>3 DEF OrderRow, PaymentRow
<1> QED
  BY <1>0, <1>2, <1>3, Zenon DEF Settle

(* The seller's commands: only a resolution drops a hold that is reviewed, *)
(* and it decides the payment in the same transaction.                     *)
LEMMA SellerMoney ==
    ASSUME OrdersOK, RowsOK, NEW o \in Orders, MoneyOK(o), Seller(o)
    PROVE  MoneyOK(o)' /\ Decided(o)
<1> USE DEF MoneyOK, MoneyRow, ConfirmedSale, SoldStates, Decided, SeenMoney
<1>0. /\ order \in [Orders -> OrderRow] /\ payment \in [Orders -> PaymentRow]
      /\ receipts \in [Orders -> Nat]
      /\ order[o] \in OrderRow /\ payment[o] \in PaymentRow
      /\ order[o].stock_held => order[o].state = "pending_payment"
  BY Zenon DEF OrdersOK, RowsOK
<1>1. CASE ApproveCancel(o)
  BY <1>0, <1>1 DEF ApproveCancel, Cancel, OrderRow
<1>2. CASE RecordExternalRefund(o)
  BY <1>0, <1>2 DEF RecordExternalRefund, OrderRow
<1>3. CASE SellerConfirms(o)
  BY <1>0, <1>3 DEF SellerConfirms, Paid, Issue, OrderRow, PaymentRow
<1>4. ASSUME NEW outcome \in Outcomes, Resolve(o, outcome)
      PROVE  MoneyOK(o)' /\ Decided(o)
  <2>1. /\ payment[o].adapter = "paykit" /\ payment[o].state = "manual_review"
        /\ payment[o].resolution = "null"
        /\ payment'[o] = [payment[o] EXCEPT !.resolution = outcome,
               !.state = IF outcome = "abandoned" THEN "expired" ELSE "confirmed"]
    BY <1>0, <1>4, Zenon DEF Resolve, Resolvable
  <2>2. CASE outcome = "paid" /\ order'[o] = Paid(order[o]) /\ Issue(o)
    BY <1>0, <2>1, <2>2 DEF Paid, Issue, OrderRow, PaymentRow
  <2>3. CASE /\ outcome = "refunded" /\ receipts' = receipts
             /\ order'[o] = [Cancel(order[o]) EXCEPT !.state = "refunded_external"]
    BY <1>0, <2>1, <2>3 DEF Cancel, OrderRow, PaymentRow
  <2>4. CASE outcome = "abandoned" /\ receipts' = receipts /\ order'[o] = Cancel(order[o])
    BY <1>0, <2>1, <2>4 DEF Cancel, OrderRow, PaymentRow
  <2> QED
    BY <1>0, <1>4, <2>2, <2>3, <2>4, Zenon DEF Resolve
<1> QED
  BY <1>1, <1>2, <1>3, <1>4, Zenon DEF Seller

(* What Paykit, Locks and the gateways report.  Locks answers only meet a  *)
(* payment of the Locks rail, and a refused activation an awaiting one.    *)
LEMMA UpstreamMoney ==
    ASSUME OrdersOK, RowsOK, NEW o \in Orders, MoneyOK(o), Upstream(o)
    PROVE  MoneyOK(o)' /\ Decided(o)
<1> USE DEF MoneyOK, MoneyRow, ConfirmedSale, SoldStates, Decided, SeenMoney
<1>0. /\ order \in [Orders -> OrderRow] /\ payment \in [Orders -> PaymentRow]
      /\ receipts \in [Orders -> Nat]
      /\ order[o] \in OrderRow /\ payment[o] \in PaymentRow
      /\ order[o].stock_held => order[o].state = "pending_payment"
  BY Zenon DEF OrdersOK, RowsOK
<1>1. CASE FiatPaid(o)
  <2>1. payment[o].adapter # "paykit"
    BY <1>1, Zenon DEF FiatPaid
  <2>2. LateMoney(o, order[o], payment[o]) \/ Settle(o, order[o], payment[o])
    BY <1>1, Zenon DEF FiatPaid
  <2> QED
    BY <1>0, <2>1, <2>2, LateMoneyRow, SettleRow, Zenon
<1>2. CASE LocksCompleted(o)
  <2> DEFINE p == [payment[o] EXCEPT !.locks = "done"]
  <2>1. p \in PaymentRow
    BY <1>0, PaymentColumns, ColumnValues, Zenon
  <2>2. p.adapter = "locks" /\ p.resolution = payment[o].resolution
    BY <1>0, <1>2 DEF LocksCompleted, PaymentRow
  <2>3. MoneyRow(order[o], p, receipts[o])
    BY <1>0, <1>2, Zenon DEF LocksCompleted, PaymentRow
  <2>4. LateMoney(o, order[o], p) \/ Settle(o, order[o], p)
    BY <1>2, Zenon DEF LocksCompleted
  <2> HIDE DEF p
  <2> QED
    BY <1>0, <2>1, <2>2, <2>3, <2>4, LateMoneyRow, SettleRow, Zenon
<1>3. CASE LocksTerminal(o)
  BY <1>0, <1>3, Zenon DEF LocksTerminal, PaymentRow
<1>4. CASE ActivateOk(o)
  BY <1>0, <1>4, ZenonT(60) DEF ActivateOk, OrderRow
<1>5. CASE ActivateRefused(o)
  BY <1>0, <1>5 DEF ActivateRefused, OrderRow, PaymentRow
<1>6. CASE TrackAfterVoid(o)
  BY <1>0, <1>6 DEF TrackAfterVoid, OrderRow, PaymentRow
<1>7. CASE PaykitDetected(o)
  BY <1>0, <1>7 DEF PaykitDetected, OrderRow
<1>8. ASSUME NEW seen \in Amounts, SharedObserved(o, seen)
      PROVE  MoneyOK(o)' /\ Decided(o)
  BY <1>0, <1>8 DEF SharedObserved, Polled, Freeze, OrderRow
<1>9. ASSUME NEW late \in BOOLEAN, NEW amount \in {"matched", "mismatched"},
             NEW seen \in Amounts, PaykitConfirmed(o, late, amount, seen)
      PROVE  MoneyOK(o)' /\ Decided(o)
  <2> DEFINE r == [Freeze(order[o], seen) EXCEPT !.request = "confirmed"]
  <2>1. r \in OrderRow
    BY <1>0, ZenonT(60) DEF Freeze, OrderRow
  <2>2. /\ r.state = order[o].state /\ r.stock_held = order[o].stock_held
        /\ r.activation = "active" /\ r.request = "confirmed"
        /\ MoneyRow(r, payment[o], receipts[o])
        /\ payment[o].adapter = "paykit"
    BY <1>0, <1>9, Zenon DEF PaykitConfirmed, Polled, Freeze, OrderRow
  <2>3. \/ LateMoney(o, r, payment[o]) \/ Settle(o, r, payment[o])
        \/ /\ payment[o].state = "awaiting_entitlement"
           /\ order'[o] = r /\ receipts' = receipts
           /\ payment'[o] = [payment[o] EXCEPT !.state = "manual_review",
                                               !.reason = "amount_mismatch"]
    BY <1>0, <1>9, Zenon DEF PaykitConfirmed
  <2> HIDE DEF r
  <2>4. CASE /\ payment[o].state = "awaiting_entitlement"
             /\ order'[o] = r /\ receipts' = receipts
             /\ payment'[o] = [payment[o] EXCEPT !.state = "manual_review",
                                                 !.reason = "amount_mismatch"]
    BY <1>0, <2>1, <2>2, <2>4 DEF OrderRow, PaymentRow
  <2> QED
    BY <1>0, <2>1, <2>2, <2>3, <2>4, LateMoneyRow, SettleRow, ZenonT(60)
<1>10. ASSUME NEW i \in Attempts, NEW amount \in {"matched", "mismatched"},
             NEW seen \in Amounts, ReleasedSettled(o, i, amount, seen)
      PROVE  MoneyOK(o)' /\ Decided(o)
  <2> DEFINE r == [order[o] EXCEPT !.method = "bitcoin", !.invoice = i,
                      !.activation = "active", !.request = "confirmed", !.observed = seen]
             p == [payment[o] EXCEPT !.adapter = "paykit"]
             open == /\ payment[o].adapter \in {"paykit", "sandbox"}
                     /\ payment[o].state \in {"awaiting_entitlement", "expired"}
             review == [p EXCEPT !.state = "manual_review", !.reason = "amount_mismatch"]
  <2>0. i \in 0..MaxAttempts
    BY AttemptsType DEF Attempts
  <2>1. r \in OrderRow /\ p \in PaymentRow
    BY <1>0, <2>0, PaymentColumns, ColumnValues, Zenon DEF OrderRow
  <2>2. /\ r.state = order[o].state /\ r.stock_held = order[o].stock_held
        /\ r.activation = "active" /\ r.request = "confirmed" /\ r.method = "bitcoin"
        /\ p.adapter = "paykit" /\ p.resolution = payment[o].resolution
        /\ p.state = payment[o].state /\ p.locks = payment[o].locks
    BY <1>0, Zenon DEF OrderRow, PaymentRow
  <2>3. \/ open /\ LateMoney(o, r, p)
        \/ /\ open /\ p.resolution = "null"
           /\ order'[o] = r /\ receipts' = receipts /\ payment'[o] = review
        \/ UNCHANGED <<order, payment, receipts>>
    BY <1>0, <1>10, Zenon DEF ReleasedSettled, Reviewable
  <2> HIDE DEF r, p
  <2>4. open => MoneyRow(r, p, receipts[o])
    BY <1>0, <2>2, Zenon
  <2>5. CASE open /\ p.resolution = "null" /\ order'[o] = r /\ receipts' = receipts
             /\ payment'[o] = review
    BY <1>0, <2>1, <2>2, <2>4, <2>5 DEF OrderRow, PaymentRow
  <2>6. CASE UNCHANGED <<order, payment, receipts>>
    BY <2>6, Zenon
  <2> QED
    BY <1>0, <2>1, <2>2, <2>3, <2>4, <2>5, <2>6, LateMoneyRow, ZenonT(60)
<1>11. CASE UNCHANGED <<order, payment, receipts>>
  BY <1>11, Zenon
<1> QED
  BY <1>1, <1>2, <1>3, <1>4, <1>5, <1>6, <1>7, <1>8, <1>9, <1>10, <1>11, Zenon
  DEF Upstream, AttemptCloses

(* The sweeps: none touches stock held for money that was seen.            *)
LEMMA SweepsMoney ==
    ASSUME OrdersOK, RowsOK, NEW o \in Orders, MoneyOK(o), Sweeps(o)
    PROVE  MoneyOK(o)' /\ Decided(o)
<1> USE DEF MoneyOK, MoneyRow, ConfirmedSale, SoldStates, Decided, SeenMoney
<1>0. /\ order \in [Orders -> OrderRow] /\ payment \in [Orders -> PaymentRow]
      /\ receipts \in [Orders -> Nat]
      /\ order[o] \in OrderRow /\ payment[o] \in PaymentRow
      /\ order[o].stock_held => order[o].state = "pending_payment"
  BY Zenon DEF OrdersOK, RowsOK
<1>1. CASE HoldElapses(o)
  BY <1>0, <1>1 DEF HoldElapses, OrderRow
<1>2. CASE SweepHeld(o)
  BY <1>0, <1>2 DEF SweepHeld, HeldDue, Cancel, Expire, OrderRow, PaymentRow
<1>3. CASE SweepPreparing(o)
  BY <1>0, <1>3 DEF SweepPreparing, Cancel, Expire, OrderRow, PaymentRow
<1>4. CASE SweepFindsPublished(o)
  BY <1>0, <1>4, ZenonT(60) DEF SweepFindsPublished, OrderRow
<1>5. CASE SweepIdle(o)
  BY <1>0, <1>5 DEF SweepIdle, Cancel, Expire, OrderRow, PaymentRow
<1>6. CASE RouteSellerWindow(o)
  BY <1>0, <1>6 DEF RouteSellerWindow, OrderRow, PaymentRow
<1> QED
  BY <1>1, <1>2, <1>3, <1>4, <1>5, <1>6, Zenon DEF Sweeps

-----------------------------------------------------------------------------
(* A step forgets no invoice of o: rows of released attempts stay, a       *)
(* tracked invoice stays tracked or gets such a row, and a new attempt is  *)
(* tracked.                                                                *)
StillWatched(o) ==
    /\ \A i \in Attempts : released[o][i] # "null" => released'[o][i] # "null"
    /\ order[o].invoice \in Attempts /\ order[o].request # "null" =>
          \/ order'[o].invoice = order[o].invoice /\ order'[o].request # "null"
          \/ released'[o][order[o].invoice] # "null"
    /\ \/ order'[o].attempt = order[o].attempt
       \/ /\ order'[o].attempt = order[o].attempt + 1
          /\ order'[o].invoice = order'[o].attempt
          /\ order'[o].request # "null"

(* A step that forgets no invoice keeps every invoice watched.             *)
LEMMA WatchKept ==
    ASSUME OrdersOK, OrdersOK', NEW o \in Orders, WatchOK(o), StillWatched(o)
    PROVE  WatchOK(o)'
<1>1. order[o].attempt \in 0..MaxAttempts /\ order'[o].attempt \in 0..MaxAttempts
  BY Zenon DEF OrdersOK, OrderRow
<1> SUFFICES ASSUME NEW i \in 1..order'[o].attempt
             PROVE  \/ order'[o].invoice = i /\ order'[o].request # "null"
                    \/ released'[o][i] # "null"
  BY Zenon DEF WatchOK
<1>2. i \in Attempts
  BY <1>1, AttemptsType DEF Attempts
<1>3. CASE i \in 1..order[o].attempt
  BY <1>2, <1>3, Zenon DEF WatchOK, StillWatched
<1>4. CASE i \notin 1..order[o].attempt
  BY <1>1, <1>4, AttemptsType, SMTT(60) DEF StillWatched
<1> QED
  BY <1>3, <1>4, Zenon

(* record_released_attempt puts the present invoice under watch and takes  *)
(* no other one out.                                                       *)
LEMMA WatchedNow ==
    ASSUME RowsOK, NEW o \in Orders, WatchAttempt(o)
    PROVE  /\ \A i \in Attempts : released[o][i] # "null" => released'[o][i] # "null"
           /\ order[o].invoice \in Attempts => released'[o][order[o].invoice] # "null"
<1>1. released'[o] = Watched(o)
  BY DEF WatchAttempt, RowsOK
<1> QED
  BY <1>1, Zenon DEF Watched

(* Holding, paying and cancelling leave the Paykit columns alone.          *)
LEMMA EditsKeepInvoice ==
    ASSUME NEW r \in OrderRow, NEW e \in {r, Held(r), Paid(r), Cancel(r)}
    PROVE  e.attempt = r.attempt /\ e.invoice = r.invoice /\ e.request = r.request
<1>1. CASE e = r
  BY <1>1, Zenon
<1>2. CASE e = Held(r)
  BY <1>2 DEF Held, OrderRow
<1>3. CASE e = Paid(r)
  BY <1>3 DEF Paid, OrderRow
<1>4. CASE e = Cancel(r)
  BY <1>4 DEF Cancel, OrderRow
<1> QED
  BY <1>1, <1>2, <1>3, <1>4, Zenon

(* The buyer's commands: a new bind replaces the invoice only after the    *)
(* old one went under watch.                                               *)
LEMMA BuyerWatch ==
    ASSUME OrdersOK, RowsOK, NEW o \in Orders, MoneyOK(o), Buyer(o)
    PROVE  StillWatched(o)
<1> USE DEF StillWatched
<1>0. order \in [Orders -> OrderRow] /\ order[o] \in OrderRow
  BY DEF OrdersOK
<1>1. CASE /\ UNCHANGED released
           /\ order'[o].attempt = order[o].attempt /\ order'[o].invoice = order[o].invoice
           /\ order'[o].request = order[o].request
  BY <1>1, Zenon
<1>2. ASSUME NEW gateway \in {"stripe", "paypal"}, BindFiat(o, gateway)
      PROVE  StillWatched(o)
  BY <1>0, <1>2, WatchedNow DEF BindFiat, Held, OrderRow
<1>3. CASE BindBitcoin(o)
  BY <1>0, <1>3, WatchedNow, Zenon DEF BindBitcoin, Held, OrderRow
<1>4. CASE CancelUnpaid(o)
  <2>1. CASE payment[o].adapter = "paykit" /\ order[o].activation = "preparing"
    BY <1>0, <1>4, <2>1, WatchedNow, ZenonT(60) DEF CancelUnpaid, Cancel, OrderRow
  <2>2. CASE ~(payment[o].adapter = "paykit" /\ order[o].activation = "preparing")
    BY <1>0, <1>4, <2>2, Zenon DEF CancelUnpaid, Cancel, OrderRow
  <2> QED
    BY <2>1, <2>2, Zenon
<1>5. CASE \/ Checkout(o) \/ PrepareLocks(o) \/ RegisterLocks(o)
           \/ CancelPaid(o) \/ CancelPickup(o)
           \/ \E target \in PaymentStates : SandboxAdvance(o, target)
  <2>1. UNCHANGED released
    BY <1>5, Zenon
    DEF Checkout, PrepareLocks, RegisterLocks, CancelPaid, CancelPickup, SandboxAdvance
  <2>2. CASE Checkout(o) \/ CancelPaid(o)
    BY <1>0, <1>1, <2>1, <2>2 DEF Checkout, CancelPaid, OrderRow
  <2>3. CASE order'[o] \in {order[o], Held(order[o]), Paid(order[o]), Cancel(order[o])}
    BY <1>0, <1>1, <2>1, <2>3, EditsKeepInvoice, Zenon
  <2> QED
    BY <1>0, <1>5, <2>2, <2>3, Zenon
    DEF PrepareLocks, RegisterLocks, CancelPickup, SandboxAdvance
<1> QED
  BY <1>2, <1>3, <1>4, <1>5, Zenon DEF Buyer

(* The seller's commands change no invoice.                                *)
LEMMA SellerWatch ==
    ASSUME OrdersOK, RowsOK, NEW o \in Orders, Seller(o)
    PROVE  StillWatched(o)
<1> USE DEF StillWatched
<1>0. order \in [Orders -> OrderRow] /\ order[o] \in OrderRow
  BY Zenon DEF OrdersOK
<1>1. UNCHANGED released
  BY Zenon DEF Seller, ApproveCancel, RecordExternalRefund, SellerConfirms, Resolve
<1>2. CASE order'[o] \in {order[o], Paid(order[o]), Cancel(order[o])}
  BY <1>0, <1>1, <1>2, EditsKeepInvoice, ZenonT(60)
<1>3. CASE RecordExternalRefund(o)
  BY <1>0, <1>1, <1>3, Zenon DEF RecordExternalRefund, OrderRow
<1>4. CASE SellerConfirms(o)
  BY <1>0, <1>1, <1>4, Zenon DEF SellerConfirms, Paid, OrderRow
<1>5. CASE order'[o] = [Cancel(order[o]) EXCEPT !.state = "refunded_external"]
  BY <1>0, <1>1, <1>5, Zenon DEF Cancel, OrderRow
<1> QED
  BY <1>0, <1>2, <1>3, <1>4, <1>5, Zenon DEF Seller, ApproveCancel, Resolve

(* The sweeps: voiding a prepared invoice leaves it watched.               *)
LEMMA SweepsWatch ==
    ASSUME OrdersOK, RowsOK, NEW o \in Orders, Sweeps(o)
    PROVE  StillWatched(o)
<1> USE DEF StillWatched
<1>0. order \in [Orders -> OrderRow] /\ order[o] \in OrderRow
  BY Zenon DEF OrdersOK
<1>1. CASE HoldElapses(o)
  BY <1>0, <1>1 DEF HoldElapses, OrderRow
<1>2. CASE SweepHeld(o) \/ SweepIdle(o)
  BY <1>0, <1>2, EditsKeepInvoice, Zenon DEF SweepHeld, SweepIdle
<1>3. CASE SweepPreparing(o)
  BY <1>0, <1>3, WatchedNow, Zenon DEF SweepPreparing, Cancel, OrderRow
<1>4. CASE SweepFindsPublished(o)
  BY <1>0, <1>4 DEF SweepFindsPublished, OrderRow
<1>5. CASE RouteSellerWindow(o)
  BY <1>0, <1>5, Zenon DEF RouteSellerWindow, OrderRow
<1> QED
  BY <1>1, <1>2, <1>3, <1>4, <1>5, Zenon DEF Sweeps

(* What Paykit reports: a refused activation releases its invoice to the   *)
(* watch, and money on a released one first watches the one it displaces.  *)
LEMMA UpstreamWatch ==
    ASSUME OrdersOK, RowsOK, NEW o \in Orders, Upstream(o)
    PROVE  StillWatched(o)
<1> USE DEF StillWatched
<1>0. order \in [Orders -> OrderRow] /\ order[o] \in OrderRow
  BY DEF OrdersOK
<1>1. CASE FiatPaid(o) \/ LocksCompleted(o)
  <2>1. UNCHANGED released
    BY <1>1 DEF FiatPaid, LocksCompleted
  <2>2. order'[o] \in {order[o], Paid(order[o]), Cancel(order[o])}
    BY <1>0, <1>1, Zenon DEF FiatPaid, LocksCompleted, LateMoney, Settle
  <2> QED
    BY <1>0, <2>1, <2>2, EditsKeepInvoice, Zenon
<1>2. CASE ActivateOk(o)
  BY <1>0, <1>2 DEF ActivateOk, OrderRow
<1>3. CASE ActivateRefused(o)
  BY <1>0, <1>3, WatchedNow, Zenon DEF ActivateRefused, OrderRow
<1>4. CASE TrackAfterVoid(o)
  BY <1>0, <1>4, Zenon DEF TrackAfterVoid, OrderRow
<1>5. CASE PaykitDetected(o)
  BY <1>0, <1>5, Zenon DEF PaykitDetected, OrderRow
<1>6. ASSUME NEW seen \in Amounts, SharedObserved(o, seen)
      PROVE  StillWatched(o)
  BY <1>0, <1>6, Zenon DEF SharedObserved, Freeze, OrderRow
<1>7. ASSUME NEW late \in BOOLEAN, NEW amount \in {"matched", "mismatched"},
             NEW seen \in Amounts, PaykitConfirmed(o, late, amount, seen)
      PROVE  StillWatched(o)
  <2> DEFINE r == [Freeze(order[o], seen) EXCEPT !.request = "confirmed"]
  <2>1. r \in OrderRow
    BY <1>0, Zenon DEF Freeze, OrderRow
  <2>2. r.attempt = order[o].attempt /\ r.invoice = order[o].invoice /\ r.request # "null"
    BY <1>0 DEF Freeze, OrderRow
  <2>3. order'[o] \in {r, Paid(r), Cancel(r)}
    BY <1>0, <1>7, Zenon DEF PaykitConfirmed, LateMoney, Settle
  <2>4. UNCHANGED released
    BY <1>7 DEF PaykitConfirmed
  <2> HIDE DEF r
  <2> QED
    BY <2>1, <2>2, <2>3, <2>4, EditsKeepInvoice, ZenonT(60)
<1>8. ASSUME NEW i \in Attempts, NEW amount \in {"matched", "mismatched"},
             NEW seen \in Amounts, ReleasedSettled(o, i, amount, seen)
      PROVE  StillWatched(o)
  <2> DEFINE r == [order[o] EXCEPT !.method = "bitcoin", !.invoice = i,
                      !.activation = "active", !.request = "confirmed", !.observed = seen]
             w == [Watched(o) EXCEPT ![i] = "late_money"]
  <2>0. i \in 0..MaxAttempts
    BY AttemptsType DEF Attempts
  <2>1. r \in OrderRow
    BY <1>0, <2>0, Zenon DEF OrderRow
  <2>2. r.attempt = order[o].attempt
    BY <1>0 DEF OrderRow
  <2>3. \/ order' = order /\ released' = [released EXCEPT ![o][i] = "needs_review"]
        \/ order'[o] \in {r, Paid(r), Cancel(r)} /\ released'[o] = w
    BY <1>0, <1>8, ZenonT(60) DEF ReleasedSettled, LateMoney, RowsOK
  <2>4. /\ \A j \in Attempts : released[o][j] # "null" => w[j] # "null"
        /\ order[o].invoice \in Attempts => w[order[o].invoice] # "null"
    BY Zenon DEF Watched
  <2> HIDE DEF r, w
  <2>5. CASE order' = order /\ released' = [released EXCEPT ![o][i] = "needs_review"]
    BY <2>5, Zenon DEF RowsOK
  <2>6. CASE order'[o] \in {r, Paid(r), Cancel(r)} /\ released'[o] = w
    BY <2>1, <2>2, <2>4, <2>6, EditsKeepInvoice, Zenon
  <2> QED
    BY <2>3, <2>5, <2>6, Zenon
<1>9. ASSUME NEW i \in Attempts, NEW as \in {"closed_unpaid", "needs_review"},
             AttemptCloses(o, i, as)
      PROVE  StillWatched(o)
  BY <1>0, <1>9, Zenon DEF AttemptCloses, RowsOK
<1>10. CASE LocksTerminal(o)
  BY <1>10, Zenon DEF LocksTerminal
<1> QED
  BY <1>1, <1>2, <1>3, <1>4, <1>5, <1>6, <1>7, <1>8, <1>9, <1>10, Zenon DEF Upstream

-----------------------------------------------------------------------------
(* A step leaves every order but o alone.                                  *)
Elsewhere(o) ==
    \A q \in Orders \ {o} :
        /\ order'[q] = order[q] /\ payment'[q] = payment[q]
        /\ released'[q] = released[q] /\ receipts'[q] = receipts[q]

(* A transaction writes the rows of one order.                             *)
LEMMA OneOrderAtATime ==
    ASSUME OrdersOK, RowsOK, NEW o \in Orders,
           Buyer(o) \/ Seller(o) \/ Upstream(o) \/ Sweeps(o)
    PROVE  Elsewhere(o)
<1> SUFFICES ASSUME NEW q \in Orders, q # o
             PROVE  /\ order'[q] = order[q] /\ payment'[q] = payment[q]
                    /\ released'[q] = released[q] /\ receipts'[q] = receipts[q]
  BY Zenon DEF Elsewhere
<1>0. /\ order \in [Orders -> OrderRow] /\ payment \in [Orders -> PaymentRow]
      /\ released \in [Orders -> [Attempts -> AttemptStates]] /\ receipts \in [Orders -> Nat]
  BY Zenon DEF OrdersOK, RowsOK
<1>1. CASE Buyer(o)
  BY <1>0, <1>1, Zenon
  DEF Buyer, Checkout, BindFiat, BindBitcoin, PrepareLocks, RegisterLocks, SandboxAdvance,
      CancelUnpaid, CancelPaid, CancelPickup, WatchAttempt, Issue
<1>2. CASE Seller(o)
  BY <1>0, <1>2, Zenon
  DEF Seller, ApproveCancel, RecordExternalRefund, SellerConfirms, Resolve, Issue
<1>3. CASE Upstream(o)
  <2>1. ASSUME NEW r, NEW p, LateMoney(o, r, p) \/ Settle(o, r, p)
        PROVE  order'[q] = order[q] /\ payment'[q] = payment[q] /\ receipts'[q] = receipts[q]
    BY <1>0, <2>1, Zenon DEF LateMoney, Settle, Issue
  <2>2. ASSUME NEW i \in Attempts, NEW amount \in {"matched", "mismatched"},
               NEW seen \in Amounts, ReleasedSettled(o, i, amount, seen)
        PROVE  /\ order'[q] = order[q] /\ payment'[q] = payment[q]
               /\ released'[q] = released[q] /\ receipts'[q] = receipts[q]
    BY <1>0, <2>1, <2>2, Zenon DEF ReleasedSettled
  <2>3. ASSUME NEW late \in BOOLEAN, NEW amount \in {"matched", "mismatched"},
               NEW seen \in Amounts, PaykitConfirmed(o, late, amount, seen)
        PROVE  /\ order'[q] = order[q] /\ payment'[q] = payment[q]
               /\ released'[q] = released[q] /\ receipts'[q] = receipts[q]
    BY <1>0, <2>1, <2>3, Zenon DEF PaykitConfirmed
  <2>4. CASE FiatPaid(o) \/ LocksCompleted(o)
    BY <1>0, <2>1, <2>4, Zenon DEF FiatPaid, LocksCompleted
  <2> QED
    BY <1>0, <1>3, <2>2, <2>3, <2>4, Zenon
    DEF Upstream, LocksTerminal, ActivateOk, ActivateRefused, TrackAfterVoid,
        PaykitDetected, SharedObserved, AttemptCloses, WatchAttempt
<1>4. CASE Sweeps(o)
  BY <1>0, <1>4, Zenon
  DEF Sweeps, HoldElapses, SweepHeld, SweepPreparing, SweepFindsPublished, SweepIdle,
      RouteSellerWindow, WatchAttempt
<1> QED
  BY <1>1, <1>2, <1>3, <1>4, Zenon

(* The inductive invariant of the money.                                   *)
MoneyInv ==
    /\ OrdersOK
    /\ RowsOK
    /\ \A o \in Orders : MoneyOK(o) /\ WatchOK(o)

(* Before the first checkout nothing is paid and nothing is watched.       *)
LEMMA MoneyInit == Init => MoneyInv
<1> SUFFICES ASSUME Init PROVE MoneyInv
  OBVIOUS
<1>1. OrdersOK /\ RowsOK
  BY InitRefines, InitRows
<1>2. ASSUME NEW o \in Orders PROVE MoneyOK(o) /\ WatchOK(o)
  <2>1. order[o] = NoOrder /\ payment[o] = NewPayment /\ receipts[o] = 0
    BY DEF Init
  <2> QED
    BY <2>1, SMTT(60)
    DEF NoOrder, NewPayment, MoneyOK, MoneyRow, ConfirmedSale, SoldStates, WatchOK
<1> QED
  BY <1>1, <1>2 DEF MoneyInv

(* Every transaction of every order keeps the invariant, overrides no      *)
(* decision and drops no hold that seen money needs.                       *)
LEMMA MoneyNext ==
    MoneyInv /\ [Next]_vars => MoneyInv' /\ \A o \in Orders : Decided(o)
<1> SUFFICES ASSUME MoneyInv, [Next]_vars
             PROVE  MoneyInv' /\ \A o \in Orders : Decided(o)
  OBVIOUS
<1>0. OrdersOK /\ RowsOK /\ OrdersOK' /\ RowsOK'
  BY NextRefines, NextRows DEF MoneyInv
<1>1. ASSUME NEW q \in Orders, order'[q] = order[q], payment'[q] = payment[q],
             released'[q] = released[q], receipts'[q] = receipts[q]
      PROVE  MoneyOK(q)' /\ WatchOK(q)' /\ Decided(q)
  BY <1>1, Zenon DEF MoneyInv, MoneyOK, WatchOK, Decided
<1>2. ASSUME NEW o \in Orders, Buyer(o) \/ Seller(o) \/ Upstream(o) \/ Sweeps(o)
      PROVE  \A q \in Orders : MoneyOK(q)' /\ WatchOK(q)' /\ Decided(q)
  <2>1. MoneyOK(o) /\ WatchOK(o)
    BY DEF MoneyInv
  <2>2. MoneyOK(o)' /\ Decided(o) /\ StillWatched(o)
    BY <1>0, <1>2, <2>1, BuyerMoney, SellerMoney, UpstreamMoney, SweepsMoney,
       BuyerWatch, SellerWatch, UpstreamWatch, SweepsWatch, Zenon
  <2>3. WatchOK(o)'
    BY <1>0, <2>1, <2>2, WatchKept, Zenon
  <2>4. Elsewhere(o)
    BY <1>0, <1>2, OneOrderAtATime, Zenon
  <2> QED
    BY <1>1, <2>2, <2>3, <2>4, Zenon DEF Elsewhere
<1>3. CASE \E l \in Listings : ListingStep(l)
  <2>1. UNCHANGED <<order, payment, released, receipts>>
    BY <1>3, Zenon DEF ListingStep, Tombstone, AdjustInventory, RegisterListing
  <2> QED
    BY <1>0, <1>1, <2>1, Zenon DEF MoneyInv
<1>4. CASE UNCHANGED vars
  BY <1>0, <1>1, <1>4, Zenon DEF MoneyInv, vars
<1> QED
  BY <1>0, <1>2, <1>3, <1>4, Zenon DEF Next, MoneyInv

(* What the invariant says of receipts and of invoices.                    *)
LEMMA MoneyInvMeans == MoneyInv => ReceiptOncePerPayment /\ InvoicesStayWatched
BY SMTT(60) DEF MoneyInv, MoneyOK, MoneyRow, WatchOK, ConfirmedSale, SoldStates,
       ReceiptOncePerPayment, InvoicesStayWatched

(* However often, however late and on whichever rails a settlement is      *)
(* reported, an order has one receipt exactly when its payment is          *)
(* confirmed and not refunded.                                             *)
THEOREM OneReceiptPerPayment == Spec => []ReceiptOncePerPayment
<1>1. MoneyInv /\ [Next]_vars => MoneyInv'
  BY MoneyNext
<1> QED
  BY <1>1, MoneyInit, MoneyInvMeans, PTL DEF Spec

(* Whatever binds, refusals, voids and late settlements come in between,   *)
(* every invoice an order ever had stays polled or was closed.             *)
THEOREM NoInvoiceForgotten == Spec => []InvoicesStayWatched
<1>1. MoneyInv /\ [Next]_vars => MoneyInv'
  BY MoneyNext, Zenon
<1> QED
  BY <1>1, MoneyInit, MoneyInvMeans, PTL DEF Spec

(* Once a review is decided nothing rewrites the payment: not late money,  *)
(* not a second decision, not the reaper.                                  *)
THEOREM ResolvedStaysResolved == Spec => DecisionsAreFinal
<1>1. MoneyInv /\ [Next]_vars =>
         [\A o \in Orders :
             payment[o].resolution # "null" => payment'[o] = payment[o]]_vars
  BY MoneyNext, Zenon DEF Decided
<1>2. MoneyInv /\ [Next]_vars => MoneyInv'
  BY MoneyNext, Zenon
<1> QED
  BY <1>1, <1>2, MoneyInit, PTL DEF Spec, DecisionsAreFinal

(* Stock held for money that was seen leaves the order only by a sale or   *)
(* by a decision, for any number of orders and in any interleaving.        *)
THEOREM HoldsOutlastSeenMoney == Spec => SeenMoneyKeepsStock
<1>1. MoneyInv /\ [Next]_vars =>
       [\A o \in Orders :
        (/\ order[o].stock_held /\ ~order'[o].stock_held
         /\ \/ order[o].request = "awaiting_seller_confirmation"
            \/ payment[o].adapter = "paykit" /\ payment[o].state = "manual_review")
        => order'[o].state = "paid" \/ payment'[o].resolution # "null"]_vars
  BY MoneyNext, Zenon DEF Decided, SeenMoney
<1>2. MoneyInv /\ [Next]_vars => MoneyInv'
  BY MoneyNext
<1> QED
  BY <1>1, <1>2, MoneyInit, PTL DEF Spec, SeenMoneyKeepsStock

-----------------------------------------------------------------------------
(* What the ledger's theorem gives.                                        *)

(* The ledger's theorem, about the orders that hold and own units here.    *)
Proved == INSTANCE StockLedgerProofs WITH held <- HeldOrders, bought <- SoldOrders

(* The assumption the ledger's proofs make of their orders.                *)
LEMMA OrdersFiniteThere == Proved!IsFiniteSet(Orders)
BY OrdersFinite, Zenon DEF Proved!IsFiniteSet, IsFiniteSet

(* The ledger that Settlement instantiates starts as the one proved about. *)
LEMMA SameLedgerInit == Ledger!LedgerInit => Proved!LedgerInit
BY Zenon DEF Ledger!LedgerInit, Ledger!StockInit, Proved!LedgerInit, Proved!StockInit

(* And it takes the same steps.                                            *)
LEMMA SameLedgerStep == [Ledger!LedgerNext]_(Ledger!ledger) => [Proved!LedgerNext]_(Proved!ledger)
BY Zenon DEF Ledger!LedgerNext, Proved!LedgerNext, Ledger!ledger, Proved!ledger,
       Ledger!TakeHold, Proved!TakeHold, Ledger!SellHeld, Proved!SellHeld,
       Ledger!SellFree, Proved!SellFree, Ledger!DropHold, Proved!DropHold,
       Ledger!CallOff, Proved!CallOff, Ledger!LeakLines, Proved!LeakLines,
       Ledger!Restock, Proved!Restock, Ledger!Adjust, Proved!Adjust,
       Ledger!Retire, Proved!Retire, Ledger!Register, Proved!Register,
       Ledger!Fits, Proved!Fits,
       Ledger!LineFits, Proved!LineFits, Ledger!Lines, Proved!Lines,
       Ledger!Reserve, Proved!Reserve, Ledger!Convert, Proved!Convert,
       Ledger!Take, Proved!Take, Ledger!ReleaseReserved, Proved!ReleaseReserved,
       Ledger!ReleaseSold, Proved!ReleaseSold

(* The ledger's invariant, in the words of Settlement.                     *)
LEMMA LedgerInvHere ==
    Proved!LedgerInv => /\ StockTypeOK /\ Conservation /\ StateMatchesStock
                        /\ HoldsAreBacked /\ SoldIsPaidFor
<1> SUFFICES ASSUME Proved!LedgerInv
             PROVE  /\ StockTypeOK /\ Conservation /\ StateMatchesStock
                    /\ HoldsAreBacked /\ SoldIsPaidFor
  BY Zenon
<1>1. StockTypeOK /\ Conservation /\ StateMatchesStock
  BY Zenon DEF Proved!LedgerInv, Proved!StockSound, Proved!StockTypeOK, StockTypeOK,
         Proved!Conservation, Conservation, Proved!StateMatchesStock, StateMatchesStock
<1>2. ASSUME NEW S PROVE Ledger!Cardinality(S) = Proved!Cardinality(S)
  BY Zenon DEF Ledger!Cardinality, Proved!Cardinality
<1>3. HoldsAreBacked /\ SoldIsPaidFor
  BY <1>2, Zenon DEF Proved!LedgerInv, Proved!HoldsBacked, Proved!SalesCounted, Proved!Units,
              HoldsAreBacked, SoldIsPaidFor, Ledger!HoldsBacked, Ledger!SalesCounted,
              Ledger!Units
<1> QED
  BY <1>1, <1>3, Zenon

(* No unit is made or lost, the state column follows the quantities, every *)
(* order with stock_held has its units in reserved_quantity and            *)
(* sold_quantity counts exactly the paid orders, whatever rails, sweeps,   *)
(* late money and resolutions interleave.                                  *)
THEOREM SettlementSafe ==
    Spec => [](Conservation /\ StateMatchesStock /\ HoldsAreBacked /\ SoldIsPaidFor)
<1>1. Proved!LedgerInit => Proved!LedgerInv
  BY Proved!LedgerInitInv, OrdersFiniteThere, QuantityType, StockType, MaxTotalType, Zenon
<1>2. Proved!LedgerInv /\ [Proved!LedgerNext]_(Proved!ledger) => Proved!LedgerInv'
  BY Proved!LedgerNextInv, OrdersFiniteThere, QuantityType, StockType, MaxTotalType, Zenon
<1> QED
  BY <1>1, <1>2, SettlementImplementsLedger, SameLedgerInit, SameLedgerStep,
     LedgerInvHere, PTL DEF StockFollowsLedger, Ledger!LedgerSpec

-----------------------------------------------------------------------------
(* Every row keeps to its columns' types, and no quantity column ever goes *)
(* below zero, in any interleaving of any number of orders.                *)
THEOREM SettlementTyped == Spec => []TypeOK
<1>1. Proved!LedgerInit => Proved!LedgerInv
  BY Proved!LedgerInitInv, OrdersFiniteThere, QuantityType, StockType, MaxTotalType, Zenon
<1>2. Proved!LedgerInv /\ [Proved!LedgerNext]_(Proved!ledger) => Proved!LedgerInv'
  BY Proved!LedgerNextInv, OrdersFiniteThere, QuantityType, StockType, MaxTotalType, Zenon
<1>3. OrdersOK /\ RowsOK /\ Proved!LedgerInv => TypeOK
  BY LedgerInvHere, Zenon DEF OrdersOK, RowsOK, AttemptStates, TypeOK
<1>4. Init => OrdersOK /\ RowsOK /\ Proved!LedgerInit
  BY InitRefines, InitRows, SameLedgerInit, Zenon
<1>5. OrdersOK /\ RowsOK /\ [Next]_vars =>
         OrdersOK' /\ RowsOK' /\ [Proved!LedgerNext]_(Proved!ledger)
  BY NextRefines, NextRows, SameLedgerStep, Zenon DEF StockStep
<1> QED
  BY <1>1, <1>2, <1>3, <1>4, <1>5, PTL DEF Spec

(* sold_quantity is, at every moment, the units of the orders that were    *)
(* paid and not called off.                                                *)
COROLLARY SalesArePaidFor == Spec => []SoldIsPaidFor
BY SettlementSafe, PTL

=============================================================================
