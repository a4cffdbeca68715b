---------------------------- MODULE ListingStock ----------------------------
(***************************************************************************)
(* The quantity columns of the listings table and the movements between    *)
(* them.  Every write path of the service that touches stock is one of     *)
(* these movements; what differs is who asks for it and when.              *)
(***************************************************************************)
EXTENDS Integers, FiniteSets

CONSTANTS
    Orders,        \* the orders buyers may place
    Listings,      \* the listings of the sellers
    Quantity,      \* Quantity[o][l]: units of listing l on order o's lines
    Stock,         \* Stock[l]: the units a listing is registered with
    MaxTotal       \* bound: the largest total a seller may set

ASSUME OrdersFinite == IsFiniteSet(Orders)
ASSUME QuantityType == Quantity \in [Orders -> [Listings -> Nat]]
ASSUME StockType    == Stock \in [Listings -> Nat \ {0}]
ASSUME MaxTotalType == MaxTotal \in Nat

VARIABLES
    available, reserved, sold, total,  \* the listing's four quantity columns
    lstate,                            \* listings.state
    deleted,                           \* listings.deleted_at is set
    older                              \* the orders placed before recreated_at

stock == <<available, reserved, sold, total, lstate, deleted, older>>

StockInit ==
    /\ available = Stock
    /\ reserved = [l \in Listings |-> 0]
    /\ sold = [l \in Listings |-> 0]
    /\ total = Stock
    /\ lstate = [l \in Listings |-> "available"]
    /\ deleted = [l \in Listings |-> FALSE]
    /\ older = [l \in Listings |-> {}]

-----------------------------------------------------------------------------
(* The movements, one per transaction.                                     *)

Lines(o) == {l \in Listings : Quantity[o][l] > 0}

(* The line's listing is live, was not re-created after the order was      *)
(* placed, and has the units free.                                         *)
LineFits(o, l) ==
    /\ ~deleted[l] /\ o \notin older[l]
    /\ available[l] >= Quantity[o][l]

Fits(o) == \A l \in Lines(o) : LineFits(o, l)

(* available -> reserved for the given lines of the order.                 *)
Reserve(o, lines) ==
    /\ available' = [l \in Listings |->
          IF l \in lines THEN available[l] - Quantity[o][l] ELSE available[l]]
    /\ reserved' = [l \in Listings |->
          IF l \in lines THEN reserved[l] + Quantity[o][l] ELSE reserved[l]]
    /\ lstate' = [l \in Listings |->
          IF l \notin lines THEN lstate[l]
          ELSE IF available[l] = Quantity[o][l] THEN "reserved" ELSE "available"]
    /\ UNCHANGED <<sold, total, deleted, older>>

(* reserved -> sold: the confirmation consumes the order's hold.           *)
Convert(o) ==
    /\ reserved' = [l \in Listings |-> reserved[l] - Quantity[o][l]]
    /\ sold' = [l \in Listings |-> sold[l] + Quantity[o][l]]
    /\ lstate' = [l \in Listings |->
          IF l \notin Lines(o) THEN lstate[l]
          ELSE IF available[l] > 0 THEN "available"
          ELSE IF reserved[l] > Quantity[o][l] THEN "reserved" ELSE "sold"]
    /\ UNCHANGED <<available, total, deleted, older>>

(* Reserve and Convert in one transaction: available -> sold.              *)
Take(o) ==
    /\ available' = [l \in Listings |-> available[l] - Quantity[o][l]]
    /\ sold' = [l \in Listings |-> sold[l] + Quantity[o][l]]
    /\ lstate' = [l \in Listings |->
          IF l \notin Lines(o) THEN lstate[l]
          ELSE IF available[l] > Quantity[o][l] THEN "available"
          ELSE IF reserved[l] > 0 THEN "reserved" ELSE "sold"]
    /\ UNCHANGED <<reserved, total, deleted, older>>

(* reserved -> available: an unpaid order returns what it held.            *)
ReleaseReserved(o) ==
    /\ \A l \in Lines(o) : reserved[l] >= Quantity[o][l]
    /\ available' = [l \in Listings |-> available[l] + Quantity[o][l]]
    /\ reserved' = [l \in Listings |-> reserved[l] - Quantity[o][l]]
    /\ lstate' = [l \in Listings |->
          IF l \in Lines(o) THEN "available" ELSE lstate[l]]
    /\ UNCHANGED <<sold, total, deleted, older>>

(* sold -> available: a paid order is called off and restocked.            *)
ReleaseSold(o) ==
    /\ \A l \in Lines(o) : sold[l] >= Quantity[o][l]
    /\ available' = [l \in Listings |-> available[l] + Quantity[o][l]]
    /\ sold' = [l \in Listings |-> sold[l] - Quantity[o][l]]
    /\ lstate' = [l \in Listings |->
          IF l \in Lines(o) THEN "available" ELSE lstate[l]]
    /\ UNCHANGED <<reserved, total, deleted, older>>

(* inventory.adjust: delta units on or off the shelf.                      *)
Adjust(l, delta) ==
    /\ ~deleted[l]
    /\ total[l] + delta \in 0..MaxTotal
    /\ available[l] + delta >= 0
    /\ total' = [total EXCEPT ![l] = @ + delta]
    /\ available' = [available EXCEPT ![l] = @ + delta]
    /\ lstate' = [lstate EXCEPT ![l] =
          IF available[l] + delta > 0 THEN "available"
          ELSE IF reserved[l] > 0 THEN "reserved" ELSE "sold"]
    /\ UNCHANGED <<reserved, sold, deleted, older>>

(* The tombstone of a deleted listing leaves its quantities alone.         *)
Retire(l) ==
    /\ ~deleted[l]
    /\ deleted' = [deleted EXCEPT ![l] = TRUE]
    /\ UNCHANGED <<available, reserved, sold, total, lstate, older>>

(* A registration or sync of an advanced record, or of one re-created at a *)
(* deleted id: the quantity is the record's, less what is committed.  The  *)
(* orders placed so far belong to the listing that was deleted.            *)
Register(l, quantity, placed) ==
    LET committed == reserved[l] + sold[l]
    IN  /\ quantity >= committed
        /\ total' = [total EXCEPT ![l] = quantity]
        /\ available' = [available EXCEPT ![l] = quantity - committed]
        /\ lstate' = [lstate EXCEPT ![l] =
              IF quantity > committed THEN "available"
              ELSE IF committed > 0 THEN "reserved" ELSE "sold"]
        /\ older' = [older EXCEPT ![l] = IF deleted[l] THEN placed ELSE @]
        /\ deleted' = [deleted EXCEPT ![l] = FALSE]
        /\ UNCHANGED <<reserved, sold>>

-----------------------------------------------------------------------------
StockTypeOK ==
    /\ available \in [Listings -> Nat]
    /\ reserved \in [Listings -> Nat]
    /\ sold \in [Listings -> Nat]
    /\ total \in [Listings -> Nat]
    /\ lstate \in [Listings -> {"available", "reserved", "sold"}]
    /\ deleted \in [Listings -> BOOLEAN]
    /\ older \in [Listings -> SUBSET Orders]

(* No unit is ever made or lost by a hold, a sale, a release, a late       *)
(* completion or an adjustment: the table's balance check never fires.     *)
Conservation ==
    \A l \in Listings : available[l] + reserved[l] + sold[l] = total[l]

(* The state column every write path computes for itself: buyers see       *)
(* "available" exactly when units are free, and "sold" only when no other  *)
(* buyer's hold could still bring units back.                              *)
StateMatchesStock ==
    \A l \in Listings :
        /\ lstate[l] = "available" <=> available[l] > 0
        /\ lstate[l] = "sold" => reserved[l] = 0

(* The units of listing l on the lines of the orders in S.                 *)
Units(l, S) == UNION {{o} \X (1..Quantity[o][l]) : o \in S}

=============================================================================
