----------------------------- MODULE StockLedger -----------------------------
(***************************************************************************)
(* What the order flows promise about stock, without saying how payments   *)
(* work: an order takes units into a hold, a hold becomes a sale or goes   *)
(* back to the shelf, a sale that is called off goes back to the shelf, a  *)
(* late payment buys straight from the shelf.  Settlement implements this. *)
(***************************************************************************)
EXTENDS ListingStock

VARIABLES
    held,      \* the orders that hold their units
    bought     \* the orders whose units are sold

ledger == <<available, reserved, sold, total, lstate, deleted, older, held, bought>>

LedgerInit == StockInit /\ held = {} /\ bought = {}

(* The payment lock point reserves every line of the order.                *)
TakeHold(o) ==
    /\ o \notin held \union bought
    /\ Fits(o) /\ Reserve(o, Lines(o))
    /\ held' = held \union {o}
    /\ UNCHANGED bought

(* The confirmation consumes the hold.                                     *)
SellHeld(o) ==
    /\ o \in held \ bought
    /\ \A l \in Lines(o) : reserved[l] >= Quantity[o][l]
    /\ Convert(o)
    /\ held' = held \ {o}
    /\ bought' = bought \union {o}

(* An order that holds nothing is paid: hold and sale in one transaction.  *)
SellFree(o) ==
    /\ o \notin held \union bought
    /\ Fits(o) /\ Take(o)
    /\ bought' = bought \union {o}
    /\ UNCHANGED held

DropHold(o) ==
    /\ o \in held
    /\ ReleaseReserved(o)
    /\ held' = held \ {o}
    /\ UNCHANGED bought

CallOff(o) ==
    /\ o \in bought
    /\ ReleaseSold(o)
    /\ bought' = bought \ {o}
    /\ UNCHANGED held

(* A reacquisition that meets a line it cannot serve leaves the lines it   *)
(* took before reserved for nobody.                                        *)
LeakLines(o) ==
    /\ ~Fits(o)
    /\ \E taken \in SUBSET {l \in Lines(o) : LineFits(o, l)} : Reserve(o, taken)
    /\ UNCHANGED <<held, bought>>

Restock(l) ==
    /\ \/ \E delta \in {-1, 1} : Adjust(l, delta)
       \/ Retire(l)
       \/ \E quantity \in 1..MaxTotal, placed \in SUBSET Orders :
             Register(l, quantity, placed)
    /\ UNCHANGED <<held, bought>>

LedgerNext ==
    \/ \E o \in Orders :
          \/ TakeHold(o) \/ SellHeld(o) \/ SellFree(o)
          \/ DropHold(o) \/ CallOff(o) \/ LeakLines(o)
    \/ \E l \in Listings : Restock(l)

LedgerSpec == LedgerInit /\ [][LedgerNext]_ledger

-----------------------------------------------------------------------------
(* Two orders never hold the same unit: what all the held orders claim is  *)
(* there in the reserved column, so a confirmation never finds it gone.    *)
HoldsBacked ==
    \A l \in Listings : Cardinality(Units(l, held)) <= reserved[l]

(* The sold column counts the units of the orders that bought.             *)
SalesCounted ==
    \A l \in Listings : Cardinality(Units(l, bought)) = sold[l]

=============================================================================
