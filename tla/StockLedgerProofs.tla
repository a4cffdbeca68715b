-------------------------- MODULE StockLedgerProofs --------------------------
(***************************************************************************)
(* The ledger's invariants, for any number of orders and listings and any  *)
(* quantities.                                                             *)
(***************************************************************************)
EXTENDS StockLedger, FiniteSetTheorems, TLAPS

-----------------------------------------------------------------------------
(* Counting the units of a set of orders.                                  *)

(* The units of finitely many orders are finitely many.                    *)
LEMMA UnitsFinite ==
    ASSUME NEW l \in Listings, NEW S \in SUBSET Orders
    PROVE  IsFiniteSet(Units(l, S)) /\ Cardinality(Units(l, S)) \in Nat
<1> DEFINE line(o) == {o} \X (1..Quantity[o][l])
           f == [o \in S |-> line(o)]
           T == {line(o) : o \in S}
<1>1. IsFiniteSet(S)
  BY OrdersFinite, FS_Subset
<1>2. f \in Surjection(S, T)
  BY Zenon DEF Surjection
<1>3. IsFiniteSet(T)
  BY <1>1, <1>2, FS_Surjection
<1>4. \A L \in T : IsFiniteSet(L)
  <2> SUFFICES ASSUME NEW o \in S PROVE IsFiniteSet(line(o))
    OBVIOUS
  <2>1. Quantity[o][l] \in Nat
    BY QuantityType
  <2>2. IsFiniteSet(1..Quantity[o][l])
    BY <2>1, FS_Interval
  <2>3. IsFiniteSet({o})
    BY FS_Singleton, Zenon
  <2> QED
    BY <2>2, <2>3, FS_Product, Zenon
<1>5. IsFiniteSet(UNION T)
  BY <1>3, <1>4, FS_UNION, Zenon
<1>6. Units(l, S) = UNION T
  BY DEF Units
<1> QED
  BY <1>5, <1>6, FS_CardinalityType

(* The units 1..q of a line are q many.                                    *)
LEMMA IntervalCount ==
    ASSUME NEW q \in Nat
    PROVE  IsFiniteSet(1..q) /\ Cardinality(1..q) = q
<1>1. 1 \in Int /\ q \in Int
  OBVIOUS
<1>2. IsFiniteSet(1..q) /\ Cardinality(1..q) = IF 1 > q THEN 0 ELSE q - 1 + 1
  BY <1>1, FS_Interval, Zenon
<1> QED
  BY <1>2

(* One more order adds exactly the units of its lines.                     *)
LEMMA UnitsAdd ==
    ASSUME NEW l \in Listings, NEW S \in SUBSET Orders,
           NEW o \in Orders, o \notin S
    PROVE  Cardinality(Units(l, S \union {o}))
             = Cardinality(Units(l, S)) + Quantity[o][l]
<1> DEFINE L == {o} \X (1..Quantity[o][l])
<1> HIDE DEF L
<1>1. Quantity[o][l] \in Nat
  BY QuantityType
<1>2. IsFiniteSet(1..Quantity[o][l]) /\ Cardinality(1..Quantity[o][l]) = Quantity[o][l]
  BY <1>1, IntervalCount
<1>3. IsFiniteSet({o}) /\ Cardinality({o}) = 1
  BY FS_Singleton, Zenon
<1>4. IsFiniteSet(L) /\ Cardinality(L) = Quantity[o][l]
  <2>1. IsFiniteSet(L) /\ Cardinality(L) = Cardinality({o}) * Cardinality(1..Quantity[o][l])
    BY <1>2, <1>3, FS_Product, Zenon DEF L
  <2> QED
    BY <1>1, <1>2, <1>3, <2>1
<1>5. Units(l, S \union {o}) = Units(l, S) \union L
  BY DEF Units, L
<1>6. Units(l, S) \intersect L = {}
  BY DEF Units, L
<1>7. IsFiniteSet(Units(l, S)) /\ Cardinality(Units(l, S)) \in Nat
  BY UnitsFinite
<1>8. Cardinality(Units(l, S) \union L)
        = Cardinality(Units(l, S)) + Cardinality(L) - Cardinality({})
  BY <1>4, <1>6, <1>7, FS_Union
<1>9. Cardinality({}) = 0
  BY FS_EmptySet
<1>10. Cardinality(L) = Quantity[o][l]
  BY <1>1, <1>4
<1>11. Cardinality(Units(l, S) \union L) = Cardinality(Units(l, S)) + Quantity[o][l]
  BY <1>1, <1>7, <1>8, <1>9, <1>10
<1> QED
  BY <1>5, <1>11

(* One order less takes exactly its units away.                            *)
LEMMA UnitsRemove ==
    ASSUME NEW l \in Listings, NEW S \in SUBSET Orders, NEW o \in S
    PROVE  /\ Cardinality(Units(l, S \ {o}))
                = Cardinality(Units(l, S)) - Quantity[o][l]
           /\ Cardinality(Units(l, S)) >= Quantity[o][l]
<1>1. (S \ {o}) \union {o} = S
  OBVIOUS
<1>2. Cardinality(Units(l, S))
        = Cardinality(Units(l, S \ {o})) + Quantity[o][l]
  BY <1>1, UnitsAdd, o \notin S \ {o}, S \ {o} \in SUBSET Orders, Zenon
<1>3. Cardinality(Units(l, S \ {o})) \in Nat
  BY UnitsFinite
<1>4. Quantity[o][l] \in Nat
  BY QuantityType
<1> QED
  BY <1>2, <1>3, <1>4

(* No order, no units.                                                     *)
LEMMA UnitsNone ==
    ASSUME NEW l \in Listings
    PROVE  Cardinality(Units(l, {})) = 0
<1>1. Units(l, {}) = {}
  BY DEF Units
<1> QED
  BY <1>1, FS_EmptySet

-----------------------------------------------------------------------------
(* The ledger's invariants.                                                *)

(* What every movement of the ledger keeps, whoever holds or bought:       *)
(* types, the balance of the four columns, and the derived state.          *)
StockSound == StockTypeOK /\ Conservation /\ StateMatchesStock

(* The inductive invariant: the columns are sound, and the two counts      *)
(* agree with the sets of orders.                                          *)
LedgerInv ==
    /\ StockSound
    /\ held \in SUBSET Orders
    /\ bought \in SUBSET Orders
    /\ HoldsBacked
    /\ SalesCounted

(* register: a listing starts with all its units available.                *)
LEMMA InitSound == ASSUME StockInit PROVE StockSound
BY StockType DEF StockInit, StockSound, StockTypeOK, Conservation, StateMatchesStock

(* reserve_lines takes what is available.                                  *)
LEMMA ReserveSound ==
    ASSUME StockSound, NEW o \in Orders, NEW lines \in SUBSET Lines(o),
           \A l \in lines : available[l] >= Quantity[o][l], Reserve(o, lines)
    PROVE  StockSound'
<1>1. StockTypeOK'
  BY QuantityType DEF StockSound, StockTypeOK, Reserve, Lines
<1>2. Conservation'
  BY QuantityType DEF StockSound, StockTypeOK, Conservation, Reserve, Lines
<1>3. StateMatchesStock'
  <2> SUFFICES ASSUME NEW l \in Listings
               PROVE  /\ lstate'[l] = "available" <=> available'[l] > 0
                      /\ lstate'[l] = "sold" => reserved'[l] = 0
    BY DEF StateMatchesStock
  <2>1. CASE l \in lines
    <3>1. /\ available[l] \in Nat /\ reserved[l] \in Nat /\ Quantity[o][l] \in Nat
          /\ available[l] >= Quantity[o][l] /\ Quantity[o][l] > 0
      BY <2>1, QuantityType DEF StockSound, StockTypeOK, Lines
    <3>2. /\ available'[l] = available[l] - Quantity[o][l]
          /\ reserved'[l] = reserved[l] + Quantity[o][l]
          /\ lstate'[l] = IF available[l] = Quantity[o][l] THEN "reserved" ELSE "available"
      BY <2>1 DEF Reserve
    <3>3. reserved'[l] > 0 /\ (available'[l] > 0 <=> available[l] # Quantity[o][l])
      BY <3>1, <3>2
    <3> QED
      BY <3>2, <3>3
  <2>2. CASE l \notin lines
    BY <2>2 DEF StockSound, StateMatchesStock, Reserve
  <2> QED
    BY <2>1, <2>2
<1> QED
  BY <1>1, <1>2, <1>3 DEF StockSound

(* confirm_order turns reserved units into sold ones.                      *)
LEMMA ConvertSound ==
    ASSUME StockSound, NEW o \in Orders,
           \A l \in Lines(o) : reserved[l] >= Quantity[o][l], Convert(o)
    PROVE  StockSound'
<1>1. StockTypeOK' /\ Conservation'
  BY QuantityType DEF StockSound, StockTypeOK, Conservation, Convert, Lines
<1>2. StateMatchesStock'
  BY QuantityType DEF StockSound, StockTypeOK, StateMatchesStock, Convert, Lines
<1> QED
  BY <1>1, <1>2 DEF StockSound

(* complete_late_order sells units that are available.                     *)
LEMMA TakeSound ==
    ASSUME StockSound, NEW o \in Orders, Fits(o), Take(o)
    PROVE  StockSound'
<1> \A l \in Lines(o) : available[l] >= Quantity[o][l]
  BY DEF Fits, LineFits
<1>1. StockTypeOK' /\ Conservation'
  BY QuantityType DEF StockSound, StockTypeOK, Conservation, Take, Lines
<1>2. StateMatchesStock'
  BY QuantityType DEF StockSound, StockTypeOK, StateMatchesStock, Take, Lines
<1> QED
  BY <1>1, <1>2 DEF StockSound

(* release_lines puts the units of a hold back.                            *)
LEMMA ReleaseReservedSound ==
    ASSUME StockSound, NEW o \in Orders, ReleaseReserved(o)
    PROVE  StockSound'
BY QuantityType
DEF StockSound, StockTypeOK, Conservation, StateMatchesStock, ReleaseReserved, Lines

(* An approved cancellation puts the units of a sale back.                 *)
LEMMA ReleaseSoldSound ==
    ASSUME StockSound, NEW o \in Orders, ReleaseSold(o)
    PROVE  StockSound'
BY QuantityType
DEF StockSound, StockTypeOK, Conservation, StateMatchesStock, ReleaseSold, Lines

(* adjust_inventory changes the total and the available units together.    *)
LEMMA AdjustSound ==
    ASSUME StockSound, NEW l \in Listings, NEW delta \in {-1, 1}, Adjust(l, delta)
    PROVE  StockSound'
BY MaxTotalType
DEF StockSound, StockTypeOK, Conservation, StateMatchesStock, Adjust

(* A tombstone leaves the quantities alone.                                *)
LEMMA RetireSound ==
    ASSUME StockSound, NEW l \in Listings, Retire(l)
    PROVE  StockSound'
BY DEF StockSound, StockTypeOK, Conservation, StateMatchesStock, Retire

(* A listing created anew starts over.                                     *)
LEMMA RegisterSound ==
    ASSUME StockSound, NEW l \in Listings, NEW quantity \in 1..MaxTotal,
           NEW placed \in SUBSET Orders, Register(l, quantity, placed)
    PROVE  StockSound'
BY MaxTotalType
DEF StockSound, StockTypeOK, Conservation, StateMatchesStock, Register

(* Nobody holds or bought anything at the start.                           *)
LEMMA LedgerInitInv == LedgerInit => LedgerInv
<1> SUFFICES ASSUME LedgerInit PROVE LedgerInv
  OBVIOUS
<1>1. StockSound
  BY InitSound DEF LedgerInit
<1>2. HoldsBacked /\ SalesCounted
  BY UnitsNone DEF LedgerInit, StockInit, HoldsBacked, SalesCounted
<1> QED
  BY <1>1, <1>2 DEF LedgerInit, LedgerInv

(* A step that leaves the sets of orders alone and takes nothing out of    *)
(* the reserved column keeps both counts.                                  *)
LEMMA CountsKept ==
    ASSUME LedgerInv, UNCHANGED <<held, bought, sold>>,
           \A l \in Listings : reserved'[l] \in Nat /\ reserved'[l] >= reserved[l]
    PROVE  HoldsBacked' /\ SalesCounted'
<1>1. HoldsBacked'
  <2> SUFFICES ASSUME NEW l \in Listings
               PROVE  Cardinality(Units(l, held')) <= reserved'[l]
    BY DEF HoldsBacked, Units
  <2>1. held' = held /\ Cardinality(Units(l, held)) \in Nat
    BY UnitsFinite DEF LedgerInv
  <2>2. Cardinality(Units(l, held)) <= reserved[l] /\ reserved[l] \in Nat
    BY DEF LedgerInv, HoldsBacked, StockSound, StockTypeOK
  <2> QED
    BY <2>1, <2>2
<1>2. SalesCounted'
  BY DEF LedgerInv, SalesCounted, Units
<1> QED
  BY <1>1, <1>2

(* acquire_payment_hold: the new hold is backed by what it reserved.       *)
LEMMA TakeHoldInv ==
    ASSUME LedgerInv, NEW o \in Orders, TakeHold(o)
    PROVE  LedgerInv'
<1>1. StockSound'
  BY ReserveSound DEF LedgerInv, TakeHold, Fits, LineFits
<1>2. HoldsBacked'
  <2> SUFFICES ASSUME NEW l \in Listings
               PROVE  Cardinality(Units(l, held')) <= reserved'[l]
    BY DEF HoldsBacked, Units
  <2>1. Cardinality(Units(l, held')) = Cardinality(Units(l, held)) + Quantity[o][l]
    BY UnitsAdd DEF LedgerInv, TakeHold
  <2>2. reserved'[l] = reserved[l] + Quantity[o][l]
    BY QuantityType DEF TakeHold, Reserve, Lines, LedgerInv, StockSound, StockTypeOK
  <2>3. Cardinality(Units(l, held)) \in Nat /\ Cardinality(Units(l, held)) <= reserved[l]
    BY UnitsFinite DEF LedgerInv, HoldsBacked
  <2>4. Quantity[o][l] \in Nat /\ reserved[l] \in Nat
    BY QuantityType DEF LedgerInv, StockSound, StockTypeOK
  <2> QED
    BY <2>1, <2>2, <2>3, <2>4
<1>3. SalesCounted'
  BY DEF LedgerInv, TakeHold, Reserve, SalesCounted, Units
<1> QED
  BY <1>1, <1>2, <1>3 DEF LedgerInv, TakeHold

(* confirm_order: the hold becomes a sale.                                 *)
LEMMA SellHeldInv ==
    ASSUME LedgerInv, NEW o \in Orders, SellHeld(o)
    PROVE  LedgerInv'
<1>1. StockSound'
  BY ConvertSound DEF LedgerInv, SellHeld
<1>2. ASSUME NEW l \in Listings
      PROVE  /\ Cardinality(Units(l, held')) <= reserved'[l]
             /\ Cardinality(Units(l, bought')) = sold'[l]
  <2>1. Cardinality(Units(l, held')) = Cardinality(Units(l, held)) - Quantity[o][l]
    BY UnitsRemove, Zenon DEF LedgerInv, SellHeld
  <2>2. Cardinality(Units(l, bought')) = Cardinality(Units(l, bought)) + Quantity[o][l]
    BY UnitsAdd DEF LedgerInv, SellHeld
  <2>3. /\ reserved'[l] = reserved[l] - Quantity[o][l]
        /\ sold'[l] = sold[l] + Quantity[o][l]
    BY Zenon DEF SellHeld, Convert
  <2>4. /\ Cardinality(Units(l, held)) \in Nat
        /\ Cardinality(Units(l, held)) <= reserved[l]
        /\ Cardinality(Units(l, bought)) = sold[l]
    BY UnitsFinite DEF LedgerInv, HoldsBacked, SalesCounted
  <2>5. Quantity[o][l] \in Nat /\ reserved[l] \in Nat /\ sold[l] \in Nat
    BY QuantityType DEF LedgerInv, StockSound, StockTypeOK
  <2> QED
    BY <2>1, <2>2, <2>3, <2>4, <2>5
<1>3. HoldsBacked' /\ SalesCounted'
  BY <1>2, Zenon DEF HoldsBacked, SalesCounted, Units
<1> QED
  BY <1>1, <1>3 DEF LedgerInv, SellHeld

(* complete_late_order: a sale without a hold takes free units.            *)
LEMMA SellFreeInv ==
    ASSUME LedgerInv, NEW o \in Orders, SellFree(o)
    PROVE  LedgerInv'
<1>1. StockSound'
  BY TakeSound DEF LedgerInv, SellFree
<1>2. HoldsBacked'
  BY DEF LedgerInv, SellFree, Take, HoldsBacked, Units
<1>3. SalesCounted'
  <2> SUFFICES ASSUME NEW l \in Listings
               PROVE  Cardinality(Units(l, bought')) = sold'[l]
    BY Zenon DEF SalesCounted, Units
  <2>1. Cardinality(Units(l, bought')) = Cardinality(Units(l, bought)) + Quantity[o][l]
    BY UnitsAdd DEF LedgerInv, SellFree
  <2>2. Cardinality(Units(l, bought)) = sold[l] /\ sold'[l] = sold[l] + Quantity[o][l]
    BY Zenon DEF LedgerInv, SalesCounted, SellFree, Take
  <2> QED
    BY <2>1, <2>2
<1> QED
  BY <1>1, <1>2, <1>3 DEF LedgerInv, SellFree

(* release_lines of a hold: the other holds keep their units.              *)
LEMMA DropHoldInv ==
    ASSUME LedgerInv, NEW o \in Orders, DropHold(o)
    PROVE  LedgerInv'
<1>1. StockSound'
  BY ReleaseReservedSound DEF LedgerInv, DropHold
<1>2. HoldsBacked'
  <2> SUFFICES ASSUME NEW l \in Listings
               PROVE  Cardinality(Units(l, held')) <= reserved'[l]
    BY DEF HoldsBacked, Units
  <2>1. Cardinality(Units(l, held')) = Cardinality(Units(l, held)) - Quantity[o][l]
    BY UnitsRemove DEF LedgerInv, DropHold
  <2>2. reserved'[l] = reserved[l] - Quantity[o][l]
    BY DEF DropHold, ReleaseReserved
  <2>3. Cardinality(Units(l, held)) \in Nat /\ Cardinality(Units(l, held)) <= reserved[l]
    BY UnitsFinite DEF LedgerInv, HoldsBacked
  <2>4. Quantity[o][l] \in Nat /\ reserved[l] \in Nat
    BY QuantityType DEF LedgerInv, StockSound, StockTypeOK
  <2> QED
    BY <2>1, <2>2, <2>3, <2>4
<1>3. SalesCounted'
  BY DEF LedgerInv, DropHold, ReleaseReserved, SalesCounted, Units
<1> QED
  BY <1>1, <1>2, <1>3 DEF LedgerInv, DropHold

(* An approved cancellation of a paid order: the sale and its units go.    *)
LEMMA CallOffInv ==
    ASSUME LedgerInv, NEW o \in Orders, CallOff(o)
    PROVE  LedgerInv'
<1>1. StockSound'
  BY ReleaseSoldSound DEF LedgerInv, CallOff
<1>2. HoldsBacked'
  BY DEF LedgerInv, CallOff, ReleaseSold, HoldsBacked, Units
<1>3. SalesCounted'
  <2> SUFFICES ASSUME NEW l \in Listings
               PROVE  Cardinality(Units(l, bought')) = sold'[l]
    BY DEF SalesCounted, Units
  <2>1. Cardinality(Units(l, bought')) = Cardinality(Units(l, bought)) - Quantity[o][l]
    BY UnitsRemove DEF LedgerInv, CallOff
  <2>2. Cardinality(Units(l, bought)) = sold[l] /\ sold'[l] = sold[l] - Quantity[o][l]
    BY DEF LedgerInv, SalesCounted, CallOff, ReleaseSold
  <2> QED
    BY <2>1, <2>2
<1> QED
  BY <1>1, <1>2, <1>3 DEF LedgerInv, CallOff

(* reacquire_hold that fails later on: the holds there are stay backed.    *)
LEMMA LeakLinesInv ==
    ASSUME LedgerInv, NEW o \in Orders, LeakLines(o)
    PROVE  LedgerInv'
<1>1. PICK taken \in SUBSET {l \in Lines(o) : LineFits(o, l)} : Reserve(o, taken)
  BY DEF LeakLines
<1>2. StockSound'
  BY <1>1, ReserveSound DEF LedgerInv, LineFits
<1>3. \A l \in Listings : reserved'[l] \in Nat /\ reserved'[l] >= reserved[l]
  BY <1>1, QuantityType DEF Reserve, LedgerInv, StockSound, StockTypeOK
<1>4. HoldsBacked' /\ SalesCounted'
  BY <1>1, <1>3, CountsKept, Zenon DEF LeakLines, Reserve
<1> QED
  BY <1>2, <1>4 DEF LedgerInv, LeakLines

(* The seller's own changes touch no held and no sold unit.                *)
LEMMA RestockInv ==
    ASSUME LedgerInv, NEW l \in Listings, Restock(l)
    PROVE  LedgerInv'
<1>1. StockSound'
  BY AdjustSound, RetireSound, RegisterSound DEF LedgerInv, Restock
<1>2. UNCHANGED <<held, bought, sold, reserved>>
  BY Zenon DEF Restock, Adjust, Retire, Register
<1>3. \A k \in Listings : reserved'[k] \in Nat /\ reserved'[k] >= reserved[k]
  BY <1>2 DEF LedgerInv, StockSound, StockTypeOK
<1>4. HoldsBacked' /\ SalesCounted'
  BY <1>2, <1>3, CountsKept
<1> QED
  BY <1>1, <1>2, <1>4 DEF LedgerInv

(* The invariant is inductive: one lemma for each movement.                *)
LEMMA LedgerNextInv == LedgerInv /\ [LedgerNext]_ledger => LedgerInv'
<1> SUFFICES ASSUME LedgerInv, [LedgerNext]_ledger PROVE LedgerInv'
  OBVIOUS
<1>1. CASE \E o \in Orders : \/ TakeHold(o) \/ SellHeld(o) \/ SellFree(o)
                             \/ DropHold(o) \/ CallOff(o) \/ LeakLines(o)
  BY <1>1, TakeHoldInv, SellHeldInv, SellFreeInv, DropHoldInv, CallOffInv, LeakLinesInv
<1>2. CASE \E l \in Listings : Restock(l)
  BY <1>2, RestockInv
<1>3. CASE UNCHANGED ledger
  BY <1>3, Zenon DEF ledger, LedgerInv, StockSound, StockTypeOK, Conservation,
              StateMatchesStock, HoldsBacked, SalesCounted, Units
<1> QED
  BY <1>1, <1>2, <1>3 DEF LedgerNext

(* Whatever the orders do, no unit is made or lost, the state column       *)
(* agrees with the quantities, every hold is covered by reserved units and *)
(* the sold column counts the units of the orders that bought.             *)
THEOREM LedgerSafe == LedgerSpec => []LedgerInv
BY LedgerInitInv, LedgerNextInv, PTL DEF LedgerSpec

=============================================================================
