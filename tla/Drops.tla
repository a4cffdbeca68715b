------------------------------- MODULE Drops -------------------------------
(***************************************************************************)
(* Timed, limited releases.  A drop overlays listings: while one of its    *)
(* bindings gates a listing, a hold on that listing also debits the drop's *)
(* remaining units and the buyer's counter, a release credits them, and a  *)
(* payment takes the next edition number.  The listing's own stock is      *)
(* modelled by ListingStock: here a hold finds a unit or is not taken, and *)
(* late money finds one or not.                                            *)
(***************************************************************************)
EXTENDS Integers, FiniteSets, FiniteSetsExt

CONSTANTS
    Drops, Listings, Buyers,
    Claims,            \* the holds buyers may take: orders and reservations
    Totals,            \* the total_quantity a record may carry
    MaxSyncs,          \* bound: the record revisions sellers publish
    MaxGeneration      \* bound: how often a listing is re-created

ASSUME TotalsPositive == Totals \subseteq Nat \ {0}
ASSUME ClaimsFinite == IsFiniteSet(Claims)

VARIABLES
    row,           \* the drops table
    clock,         \* derived_state of each drop's schedule at server time
    bound,         \* the drop_listings table
    purchases,     \* the drop_purchases table
    claim,         \* the orders and reservations stamped with a drop
    listing,       \* "live", "deleting" (a tombstone holds binding locks), "deleted"
    scanned,       \* the bindings an unfinished tombstone has locked
    generation     \* listings.generation

vars == <<row, clock, bound, purchases, claim, listing, scanned, generation>>

Phases == {"announced", "live", "ended_closed"}

Active(state) == state \in {"announced", "live"}

NoRow == [state |-> "none", total |-> 0, limit |-> 0, remaining |-> 0,
          paid |-> 0, revision |-> 0]
Unbound == [status |-> "none", generation |-> 0]
NoClaim == [status |-> "none", edition |-> 0]

Init ==
    /\ row = [d \in Drops |-> NoRow]
    /\ clock = [d \in Drops |-> "announced"]
    /\ bound = [d \in Drops |-> [l \in Listings |-> Unbound]]
    /\ purchases = [d \in Drops |-> [b \in Buyers |-> 0]]
    /\ claim = [c \in Claims |-> NoClaim]
    /\ listing = [l \in Listings |-> "live"]
    /\ scanned = [l \in Listings |-> {}]
    /\ generation = [l \in Listings |-> 0]

-----------------------------------------------------------------------------
(* Helpers.                                                                *)

(* apply_time_transitions on a row: an announced or live drop takes the    *)
(* state the server's clock gives its schedule.                            *)
Timed(d) ==
    IF Active(row[d].state) THEN [row[d] EXCEPT !.state = clock[d]] ELSE row[d]

(* The drop row, with its bindings deactivated in the same transaction     *)
(* when the new state is an ended one.                                     *)
WriteRow(d, r) ==
    /\ row' = [row EXCEPT ![d] = r]
    /\ bound' = [bound EXCEPT ![d] = [l \in Listings |->
          IF bound[d][l].status = "active" /\ ~Active(r.state)
          THEN [bound[d][l] EXCEPT !.status = "inactive"] ELSE bound[d][l]]]

(* A transaction that updates or locks the drop's binding rows waits for a *)
(* tombstone that has them locked.                                         *)
BindingsFree(d) == \A l \in Listings : d \notin scanned[l]

(* The listing a claim was taken on still accepts it: it is live and was   *)
(* not re-created since.                                                   *)
Accepts(c) ==
    LET l == claim[c].listing
    IN  listing[l] # "deleted" /\ generation[l] = claim[c].generation

Holds(c) == claim[c].status \in {"held", "paid"}
ClaimsOf(d) == {c \in Claims : claim[c].status # "none" /\ claim[c].drop = d}

(* The units of the drop in buyers' hands.                                 *)
UnitsOut(d) == Cardinality({c \in ClaimsOf(d) : Holds(c)})
UnitsOf(d, b) == Cardinality({c \in ClaimsOf(d) : Holds(c) /\ claim[c].buyer = b})

-----------------------------------------------------------------------------
(* The seller's record: drop.sync, drop.cancel, drop.release_listings.     *)

(* The partial unique index behind insert_drop_listing_bindings: none of  *)
(* the listings is bound to another announced or live drop at its          *)
(* generation.                                                             *)
BoundElsewhere(d, ls) ==
    \E l \in ls, e \in Drops \ {d} :
        bound[e][l].status = "active" /\ bound[e][l].generation = generation[l]

Published == MapThenSumSet(LAMBDA e : row[e].revision, Drops)

(* The record fetched from the homeserver is applied with new terms.       *)
ApplyRecord(d, ls, total, limit, phase) ==
    /\ Published < MaxSyncs
    /\ BindingsFree(d)
    /\ \A l \in ls : listing[l] # "deleted"
    /\ Active(phase) => ~BoundElsewhere(d, ls)
    /\ clock' = [clock EXCEPT ![d] = phase]
    /\ row' = [row EXCEPT ![d] =
          [state |-> phase, total |-> total, limit |-> limit, remaining |-> total,
           paid |-> row[d].paid, revision |-> row[d].revision + 1]]
    /\ bound' = [bound EXCEPT ![d] = [l \in Listings |->
          IF l \in ls
          THEN [status |-> IF Active(phase) THEN "active" ELSE "inactive",
                generation |-> generation[l]]
          ELSE Unbound]]
    /\ UNCHANGED <<purchases, claim, listing, scanned, generation>>

Registered(d) == row[d].state # "none"

Sync(d, ls, total, limit, phase) ==
    /\ ~Registered(d)
    /\ ApplyRecord(d, ls, total, limit, phase)

(* Terms change only while the drop is announced on server time.           *)
Resync(d, ls, total, limit, phase) ==
    /\ Registered(d) /\ Timed(d).state = "announced"
    /\ ApplyRecord(d, ls, total, limit, phase)

CancelDrop(d) ==
    /\ Registered(d) /\ Active(Timed(d).state)
    /\ BindingsFree(d)
    /\ WriteRow(d, [row[d] EXCEPT !.state = "ended_cancelled"])
    /\ UNCHANGED <<clock, purchases, claim, listing, scanned, generation>>

ReleaseListings(d) ==
    /\ Registered(d) /\ ~Active(Timed(d).state)
    /\ BindingsFree(d)
    /\ row' = [row EXCEPT ![d] = Timed(d)]
    /\ bound' = [bound EXCEPT ![d] = [l \in Listings |->
          IF bound[d][l].status = "none" THEN Unbound
          ELSE [bound[d][l] EXCEPT !.status = "released"]]]
    /\ UNCHANGED <<clock, purchases, claim, listing, scanned, generation>>

-----------------------------------------------------------------------------
(* Server time, and the sweep that persists what it means.                 *)

Tick(d, phase) ==
    /\ Registered(d)
    /\ <<clock[d], phase>> \in {<<"announced", "live">>, <<"announced", "ended_closed">>,
                                <<"live", "ended_closed">>}
    /\ clock' = [clock EXCEPT ![d] = phase]
    /\ UNCHANGED <<row, bound, purchases, claim, listing, scanned, generation>>

(* transition_due_drops: an announced drop whose start is due, or a live   *)
(* one whose end is.                                                       *)
TransitionDue(d) ==
    /\ \/ row[d].state = "announced" /\ clock[d] # "announced"
       \/ row[d].state = "live" /\ clock[d] = "ended_closed"
    /\ BindingsFree(d)
    /\ WriteRow(d, Timed(d))
    /\ UNCHANGED <<clock, purchases, claim, listing, scanned, generation>>

-----------------------------------------------------------------------------
(* Holds.                                                                  *)

(* lock_bound_drop: the drop that gates a hold on the listing.  An active  *)
(* binding of the current generation wins; an ended one refuses the hold,  *)
(* whichever it is, so only the active one is named.                       *)
GatesAnyGeneration(d, l) == bound[d][l].status = "active"  \* faulty: outlives the listing
Gates(d, l) ==
    bound[d][l].status = "active" /\ bound[d][l].generation = generation[l]

(* enforce_drop_gate: live on server time, within both caps, both debited. *)
WithinCaps(d, b) ==
    /\ row[d].remaining >= 1
    /\ purchases[d][b] + 1 <= row[d].limit

TakeHold(c, b, l, order) ==
    \E d \in Drops :
        /\ claim[c].status = "none"
        /\ listing[l] # "deleted"
        /\ Gates(d, l)
        /\ Timed(d).state = "live"
        /\ WithinCaps(d, b)
        /\ row' = [row EXCEPT ![d] = [Timed(d) EXCEPT !.remaining = @ - 1]]
        /\ purchases' = [purchases EXCEPT ![d][b] = @ + 1]
        /\ claim' = [claim EXCEPT ![c] =
              [status |-> "held", drop |-> d, buyer |-> b, listing |-> l, order |-> order,
               edition |-> 0, generation |-> generation[l]]]
        /\ UNCHANGED <<clock, bound, listing, scanned, generation>>

(* A drop order is one unit of one listing, and so is a reservation of a   *)
(* drop-bound listing.                                                     *)
Checkout(c, b, l) == TakeHold(c, b, l, TRUE)
ReserveInventory(c, b, l) == TakeHold(c, b, l, FALSE)

(* credit_drop_release: refused when the books would not add up.  The      *)
(* drop's state is not looked at.                                          *)
Credit(c) ==
    LET d == claim[c].drop
        b == claim[c].buyer
    IN  /\ row[d].remaining + 1 <= row[d].total
        /\ purchases[d][b] >= 1
        /\ row' = [row EXCEPT ![d].remaining = @ + 1]
        /\ purchases' = [purchases EXCEPT ![d][b] = @ - 1]

Move(c, status) == claim' = [claim EXCEPT ![c].status = status]

(* A hold ends unpaid: it lapses, the buyer cancels, a review refunds it,  *)
(* or a reservation expires.                                               *)
EndHold(c) ==
    /\ claim[c].status = "held"
    /\ Credit(c)
    /\ Move(c, "closed")
    /\ UNCHANGED <<clock, bound, listing, scanned, generation>>

(* The seller approves cancelling a paid order.                            *)
ApproveCancel(c) ==
    /\ claim[c].status = "paid"
    /\ Credit(c)
    /\ Move(c, "undone")
    /\ UNCHANGED <<clock, bound, listing, scanned, generation>>

(* void_prepare_effects: an order whose bitcoin invoice could not be       *)
(* prepared gives its unit back to the listing and waits for a new method. *)
VoidCredits(c) ==        \* faulty as long as binding again does not debit
    /\ claim[c].status = "held" /\ claim[c].order
    /\ Credit(c)
    /\ Move(c, "unheld")
    /\ UNCHANGED <<clock, bound, listing, scanned, generation>>
VoidPrepare(c) ==
    /\ claim[c].status = "held" /\ claim[c].order
    /\ Move(c, "unheld")
    /\ UNCHANGED <<row, clock, bound, purchases, listing, scanned, generation>>

(* acquire_payment_hold for the next method, when the listing has a unit.  *)
BindAgain(c) ==
    /\ claim[c].status = "unheld" /\ Accepts(c)
    /\ Move(c, "held")
    /\ UNCHANGED <<row, clock, bound, purchases, listing, scanned, generation>>

(* The buyer cancels an order that holds no stock: nothing is credited.    *)
CancelUnheld(c) ==
    /\ claim[c].status = "unheld"
    /\ Move(c, "closed")
    /\ UNCHANGED <<row, clock, bound, purchases, listing, scanned, generation>>

-----------------------------------------------------------------------------
(* Money.                                                                  *)

(* record_paid_unit on a row: the paid count is the edition, and reaching  *)
(* the total ends a live drop.                                             *)
PaidUnit(r) ==
    [r EXCEPT !.paid = @ + 1,
              !.state = IF r.state = "live" /\ r.paid + 1 = r.total
                        THEN "ended_sold_out" ELSE r.state]

EditionByRemaining(c, r) ==     \* faulty: the edition is the units gone
    claim' = [claim EXCEPT ![c].status = "paid", ![c].edition = r.total - r.remaining]
Sold(c, r) ==
    claim' = [claim EXCEPT ![c].status = "paid", ![c].edition = r.paid + 1]

(* confirm_order of a held order.  The CHECK paid_quantity <= total rolls  *)
(* the transaction back.                                                   *)
Confirm(c) ==
    LET d == claim[c].drop IN
    /\ claim[c].status = "held" /\ claim[c].order
    /\ BindingsFree(d)
    /\ row[d].paid < row[d].total
    /\ WriteRow(d, PaidUnit(Timed(d)))
    /\ Sold(c, Timed(d))
    /\ UNCHANGED <<clock, purchases, listing, scanned, generation>>

(* The buyer's counter takes the reacquired unit back.                     *)
CountNothing(d, b) == purchases' = purchases      \* faulty: only the drop is debited
CountReacquired(d, b) == purchases' = [purchases EXCEPT ![d][b] = @ + 1]

Reacquirable(c) == claim[c].status \in {"unheld", "closed"} /\ claim[c].order

(* reacquire_hold and confirm_order: late money completes the order.  The  *)
(* drop's state is not looked at, the counter's CHECK is.                  *)
LateCompletes(c) ==
    LET d == claim[c].drop
        b == claim[c].buyer IN
    /\ Reacquirable(c)
    /\ BindingsFree(d)
    /\ row[d].remaining >= 1
    /\ purchases[d][b] + 1 <= row[d].limit
    /\ Accepts(c)
    /\ row[d].paid < row[d].total
    /\ WriteRow(d, PaidUnit([Timed(d) EXCEPT !.remaining = @ - 1]))
    /\ Sold(c, Timed(d))
    /\ CountReacquired(d, b)
    /\ UNCHANGED <<clock, listing, scanned, generation>>

(* The drop has no unit left: refund_required, and only the due time       *)
(* transition of the drop is kept.                                         *)
LateDropGone(c) ==
    LET d == claim[c].drop IN
    /\ Reacquirable(c)
    /\ BindingsFree(d)
    /\ row[d].remaining = 0
    /\ WriteRow(d, Timed(d))
    /\ Move(c, "refund")
    /\ UNCHANGED <<clock, purchases, listing, scanned, generation>>

(* The drop had a unit and the listing has none, or no longer accepts the  *)
(* order: refund_required, and the debit of the drop is committed with it. *)
LateStockGone(c) ==
    LET d == claim[c].drop
        b == claim[c].buyer IN
    /\ Reacquirable(c)
    /\ BindingsFree(d)
    /\ row[d].remaining >= 1
    /\ purchases[d][b] + 1 <= row[d].limit
    /\ WriteRow(d, [Timed(d) EXCEPT !.remaining = @ - 1])
    /\ CountReacquired(d, b)
    /\ Move(c, "refund")
    /\ UNCHANGED <<clock, listing, scanned, generation>>

-----------------------------------------------------------------------------
(* Deletion of a listing.  The tombstone locks and releases the listing's  *)
(* bindings, then waits for the listing row; a drop.sync that holds it may *)
(* bind a drop in between.                                                 *)

TombstoneBindings(l) ==
    /\ listing[l] = "live"
    /\ listing' = [listing EXCEPT ![l] = "deleting"]
    /\ scanned' = [scanned EXCEPT ![l] =
          {d \in Drops : bound[d][l].status \in {"active", "inactive"}}]
    /\ \A d \in scanned'[l] : BindingsFree(d)
    /\ UNCHANGED <<row, clock, bound, purchases, claim, generation>>

TombstoneListing(l) ==
    /\ listing[l] = "deleting"
    /\ listing' = [listing EXCEPT ![l] = "deleted"]
    /\ bound' = [d \in Drops |->
          IF d \in scanned[l] THEN [bound[d] EXCEPT ![l].status = "released"] ELSE bound[d]]
    /\ scanned' = [scanned EXCEPT ![l] = {}]
    /\ UNCHANGED <<row, clock, purchases, claim, generation>>

(* The record changed under the tombstone: its savepoint is rolled back.   *)
TombstoneFenced(l) ==
    /\ listing[l] = "deleting"
    /\ listing' = [listing EXCEPT ![l] = "live"]
    /\ scanned' = [scanned EXCEPT ![l] = {}]
    /\ UNCHANGED <<row, clock, bound, purchases, claim, generation>>

Recreate(l) ==
    /\ listing[l] = "deleted" /\ generation[l] < MaxGeneration
    /\ listing' = [listing EXCEPT ![l] = "live"]
    /\ generation' = [generation EXCEPT ![l] = @ + 1]
    /\ UNCHANGED <<row, clock, bound, purchases, claim, scanned>>

-----------------------------------------------------------------------------

SellerStep(d) ==
    \/ \E ls \in SUBSET Listings \ {{}}, total \in Totals, phase \in Phases :
       \E limit \in 1..total :
          Sync(d, ls, total, limit, phase) \/ Resync(d, ls, total, limit, phase)
    \/ CancelDrop(d)
    \/ ReleaseListings(d)

ClaimStep(c) ==
    \/ \E b \in Buyers, l \in Listings :
          Checkout(c, b, l) \/ ReserveInventory(c, b, l)
    \/ EndHold(c) \/ ApproveCancel(c)
    \/ VoidPrepare(c) \/ BindAgain(c) \/ CancelUnheld(c)
    \/ Confirm(c) \/ LateCompletes(c) \/ LateDropGone(c) \/ LateStockGone(c)

ListingStep(l) ==
    TombstoneBindings(l) \/ TombstoneListing(l) \/ TombstoneFenced(l) \/ Recreate(l)

Next ==
    \/ \E d \in Drops : SellerStep(d) \/ TransitionDue(d)
    \/ \E d \in Drops, phase \in Phases : Tick(d, phase)
    \/ \E c \in Claims : ClaimStep(c)
    \/ \E l \in Listings : ListingStep(l)

Spec == Init /\ [][Next]_vars

-----------------------------------------------------------------------------
(* Properties.                                                             *)

(* The scarcity the drop promises: the units held or paid for never exceed *)
(* what was debited from the drop, whatever order of voids, re-binds, late *)
(* payments, cancellations and credits led here.                           *)
NeverOversold == \A d \in Drops : UnitsOut(d) + row[d].remaining <= row[d].total

(* No buyer holds or owns more units of a drop than its per-buyer limit:   *)
(* the counter never falls below what they hold, and no hold, late payment *)
(* or change of the terms takes it over the limit (enforce_drop_gate,      *)
(* credit_drop_release, reacquire_hold).                                   *)
BuyerWithinLimit ==
    \A d \in Drops, b \in Buyers :
        UnitsOf(d, b) <= purchases[d][b] /\ purchases[d][b] <= row[d].limit

(* Editions are 1-based, gapless and given once: the orders that were ever *)
(* paid carry exactly the numbers 1..paid_quantity.                        *)
EditionsGapless ==
    \A d \in Drops :
        LET editioned == {c \in ClaimsOf(d) : claim[c].edition > 0}
        IN  /\ {claim[c].edition : c \in editioned} = 1..row[d].paid
            /\ Cardinality(editioned) = row[d].paid

(* A drop bound before a listing was deleted and re-created never draws on *)
(* the new listing, even when its binding raced the tombstone.             *)
DrawsOnItsGeneration ==
    [][\A c \in Claims : claim[c].status = "none" /\ claim'[c].status = "held" =>
          bound[claim'[c].drop][claim'[c].listing].generation
              = generation[claim'[c].listing]]_vars

=============================================================================
