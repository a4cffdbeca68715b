------------------------ MODULE DropsDeliveryProofs -------------------------
(***************************************************************************)
(* Theorems about Drops and about Delivery, the two components whose units *)
(* and rows are claimed before they are used up.                           *)
(*                                                                         *)
(* Drops, for any drops, listings, buyers, claims and terms: no drop is    *)
(* oversold, no buyer exceeds its limit, editions are gapless, and a drop  *)
(* draws only on the listing it was bound to.  NeverOversold is not        *)
(* inductive: an order whose invoice was voided holds nothing, and holds   *)
(* again without a new debit when its buyer binds the next method.  The    *)
(* invariant counts such a claim as drawing on the drop all along.  The    *)
(* terms of a drop change only before it ever was live, so the invariant   *)
(* also keeps that nothing was drawn on it then.                           *)
(*                                                                         *)
(* Delivery, for any instances, tasks, batches, binds and faults: what     *)
(* Paykit published stays watched, and a notice is inserted exactly once.  *)
(* Neither rests on the leases: they hold although any claim may lapse     *)
(* while its claimant works on.                                            *)
(***************************************************************************)
EXTENDS Drops, Delivery, FiniteSetTheorems, SequenceTheorems, TLAPS

States == {"none", "announced", "live", "ended_closed", "ended_sold_out", "ended_cancelled"}

Row == [state : States, total : Nat, limit : Nat, remaining : Nat, paid : Nat, revision : Nat]

ClaimRow == [status : {"held", "paid", "unheld", "closed", "undone", "refund"},
             drop : Drops, buyer : Buyers, listing : Listings, order : BOOLEAN,
             edition : Nat, generation : Nat]

TypeOK ==
    /\ row \in [Drops -> Row]
    /\ clock \in [Drops -> Phases]
    /\ purchases \in [Drops -> [Buyers -> Nat]]
    /\ claim \in [Claims -> ClaimRow \union {NoClaim}]
    /\ generation \in [Listings -> Nat]

(* The claims that draw on a drop: those that hold, those that are paid,   *)
(* and those whose hold was voided without a credit.                       *)
Drawing == {"held", "paid", "unheld"}

Draws(d) == {c \in ClaimsOf(d) : claim[c].status \in Drawing}
DrawsOf(d, b) == {c \in Draws(d) : claim[c].buyer = b}

Editioned(d) == {c \in ClaimsOf(d) : claim[c].edition > 0}

(* Nobody ever took a unit of the drop.                                    *)
Untouched(d) == ClaimsOf(d) = {} /\ \A b \in Buyers : purchases[d][b] = 0

(* The inductive form of NeverOversold, of BuyerWithinLimit and of         *)
(* EditionsGapless, for one drop.                                          *)
Scarce(d) == Cardinality(Draws(d)) + row[d].remaining <= row[d].total

Limited(d, b) ==
    /\ Cardinality(DrawsOf(d, b)) <= purchases[d][b]
    /\ purchases[d][b] <= row[d].limit

Numbered(d) ==
    /\ {claim[c].edition : c \in Editioned(d)} = 1..row[d].paid
    /\ Cardinality(Editioned(d)) = row[d].paid

(* A drop's books.  It has none before it is registered, and none as long  *)
(* as the server's clock holds it for announced.                           *)
DropInv(d) ==
    /\ Scarce(d)
    /\ \A b \in Buyers : Limited(d, b)
    /\ Numbered(d)
    /\ ~Registered(d) \/ clock[d] = "announced" => Untouched(d)

(* A number is given with the payment and kept when the sale is undone.    *)
EditionFits(c) ==
    claim[c].status \in {"paid", "undone"} <=> claim[c].edition > 0

DropsInv ==
    /\ TypeOK
    /\ \A c \in Claims : EditionFits(c)
    /\ \A d \in Drops : DropInv(d)

(* How the size of a set changes when one element comes or goes.           *)
LEMMA Recount ==
    ASSUME NEW S, IsFiniteSet(S), NEW c, NEW T,
           T \subseteq S \union {c}, S \ {c} \subseteq T
    PROVE  /\ Cardinality(S) \in Nat /\ Cardinality(T) \in Nat
           /\ (c \in S <=> c \in T) => Cardinality(T) = Cardinality(S)
           /\ c \in T => Cardinality(T) <= Cardinality(S) + 1
           /\ c \notin S /\ c \in T => Cardinality(T) = Cardinality(S) + 1
           /\ c \in S /\ c \notin T => Cardinality(T) = Cardinality(S) - 1
           /\ c \notin T => Cardinality(T) <= Cardinality(S)
<1>1. Cardinality(S) \in Nat
  BY FS_CardinalityType
<1>2. CASE c \in S /\ c \in T
  BY <1>1, <1>2, T = S
<1>3. CASE c \notin S /\ c \notin T
  BY <1>1, <1>3, T = S
<1>4. CASE c \notin S /\ c \in T
  <2>1. T = S \union {c}
    BY <1>4
  <2> QED
    BY <1>1, <1>4, <2>1, FS_AddElement
<1>5. CASE c \in S /\ c \notin T
  <2>1. T = S \ {c}
    BY <1>5
  <2>2. Cardinality(T) = Cardinality(S) - 1
    BY <1>5, <2>1, FS_RemoveElement
  <2>3. Cardinality(T) \in Nat
    BY <2>1, FS_Subset, FS_CardinalityType
  <2> QED
    BY <1>1, <1>5, <2>2, <2>3
<1> QED
  BY <1>2, <1>3, <1>4, <1>5, Zenon

(* The sets the invariant counts are finite, as claims are.                *)
LEMMA Finite ==
    ASSUME NEW d, NEW b
    PROVE  /\ IsFiniteSet(Draws(d)) /\ IsFiniteSet(DrawsOf(d, b)) /\ IsFiniteSet(Editioned(d))
           /\ Cardinality(Draws(d)) \in Nat /\ Cardinality(DrawsOf(d, b)) \in Nat
<1>1. Draws(d) \subseteq Claims /\ DrawsOf(d, b) \subseteq Claims /\ Editioned(d) \subseteq Claims
  BY DEF Draws, DrawsOf, Editioned, ClaimsOf
<1> QED
  BY <1>1, ClaimsFinite, FS_Subset, FS_CardinalityType

(* A step leaves the drop's terms and counts, and does not take it back to *)
(* announced.                                                              *)
SameTerms(d) ==
    /\ row'[d].total = row[d].total /\ row'[d].limit = row[d].limit
    /\ row'[d].remaining = row[d].remaining /\ row'[d].paid = row[d].paid
    /\ Registered(d) => row'[d].state # "none"
    /\ clock'[d] = "announced" => clock[d] = "announced"

(* A step that changes neither the terms of a drop, nor a claim on it, nor *)
(* what its buyers bought, keeps its books.                                *)
LEMMA DropKept ==
    ASSUME NEW d \in Drops, DropInv(d), SameTerms(d), purchases'[d] = purchases[d],
           \A c \in Claims : \/ claim'[c] = claim[c]
                             \/ c \notin ClaimsOf(d) /\ c \notin ClaimsOf(d)'
    PROVE  DropInv(d)'
<1>1. ClaimsOf(d)' = ClaimsOf(d) /\ \A c \in ClaimsOf(d) : claim'[c] = claim[c]
  BY DEF ClaimsOf
<1>2. /\ Draws(d)' = Draws(d) /\ Editioned(d)' = Editioned(d)
      /\ \A b \in Buyers : DrawsOf(d, b)' = DrawsOf(d, b)
  BY <1>1 DEF Draws, DrawsOf, Editioned
<1>3. {claim'[c].edition : c \in Editioned(d)} = {claim[c].edition : c \in Editioned(d)}
  BY <1>1 DEF Editioned
<1>4. Scarce(d)'
  BY <1>2, Zenon DEF DropInv, Scarce, SameTerms
<1>5. ASSUME NEW b \in Buyers PROVE Limited(d, b)'
  BY <1>2, Zenon DEF DropInv, Limited, SameTerms
<1>6. Numbered(d)'
  BY <1>2, <1>3, Zenon DEF DropInv, Numbered, SameTerms
<1>7. Untouched(d) => Untouched(d)'
  BY <1>1 DEF Untouched
<1>8. ~Registered(d)' \/ clock'[d] = "announced" => ~Registered(d) \/ clock[d] = "announced"
  BY DEF SameTerms, Registered
<1> QED
  BY <1>4, <1>5, <1>6, <1>7, <1>8 DEF DropInv

(* The same for all drops: a change of state, of a binding or of the       *)
(* clock.                                                                  *)
LEMMA OnlyRows ==
    ASSUME DropsInv, TypeOK', UNCHANGED <<purchases, claim>>, \A d \in Drops : SameTerms(d)
    PROVE  DropsInv'
<1>1. \A d \in Drops : DropInv(d)'
  BY DropKept DEF DropsInv
<1>2. \A c \in Claims : EditionFits(c)'
  BY DEF DropsInv, EditionFits
<1> QED
  BY <1>1, <1>2 DEF DropsInv

(* What a claim draws.                                                     *)
Unit(status) == IF status \in Drawing THEN 1 ELSE 0

(* What a step that moves claim c to k may do to the drop's books.         *)
Booked(c, k) ==
    LET d == k.drop
        b == k.buyer
    IN  /\ claim' = [claim EXCEPT ![c] = k]
        /\ claim[c].status # "none" => claim[c].drop = d /\ claim[c].buyer = b
        /\ clock' = clock /\ clock[d] # "announced" /\ row'[d].state # "none"
        /\ \A e \in Drops \ {d} : row'[e] = row[e] /\ purchases'[e] = purchases[e]
        /\ \A a \in Buyers \ {b} : purchases'[d][a] = purchases[d][a]
        /\ row'[d].total = row[d].total /\ row'[d].limit = row[d].limit
        /\ row'[d].remaining + Unit(k.status) <= row[d].remaining + Unit(claim[c].status)
        /\ purchases[d][b] + Unit(k.status) <= purchases'[d][b] + Unit(claim[c].status)
        /\ purchases'[d][b] <= row[d].limit
        /\ \/ k.edition = claim[c].edition /\ row'[d].paid = row[d].paid
           \/ claim[c].edition = 0 /\ k.edition = row[d].paid + 1 /\ row'[d].paid = row[d].paid + 1
        /\ k.status \in {"paid", "undone"} <=> k.edition > 0

(* A claim moves, and the drop's row and the buyer's counter move with it: *)
(* all books are kept, the other drops' as well.                           *)
LEMMA ClaimMoves ==
    ASSUME DropsInv, TypeOK', NEW c \in Claims, NEW k \in ClaimRow, Booked(c, k)
    PROVE  DropsInv'
<1> DEFINE d == k.drop
           b == k.buyer
<1>0. /\ d \in Drops /\ b \in Buyers /\ k.edition \in Nat /\ k.status # "none"
      /\ k.status \in {"held", "paid", "unheld", "closed", "undone", "refund"}
  BY DEF ClaimRow
<1>1. claim'[c] = k /\ \A a \in Claims \ {c} : claim'[a] = claim[a]
  BY Zenon DEF Booked, DropsInv, TypeOK
<1>2. \A a \in Claims : EditionFits(a)'
  BY <1>1, SMTT(60) DEF DropsInv, EditionFits, Booked
<1>3. ASSUME NEW e \in Drops \ {d} PROVE DropInv(e)'
  <2>1. c \notin ClaimsOf(e) /\ c \notin ClaimsOf(e)'
    BY <1>1, <1>3, Zenon DEF ClaimsOf, Booked
  <2>2. SameTerms(e) /\ purchases'[e] = purchases[e]
    BY <1>3, Zenon DEF Booked, SameTerms, Registered
  <2>3. DropInv(e)
    BY <1>3 DEF DropsInv
  <2> QED
    BY <1>1, <1>3, <2>1, <2>2, <2>3, DropKept, Zenon
<1>4. /\ row[d] \in Row /\ row'[d] \in Row
      /\ \A a \in Buyers : purchases[d][a] \in Nat /\ purchases'[d][a] \in Nat
  BY <1>0, Zenon DEF DropsInv, TypeOK
<1>5. DropInv(d)
  BY <1>0, Zenon DEF DropsInv
<1>6. /\ row[d].remaining \in Nat /\ row[d].total \in Nat /\ row[d].limit \in Nat
      /\ row[d].paid \in Nat /\ row'[d].remaining \in Nat
  BY <1>4, Zenon DEF Row
<1>7. claim[c] = NoClaim \/ claim[c] \in ClaimRow
  BY DEF DropsInv, TypeOK
<1>8. /\ c \in Draws(d) <=> claim[c].status \in Drawing
      /\ c \in Draws(d)' <=> k.status \in Drawing
      /\ Draws(d)' \subseteq Draws(d) \union {c} /\ Draws(d) \ {c} \subseteq Draws(d)'
  BY <1>0, <1>1, SMTT(60) DEF Draws, ClaimsOf, Drawing, Booked
<1>9. Scarce(d)'
  <2>1. IsFiniteSet(Draws(d))
    BY Finite
  <2>2. /\ Cardinality(Draws(d)) \in Nat /\ Cardinality(Draws(d)') \in Nat
        /\ Cardinality(Draws(d)') + Unit(claim[c].status) = Cardinality(Draws(d)) + Unit(k.status)
    BY <1>8, <2>1, Recount DEF Unit
  <2>3. Unit(k.status) \in Nat /\ Unit(claim[c].status) \in Nat
    BY DEF Unit
  <2> QED
    BY <1>5, <1>6, <2>2, <2>3, SMTT(60) DEF DropInv, Scarce, Booked
<1>10. ASSUME NEW a \in Buyers PROVE Limited(d, a)'
  <2>1. CASE a # b
    <3>1. DrawsOf(d, a)' = DrawsOf(d, a)
      <4>1. c \notin DrawsOf(d, a) /\ c \notin DrawsOf(d, a)'
        BY <1>1, <2>1, Zenon DEF DrawsOf, Draws, ClaimsOf, Booked
      <4> QED
        BY <1>1, <4>1, ZenonT(60) DEF DrawsOf, Draws, ClaimsOf
    <3> QED
      BY <1>5, <2>1, <3>1, Zenon DEF DropInv, Limited, Booked
  <2>2. CASE a = b
    <3>1. /\ c \in DrawsOf(d, b) <=> claim[c].status \in Drawing
          /\ c \in DrawsOf(d, b)' <=> k.status \in Drawing
          /\ DrawsOf(d, b)' \subseteq DrawsOf(d, b) \union {c}
          /\ DrawsOf(d, b) \ {c} \subseteq DrawsOf(d, b)'
      BY <1>0, <1>1, SMTT(60) DEF DrawsOf, Draws, ClaimsOf, Drawing, Booked
    <3>2. IsFiniteSet(DrawsOf(d, b))
      BY Finite
    <3>3. /\ Cardinality(DrawsOf(d, b)) \in Nat /\ Cardinality(DrawsOf(d, b)') \in Nat
          /\ Cardinality(DrawsOf(d, b)') + Unit(claim[c].status)
                = Cardinality(DrawsOf(d, b)) + Unit(k.status)
      BY <3>1, <3>2, Recount DEF Unit
    <3>4. Unit(k.status) \in Nat /\ Unit(claim[c].status) \in Nat
      BY DEF Unit
    <3> QED
      BY <1>0, <1>4, <1>5, <1>6, <2>2, <3>3, <3>4, SMTT(60) DEF DropInv, Limited, Booked
  <2> QED
    BY <2>1, <2>2
<1>11. Numbered(d)'
  <2>1. /\ c \in Editioned(d) <=> claim[c].edition > 0
        /\ c \in Editioned(d)' <=> k.edition > 0
        /\ Editioned(d)' \subseteq Editioned(d) \union {c}
        /\ Editioned(d) \ {c} \subseteq Editioned(d)'
    <3>1. claim[c].status = "none" => ~(claim[c].edition > 0)
      BY Zenon DEF DropsInv, EditionFits
    <3> QED
      BY <1>0, <1>1, <3>1, SMTT(60) DEF Editioned, ClaimsOf, Booked
  <2>2. CASE k.edition = claim[c].edition /\ row'[d].paid = row[d].paid
    <3>1. Editioned(d)' = Editioned(d)
      BY <2>1, <2>2
    <3>2. \A a \in Editioned(d) : claim'[a].edition = claim[a].edition
      BY <1>1, <2>2 DEF Editioned, ClaimsOf
    <3>3. {claim'[a].edition : a \in Editioned(d)} = {claim[a].edition : a \in Editioned(d)}
      BY <3>2
    <3> QED
      BY <1>5, <2>2, <3>1, <3>3, Zenon DEF DropInv, Numbered
  <2>3. CASE /\ claim[c].edition = 0 /\ k.edition = row[d].paid + 1
             /\ row'[d].paid = row[d].paid + 1
    <3>1. c \notin Editioned(d) /\ Editioned(d)' = Editioned(d) \union {c}
      BY <1>6, <2>1, <2>3
    <3>2. \A a \in Editioned(d) : claim'[a].edition = claim[a].edition
      BY <1>1, <3>1, Zenon DEF Editioned, ClaimsOf
    <3>3. {claim'[a].edition : a \in Editioned(d)'}
            = {claim[a].edition : a \in Editioned(d)} \union {row[d].paid + 1}
      BY <1>1, <2>3, <3>1, <3>2
    <3>4. (1..row[d].paid) \union {row[d].paid + 1} = 1..(row[d].paid + 1)
      BY <1>6
    <3>5. Cardinality(Editioned(d)') = Cardinality(Editioned(d)) + 1
      BY <3>1, Finite, FS_AddElement, Zenon
    <3> QED
      BY <1>5, <2>3, <3>3, <3>4, <3>5, Zenon DEF DropInv, Numbered
  <2> QED
    BY <2>2, <2>3, Zenon DEF Booked
<1>12. Registered(d)' /\ clock'[d] # "announced"
  BY Zenon DEF Booked, Registered
<1>13. DropInv(d)'
  BY <1>9, <1>10, <1>11, <1>12, Zenon DEF DropInv
<1> QED
  BY <1>2, <1>3, <1>13 DEF DropsInv

(* What an operation on one claim writes, in the form the operations have  *)
(* it.                                                                     *)
LEMMA Written ==
    ASSUME DropsInv, NEW c \in Claims, NEW k \in ClaimRow, NEW r \in Row, NEW n \in Nat,
           claim' = [claim EXCEPT ![c] = k],
           row' = [row EXCEPT ![k.drop] = r],
           purchases' = [purchases EXCEPT ![k.drop][k.buyer] = n],
           UNCHANGED <<clock, generation>>,
           claim[c].status # "none" => claim[c].drop = k.drop /\ claim[c].buyer = k.buyer,
           clock[k.drop] # "announced", r.state # "none",
           r.total = row[k.drop].total, r.limit = row[k.drop].limit, n <= row[k.drop].limit,
           r.remaining + Unit(k.status) <= row[k.drop].remaining + Unit(claim[c].status),
           purchases[k.drop][k.buyer] + Unit(k.status) <= n + Unit(claim[c].status),
           \/ k.edition = claim[c].edition /\ r.paid = row[k.drop].paid
           \/ claim[c].edition = 0 /\ k.edition = row[k.drop].paid + 1
                                  /\ r.paid = row[k.drop].paid + 1,
           k.status \in {"paid", "undone"} <=> k.edition > 0
    PROVE  DropsInv'
<1>1. k.drop \in Drops /\ k.buyer \in Buyers
  BY Zenon DEF ClaimRow
<1>2. TypeOK'
  BY <1>1, Zenon DEF DropsInv, TypeOK
<1>3. /\ row'[k.drop] = r /\ purchases'[k.drop][k.buyer] = n
      /\ \A e \in Drops \ {k.drop} : row'[e] = row[e] /\ purchases'[e] = purchases[e]
      /\ \A a \in Buyers \ {k.buyer} : purchases'[k.drop][a] = purchases[k.drop][a]
  BY <1>1, Zenon DEF DropsInv, TypeOK
<1>4. Booked(c, k)
  BY <1>3, Zenon DEF Booked
<1> QED
  BY <1>2, <1>4, ClaimMoves, Zenon

(* apply_time_transitions changes the state of a row and nothing else, and *)
(* finds a drop live or announced only as the server's clock does.         *)
LEMMA TimedRow ==
    ASSUME TypeOK, NEW d \in Drops
    PROVE  /\ Timed(d) \in Row
           /\ Timed(d).total = row[d].total /\ Timed(d).limit = row[d].limit
           /\ Timed(d).remaining = row[d].remaining /\ Timed(d).paid = row[d].paid
           /\ Registered(d) => Timed(d).state # "none"
           /\ Timed(d).state = "live" => Registered(d) /\ clock[d] # "announced"
           /\ Timed(d).state = "announced" => clock[d] = "announced"
<1>1. row[d] \in Row /\ clock[d] \in Phases
  BY DEF TypeOK
<1> DEFINE r == [row[d] EXCEPT !.state = clock[d]]
<1>2. /\ r \in Row /\ r.state = clock[d] /\ r.total = row[d].total /\ r.limit = row[d].limit
      /\ r.remaining = row[d].remaining /\ r.paid = row[d].paid
  BY <1>1 DEF Row, States, Phases
<1>3. CASE Active(row[d].state)
  <2>1. Timed(d) = r
    BY <1>3 DEF Timed
  <2> HIDE DEF r
  <2> QED
    BY <1>1, <1>2, <1>3, <2>1, Zenon DEF Active, Registered, Phases
<1>4. CASE ~Active(row[d].state)
  BY <1>1, <1>4 DEF Timed, Active, Registered
<1> QED
  BY <1>3, <1>4, Zenon

(* record_paid_unit counts one more paid unit and leaves the rest of the   *)
(* row.                                                                    *)
LEMMA PaidRow ==
    ASSUME NEW r \in Row
    PROVE  /\ PaidUnit(r) \in Row /\ PaidUnit(r).paid = r.paid + 1
           /\ PaidUnit(r).total = r.total /\ PaidUnit(r).limit = r.limit
           /\ PaidUnit(r).remaining = r.remaining
           /\ r.state # "none" => PaidUnit(r).state # "none"
<1> DEFINE s == IF r.state = "live" /\ r.paid + 1 = r.total THEN "ended_sold_out" ELSE r.state
<1>1. r.state \in States /\ r.paid \in Nat
  BY DEF Row
<1>2. s \in States /\ (r.state # "none" => s # "none")
  BY <1>1 DEF States
<1>3. PaidUnit(r) = [r EXCEPT !.paid = r.paid + 1, !.state = s]
  BY DEF PaidUnit, Row
<1> HIDE DEF s
<1> DEFINE n == r.paid + 1
           q == [r EXCEPT !.paid = n, !.state = s]
<1>4. /\ q \in Row /\ q.paid = n /\ q.total = r.total /\ q.limit = r.limit
      /\ q.remaining = r.remaining /\ q.state = s
  <2>1. n \in Nat
    BY <1>1
  <2> HIDE DEF n
  <2>2. q \in Row
    BY <1>2, <2>1, Zenon DEF Row
  <2>3. q.paid = n /\ q.total = r.total /\ q.limit = r.limit /\ q.remaining = r.remaining
        /\ q.state = s
    BY DEF Row
  <2> QED
    BY <2>2, <2>3
<1> QED
  BY <1>2, <1>3, <1>4

(* What is known of a claim that was taken: its drop is registered, was    *)
(* live once, and the buyer's counter is within the limit.                 *)
LEMMA UnitsTaken ==
    ASSUME DropsInv, NEW c \in Claims, claim[c].status # "none"
    PROVE  /\ claim[c] \in ClaimRow /\ EditionFits(c)
           /\ claim[c].drop \in Drops /\ claim[c].buyer \in Buyers
           /\ Registered(claim[c].drop) /\ clock[claim[c].drop] # "announced"
           /\ row[claim[c].drop] \in Row
           /\ purchases[claim[c].drop][claim[c].buyer] \in Nat
           /\ purchases[claim[c].drop][claim[c].buyer] <= row[claim[c].drop].limit
<1>1. claim[c] \in ClaimRow
  BY DEF DropsInv, TypeOK, NoClaim
<1>2. claim[c].drop \in Drops /\ claim[c].buyer \in Buyers
  BY <1>1 DEF ClaimRow
<1>3. c \in ClaimsOf(claim[c].drop)
  BY DEF ClaimsOf
<1> QED
  BY <1>1, <1>2, <1>3, SMTT(60) DEF DropsInv, DropInv, Untouched, Limited, TypeOK

(* A hold debits the drop and the buyer's counter (enforce_drop_gate).     *)
LEMMA HoldsBooked ==
    ASSUME DropsInv, NEW c \in Claims, NEW b \in Buyers, NEW l \in Listings,
           NEW ordered \in BOOLEAN, TakeHold(c, b, l, ordered)
    PROVE  DropsInv'
<1>1. PICK d \in Drops :
        /\ claim[c].status = "none"
        /\ Timed(d).state = "live"
        /\ WithinCaps(d, b)
        /\ row' = [row EXCEPT ![d] = [Timed(d) EXCEPT !.remaining = @ - 1]]
        /\ purchases' = [purchases EXCEPT ![d][b] = @ + 1]
        /\ claim' = [claim EXCEPT ![c] =
              [status |-> "held", drop |-> d, buyer |-> b, listing |-> l, order |-> ordered,
               edition |-> 0, generation |-> generation[l]]]
        /\ UNCHANGED <<clock, bound, listing, scanned, generation>>
  BY Zenon DEF TakeHold
<1> DEFINE k == [status |-> "held", drop |-> d, buyer |-> b, listing |-> l, order |-> ordered,
                 edition |-> 0, generation |-> generation[l]]
           r == [Timed(d) EXCEPT !.remaining = row[d].remaining - 1]
           n == purchases[d][b] + 1
<1>2. /\ TypeOK /\ row[d].remaining \in Nat /\ purchases[d][b] \in Nat
      /\ generation[l] \in Nat
  BY Zenon DEF DropsInv, TypeOK, Row
<1>3. /\ k \in ClaimRow /\ k.drop = d /\ k.buyer = b /\ k.status = "held" /\ k.edition = 0
  BY <1>2, Zenon DEF ClaimRow
<1>4. /\ r \in Row /\ r.total = row[d].total /\ r.limit = row[d].limit /\ r.paid = row[d].paid
      /\ r.remaining = row[d].remaining - 1 /\ r.state = "live"
  <2>1. /\ Timed(d) \in Row /\ Timed(d).total = row[d].total /\ Timed(d).limit = row[d].limit
        /\ Timed(d).paid = row[d].paid
    BY <1>2, TimedRow, Zenon
  <2>2. row[d].remaining - 1 \in Nat
    BY <1>1, <1>2 DEF WithinCaps
  <2> QED
    BY <1>1, <2>1, <2>2, Zenon DEF Row
<1>5. /\ row' = [row EXCEPT ![d] = r] /\ purchases' = [purchases EXCEPT ![d][b] = n]
      /\ n \in Nat /\ n <= row[d].limit /\ clock[d] # "announced"
  <2>1. Timed(d).remaining = row[d].remaining /\ clock[d] # "announced"
    BY <1>1, <1>2, TimedRow, Zenon
  <2> QED
    BY <1>1, <1>2, <2>1 DEF WithinCaps
<1>6. claim[c].edition = 0
  <2>1. claim[c] = NoClaim
    BY <1>1 DEF DropsInv, TypeOK, ClaimRow
  <2> QED
    BY <2>1, SMTT(60) DEF NoClaim
<1>7. /\ claim' = [claim EXCEPT ![c] = k] /\ UNCHANGED <<clock, generation>>
      /\ claim[c].status = "none"
  BY <1>1
<1> HIDE DEF k, r, n
<1>8. /\ r.remaining + Unit(k.status) <= row[d].remaining + Unit(claim[c].status)
      /\ purchases[d][b] + Unit(k.status) <= n + Unit(claim[c].status)
  BY <1>1, <1>2, <1>3, <1>4 DEF Unit, Drawing, n
<1>9. /\ row' = [row EXCEPT ![k.drop] = r]
      /\ purchases' = [purchases EXCEPT ![k.drop][k.buyer] = n]
      /\ k.status \in {"paid", "undone"} <=> k.edition > 0
      /\ k.edition = claim[c].edition /\ r.state # "none"
  BY <1>3, <1>4, <1>5, <1>6
<1> QED
  BY <1>3, <1>4, <1>5, <1>7, <1>8, <1>9, Written, Zenon

(* A hold that ends and a sale that is undone credit both                  *)
(* (credit_drop_release).                                                  *)
LEMMA ReleasesBooked ==
    ASSUME DropsInv, NEW c \in Claims, EndHold(c) \/ ApproveCancel(c)
    PROVE  DropsInv'
<1> DEFINE d == claim[c].drop
           b == claim[c].buyer
           r == [row[d] EXCEPT !.remaining = row[d].remaining + 1]
           n == purchases[d][b] - 1
<1>1. PICK s \in {"closed", "undone"} :
        /\ claim[c].status = IF s = "closed" THEN "held" ELSE "paid"
        /\ Credit(c) /\ Move(c, s) /\ UNCHANGED <<clock, bound, listing, scanned, generation>>
  BY Zenon DEF EndHold, ApproveCancel
<1> DEFINE k == [claim[c] EXCEPT !.status = s]
<1>2. /\ claim[c] \in ClaimRow /\ EditionFits(c) /\ d \in Drops /\ b \in Buyers
      /\ Registered(d) /\ clock[d] # "announced" /\ row[d] \in Row
      /\ purchases[d][b] \in Nat /\ purchases[d][b] <= row[d].limit
  BY <1>1, UnitsTaken, Zenon
<1>3. /\ k \in ClaimRow /\ k.status = s /\ k.drop = d /\ k.buyer = b
      /\ k.edition = claim[c].edition
  BY <1>2, Zenon DEF ClaimRow
<1>4. row[d].remaining \in Nat /\ row[d].limit \in Nat
  BY <1>2, Zenon DEF Row
<1>5. /\ r \in Row /\ r.total = row[d].total /\ r.limit = row[d].limit /\ r.paid = row[d].paid
      /\ r.remaining = row[d].remaining + 1 /\ r.state = row[d].state
  BY <1>2, <1>4, SMTT(60) DEF Row
<1>6. /\ row' = [row EXCEPT ![d] = r] /\ purchases' = [purchases EXCEPT ![d][b] = n]
      /\ n \in Nat /\ n <= row[d].limit
  BY <1>1, <1>2, <1>4, SMTT(60) DEF Credit
<1>7. claim' = [claim EXCEPT ![c] = k]
  BY <1>1 DEF Move
<1>8. /\ r.remaining + Unit(k.status) <= row[d].remaining + Unit(claim[c].status)
      /\ purchases[d][b] + Unit(k.status) <= n + Unit(claim[c].status)
      /\ k.status \in {"paid", "undone"} <=> k.edition > 0
  BY <1>1, <1>2, <1>3, <1>4, <1>5, SMTT(60) DEF Unit, Drawing, EditionFits
<1> HIDE DEF k, r, n
<1> QED
  BY <1>1, <1>2, <1>3, <1>5, <1>6, <1>7, <1>8, Written, ZenonT(60) DEF Registered

(* A voided invoice, the next binding and a cancellation in between change *)
(* no book: the claim draws on the drop until it is closed                 *)
(* (void_prepare_effects, acquire_payment_hold).                           *)
LEMMA UnbookedMoves ==
    ASSUME DropsInv, NEW c \in Claims, VoidPrepare(c) \/ BindAgain(c) \/ CancelUnheld(c)
    PROVE  DropsInv'
<1> DEFINE d == claim[c].drop
           b == claim[c].buyer
<1>1. PICK s \in {"held", "unheld", "closed"} :
        /\ claim[c].status \in {"held", "unheld"} /\ Move(c, s)
        /\ UNCHANGED <<row, clock, purchases, generation>>
  BY Zenon DEF VoidPrepare, BindAgain, CancelUnheld
<1> DEFINE k == [claim[c] EXCEPT !.status = s]
<1>2. /\ claim[c] \in ClaimRow /\ EditionFits(c) /\ d \in Drops /\ b \in Buyers
      /\ Registered(d) /\ clock[d] # "announced" /\ row[d] \in Row
      /\ purchases[d][b] \in Nat /\ purchases[d][b] <= row[d].limit
  BY <1>1, UnitsTaken, Zenon
<1>3. /\ k \in ClaimRow /\ k.status = s /\ k.drop = d /\ k.buyer = b
      /\ k.edition = claim[c].edition
  BY <1>2, Zenon DEF ClaimRow
<1>4. row[d].remaining \in Nat
  BY <1>2, Zenon DEF Row
<1>5. /\ row' = [row EXCEPT ![d] = row[d]]
      /\ purchases' = [purchases EXCEPT ![d][b] = purchases[d][b]]
  BY <1>1, Zenon DEF DropsInv, TypeOK
<1>6. claim' = [claim EXCEPT ![c] = k]
  BY <1>1 DEF Move
<1>7. /\ row[d].remaining + Unit(k.status) <= row[d].remaining + Unit(claim[c].status)
      /\ purchases[d][b] + Unit(k.status) <= purchases[d][b] + Unit(claim[c].status)
      /\ k.status \in {"paid", "undone"} <=> k.edition > 0
  BY <1>1, <1>2, <1>3, <1>4, SMTT(60) DEF Unit, Drawing, EditionFits
<1> HIDE DEF k
<1> QED
  BY <1>1, <1>2, <1>3, <1>5, <1>6, <1>7, Written, ZenonT(60) DEF Registered

(* A payment numbers the unit that was held (record_paid_unit).            *)
LEMMA ConfirmBooked ==
    ASSUME DropsInv, NEW c \in Claims, Confirm(c)
    PROVE  DropsInv'
<1> DEFINE d == claim[c].drop
           b == claim[c].buyer
           r == PaidUnit(Timed(d))
           n == row[d].paid + 1
           k == [claim[c] EXCEPT !.status = "paid", !.edition = n]
<1>1. claim[c].status = "held" /\ UNCHANGED <<clock, purchases, generation>>
  BY Zenon DEF Confirm
<1>2. /\ claim[c] \in ClaimRow /\ EditionFits(c) /\ d \in Drops /\ b \in Buyers
      /\ Registered(d) /\ clock[d] # "announced" /\ row[d] \in Row
      /\ purchases[d][b] \in Nat /\ purchases[d][b] <= row[d].limit
  BY <1>1, UnitsTaken, Zenon
<1>3. /\ Timed(d) \in Row /\ Timed(d).state # "none" /\ Timed(d).paid = row[d].paid
      /\ Timed(d).total = row[d].total /\ Timed(d).limit = row[d].limit
      /\ Timed(d).remaining = row[d].remaining
  BY <1>2, TimedRow, Zenon DEF DropsInv
<1>4. /\ r \in Row /\ r.paid = n /\ r.total = row[d].total /\ r.limit = row[d].limit
      /\ r.remaining = row[d].remaining /\ r.state # "none"
  BY <1>3, PaidRow, Zenon
<1>5. n \in Nat /\ n > 0 /\ row[d].remaining \in Nat
  BY <1>2, SMTT(60) DEF Row
<1>6. row' = [row EXCEPT ![d] = r] /\ claim' = [claim EXCEPT ![c] = k]
  BY <1>3, Zenon DEF Confirm, WriteRow, Sold
<1>7. purchases' = [purchases EXCEPT ![d][b] = purchases[d][b]]
  BY <1>1, Zenon DEF DropsInv, TypeOK
<1> HIDE DEF r
<1>8. /\ k \in ClaimRow /\ k.status = "paid" /\ k.drop = d /\ k.buyer = b /\ k.edition = n
  <2> HIDE DEF n
  <2> QED
    BY <1>2, <1>5, Zenon DEF ClaimRow
<1>9. /\ r.remaining + Unit(k.status) <= row[d].remaining + Unit(claim[c].status)
      /\ purchases[d][b] + Unit(k.status) <= purchases[d][b] + Unit(claim[c].status)
      /\ claim[c].edition = 0
      /\ k.status \in {"paid", "undone"} <=> k.edition > 0
  BY <1>1, <1>2, <1>4, <1>5, <1>8, SMTT(60) DEF Unit, Drawing, EditionFits, ClaimRow
<1> HIDE DEF k
<1> QED
  BY <1>1, <1>2, <1>4, <1>6, <1>7, <1>8, <1>9, Written, ZenonT(60)

(* An order that late money finds was never numbered.                      *)
LEMMA Reacquired ==
    ASSUME DropsInv, NEW c \in Claims, Reacquirable(c)
    PROVE  /\ claim[c].status \in {"unheld", "closed"} /\ claim[c].status # "none"
           /\ claim[c].edition = 0
<1>1. claim[c].status \in {"unheld", "closed"}
  BY DEF Reacquirable
<1>2. claim[c] \in ClaimRow /\ EditionFits(c)
  BY <1>1, UnitsTaken, Zenon
<1> QED
  BY <1>1, <1>2 DEF EditionFits, ClaimRow

(* The row reacquire_hold writes, with one unit less.                      *)
LEMMA DebitedRow ==
    ASSUME DropsInv, NEW d \in Drops, Registered(d), row[d].remaining >= 1
    PROVE  LET r == [Timed(d) EXCEPT !.remaining = @ - 1]
           IN  /\ r \in Row /\ r.state # "none" /\ r.paid = row[d].paid
               /\ r.total = row[d].total /\ r.limit = row[d].limit
               /\ r.remaining = row[d].remaining - 1
<1>1. /\ Timed(d) \in Row /\ Timed(d).state # "none" /\ Timed(d).paid = row[d].paid
      /\ Timed(d).total = row[d].total /\ Timed(d).limit = row[d].limit
      /\ Timed(d).remaining = row[d].remaining
  BY TimedRow, Zenon DEF DropsInv
<1> DEFINE m == row[d].remaining - 1
<1>2. m \in Nat
  BY DEF DropsInv, TypeOK, Row
<1>3. [Timed(d) EXCEPT !.remaining = @ - 1] = [Timed(d) EXCEPT !.remaining = m]
  BY <1>1 DEF Row
<1> HIDE DEF m
<1> DEFINE r == [Timed(d) EXCEPT !.remaining = m]
<1>4. /\ r \in Row /\ r.state = Timed(d).state /\ r.paid = Timed(d).paid
      /\ r.total = Timed(d).total /\ r.limit = Timed(d).limit /\ r.remaining = m
  BY <1>1, <1>2 DEF Row
<1> HIDE DEF r
<1> QED
  BY <1>1, <1>3, <1>4 DEF m, r

(* Late money debits the drop and the counter anew, whether the listing    *)
(* has a unit for it or the order is refunded (reacquire_hold).            *)
LEMMA LateBooked ==
    ASSUME DropsInv, NEW c \in Claims, LateCompletes(c) \/ LateStockGone(c)
    PROVE  DropsInv'
<1> DEFINE d == claim[c].drop
           b == claim[c].buyer
           q == [Timed(d) EXCEPT !.remaining = @ - 1]
           n == purchases[d][b] + 1
           e == row[d].paid + 1
<1>1. /\ Reacquirable(c) /\ row[d].remaining >= 1 /\ n <= row[d].limit
      /\ CountReacquired(d, b) /\ UNCHANGED <<clock, generation>>
  BY Zenon DEF LateCompletes, LateStockGone
<1>2. claim[c].status \in {"unheld", "closed"} /\ claim[c].edition = 0
  BY <1>1, Reacquired, Zenon
<1>3. /\ claim[c] \in ClaimRow /\ EditionFits(c) /\ d \in Drops /\ b \in Buyers
      /\ Registered(d) /\ clock[d] # "announced" /\ row[d] \in Row
      /\ purchases[d][b] \in Nat /\ purchases[d][b] <= row[d].limit
  BY <1>2, UnitsTaken, Zenon
<1>4. /\ q \in Row /\ q.state # "none" /\ q.paid = row[d].paid /\ q.total = row[d].total
      /\ q.limit = row[d].limit /\ q.remaining = row[d].remaining - 1
  BY <1>1, <1>3, DebitedRow, Zenon
<1>5. /\ n \in Nat /\ e \in Nat /\ e > 0 /\ row[d].remaining \in Nat
      /\ purchases' = [purchases EXCEPT ![d][b] = n]
  BY <1>1, <1>3, SMTT(60) DEF Row, CountReacquired
<1>6. purchases[d][b] + 1 <= n + Unit(claim[c].status)
  BY <1>2, <1>3, SMTT(60) DEF Unit, Drawing
<1>7. Unit("paid") = 1 /\ Unit("refund") = 0 /\ Unit(claim[c].status) \in {0, 1}
  BY Zenon DEF Unit, Drawing
<1> HIDE DEF q, n
<1>8. CASE LateCompletes(c)
  <2> DEFINE r == PaidUnit(q)
             k == [claim[c] EXCEPT !.status = "paid", !.edition = e]
  <2>1. Timed(d).paid = row[d].paid
    BY <1>3, TimedRow, Zenon DEF DropsInv
  <2>2. row' = [row EXCEPT ![d] = r] /\ claim' = [claim EXCEPT ![c] = k]
    BY <1>8, <2>1, Zenon DEF LateCompletes, WriteRow, Sold, q
  <2>3. /\ r \in Row /\ r.paid = e /\ r.total = row[d].total /\ r.limit = row[d].limit
        /\ r.remaining = row[d].remaining - 1 /\ r.state # "none"
    BY <1>4, PaidRow, Zenon
  <2> HIDE DEF r
  <2>4. /\ k \in ClaimRow /\ k.status = "paid" /\ k.drop = d /\ k.buyer = b /\ k.edition = e
    <3> HIDE DEF e
    <3> QED
      BY <1>3, <1>5, Zenon DEF ClaimRow
  <2> HIDE DEF k
  <2>5. /\ r.remaining + Unit(k.status) <= row[d].remaining + Unit(claim[c].status)
        /\ purchases[d][b] + Unit(k.status) <= n + Unit(claim[c].status)
        /\ k.status \in {"paid", "undone"} <=> k.edition > 0
    BY <1>5, <1>6, <1>7, <2>3, <2>4, SMTT(60)
  <2> QED
    BY <1>1, <1>2, <1>3, <1>5, <2>2, <2>3, <2>4, <2>5, Written, ZenonT(60)
<1>9. CASE LateStockGone(c)
  <2> DEFINE k == [claim[c] EXCEPT !.status = "refund"]
  <2>1. row' = [row EXCEPT ![d] = q] /\ claim' = [claim EXCEPT ![c] = k]
    BY <1>9, Zenon DEF LateStockGone, WriteRow, Move, q
  <2>2. /\ k \in ClaimRow /\ k.status = "refund" /\ k.drop = d /\ k.buyer = b
        /\ k.edition = claim[c].edition
    BY <1>3, Zenon DEF ClaimRow
  <2> HIDE DEF k
  <2>3. /\ q.remaining + Unit(k.status) <= row[d].remaining + Unit(claim[c].status)
        /\ purchases[d][b] + Unit(k.status) <= n + Unit(claim[c].status)
        /\ k.status \in {"paid", "undone"} <=> k.edition > 0
    BY <1>2, <1>3, <1>4, <1>5, <1>6, <1>7, <2>2, SMTT(60)
  <2> QED
    BY <1>1, <1>2, <1>3, <1>4, <1>5, <2>1, <2>2, <2>3, Written, Zenon
<1> QED
  BY <1>8, <1>9

(* Late money that finds no unit is refunded, and nothing is debited.      *)
LEMMA DropGoneBooked ==
    ASSUME DropsInv, NEW c \in Claims, LateDropGone(c)
    PROVE  DropsInv'
<1> DEFINE d == claim[c].drop
           b == claim[c].buyer
           k == [claim[c] EXCEPT !.status = "refund"]
<1>1. Reacquirable(c) /\ UNCHANGED <<clock, purchases, generation>>
  BY Zenon DEF LateDropGone
<1>2. claim[c].status \in {"unheld", "closed"} /\ claim[c].edition = 0
  BY <1>1, Reacquired, Zenon
<1>3. /\ claim[c] \in ClaimRow /\ EditionFits(c) /\ d \in Drops /\ b \in Buyers
      /\ Registered(d) /\ clock[d] # "announced" /\ row[d] \in Row
      /\ purchases[d][b] \in Nat /\ purchases[d][b] <= row[d].limit
  BY <1>2, UnitsTaken, Zenon
<1>4. /\ Timed(d) \in Row /\ Timed(d).state # "none" /\ Timed(d).paid = row[d].paid
      /\ Timed(d).total = row[d].total /\ Timed(d).limit = row[d].limit
      /\ Timed(d).remaining = row[d].remaining /\ row[d].remaining \in Nat
  BY <1>3, TimedRow, Zenon DEF DropsInv, Row
<1>5. row' = [row EXCEPT ![d] = Timed(d)] /\ claim' = [claim EXCEPT ![c] = k]
  BY Zenon DEF LateDropGone, WriteRow, Move
<1>6. purchases' = [purchases EXCEPT ![d][b] = purchases[d][b]]
  BY <1>1, Zenon DEF DropsInv, TypeOK
<1>7. /\ k \in ClaimRow /\ k.status = "refund" /\ k.drop = d /\ k.buyer = b
      /\ k.edition = claim[c].edition
  BY <1>3, Zenon DEF ClaimRow
<1> HIDE DEF k
<1>8. /\ Timed(d).remaining + Unit(k.status) <= row[d].remaining + Unit(claim[c].status)
      /\ purchases[d][b] + Unit(k.status) <= purchases[d][b] + Unit(claim[c].status)
      /\ k.status \in {"paid", "undone"} <=> k.edition > 0
  BY <1>2, <1>3, <1>4, <1>7, SMTT(60) DEF Unit, Drawing
<1> QED
  BY <1>1, <1>2, <1>3, <1>4, <1>5, <1>6, <1>7, <1>8, Written, ZenonT(60)

(* New terms come only to a drop on which nothing was drawn yet            *)
(* (drop.sync).                                                            *)
LEMMA RecordApplied ==
    ASSUME DropsInv, NEW d \in Drops, NEW ls \in SUBSET Listings, NEW total \in Totals,
           NEW limit \in 1..total, NEW phase \in Phases,
           ApplyRecord(d, ls, total, limit, phase),
           ~Registered(d) \/ clock[d] = "announced"
    PROVE  DropsInv'
<1> DEFINE r == [state |-> phase, total |-> total, limit |-> limit, remaining |-> total,
                 paid |-> row[d].paid, revision |-> row[d].revision + 1]
<1>1. /\ row' = [row EXCEPT ![d] = r] /\ clock' = [clock EXCEPT ![d] = phase]
      /\ UNCHANGED <<purchases, claim, generation>>
  BY Zenon DEF ApplyRecord
<1>2. total \in Nat /\ limit \in Nat /\ row[d] \in Row
  BY TotalsPositive DEF DropsInv, TypeOK
<1>3. /\ r \in Row /\ r.total = total /\ r.remaining = total /\ r.limit = limit
      /\ r.paid = row[d].paid
  BY <1>2, SMTT(60) DEF Row, States, Phases
<1> HIDE DEF r
<1>4. TypeOK'
  BY <1>1, <1>3, Zenon DEF DropsInv, TypeOK
<1>5. ASSUME NEW e \in Drops \ {d} PROVE DropInv(e)'
  <2>1. SameTerms(e) /\ DropInv(e)
    BY <1>1, <1>5, Zenon DEF SameTerms, Registered, DropsInv, TypeOK
  <2> QED
    BY <1>1, <1>5, <2>1, DropKept
<1>6. row'[d] = r
  BY <1>1 DEF DropsInv, TypeOK
<1>7. Untouched(d) /\ Numbered(d)
  BY SMTT(60) DEF DropsInv, DropInv
<1>8. /\ ClaimsOf(d)' = {} /\ Draws(d)' = {} /\ Editioned(d)' = Editioned(d)
      /\ \A b \in Buyers : DrawsOf(d, b)' = {} /\ purchases'[d][b] = 0
  BY <1>1, <1>7, Zenon DEF Untouched, ClaimsOf, Draws, DrawsOf, Editioned
<1>9. Scarce(d)'
  BY <1>2, <1>3, <1>6, <1>8, FS_EmptySet, SMTT(60) DEF Scarce
<1>10. ASSUME NEW b \in Buyers PROVE Limited(d, b)'
  BY <1>2, <1>3, <1>6, <1>8, FS_EmptySet, SMTT(60) DEF Limited
<1>11. Numbered(d)'
  BY <1>1, <1>3, <1>6, <1>7, <1>8, SMTT(60) DEF Numbered
<1>12. Untouched(d)'
  BY <1>8, Zenon DEF Untouched
<1>13. DropInv(d)'
  BY <1>9, <1>10, <1>11, <1>12, Zenon DEF DropInv
<1>14. \A c \in Claims : EditionFits(c)'
  BY <1>1, Zenon DEF DropsInv, EditionFits
<1> QED
  BY <1>4, <1>5, <1>13, <1>14 DEF DropsInv

(* A row that gets a new state, with its terms and counts.                 *)
LEMMA RowStamped ==
    ASSUME DropsInv, NEW d \in Drops, NEW r \in Row, row' = [row EXCEPT ![d] = r],
           r.total = row[d].total, r.limit = row[d].limit, r.remaining = row[d].remaining,
           r.paid = row[d].paid, Registered(d) => r.state # "none",
           UNCHANGED <<clock, purchases, claim, generation>>
    PROVE  DropsInv'
<1>1. row'[d] = r /\ \A e \in Drops \ {d} : row'[e] = row[e]
  BY Zenon DEF DropsInv, TypeOK
<1>2. TypeOK'
  BY Zenon DEF DropsInv, TypeOK
<1>3. SameTerms(d) /\ \A e \in Drops \ {d} : SameTerms(e)
  BY <1>1, Zenon DEF SameTerms, Registered
<1> QED
  BY <1>2, <1>3, OnlyRows, Zenon

(* The seller's commands and the due transitions keep the books            *)
(* (drop.sync, drop.cancel, drop.release_listings, transition_due_drops).  *)
LEMMA SellerBooked ==
    ASSUME DropsInv, NEW d \in Drops, SellerStep(d) \/ TransitionDue(d)
    PROVE  DropsInv'
<1>0. /\ Timed(d) \in Row
      /\ Timed(d).total = row[d].total /\ Timed(d).limit = row[d].limit
      /\ Timed(d).remaining = row[d].remaining /\ Timed(d).paid = row[d].paid
      /\ Registered(d) => Timed(d).state # "none"
      /\ Timed(d).state = "announced" => clock[d] = "announced"
  BY TimedRow, Zenon DEF DropsInv
<1>1. ASSUME NEW ls \in SUBSET Listings, NEW total \in Totals, NEW phase \in Phases,
             NEW limit \in 1..total,
             Sync(d, ls, total, limit, phase) \/ Resync(d, ls, total, limit, phase)
      PROVE  DropsInv'
  BY <1>0, <1>1, RecordApplied, Zenon DEF Sync, Resync
<1>2. CASE CancelDrop(d)
  <2> DEFINE r == [row[d] EXCEPT !.state = "ended_cancelled"]
  <2>1. row[d] \in Row
    BY DEF DropsInv, TypeOK
  <2>2. /\ r \in Row /\ r.state = "ended_cancelled" /\ r.total = row[d].total
        /\ r.limit = row[d].limit /\ r.remaining = row[d].remaining /\ r.paid = row[d].paid
    BY <2>1 DEF Row, States
  <2>3. row' = [row EXCEPT ![d] = r] /\ UNCHANGED <<clock, purchases, claim, generation>>
    BY <1>2 DEF CancelDrop, WriteRow
  <2> HIDE DEF r
  <2> QED
    BY <2>2, <2>3, RowStamped, Zenon
<1>3. CASE ReleaseListings(d) \/ TransitionDue(d)
  <2>1. row' = [row EXCEPT ![d] = Timed(d)] /\ UNCHANGED <<clock, purchases, claim, generation>>
    BY <1>3, Zenon DEF ReleaseListings, TransitionDue, WriteRow
  <2> QED
    BY <1>0, <2>1, RowStamped, Zenon
<1> QED
  BY <1>1, <1>2, <1>3, Zenon DEF SellerStep

(* So does every step of a claim.                                          *)
LEMMA ClaimsBooked ==
    ASSUME DropsInv, NEW c \in Claims, ClaimStep(c)
    PROVE  DropsInv'
BY HoldsBooked, ReleasesBooked, UnbookedMoves, ConfirmBooked, LateBooked, DropGoneBooked, Zenon
   DEF ClaimStep, Checkout, ReserveInventory

(* So does the clock, which does not take a drop back to announced.        *)
LEMMA TimeBooked ==
    ASSUME DropsInv, NEW d \in Drops, NEW phase \in Phases, Tick(d, phase)
    PROVE  DropsInv'
<1>1. /\ phase # "announced" /\ clock' = [clock EXCEPT ![d] = phase]
      /\ UNCHANGED <<row, purchases, claim, generation>>
  BY DEF Tick
<1>2. TypeOK'
  BY <1>1, Zenon DEF DropsInv, TypeOK
<1>3. \A e \in Drops : SameTerms(e)
  BY <1>1, Zenon DEF SameTerms, Registered, DropsInv, TypeOK
<1> QED
  BY <1>1, <1>2, <1>3, OnlyRows

(* So does the deletion and the re-creation of a listing.                  *)
LEMMA ListingsBooked ==
    ASSUME DropsInv, NEW l \in Listings, ListingStep(l)
    PROVE  DropsInv'
<1>1. UNCHANGED <<row, clock, purchases, claim>>
  BY DEF ListingStep, TombstoneBindings, TombstoneListing, TombstoneFenced, Recreate
<1>2. generation' \in [Listings -> Nat]
  BY DEF DropsInv, TypeOK, ListingStep, TombstoneBindings, TombstoneListing, TombstoneFenced,
         Recreate
<1>3. TypeOK'
  BY <1>1, <1>2, Zenon DEF DropsInv, TypeOK
<1>4. \A d \in Drops : SameTerms(d)
  BY <1>1, Zenon DEF SameTerms, Registered
<1> QED
  BY <1>1, <1>3, <1>4, OnlyRows

(* Without drops there is nothing to book.                                 *)
LEMMA InitBooked == Init => DropsInv
<1> SUFFICES ASSUME Init PROVE DropsInv
  OBVIOUS
<1>1. NoRow \in Row /\ NoRow.total = 0 /\ NoRow.limit = 0 /\ NoRow.remaining = 0 /\ NoRow.paid = 0
  BY Zenon DEF NoRow, Row, States
<1>2. TypeOK
  BY <1>1 DEF Init, TypeOK, Phases
<1>3. \A c \in Claims : claim[c].status = "none" /\ claim[c].edition = 0
  BY Zenon DEF Init, NoClaim
<1>4. ASSUME NEW d \in Drops PROVE DropInv(d)
  <2>1. /\ row[d] = NoRow /\ \A b \in Buyers : purchases[d][b] = 0
    BY DEF Init
  <2>2. /\ ClaimsOf(d) = {} /\ Draws(d) = {} /\ Editioned(d) = {}
        /\ \A b \in Buyers : DrawsOf(d, b) = {}
    BY <1>3, Zenon DEF ClaimsOf, Draws, Editioned, DrawsOf
  <2>3. Numbered(d)
    BY <1>1, <2>1, <2>2, FS_EmptySet, SMTT(60) DEF Numbered
  <2> QED
    BY <1>1, <2>1, <2>2, <2>3, FS_EmptySet, SMTT(60) DEF DropInv, Scarce, Limited, Untouched
<1> QED
  BY <1>2, <1>3, <1>4 DEF DropsInv, EditionFits

(* The books of every drop are kept in every reachable state.              *)
LEMMA BooksKept == Spec => []DropsInv
<1>1. DropsInv /\ [Next]_vars => DropsInv'
  <2>1. SUFFICES ASSUME DropsInv, [Next]_vars PROVE DropsInv'
    OBVIOUS
  <2>2. CASE Next
    BY <2>1, <2>2, SellerBooked, TimeBooked, ClaimsBooked, ListingsBooked, Zenon DEF Next
  <2>3. CASE UNCHANGED vars
    <3>1. TypeOK' /\ UNCHANGED <<purchases, claim>>
      BY <2>1, <2>3, Zenon DEF vars, DropsInv, TypeOK
    <3>2. \A d \in Drops : SameTerms(d)
      BY <2>3, Zenon DEF vars, SameTerms, Registered
    <3> QED
      BY <2>1, <3>1, <3>2, OnlyRows
  <2> QED
    BY <2>1, <2>2, <2>3
<1> QED
  BY <1>1, InitBooked, PTL DEF Spec

(* However voids, re-binds, late payments, cancellations and credits       *)
(* alternate, the units held or paid for and the units remaining never     *)
(* exceed the total of the drop (enforce_drop_gate, credit_drop_release,   *)
(* reacquire_hold, void_prepare_effects).                                  *)
THEOREM DropsNeverOversold == Spec => []NeverOversold
<1>1. DropsInv => NeverOversold
  <2> SUFFICES ASSUME DropsInv, NEW d \in Drops
               PROVE  UnitsOut(d) + row[d].remaining <= row[d].total
    BY Zenon DEF NeverOversold
  <2> DEFINE H == {c \in ClaimsOf(d) : Holds(c)}
  <2>1. H \subseteq Draws(d)
    BY DEF Holds, Draws, Drawing
  <2>2. IsFiniteSet(Draws(d)) /\ Cardinality(Draws(d)) \in Nat
    BY Finite, Zenon
  <2>3. Cardinality(H) \in Nat /\ Cardinality(H) <= Cardinality(Draws(d))
    BY <2>1, <2>2, FS_Subset, FS_CardinalityType, SMTT(60)
  <2>4. row[d].remaining \in Nat /\ row[d].total \in Nat
    BY DEF DropsInv, TypeOK, Row
  <2> QED
    BY <2>2, <2>3, <2>4, SMTT(60) DEF UnitsOut, DropsInv, DropInv, Scarce
<1> QED
  BY <1>1, BooksKept, PTL

(* No buyer holds or owns more units of a drop than the counter says, and  *)
(* the counter stays within the limit, whatever terms a re-sync brings     *)
(* (enforce_drop_gate, drop.sync).                                         *)
THEOREM BuyersWithinLimit == Spec => []BuyerWithinLimit
<1>1. DropsInv => BuyerWithinLimit
  <2> SUFFICES ASSUME DropsInv, NEW d \in Drops, NEW b \in Buyers
               PROVE  UnitsOf(d, b) <= purchases[d][b] /\ purchases[d][b] <= row[d].limit
    BY Zenon DEF BuyerWithinLimit
  <2> DEFINE H == {c \in ClaimsOf(d) : Holds(c) /\ claim[c].buyer = b}
  <2>1. H \subseteq DrawsOf(d, b)
    BY SMTT(60) DEF Holds, DrawsOf, Draws, Drawing
  <2>2. IsFiniteSet(DrawsOf(d, b)) /\ Cardinality(DrawsOf(d, b)) \in Nat
    BY Finite
  <2>3. Cardinality(H) \in Nat /\ Cardinality(H) <= Cardinality(DrawsOf(d, b))
    BY <2>1, <2>2, FS_Subset, FS_CardinalityType, Zenon
  <2>4. purchases[d][b] \in Nat /\ Limited(d, b)
    BY Zenon DEF DropsInv, TypeOK, DropInv
  <2> QED
    BY <2>2, <2>3, <2>4, SMTT(60) DEF UnitsOf, Limited
<1> QED
  BY <1>1, BooksKept, PTL

(* The orders ever paid carry the editions 1..paid_quantity, each once,    *)
(* also after sales were undone (record_paid_unit).                        *)
THEOREM EditionsAreGapless == Spec => []EditionsGapless
<1>1. DropsInv => EditionsGapless
  BY Zenon DEF DropsInv, DropInv, Numbered, Editioned, EditionsGapless
<1> QED
  BY <1>1, BooksKept, PTL

(* A claim comes to be held only through the gate, which compares          *)
(* generations; every other step moves a claim that was taken before       *)
(* (lock_bound_drop).                                                      *)
LEMMA NewHoldsGated ==
    ASSUME DropsInv, Next, NEW a \in Claims, claim[a].status = "none", claim'[a].status = "held"
    PROVE  bound[claim'[a].drop][claim'[a].listing].generation = generation[claim'[a].listing]
<1>0. claim \in [Claims -> ClaimRow \union {NoClaim}]
  BY Zenon DEF DropsInv, TypeOK
<1>1. CASE UNCHANGED claim
  BY <1>1, Zenon
<1>2. ASSUME NEW c \in Claims, claim[c].status # "none", NEW k, claim' = [claim EXCEPT ![c] = k]
      PROVE  FALSE
  BY <1>0, <1>2
<1>3. ASSUME NEW c \in Claims, NEW b \in Buyers, NEW l \in Listings, NEW ordered \in BOOLEAN,
             TakeHold(c, b, l, ordered)
      PROVE  bound[claim'[a].drop][claim'[a].listing].generation = generation[claim'[a].listing]
  <2>1. PICK d \in Drops :
          /\ Gates(d, l)
          /\ claim' = [claim EXCEPT ![c] =
                [status |-> "held", drop |-> d, buyer |-> b, listing |-> l, order |-> ordered,
                 edition |-> 0, generation |-> generation[l]]]
    BY <1>3, Zenon DEF TakeHold
  <2>2. claim'[a].drop = d /\ claim'[a].listing = l
    BY <1>0, <2>1, Zenon
  <2> QED
    BY <2>1, <2>2, Zenon DEF Gates
<1>4. ASSUME NEW c \in Claims, ClaimStep(c)
      PROVE  \/ \E b \in Buyers, l \in Listings, ordered \in BOOLEAN : TakeHold(c, b, l, ordered)
             \/ claim[c].status # "none" /\ \E k : claim' = [claim EXCEPT ![c] = k]
  <2>1. ASSUME NEW s, Move(c, s) PROVE \E k : claim' = [claim EXCEPT ![c] = k]
    BY <2>1, Zenon DEF Move
  <2>2. ASSUME NEW r, Sold(c, r) PROVE \E k : claim' = [claim EXCEPT ![c] = k]
    BY <2>2, Zenon DEF Sold
  <2>3. CASE \E b \in Buyers, l \in Listings : Checkout(c, b, l) \/ ReserveInventory(c, b, l)
    BY <2>3, Zenon DEF Checkout, ReserveInventory
  <2>4. CASE EndHold(c) \/ ApproveCancel(c) \/ VoidPrepare(c) \/ BindAgain(c) \/ CancelUnheld(c)
    BY <2>1, <2>4, Zenon DEF EndHold, ApproveCancel, VoidPrepare, BindAgain, CancelUnheld
  <2>5. CASE Confirm(c) \/ LateCompletes(c)
    BY <2>2, <2>5, Zenon DEF Confirm, LateCompletes, Reacquirable
  <2>6. CASE LateDropGone(c) \/ LateStockGone(c)
    BY <2>1, <2>6, Zenon DEF LateDropGone, LateStockGone, Reacquirable
  <2> QED
    BY <1>4, <2>3, <2>4, <2>5, <2>6, Zenon DEF ClaimStep
<1>5. CASE \E d \in Drops : SellerStep(d) \/ TransitionDue(d)
  <2>1. UNCHANGED claim
    BY <1>5, SMTT(60)
    DEF SellerStep, TransitionDue, Sync, Resync, ApplyRecord, CancelDrop, ReleaseListings
  <2> QED
    BY <1>1, <2>1, Zenon
<1>6. CASE \E d \in Drops, phase \in Phases : Tick(d, phase)
  BY <1>1, <1>6, Zenon DEF Tick
<1>7. CASE \E l \in Listings : ListingStep(l)
  BY <1>1, <1>7, Zenon
  DEF ListingStep, TombstoneBindings, TombstoneListing, TombstoneFenced, Recreate
<1>8. CASE \E c \in Claims : ClaimStep(c)
  BY <1>2, <1>3, <1>4, <1>8, SMTT(60)
<1> QED
  BY <1>5, <1>6, <1>7, <1>8, Zenon DEF Next

(* A hold is taken on the generation of the listing that the drop was      *)
(* bound to, even when the binding raced the listing's tombstone           *)
(* (lock_bound_drop).                                                      *)
THEOREM DropsDrawOnTheirGeneration == Spec => DrawsOnItsGeneration
<1>1. DropsInv /\ [Next]_vars =>
        [\A c \in Claims : claim[c].status = "none" /\ claim'[c].status = "held" =>
            bound[claim'[c].drop][claim'[c].listing].generation
                = generation[claim'[c].listing]]_vars
  BY NewHoldsGated, Zenon
<1> QED
  BY <1>1, BooksKept, PTL DEF Spec, DrawsOnItsGeneration

-----------------------------------------------------------------------------
(* The outbox and the passes that drain it.                                *)

(* What a worker may do to the outbox and to the order, whichever pass it  *)
(* is on.                                                                  *)
Touches(w) ==
    \/ Claim(w)
    \/ \E k \in claimed[w] : \/ Notify(w, k) \/ Quarantine(w, k)
                             \/ BeginActivation(w, k)
                             \/ BeginVoid(w, k) \/ GiveUpVoid(w, k)
    \/ Activated(w) \/ ActivationRefused(w) \/ VoidAnswered(w)
    \/ \E outcome \in Outcomes(step[w].row) : PaykitAnswers(w, outcome)
    \/ Dropped(w) /\ UNCHANGED <<outbox, notified, order, invoice, released>>

OutboxNext ==
    \/ \E w \in Workers : Touches(w)
    \/ ClaimsLapse \/ Bind \/ CancelUnpaid
    \/ \E i \in DOMAIN invoice : PrepareExpires(i)

(* Every step is one of these for the outbox, or leaves it alone.          *)
LEMMA OnTheOutbox ==
    ASSUME [DeliveryNext]_deliveryVars
    PROVE  OutboxNext \/ UNCHANGED outboxVars
<1>1. CASE UNCHANGED deliveryVars
  BY <1>1 DEF deliveryVars, outboxVars
<1>2. ASSUME NEW w \in Workers, Works(w)
      PROVE  OutboxNext \/ UNCHANGED outboxVars
  BY <1>2, Zenon DEF Works, AcquireOutbox, OtherTask, SkipTask, Deliver, Answers, OutboxDrained,
              OutboxNext, Touches
<1>3. ASSUME NEW w \in Workers, DrainFails(w) \/ Dies(w)
      PROVE  OutboxNext
  BY <1>3, Zenon DEF DrainFails, Dies, OutboxNext, Touches
<1>4. CASE Lapses
  BY <1>4 DEF Lapses, OutboxNext
<1>5. CASE Parties
  BY <1>5 DEF Parties, OutboxNext
<1>6. QED
  BY <1>1, <1>2, <1>3, <1>4, <1>5 DEF DeliveryNext

(* A sequence rewritten in place is a sequence of the same length.         *)
LEMMA Rewritten ==
    ASSUME NEW S, NEW s \in Seq(S), NEW f \in [DOMAIN s -> S]
    PROVE  f \in Seq(S) /\ Len(f) = Len(s) /\ DOMAIN f = DOMAIN s
<1>1. Len(s) \in Nat /\ DOMAIN s = 1 .. Len(s)
  BY LenProperties
<1>2. f \in [1 .. Len(s) -> S]
  BY <1>1
<1>3. f \in UNION {[1 .. n -> S] : n \in Nat}
  BY <1>1, <1>2, Zenon
<1>4. f \in Seq(S)
  BY <1>3, SeqDef
<1>5. DOMAIN f = 1 .. Len(f) /\ Len(f) \in Nat
  BY <1>4, LenProperties
<1>6. QED
  BY <1>1, <1>2, <1>4, <1>5

-----------------------------------------------------------------------------
(* What Paykit published.                                                  *)
OrderRow == [state : {"pending_payment", "cancelled"},
             activation : {"null", "preparing", "active", "voided"}, invoice : Nat]

InvoiceStates == {"prepared", "observing", "final"}

(* Stronger than PublishedIsWatched: every invoice is watched, published   *)
(* or not, because Paykit may publish any of them on a stale call.         *)
Watched(i) ==
    i \in released \/ (order.invoice = i /\ order.activation \in {"preparing", "active"})

WatchInv ==
    /\ order \in OrderRow
    /\ invoice \in Seq(InvoiceStates)
    /\ \A i \in DOMAIN invoice : Watched(i)

(* The first states: no invoice, or the one the order is bound to.         *)
LEMMA InitWatched ==
    ASSUME DeliveryInit
    PROVE  WatchInv
<1>1. OutboxInit
  BY DEF DeliveryInit
<1>2. CASE invoice = <<>>
  BY <1>1, <1>2, SMTT(60) DEF OutboxInit, WatchInv, OrderRow
<1>3. CASE invoice = <<"prepared">>
  <2>1. order = [state |-> "cancelled", activation |-> "preparing", invoice |-> 1]
    BY <1>1, <1>3, SMTT(60) DEF OutboxInit
  <2>2. DOMAIN invoice = {1} /\ invoice \in Seq(InvoiceStates)
    BY <1>3 DEF InvoiceStates
  <2>3. QED
    BY <2>1, <2>2 DEF WatchInv, OrderRow, Watched
<1>4. QED
  BY <1>1, <1>2, <1>3, SMTT(60) DEF OutboxInit

(* A step that adds no invoice, and forgets none.                          *)
LEMMA StillWatched ==
    ASSUME WatchInv, order' \in OrderRow, invoice' \in Seq(InvoiceStates),
           DOMAIN invoice' = DOMAIN invoice, released \subseteq released',
           order'.invoice = order.invoice,
           order.activation \in {"preparing", "active"} =>
               order'.activation \in {"preparing", "active"} \/ order.invoice \in released'
    PROVE  WatchInv'
BY SMTT(60) DEF WatchInv, Watched

(* What Paykit answers leaves an invoice in one of its states.             *)
LEMMA OutcomesTyped ==
    ASSUME NEW k, NEW outcome \in Outcomes(k)
    PROVE  outcome[1] \in InvoiceStates
BY DEF Outcomes, ActivationOutcomes, VoidOutcomes, InvoiceStates

(* Every step keeps every invoice watched.                                 *)
LEMMA NextWatched ==
    ASSUME WatchInv, OutboxNext
    PROVE  WatchInv'
<1>0. order \in OrderRow /\ invoice \in Seq(InvoiceStates)
  BY DEF WatchInv
<1>1. CASE Bind
  <2>1. /\ \A i \in DOMAIN invoice : i \in released
        /\ released' = released /\ invoice' = Append(invoice, "prepared")
        /\ order' = [order EXCEPT !.activation = "preparing", !.invoice = Len(invoice) + 1]
    BY <1>1 DEF Bind, WatchInv, Watched
  <2>2. Len(invoice) + 1 \in Nat
    BY <1>0
  <2>3. /\ order' \in OrderRow /\ order'.activation = "preparing"
        /\ order'.invoice = Len(invoice) + 1
    BY <1>0, <2>1, <2>2, Zenon DEF OrderRow
  <2>4. /\ invoice' \in Seq(InvoiceStates)
        /\ DOMAIN invoice' = DOMAIN invoice \union {Len(invoice) + 1}
    <3>1. "prepared" \in InvoiceStates
      BY DEF InvoiceStates
    <3>2. QED
      BY <1>0, <2>1, <3>1
  <2>5. QED
    BY <2>1, <2>3, <2>4 DEF WatchInv, Watched
<1>2. CASE CancelUnpaid
  BY <1>0, <1>2, StillWatched, Zenon DEF CancelUnpaid, OrderRow
<1>3. CASE ClaimsLapse
  BY <1>0, <1>3, StillWatched DEF ClaimsLapse
<1>4. ASSUME NEW i \in DOMAIN invoice, PrepareExpires(i)
      PROVE  WatchInv'
  <2>1. invoice' \in Seq(InvoiceStates) /\ DOMAIN invoice' = DOMAIN invoice
    BY <1>0, <1>4 DEF PrepareExpires, InvoiceStates
  <2>2. QED
    BY <1>0, <1>4, <2>1, StillWatched, SMTT(60) DEF PrepareExpires
<1>5. ASSUME NEW w \in Workers, Touches(w)
      PROVE  WatchInv'
  <2>1. CASE Claim(w)
    BY <1>0, <2>1, StillWatched DEF Claim
  <2>2. ASSUME NEW k \in claimed[w], Notify(w, k) \/ Quarantine(w, k) \/ BeginVoid(w, k)
                                     \/ GiveUpVoid(w, k)
        PROVE  WatchInv'
    BY <1>0, <2>2, StillWatched DEF Notify, Quarantine, BeginVoid, GiveUpVoid
  <2>3. ASSUME NEW k \in claimed[w], BeginActivation(w, k)
        PROVE  WatchInv'
    BY <1>0, <2>3, StillWatched, Zenon DEF BeginActivation, OrderRow
  <2>4. CASE Activated(w)
    BY <1>0, <2>4, StillWatched, Zenon DEF Activated, Retracked, OrderRow
  <2>5. CASE ActivationRefused(w)
    BY <1>0, <2>5, StillWatched, Zenon DEF ActivationRefused, OrderRow
  <2>6. CASE VoidAnswered(w)
    BY <1>0, <2>6, StillWatched, Zenon DEF VoidAnswered, Retracked, OrderRow
  <2>7. ASSUME NEW outcome \in Outcomes(step[w].row), PaykitAnswers(w, outcome)
        PROVE  WatchInv'
    <3>1. outcome[1] \in InvoiceStates
      BY <2>7, OutcomesTyped
    <3>2. invoice' \in Seq(InvoiceStates) /\ DOMAIN invoice' = DOMAIN invoice
      <4> DEFINE x == outbox[step[w].row].of
                 v == outcome[1]
      <4>1. invoice' = [invoice EXCEPT ![x] = v] /\ v \in InvoiceStates
        BY <2>7, <3>1, SMTT(60) DEF PaykitAnswers
      <4> HIDE DEF x, v
      <4>2. invoice' \in [DOMAIN invoice -> InvoiceStates]
        BY <1>0, <4>1, LenProperties, Zenon
      <4>3. QED
        BY <1>0, <4>2, Rewritten
    <3>3. QED
      BY <1>0, <2>7, <3>2, StillWatched, Zenon DEF PaykitAnswers
  <2>8. CASE Dropped(w) /\ UNCHANGED <<outbox, notified, order, invoice, released>>
    BY <1>0, <2>8, StillWatched
  <2>9. QED
    BY <1>5, <2>1, <2>2, <2>3, <2>4, <2>5, <2>6, <2>7, <2>8, SMTT(60) DEF Touches
<1>6. QED
  BY <1>1, <1>2, <1>3, <1>4, <1>5 DEF OutboxNext

-----------------------------------------------------------------------------
(* The notices.                                                            *)
OutboxRow == [kind : Kinds, of : Nat,
              status : {"open", "leased", "delivered", "quarantined"}]

StepRow == [row : Nat, answer : {"none", "awaited", "observing", "refused",
                                 "published", "ended"}]

(* Only rows that call Paykit are worked on in more than one transaction.  *)
OnCall(k) == k \in Ids /\ outbox[k].kind \in {"activate", "void"}

RowsInv ==
    /\ outbox \in Seq(OutboxRow) /\ notified \in Seq(Nat) /\ Len(notified) = Len(outbox)
    /\ claimed \in [Deliverers -> SUBSET Ids]
    /\ step \in [Deliverers -> StepRow]
    /\ \A w \in Deliverers : step[w].row = 0 \/ OnCall(step[w].row)
    /\ NoticesOnce

(* A row of the same kind and, if it is a notice, as delivered as before.  *)
SameRow(x, y) ==
    /\ x.kind = y.kind
    /\ y.kind = "notice" => (x.status = "delivered" <=> y.status = "delivered")

(* A rewriting of the rows that delivers no notice and takes none back.    *)
Mild(f) == f \in [Ids -> OutboxRow] /\ \A k \in Ids : SameRow(f[k], outbox[k])

(* The table after a step: the old rows mildly rewritten, the new ones     *)
(* open, and nothing inserted for either.                                  *)
TableKept ==
    /\ outbox' \in Seq(OutboxRow) /\ notified' \in Seq(Nat) /\ Len(notified') = Len(outbox')
    /\ \A k \in Ids :
          k \in DOMAIN outbox' /\ SameRow(outbox'[k], outbox[k]) /\ notified'[k] = notified[k]
    /\ \A k \in DOMAIN outbox' \ Ids : outbox'[k].status = "open" /\ notified'[k] = 0

(* What workers have in hand after such a step.                            *)
HandsKept ==
    /\ claimed' \in [Deliverers -> SUBSET Ids]
    /\ step' \in [Deliverers -> StepRow]
    /\ \A w \in Deliverers : \/ step'[w].row \in {0, step[w].row}
                             \/ OnCall(step'[w].row)

(* Rows and hands kept: the invariant is.                                  *)
LEMMA RowsKept ==
    ASSUME RowsInv, TableKept, HandsKept
    PROVE  RowsInv'
<1>1. Ids \subseteq Ids'
  BY SMTT(60) DEF TableKept, Ids
<1>2. claimed' \in [Deliverers -> SUBSET Ids']
  BY <1>1, SMTT(60) DEF HandsKept
<1>3. \A w \in Deliverers : step'[w].row = 0 \/ OnCall(step'[w].row)
  BY DEF RowsInv, HandsKept
<1>4. \A w \in Deliverers : (step[w].row = 0 \/ OnCall(step[w].row))'
  BY <1>1, <1>3, Zenon DEF OnCall, TableKept, SameRow
<1>5. NoticesOnce'
  <2>1. SUFFICES ASSUME NEW k \in Ids'
                 PROVE  notified'[k] = IF outbox'[k].kind = "notice"
                                          /\ outbox'[k].status = "delivered" THEN 1 ELSE 0
    BY DEF NoticesOnce
  <2>2. CASE k \in Ids
    <3>1. /\ outbox'[k].kind = outbox[k].kind /\ notified'[k] = notified[k]
          /\ outbox[k].kind = "notice" =>
                (outbox'[k].status = "delivered" <=> outbox[k].status = "delivered")
      BY <2>2, SMTT(60) DEF TableKept, SameRow
    <3>2. notified[k] = IF outbox[k].kind = "notice" /\ outbox[k].status = "delivered"
                        THEN 1 ELSE 0
      BY <2>2, SMTT(60) DEF RowsInv, NoticesOnce
    <3>3. QED
      BY <3>1, <3>2, SMTT(60)
  <2>3. CASE k \notin Ids
    BY <2>1, <2>3, SMTT(60) DEF TableKept, Ids
  <2>4. QED
    BY <2>2, <2>3, SMTT(60)
<1>6. QED
  BY <1>2, <1>4, <1>5, SMTT(60) DEF RowsInv, TableKept, HandsKept

(* The rows rewritten, none added.                                         *)
LEMMA Rewrites ==
    ASSUME RowsInv, NEW f, Mild(f), outbox' = f, notified' = notified
    PROVE  TableKept
<1>1. outbox \in Seq(OutboxRow) /\ f \in [DOMAIN outbox -> OutboxRow]
  BY DEF RowsInv, Mild, Ids
<1>2. f \in Seq(OutboxRow) /\ Len(f) = Len(outbox) /\ DOMAIN f = DOMAIN outbox
  BY <1>1, Rewritten
<1>3. notified' \in Seq(Nat) /\ Len(notified') = Len(outbox')
  BY <1>2, SMTT(60) DEF RowsInv
<1>4. DOMAIN outbox' \ Ids = {}
  BY <1>2, SMTT(60) DEF Ids
<1>5. \A k \in Ids :
          k \in DOMAIN outbox' /\ SameRow(outbox'[k], outbox[k]) /\ notified'[k] = notified[k]
  BY <1>2, SMTT(60) DEF Mild, Ids
<1>6. \A k \in DOMAIN outbox' \ Ids : outbox'[k].status = "open" /\ notified'[k] = 0
  BY <1>4, SMTT(60)
<1>7. outbox' \in Seq(OutboxRow)
  BY <1>2, SMTT(60)
<1>8. QED
  BY <1>3, <1>5, <1>6, <1>7, Zenon DEF TableKept

(* The rows rewritten, and open ones added behind them.                    *)
LEMMA Grows ==
    ASSUME RowsInv, NEW f, Mild(f), NEW g \in Seq(OutboxRow),
           \A k \in DOMAIN g : g[k].status = "open",
           outbox' = f \o g, notified' = Grown(Len(g))
    PROVE  TableKept
<1> DEFINE z == [k \in 1 .. Len(g) |-> 0]
<1>1. outbox \in Seq(OutboxRow) /\ f \in [DOMAIN outbox -> OutboxRow]
  BY SMTT(60) DEF RowsInv, Mild, Ids
<1>2. f \in Seq(OutboxRow) /\ Len(f) = Len(outbox) /\ DOMAIN f = DOMAIN outbox
  BY <1>1, Rewritten, SMTT(60)
<1>3. Len(g) \in Nat /\ DOMAIN g = 1 .. Len(g) /\ Len(outbox) \in Nat
      /\ DOMAIN outbox = 1 .. Len(outbox)
  BY <1>1, LenProperties, SMTT(60)
<1>4. z \in Seq(Nat) /\ Len(z) = Len(g)
  BY <1>3
<1>5. notified' = notified \o z /\ notified \in Seq(Nat) /\ Len(notified) = Len(outbox)
  BY Zenon DEF Grown, RowsInv
<1>6. /\ outbox' \in Seq(OutboxRow) /\ Len(outbox') = Len(outbox) + Len(g)
      /\ \A k \in 1 .. Len(outbox) + Len(g) :
            outbox'[k] = IF k <= Len(outbox) THEN f[k] ELSE g[k - Len(outbox)]
  <2>1. /\ f \o g \in Seq(OutboxRow) /\ Len(f \o g) = Len(f) + Len(g)
        /\ \A k \in 1 .. Len(f) + Len(g) :
              (f \o g)[k] = IF k <= Len(f) THEN f[k] ELSE g[k - Len(f)]
    BY <1>2, ConcatProperties, Zenon
  <2>2. QED
    BY <1>2, <2>1, Zenon
<1>7. /\ notified' \in Seq(Nat) /\ Len(notified') = Len(outbox) + Len(g)
      /\ \A k \in 1 .. Len(outbox) + Len(g) :
            notified'[k] = IF k <= Len(outbox) THEN notified[k] ELSE z[k - Len(outbox)]
  <2> HIDE DEF z
  <2>1. /\ notified \o z \in Seq(Nat) /\ Len(notified \o z) = Len(notified) + Len(z)
        /\ \A k \in 1 .. Len(notified) + Len(z) :
              (notified \o z)[k] = IF k <= Len(notified) THEN notified[k]
                                   ELSE z[k - Len(notified)]
    <3> DEFINE N == Nat
    <3>1. notified \in Seq(N) /\ z \in Seq(N)
      BY <1>4, <1>5
    <3> HIDE DEF N
    <3>2. /\ notified \o z \in Seq(N) /\ Len(notified \o z) = Len(notified) + Len(z)
          /\ \A k \in 1 .. Len(notified) + Len(z) :
                (notified \o z)[k] = IF k <= Len(notified) THEN notified[k]
                                     ELSE z[k - Len(notified)]
      BY <3>1, ConcatProperties
    <3>3. QED
      BY <3>2 DEF N
  <2>2. Len(z) = Len(g) /\ Len(notified) = Len(outbox) /\ notified' = notified \o z
    BY <1>4, <1>5
  <2>3. QED
    BY <2>1, <2>2, Zenon
<1>8. DOMAIN outbox' = 1 .. Len(outbox) + Len(g)
  BY <1>6, LenProperties
<1>9. ASSUME NEW k \in Ids
      PROVE  k \in DOMAIN outbox' /\ outbox'[k] = f[k] /\ notified'[k] = notified[k]
  BY <1>3, <1>6, <1>7, <1>8, SMTT(60) DEF Ids
<1>10. ASSUME NEW k \in DOMAIN outbox' \ Ids
       PROVE  outbox'[k].status = "open" /\ notified'[k] = 0
  <2>1. k - Len(outbox) \in 1 .. Len(g) /\ ~(k <= Len(outbox))
        /\ k \in 1 .. Len(outbox) + Len(g)
    BY <1>3, <1>8 DEF Ids
  <2>2. z[k - Len(outbox)] = 0
    BY <2>1
  <2> HIDE DEF z
  <2>3. outbox'[k] = g[k - Len(outbox)] /\ notified'[k] = z[k - Len(outbox)]
    BY <1>6, <1>7, <2>1, Zenon
  <2>4. QED
    BY <1>3, <2>1, <2>2, <2>3, Zenon
<1>11. \A k \in Ids :
          k \in DOMAIN outbox' /\ SameRow(outbox'[k], outbox[k]) /\ notified'[k] = notified[k]
  BY <1>9, SMTT(60) DEF Mild
<1>12. \A k \in DOMAIN outbox' \ Ids : outbox'[k].status = "open" /\ notified'[k] = 0
  BY <1>10
<1>13. outbox' \in Seq(OutboxRow) /\ notified' \in Seq(Nat) /\ Len(notified') = Len(outbox')
  BY <1>6, <1>7
<1>14. QED
  BY <1>11, <1>12, <1>13, Zenon DEF TableKept

(* One row added.                                                          *)
LEMMA GrowsByOne ==
    ASSUME RowsInv, NEW f, Mild(f), NEW x \in OutboxRow, x.status = "open",
           outbox' = Append(f, x), notified' = Grown(1)
    PROVE  TableKept
<1> DEFINE g == <<x>>
<1>1. g \in Seq(OutboxRow) /\ Len(g) = 1 /\ \A k \in DOMAIN g : g[k].status = "open"
  OBVIOUS
<1>2. f \in Seq(OutboxRow)
  BY Rewritten, Zenon DEF RowsInv, Mild, Ids
<1>3. outbox' = f \o g
  BY <1>2, AppendIsConcat
<1> HIDE DEF g
<1>4. notified' = Grown(Len(g))
  BY <1>1
<1>5. QED
  BY <1>1, <1>3, <1>4, Grows, Zenon

(* Two rows added.                                                         *)
LEMMA GrowsByTwo ==
    ASSUME RowsInv, NEW f, Mild(f), NEW x \in OutboxRow, NEW y \in OutboxRow,
           x.status = "open", y.status = "open",
           outbox' = f \o <<x, y>>, notified' = Grown(2)
    PROVE  TableKept
<1> DEFINE g == <<x, y>>
<1>1. g \in Seq(OutboxRow) /\ Len(g) = 2 /\ \A k \in DOMAIN g : g[k].status = "open"
  OBVIOUS
<1> HIDE DEF g
<1>2. outbox' = f \o g /\ notified' = Grown(Len(g))
  BY <1>1 DEF g
<1>3. QED
  BY <1>1, <1>2, Grows, Zenon

(* A new row is open.                                                      *)
LEMMA NewRows ==
    ASSUME NEW kind \in Kinds, NEW i \in Nat
    PROVE  NewRow(kind, i) \in OutboxRow /\ NewRow(kind, i).status = "open"
BY DEF NewRow, OutboxRow

(* A row that changes its status, and is not a notice or neither was nor   *)
(* becomes delivered, is the same row.                                     *)
LEMMA StatusSet ==
    ASSUME NEW y \in OutboxRow, NEW st \in {"open", "leased", "delivered", "quarantined"},
           \/ y.kind # "notice"
           \/ st # "delivered" /\ y.status # "delivered"
    PROVE  /\ [y EXCEPT !.status = st] \in OutboxRow
           /\ SameRow([y EXCEPT !.status = st], y)
BY DEF OutboxRow, SameRow

(* A row left alone is the same row.                                       *)
LEMMA RowUnchanged ==
    ASSUME NEW y PROVE SameRow(y, y)
BY DEF SameRow

(* Stamping a row that is no notice is mild.                               *)
LEMMA StampIsMild ==
    ASSUME RowsInv, NEW k \in Ids, outbox[k].kind # "notice",
           NEW st \in {"open", "leased", "delivered", "quarantined"}
    PROVE  Mild([outbox EXCEPT ![k].status = st])
<1> DEFINE x == [outbox[k] EXCEPT !.status = st]
           f == [outbox EXCEPT ![k].status = st]
<1>0. outbox \in [Ids -> OutboxRow]
  BY LenProperties DEF RowsInv, Ids
<1>1. x \in OutboxRow /\ SameRow(x, outbox[k])
  BY <1>0, StatusSet, Zenon
<1>2. f = [outbox EXCEPT ![k] = x]
  BY <1>0
<1> HIDE DEF x, f
<1>3. /\ f \in [Ids -> OutboxRow] /\ f[k] = x
      /\ \A j \in Ids \ {k} : f[j] = outbox[j]
  BY <1>0, <1>1, <1>2, SMTT(60)
<1>4. Mild(f)
  BY <1>1, <1>3, RowUnchanged, SMTT(60) DEF Mild
<1>5. QED
  BY <1>4 DEF f

(* Leaving the rows alone is mild.                                         *)
LEMMA KeepIsMild ==
    ASSUME RowsInv PROVE Mild(outbox)
<1>1. outbox \in [Ids -> OutboxRow]
  BY LenProperties DEF RowsInv, Ids
<1>2. QED
  BY <1>1, RowUnchanged DEF Mild

(* void_preparing_request's stamps are mild.                               *)
LEMMA AbandonIsMild ==
    ASSUME RowsInv PROVE Mild(Abandoned)
<1>1. outbox \in [Ids -> OutboxRow]
  BY LenProperties DEF RowsInv, Ids
<1>2. ASSUME NEW k \in Ids
      PROVE  Abandoned[k] \in OutboxRow /\ SameRow(Abandoned[k], outbox[k])
  <2>1. CASE outbox[k].kind = "activate" /\ outbox[k].status # "delivered"
    <3>1. Abandoned[k] = [outbox[k] EXCEPT !.status = "delivered"]
      BY <2>1 DEF Abandoned
    <3>2. QED
      BY <1>1, <2>1, <3>1, StatusSet, Zenon
  <2>2. CASE ~(outbox[k].kind = "activate" /\ outbox[k].status # "delivered")
    <3>1. Abandoned[k] = outbox[k]
      BY <2>2 DEF Abandoned
    <3>2. QED
      BY <1>1, <3>1, RowUnchanged
  <2>3. QED
    BY <2>1, <2>2, SMTT(60)
<1>3. Abandoned \in [Ids -> OutboxRow]
  <2>1. Abandoned = [k \in Ids |-> Abandoned[k]]
    BY DEF Abandoned
  <2>2. QED
    BY <1>2, <2>1
<1>4. QED
  BY <1>2, <1>3 DEF Mild

(* So is taking or ending a claim on rows that are not delivered.          *)
LEMMA LeaseIsMild ==
    ASSUME RowsInv, NEW st \in {"open", "leased"},
           NEW B \in SUBSET {k \in Ids : outbox[k].status # "delivered"}
    PROVE  Mild([k \in Ids |-> IF k \in B THEN [outbox[k] EXCEPT !.status = st]
                              ELSE outbox[k]])
<1> DEFINE f == [k \in Ids |-> IF k \in B THEN [outbox[k] EXCEPT !.status = st]
                              ELSE outbox[k]]
<1>1. outbox \in [Ids -> OutboxRow]
  BY LenProperties, SMTT(60) DEF RowsInv, Ids
<1>2. ASSUME NEW k \in Ids
      PROVE  f[k] \in OutboxRow /\ SameRow(f[k], outbox[k])
  <2>1. CASE k \in B
    <3>1. f[k] = [outbox[k] EXCEPT !.status = st]
      BY <2>1
    <3>2. QED
      BY <1>1, <2>1, <3>1, StatusSet, Zenon
  <2>2. CASE k \notin B
    <3>1. f[k] = outbox[k]
      BY <2>2
    <3>2. QED
      BY <1>1, <3>1, RowUnchanged
  <2>3. QED
    BY <2>1, <2>2
<1>3. f \in [Ids -> OutboxRow]
  <2>1. f = [k \in Ids |-> f[k]]
    OBVIOUS
  <2> HIDE DEF f
  <2>2. QED
    BY <1>2, <2>1
<1> HIDE DEF f
<1>4. Mild(f)
  BY <1>2, <1>3, SMTT(60) DEF Mild
<1>5. QED
  BY <1>4 DEF f

-----------------------------------------------------------------------------
(* The hands of the workers when nobody's change.                          *)
LEMMA SameHands ==
    ASSUME RowsInv, UNCHANGED <<claimed, step>>
    PROVE  HandsKept
BY SMTT(60) DEF RowsInv, HandsKept

(* A worker that takes the next row of its batch.                          *)
LEMMA HandsTake ==
    ASSUME RowsInv, NEW w \in Deliverers, NEW k, Taken(w, k), UNCHANGED step
    PROVE  HandsKept
<1>1. claimed' \in [Deliverers -> SUBSET Ids]
  BY SMTT(60) DEF RowsInv, Taken
<1>2. QED
  BY <1>1, SMTT(60) DEF RowsInv, HandsKept

(* A worker that is done with its row.                                     *)
LEMMA HandsDone ==
    ASSUME RowsInv, NEW w \in Deliverers, StepDone(w), UNCHANGED claimed
    PROVE  HandsKept
<1>1. NoStep \in StepRow /\ NoStep.row = 0
  BY SMTT(60) DEF NoStep, StepRow
<1>2. claimed' \in [Deliverers -> SUBSET Ids] /\ step' \in [Deliverers -> StepRow]
  BY <1>1, SMTT(60) DEF RowsInv, StepDone
<1>3. step'[w] = NoStep /\ \A v \in Deliverers \ {w} : step'[v] = step[v]
  BY DEF RowsInv, StepDone
<1>4. QED
  BY <1>1, <1>2, <1>3, SMTT(60) DEF HandsKept

(* A worker that begins its call.                                          *)
LEMMA HandsCall ==
    ASSUME RowsInv, NEW w \in Deliverers, NEW k, OnCall(k), Taken(w, k),
           step' = [step EXCEPT ![w] = [row |-> k, answer |-> "awaited"]]
    PROVE  HandsKept
<1> DEFINE x == [row |-> k, answer |-> "awaited"]
<1>0. k \in Nat
  BY LenProperties, SMTT(60) DEF RowsInv, OnCall, Ids
<1>1. x \in StepRow /\ x.row = k
  BY <1>0 DEF StepRow
<1> HIDE DEF x
<1>2. claimed' \in [Deliverers -> SUBSET Ids] /\ step' \in [Deliverers -> StepRow]
  BY <1>1 DEF RowsInv, Taken, x
<1>3. step'[w] = x /\ \A v \in Deliverers \ {w} : step'[v] = step[v]
  BY DEF RowsInv, x
<1>4. QED
  BY <1>1, <1>2, <1>3, SMTT(60) DEF HandsKept

(* A worker that claims a batch.                                           *)
LEMMA HandsClaim ==
    ASSUME RowsInv, NEW w \in Deliverers, Claim(w)
    PROVE  HandsKept
<1>1. Batch \in SUBSET Ids
  BY DEF Batch, Claimable
<1>2. claimed' \in [Deliverers -> SUBSET Ids]
  BY <1>1 DEF RowsInv, Claim
<1>3. QED
  BY <1>2 DEF RowsInv, HandsKept, Claim

(* A worker that drops its batch, with whatever it was doing.              *)
LEMMA HandsDrop ==
    ASSUME RowsInv, NEW w \in Deliverers, Dropped(w)
    PROVE  HandsKept
<1>1. NoStep \in StepRow /\ NoStep.row = 0
  BY DEF NoStep, StepRow
<1>2. claimed' \in [Deliverers -> SUBSET Ids] /\ step' \in [Deliverers -> StepRow]
  BY <1>1 DEF RowsInv, Dropped
<1>3. step'[w] = NoStep /\ \A v \in Deliverers \ {w} : step'[v] = step[v]
  BY DEF RowsInv, Dropped
<1>4. QED
  BY <1>1, <1>2, <1>3, SMTT(60) DEF HandsKept

(* A worker whose call is answered, or not.                                *)
LEMMA HandsAnswered ==
    ASSUME RowsInv, NEW w \in Deliverers, NEW outcome \in Outcomes(step[w].row),
           PaykitAnswers(w, outcome)
    PROVE  HandsKept
<1>1. outcome[2] \in {"observing", "refused", "unavailable", "published", "ended"}
  BY SMTT(60) DEF Outcomes, ActivationOutcomes, VoidOutcomes
<1> DEFINE a == outcome[2]
           y == step[w]
           x == IF a = "unavailable" THEN NoStep ELSE [y EXCEPT !.answer = a]
<1>2. y \in StepRow
  BY DEF RowsInv
<1>3. step' = [step EXCEPT ![w] = x] /\ claimed' = claimed
  BY <1>2 DEF PaykitAnswers, RowsInv
<1> HIDE DEF a, y
<1>4. x \in StepRow /\ x.row \in {0, y.row}
  BY <1>1, <1>2 DEF StepRow, NoStep, a
<1> HIDE DEF x
<1>5. y = step[w]
  BY DEF y
<1>6. claimed' \in [Deliverers -> SUBSET Ids] /\ step' \in [Deliverers -> StepRow]
  BY <1>3, <1>4 DEF RowsInv
<1>7. step'[w] = x /\ \A v \in Deliverers \ {w} : step'[v] = step[v]
  BY <1>3, SMTT(60) DEF RowsInv
<1>8. QED
  BY <1>4, <1>5, <1>6, <1>7, SMTT(60) DEF HandsKept

-----------------------------------------------------------------------------
(* The table is kept by a step that does not write it.                     *)
LEMMA SameTable ==
    ASSUME RowsInv, UNCHANGED <<outbox, notified>>
    PROVE  TableKept
BY KeepIsMild, Rewrites

(* The parties and the clock.                                              *)
LEMMA PartiesRows ==
    ASSUME RowsInv, WatchInv,
           \/ ClaimsLapse \/ Bind \/ CancelUnpaid
           \/ \E i \in DOMAIN invoice : PrepareExpires(i)
    PROVE  RowsInv'
<1>0. order.invoice \in Nat /\ Len(invoice) + 1 \in Nat
  BY DEF WatchInv, OrderRow
<1>1. CASE ClaimsLapse
  <2> DEFINE B == {k \in Ids : outbox[k].status = "leased"}
  <2>1. outbox' = [k \in Ids |-> IF k \in B THEN [outbox[k] EXCEPT !.status = "open"]
                                ELSE outbox[k]]
    BY <1>1 DEF ClaimsLapse
  <2>2. B \in SUBSET {k \in Ids : outbox[k].status # "delivered"}
    OBVIOUS
  <2> HIDE DEF B
  <2>3. TableKept
    BY <1>1, <2>1, <2>2, LeaseIsMild, Rewrites, Zenon DEF ClaimsLapse
  <2>4. QED
    BY <1>1, <2>3, SameHands, RowsKept DEF ClaimsLapse
<1>2. CASE Bind
  <2> DEFINE x == NewRow("activate", Len(invoice) + 1)
  <2>1. x \in OutboxRow /\ x.status = "open"
    BY <1>0, NewRows DEF Kinds
  <2>2. outbox' = Append(outbox, x) /\ notified' = Grown(1) /\ UNCHANGED <<claimed, step>>
    BY <1>2 DEF Bind
  <2> HIDE DEF x
  <2>3. TableKept
    BY <2>1, <2>2, KeepIsMild, GrowsByOne
  <2>4. QED
    BY <2>2, <2>3, SameHands, RowsKept
<1>3. CASE CancelUnpaid
  <2> DEFINE x == NewRow("notice", 0)
             y == NewRow("void", order.invoice)
  <2>1. x \in OutboxRow /\ x.status = "open" /\ y \in OutboxRow /\ y.status = "open"
    BY <1>0, NewRows DEF Kinds
  <2>2. UNCHANGED <<claimed, step>>
    BY <1>3 DEF CancelUnpaid
  <2>3. \/ outbox' = Abandoned \o <<x, y>> /\ notified' = Grown(2)
        \/ outbox' = Append(outbox, x) /\ notified' = Grown(1)
    BY <1>3, Zenon DEF CancelUnpaid
  <2> HIDE DEF x, y
  <2>4. TableKept
    BY <2>1, <2>3, KeepIsMild, AbandonIsMild, GrowsByOne, GrowsByTwo, Zenon
  <2>5. QED
    BY <2>2, <2>4, SameHands, RowsKept
<1>4. CASE \E i \in DOMAIN invoice : PrepareExpires(i)
  BY <1>4, SameTable, SameHands, RowsKept DEF PrepareExpires
<1>5. QED
  BY <1>1, <1>2, <1>3, <1>4

(* A notice delivered: inserted unless it was, and stamped.                *)
LEMMA NotifyRows ==
    ASSUME RowsInv, NEW w \in Deliverers, NEW k \in Ids, Notify(w, k)
    PROVE  RowsInv'
<1> DEFINE x == [outbox[k] EXCEPT !.status = "delivered"]
<1>1. outbox \in [Ids -> OutboxRow] /\ notified \in [Ids -> Nat]
  BY LenProperties, Zenon DEF RowsInv, Ids
<1>2. x \in OutboxRow /\ x.kind = "notice" /\ x.status = "delivered"
  BY <1>1 DEF Notify, OutboxRow
<1>3. outbox' = [outbox EXCEPT ![k] = x]
  BY <1>1 DEF Notify, Stamped
<1>4. notified[k] \in {0, 1}
  BY SMTT(60) DEF RowsInv, NoticesOnce
<1>5. notified' = [notified EXCEPT ![k] = 1]
  BY <1>1, <1>4, Zenon DEF Notify
<1>6. HandsKept
  BY HandsTake, SMTT(60) DEF Notify
<1> HIDE DEF x
<1>7. /\ outbox' \in [Ids -> OutboxRow] /\ outbox'[k] = x
      /\ \A j \in Ids \ {k} : outbox'[j] = outbox[j]
  BY <1>1, <1>2, <1>3
<1>8. /\ notified' \in [Ids -> Nat] /\ notified'[k] = 1
      /\ \A j \in Ids \ {k} : notified'[j] = notified[j]
  BY <1>1, <1>5
<1>9. outbox' \in Seq(OutboxRow) /\ Len(outbox') = Len(outbox) /\ Ids' = Ids
  BY <1>7, Rewritten, Zenon DEF RowsInv, Ids
<1>10. notified' \in Seq(Nat) /\ Len(notified') = Len(notified)
  <2> DEFINE N == Nat
  <2>1. notified \in Seq(N) /\ DOMAIN notified = Ids /\ notified' \in [Ids -> N]
    BY <1>1, <1>8 DEF RowsInv
  <2> HIDE DEF N
  <2>2. notified' \in Seq(N) /\ Len(notified') = Len(notified)
    BY <2>1, Rewritten
  <2>3. QED
    BY <2>2 DEF N
<1>11. NoticesOnce'
  <2>1. SUFFICES ASSUME NEW j \in Ids
                 PROVE  notified'[j] = IF outbox'[j].kind = "notice"
                                          /\ outbox'[j].status = "delivered" THEN 1 ELSE 0
    BY <1>9, SMTT(60) DEF NoticesOnce
  <2>2. CASE j = k
    BY <1>2, <1>7, <1>8, <2>2, SMTT(60)
  <2>3. CASE j # k
    <3>1. outbox'[j] = outbox[j] /\ notified'[j] = notified[j]
      BY <1>7, <1>8, <2>3, SMTT(60)
    <3>2. QED
      BY <3>1, SMTT(60) DEF RowsInv, NoticesOnce
  <2>4. QED
    BY <2>2, <2>3
<1>12. \A v \in Deliverers : (step[v].row = 0 \/ OnCall(step[v].row))'
  <2>1. SUFFICES ASSUME NEW v \in Deliverers, step[v].row # 0
                 PROVE  OnCall(step[v].row)'
    BY SMTT(60) DEF Notify
  <2>2. OnCall(step[v].row) /\ step[v].row # k
    BY <2>1, Zenon DEF RowsInv, OnCall, Notify
  <2>3. QED
    BY <1>7, <1>9, <2>2, Zenon DEF OnCall, Notify
<1>13. QED
  BY <1>6, <1>9, <1>10, <1>11, <1>12, SMTT(60) DEF RowsInv, HandsKept

(* The steps of one worker.                                                *)
LEMMA WorkerRows ==
    ASSUME RowsInv, WatchInv, NEW w \in Deliverers, Touches(w)
    PROVE  RowsInv'
<1>0. order.invoice \in Nat
  BY DEF WatchInv, OrderRow
<1>a. claimed[w] \subseteq Ids
  BY DEF RowsInv
<1>1. CASE Claim(w)
  <2>1. Batch \in SUBSET {k \in Ids : outbox[k].status # "delivered"}
    BY DEF Batch, Claimable
  <2>2. TableKept
    BY <1>1, <2>1, LeaseIsMild, Rewrites, Zenon DEF Claim
  <2>3. QED
    BY <1>1, <2>2, HandsClaim, RowsKept
<1>2. ASSUME NEW k \in claimed[w], Notify(w, k)
      PROVE  RowsInv'
  BY <1>a, <1>2, NotifyRows, SMTT(60)
<1>3. ASSUME NEW k \in claimed[w], Quarantine(w, k)
      PROVE  RowsInv'
  <2> DEFINE st == IF outbox[k].status = "delivered" THEN outbox[k].status ELSE "quarantined"
  <2>1. st \in {"open", "leased", "delivered", "quarantined"}
    OBVIOUS
  <2>2. outbox \in [Ids -> OutboxRow]
    BY LenProperties DEF RowsInv, Ids
  <2>3. outbox' = [outbox EXCEPT ![k].status = st] /\ k \in Ids /\ outbox[k].kind # "notice"
    BY <1>a, <1>3, <2>2 DEF Quarantine
  <2> HIDE DEF st
  <2>4. TableKept
    BY <1>3, <2>1, <2>3, StampIsMild, Rewrites, Zenon DEF Quarantine
  <2>5. QED
    BY <1>3, <2>4, HandsTake, RowsKept DEF Quarantine
<1>4. ASSUME NEW k \in claimed[w], BeginActivation(w, k)
      PROVE  RowsInv'
  <2> DEFINE x == NewRow("void", order.invoice)
  <2>1. x \in OutboxRow /\ x.status = "open"
    BY <1>0, NewRows, SMTT(60) DEF Kinds
  <2>2. OnCall(k) /\ k \in Ids /\ outbox[k].kind # "notice" /\ Taken(w, k)
    BY <1>a, <1>4 DEF BeginActivation, OnCall
  <2>3. \/ outbox' = Stamped(k) /\ UNCHANGED <<step, notified>>
        \/ outbox' = Append(Abandoned, x) /\ notified' = Grown(1) /\ UNCHANGED step
        \/ /\ step' = [step EXCEPT ![w] = [row |-> k, answer |-> "awaited"]]
           /\ UNCHANGED <<outbox, notified>>
    BY <1>4 DEF BeginActivation
  <2> HIDE DEF x
  <2>4. CASE outbox' = Stamped(k) /\ UNCHANGED <<step, notified>>
    BY <2>2, <2>4, StampIsMild, Rewrites, HandsTake, RowsKept, Zenon DEF Stamped
  <2>5. CASE outbox' = Append(Abandoned, x) /\ notified' = Grown(1) /\ UNCHANGED step
    BY <2>1, <2>2, <2>5, AbandonIsMild, GrowsByOne, HandsTake, RowsKept, Zenon
  <2>6. CASE /\ step' = [step EXCEPT ![w] = [row |-> k, answer |-> "awaited"]]
             /\ UNCHANGED <<outbox, notified>>
    BY <2>2, <2>6, SameTable, HandsCall, RowsKept, Zenon
  <2>7. QED
    BY <2>3, <2>4, <2>5, <2>6, Zenon
<1>5. ASSUME NEW k \in claimed[w], BeginVoid(w, k)
      PROVE  RowsInv'
  <2>1. OnCall(k)
    BY <1>a, <1>5, Zenon DEF BeginVoid, OnCall
  <2>2. QED
    BY <1>5, <2>1, SameTable, HandsCall, RowsKept, Zenon DEF BeginVoid
<1>6. ASSUME NEW k \in claimed[w], GiveUpVoid(w, k)
      PROVE  RowsInv'
  <2>1. k \in Ids /\ outbox[k].kind # "notice" /\ outbox' = Stamped(k) /\ Taken(w, k)
        /\ UNCHANGED <<step, notified>>
    BY <1>a, <1>6, Zenon DEF GiveUpVoid
  <2>2. QED
    BY <2>1, StampIsMild, Rewrites, HandsTake, RowsKept, Zenon DEF Stamped
<1>7. CASE Activated(w) \/ ActivationRefused(w) \/ VoidAnswered(w)
  <2> DEFINE r == step[w].row
             x == NewRow("notice", 0)
  <2>1. r \in Ids /\ outbox[r].kind # "notice"
    BY <1>7, Zenon DEF RowsInv, OnCall, Activated, ActivationRefused, VoidAnswered, Answered
  <2>2. x \in OutboxRow /\ x.status = "open"
    BY NewRows DEF Kinds
  <2>3. StepDone(w) /\ UNCHANGED claimed
    BY <1>7, Zenon DEF Activated, ActivationRefused, VoidAnswered
  <2>4. \/ outbox' = Stamped(r) /\ UNCHANGED notified
        \/ outbox' = Append(Stamped(r), x) /\ notified' = Grown(1)
    BY <1>7, Zenon DEF Activated, ActivationRefused, VoidAnswered
  <2> HIDE DEF r, x
  <2>5. Mild(Stamped(r))
    BY <2>1, StampIsMild, Zenon DEF Stamped
  <2>6. TableKept
    BY <2>2, <2>4, <2>5, Rewrites, GrowsByOne, SMTT(60)
  <2>7. QED
    BY <2>3, <2>6, HandsDone, RowsKept
<1>8. ASSUME NEW outcome \in Outcomes(step[w].row), PaykitAnswers(w, outcome)
      PROVE  RowsInv'
  BY <1>8, SameTable, HandsAnswered, RowsKept, Zenon DEF PaykitAnswers
<1>9. CASE Dropped(w) /\ UNCHANGED <<outbox, notified, order, invoice, released>>
  BY <1>9, SameTable, HandsDrop, RowsKept, SMTT(60)
<1>10. QED
  BY <1>1, <1>2, <1>3, <1>4, <1>5, <1>6, <1>7, <1>8, <1>9, Zenon DEF Touches

(* The first rows: one undeliverable, perhaps an activation.               *)
LEMMA InitRows ==
    ASSUME DeliveryInit
    PROVE  RowsInv
<1> DEFINE a == NewRow("malformed", 0)
           b == NewRow("activate", 1)
<1>1. OutboxInit
  BY DEF DeliveryInit
<1>2. /\ a \in OutboxRow /\ a.kind # "notice"
      /\ b \in OutboxRow /\ b.kind # "notice"
  BY SMTT(60) DEF NewRow, OutboxRow, Kinds
<1>3. outbox = <<a>> \/ outbox = <<a, b>>
  BY <1>1, SMTT(60) DEF OutboxInit
<1> HIDE DEF a, b
<1>4. /\ outbox \in Seq(OutboxRow) /\ DOMAIN outbox = 1 .. Len(outbox)
      /\ \A k \in DOMAIN outbox : outbox[k].kind # "notice"
  <2>1. CASE outbox = <<a>>
    BY <1>2, <2>1, SMTT(60)
  <2>2. CASE outbox = <<a, b>>
    BY <1>2, <2>2, SMTT(60)
  <2> QED
    BY <1>3, <2>1, <2>2, Zenon
<1>5. notified \in Seq(Nat) /\ Len(notified) = Len(outbox)
  BY <1>1, <1>4, SMTT(60) DEF OutboxInit
<1>6. \A k \in DOMAIN outbox : notified[k] = 0
  BY <1>1, SMTT(60) DEF OutboxInit
<1>7. NoticesOnce
  BY <1>4, <1>6, SMTT(60) DEF NoticesOnce, Ids
<1>8. NoStep \in StepRow /\ NoStep.row = 0
  BY SMTT(60) DEF NoStep, StepRow
<1>9. /\ claimed \in [Deliverers -> SUBSET Ids] /\ step \in [Deliverers -> StepRow]
      /\ \A w \in Deliverers : step[w].row = 0
  BY <1>1, <1>8, SMTT(60) DEF OutboxInit
<1>10. QED
  BY <1>4, <1>5, <1>7, <1>9, SMTT(60) DEF RowsInv

(* Every step keeps the rows and what workers have in hand of them.        *)
LEMMA NextRows ==
    ASSUME RowsInv, WatchInv, OutboxNext
    PROVE  RowsInv'
BY DeliveryAssumption, WorkerRows, PartiesRows, SMTT(60) DEF OutboxNext

-----------------------------------------------------------------------------
(* Both invariants hold of every behaviour of the outbox: the rows and the *)
(* hands of the workers fit together, and every invoice is watched,        *)
(* although claims lapse, workers die and Paykit answers late.             *)
THEOREM OutboxSound == DeliverySpec => [](WatchInv /\ RowsInv)
<1>1. DeliveryInit => WatchInv /\ RowsInv
  BY InitWatched, InitRows
<1>2. WatchInv /\ RowsInv /\ [DeliveryNext]_deliveryVars => (WatchInv /\ RowsInv)'
  <2>1. SUFFICES ASSUME WatchInv, RowsInv, [DeliveryNext]_deliveryVars
                 PROVE  WatchInv' /\ RowsInv'
    OBVIOUS
  <2>2. CASE OutboxNext
    BY <2>1, <2>2, NextWatched, NextRows
  <2>3. CASE UNCHANGED outboxVars
    <3>1. WatchInv'
      BY <2>1, <2>3, SMTT(60) DEF outboxVars, WatchInv, Watched
    <3>2. RowsInv'
      BY <2>1, <2>3, Zenon DEF outboxVars, RowsInv, OnCall, Ids, NoticesOnce
    <3>3. QED
      BY <3>1, <3>2
  <2>4. QED
    BY <2>1, <2>2, <2>3, OnTheOutbox
<1>3. QED
  BY <1>1, <1>2, PTL DEF DeliverySpec

(* What Paykit published stays watched, by the order it was prepared for   *)
(* or as a released attempt, for any workers, batches, binds and faults.   *)
THEOREM PublishedStaysWatched == DeliverySpec => []PublishedIsWatched
<1>1. WatchInv => PublishedIsWatched
  BY SMTT(60) DEF WatchInv, Watched, PublishedIsWatched
<1>2. QED
  BY <1>1, OutboxSound, PTL

(* A notice is inserted once exactly when its row is stamped, for any      *)
(* workers, batches, binds and faults: insert and mark commit together.    *)
THEOREM NoticesInsertedOnce == DeliverySpec => []NoticesOnce
<1>1. RowsInv => NoticesOnce
  BY DEF RowsInv
<1>2. QED
  BY <1>1, OutboxSound, PTL

=============================================================================
