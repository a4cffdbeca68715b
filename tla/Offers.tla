------------------------------- MODULE Offers -------------------------------
(***************************************************************************)
(* Offers on one listing: a buyer proposes terms, the parties counter each *)
(* other, one accepts the other's terms and the accepted offer becomes an  *)
(* award, whose units wait in a reservation until the buyer checks out or  *)
(* the award's window ends.                                                *)
(*                                                                         *)
(* A command that needs the seller's record fetches it from the homeserver *)
(* before it locks the offer: Start is what it reads, and the commit is a  *)
(* step of its own.  The seller edits, deletes and re-creates the listing  *)
(* meanwhile.                                                              *)
(***************************************************************************)
EXTENDS Integers, FiniteSets

CONSTANTS
    OfferIds,      \* the offers buyers may make, each by a buyer of its own
    Commands,      \* the commands in flight
    Proposals,     \* the terms a party may propose: [amount, quantity]
    Records,       \* the records the seller publishes one after the other:
                   \* Records[v] is [quantity, shipping, pickup]
    MaxRevision,   \* bound: the revisions of an offer
    MaxLife        \* bound: how often the listing is created

ASSUME ProposalsType == Proposals \subseteq [amount : Nat, quantity : Nat \ {0}]
ASSUME RecordsType ==
    Records \in [1..Cardinality(DOMAIN Records) ->
                    [quantity : Nat, shipping : Nat, pickup : BOOLEAN]]
ASSUME FirstRecord == 1 \in DOMAIN Records
ASSUME BoundsType == MaxRevision \in Nat /\ MaxLife \in Nat

VARIABLES
    record,     \* the version published at the homeserver, 0 when deleted
    newest,     \* the last version published
    listing,    \* the row of listings: quantities, deleted_at, generation
    offer,      \* the rows of offers, with their reservation, their order and,
                \* as history, what the accepting party had in front of them
    cmd         \* what each command in flight has read

vars == <<record, newest, listing, offer, cmd>>

Versions == DOMAIN Records
Parties  == {"buyer", "seller"}
Other(party) == IF party = "buyer" THEN "seller" ELSE "buyer"

NoTerms == [amount |-> 0, quantity |-> 0]
NothingSeen == [terms |-> NoTerms, known |-> 0]
NoOffer ==
    [state |-> "none", rev |-> 0, by |-> "buyer", terms |-> NoTerms, known |-> 0,
     made |-> 0, window |-> "open", hold |-> "none", award |-> 0,
     order |-> "none", total |-> 0, seen |-> NothingSeen]
(* A row in a final state is never read again for its other columns.       *)
Final(state) == [NoOffer EXCEPT !.state = state]
Idle ==
    [kind |-> "idle", of |-> "none", by |-> "buyer", rev |-> 0,
     seen |-> NothingSeen, got |-> 0]

Init ==
    /\ record = 1 /\ newest = 1
    /\ listing = [available |-> Records[1].quantity, reserved |-> 0, sold |-> 0,
                  deleted |-> FALSE, life |-> 1]
    /\ offer = [o \in OfferIds |-> NoOffer]
    /\ cmd = [c \in Commands |-> Idle]

-----------------------------------------------------------------------------
(* The listing, and the seller's record of it.                             *)

(* The seller replaces or deletes the record at the homeserver.            *)
SellerWrites ==
    /\ \/ newest + 1 \in Versions /\ newest' = newest + 1 /\ record' = newest + 1
       \/ record # 0 /\ record' = 0 /\ newest' = newest
    /\ UNCHANGED <<listing, offer, cmd>>

(* The tombstone of a listing whose record is gone keeps its quantities.   *)
Tombstone ==
    /\ record = 0 /\ ~listing.deleted
    /\ listing' = [listing EXCEPT !.deleted = TRUE]
    /\ UNCHANGED <<record, newest, offer, cmd>>

(* A sync of the published record: its quantity, less what is committed.   *)
SyncRecord ==
    LET committed == listing.reserved + listing.sold
    IN  /\ record # 0
        /\ Records[record].quantity >= committed
        /\ listing.deleted => listing.life < MaxLife
        /\ listing' = [listing EXCEPT
              !.available = Records[record].quantity - committed,
              !.life = IF listing.deleted THEN @ + 1 ELSE @,
              !.deleted = FALSE]
        /\ UNCHANGED <<record, newest, offer, cmd>>

(* A commitment made against an earlier life of the listing takes nothing. *)
AcceptsAnyLife(made) == ~listing.deleted  \* faulty: forgets recreated_at
AcceptsCommitment(made) == ~listing.deleted /\ made >= listing.life

-----------------------------------------------------------------------------
(* Negotiation.                                                            *)

Negotiating == {"pending", "countered"}

(* The new row is decided by what the command reads: the listing, and the  *)
(* record if the homeserver gives it.  Nothing is looked at again when it  *)
(* commits.                                                                *)
Create(o) ==
    /\ offer[o] = NoOffer
    /\ ~listing.deleted
    /\ \E p \in Proposals, got \in {record, 0} :
          /\ listing.available >= p.quantity
          /\ offer' = [offer EXCEPT ![o] = [NoOffer EXCEPT
                !.state = "pending", !.rev = 1, !.terms = p, !.known = got,
                !.made = listing.life]]
    /\ UNCHANGED <<record, newest, listing, cmd>>

Shown(o) == [terms |-> offer[o].terms, known |-> offer[o].known]

(* What a command reads before it locks the offer.  The client acts on the *)
(* revision it has seen, the command's clock is read when it starts, and a *)
(* record that cannot be had refuses it.                                   *)
Start(c, o) ==
    /\ cmd[c] = Idle
    /\ offer[o].state \in Negotiating /\ offer[o].window = "open"
    /\ record # 0
    /\ \E kind \in {"counter", "accept"} :
          cmd' = [cmd EXCEPT ![c] = [Idle EXCEPT
             !.kind = kind, !.of = o, !.by = Other(offer[o].by), !.rev = offer[o].rev,
             !.seen = IF kind = "accept" THEN Shown(o) ELSE NothingSeen,
             !.got = record]]
    /\ UNCHANGED <<record, newest, listing, offer>>

(* A command that was refused, or whose connection was lost.               *)
Refused(c) ==
    /\ cmd[c] # Idle
    /\ cmd' = [cmd EXCEPT ![c] = Idle]
    /\ UNCHANGED <<record, newest, listing, offer>>

(* The offer is still open to the party, at the revision it has seen.      *)
ActionableAtAnyRevision(q) ==   \* faulty: forgets expected_revision
    offer[q.of].state \in Negotiating /\ q.by # offer[q.of].by
Actionable(q) ==
    /\ offer[q.of].state \in Negotiating
    /\ q.rev = offer[q.of].rev
    /\ q.by # offer[q.of].by

(* New terms, priced by the record just fetched, and a new window.         *)
Counter(c) ==
    LET q == cmd[c] o == cmd[c].of
    IN  /\ q.kind = "counter" /\ Actionable(q)
        /\ offer[o].rev < MaxRevision
        /\ AcceptsCommitment(offer[o].made)
        /\ \E p \in Proposals :
              /\ p.quantity <= Records[q.got].quantity
              /\ p.quantity <= listing.available
              /\ offer' = [offer EXCEPT ![o].state = "countered", ![o].rev = @ + 1,
                    ![o].by = q.by, ![o].terms = p, ![o].known = q.got,
                    ![o].window = "open"]
        /\ cmd' = [cmd EXCEPT ![c] = Idle]
        /\ UNCHANGED <<record, newest, listing>>

(* The record in hand is the one the terms were made under, if they were   *)
(* made under one, and the units are still on the shelf.                   *)
Awardable(q) ==
    /\ offer[q.of].known \in {0, q.got}
    /\ offer[q.of].terms.quantity <= Records[q.got].quantity
    /\ offer[q.of].terms.quantity <= listing.available

Accept(c) ==
    LET q == cmd[c] o == cmd[c].of
    IN  /\ q.kind = "accept" /\ Actionable(q) /\ Awardable(q)
        /\ AcceptsCommitment(offer[o].made)
        /\ listing' = [listing EXCEPT !.available = @ - offer[o].terms.quantity,
                                      !.reserved = @ + offer[o].terms.quantity]
        /\ offer' = [offer EXCEPT ![o].state = "accepted", ![o].rev = @ + 1,
                         ![o].window = "open", ![o].hold = "active",
                         ![o].award = q.got,
                         ![o].seen = q.seen]
        /\ cmd' = [cmd EXCEPT ![c] = Idle]
        /\ UNCHANGED <<record, newest>>

(* reject by the party the terms were made to, withdraw by their author:   *)
(* both are one transaction and look at nothing else.                      *)
RejectOrWithdraw(o) ==
    /\ offer[o].state \in Negotiating /\ offer[o].window = "open"
    /\ \E state \in {"rejected", "withdrawn"} :
          offer' = [offer EXCEPT ![o] = Final(state)]
    /\ UNCHANGED <<record, newest, listing, cmd>>

(* Server time reaches the end of the negotiation or of the award.         *)
WindowEnds(o) ==
    /\ offer[o].state \in Negotiating \union {"accepted"}
    /\ offer[o].window = "open"
    /\ offer' = [offer EXCEPT ![o].window = "over"]
    /\ UNCHANGED <<record, newest, listing, cmd>>

ExpireOffer(o) ==
    /\ offer[o].state \in Negotiating /\ offer[o].window = "over"
    /\ offer' = [offer EXCEPT ![o] = Final("expired")]
    /\ UNCHANGED <<record, newest, listing, cmd>>

-----------------------------------------------------------------------------
(* The award.                                                              *)

(* reserved -> available.                                                  *)
ToShelfUnreserved(n) ==         \* faulty: forgets the reserved column
    [listing EXCEPT !.available = @ + n]
ToShelf(n) == [listing EXCEPT !.available = @ + n, !.reserved = @ - n]

(* The list of due awards is read before; the row is locked and looked at  *)
(* again.                                                                  *)
ExpireAward(o) ==
    /\ offer[o].state = "accepted" /\ offer[o].window = "over"
    /\ offer[o].hold = "active"
    /\ listing.reserved >= offer[o].terms.quantity
    /\ listing' = ToShelf(offer[o].terms.quantity)
    /\ offer' = [offer EXCEPT ![o] = Final("expired")]
    /\ UNCHANGED <<record, newest, cmd>>

(* The buyer names the award in every particular; the methods and the      *)
(* shipping are the accepted record's.                                     *)
Checkout(o, pickup) ==
    LET kept == Records[offer[o].award]
    IN  /\ offer[o].state = "accepted" /\ offer[o].window = "open"
        /\ offer[o].hold = "active"
        /\ AcceptsCommitment(offer[o].made)
        /\ listing.reserved >= offer[o].terms.quantity
        /\ pickup => kept.pickup
        /\ offer' = [offer EXCEPT ![o].state = "converted", ![o].rev = @ + 1,
              ![o].hold = "converted", ![o].order = "held",
              ![o].total = offer[o].terms.amount * offer[o].terms.quantity
                              + (IF pickup THEN 0 ELSE kept.shipping)]
        /\ UNCHANGED <<record, newest, listing, cmd>>

(* The order from here on is like any other: its hold is sold or released. *)
OrderSettles(o) ==
    /\ offer[o].order = "held"
    /\ listing' \in {ToShelf(offer[o].terms.quantity),
                    [listing EXCEPT !.sold = @ + offer[o].terms.quantity,
                                    !.reserved = @ - offer[o].terms.quantity]}
    /\ offer' = [offer EXCEPT ![o] = [Final("converted") EXCEPT !.order = "settled"]]
    /\ UNCHANGED <<record, newest, cmd>>

Next ==
    \/ SellerWrites \/ Tombstone \/ SyncRecord
    \/ \E c \in Commands :
          \/ \E o \in OfferIds : Start(c, o)
          \/ Counter(c) \/ Accept(c) \/ Refused(c)
    \/ \E o \in OfferIds :
          \/ Create(o) \/ RejectOrWithdraw(o) \/ WindowEnds(o) \/ ExpireOffer(o) \/ ExpireAward(o)
          \/ \E pickup \in BOOLEAN : Checkout(o, pickup)
          \/ OrderSettles(o)

Spec == Init /\ [][Next]_vars

-----------------------------------------------------------------------------
(* Nobody is bound to terms they did not see: an award carries the terms   *)
(* the accepting party had in front of them, priced by the record those    *)
(* terms were made under, whatever was countered or published while the    *)
(* command ran; and the order charges them, with that record's shipping    *)
(* or, for a pickup, none (accept, offer_checkout::handle).                *)
AwardIsAgreed ==
    \A o \in OfferIds :
        LET row == offer[o] seen == offer[o].seen
        IN  /\ row.state = "accepted" \/ row.order = "held" =>
                  /\ row.terms = seen.terms
                  /\ seen.known # 0 => row.award = seen.known
            /\ row.order = "held" =>
                  row.total \in {seen.terms.amount * seen.terms.quantity + extra :
                                    extra \in {0, Records[row.award].shipping}}

(* The units a row holds in a reservation, and all of them, one by one.    *)
UnitsOf(row) ==
    IF row.hold = "active" \/ row.order = "held" THEN row.terms.quantity ELSE 0
Units == UNION {{o} \X (1 .. UnitsOf(offer[o])) : o \in OfferIds}

(* The reserved column is exactly what the standing awards and their       *)
(* unpaid orders hold, through counters, edits, deletion and re-creation   *)
(* of the listing: a checkout in its window never finds its units gone,    *)
(* and no unit stays reserved for nobody (accept, expire_due_award,        *)
(* offer_checkout::handle).                                                *)
AwardsBacked == listing.reserved = Cardinality(Units)

(* A listing created again at a deleted id sells to nobody who made their  *)
(* offer on the deleted one: such an offer is never accepted, and an award *)
(* won before is never turned into an order (accepts_commitment_created_at *)
(* in accept and offer_checkout::handle).                                  *)
RevivedIsNew ==
    [][\A o \in OfferIds :
          (offer'[o].state # offer[o].state
             /\ offer'[o].state \in {"accepted", "converted"})
          => offer[o].made = listing.life]_vars

=============================================================================
