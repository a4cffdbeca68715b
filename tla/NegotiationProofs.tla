------------------------- MODULE NegotiationProofs --------------------------
(***************************************************************************)
(* Theorems about the two ways in which a price is not the listed one.     *)
(*                                                                         *)
(* Offers, for any offers, proposals, records and commands in flight: an   *)
(* award is what the accepting party saw, a listing created anew sells     *)
(* nothing that was offered on the one before, and the units the listing   *)
(* has reserved are those of the awards and their orders.  AwardIsAgreed   *)
(* is not inductive by itself.  What makes it so is the expected revision: *)
(* an acceptance in flight at the offer's own revision has in front of it  *)
(* the very terms the offer carries, because every counter raises the      *)
(* revision past what any command has read.                                *)
(*                                                                         *)
(* Auctions, for any bidders, prices, increments, reservations and stock:  *)
(* the leader and the price are those of a second-price auction over the   *)
(* table of bids, the auction over a listing with stock implements the     *)
(* bidding, and the winner's hold is kept while their money waits.         *)
(***************************************************************************)
EXTENDS Offers, AuctionHold, FiniteSetTheorems, TLAPS

States == {"none", "pending", "countered", "accepted", "converted",
           "rejected", "withdrawn", "expired"}
Known == {0} \union Versions
Terms == [amount : Nat, quantity : Nat]
Seen == [terms : Terms, known : Known]

Row == [state : States, rev : Nat, by : Parties, terms : Terms, known : Known,
        made : Nat, window : {"open", "over"}, hold : {"none", "active", "converted"},
        award : Known, order : {"none", "held", "settled"}, total : Nat, seen : Seen]

Command == [kind : {"idle", "counter", "accept"}, of : OfferIds \union {"none"},
            by : Parties, rev : Nat, seen : Seen, got : Known]

Typed ==
    /\ record \in Known
    /\ listing.life \in Nat
    /\ offer \in [OfferIds -> Row]
    /\ cmd \in [Commands -> Command]

(* What AwardIsAgreed says of one row; that an award names a record the    *)
(* seller published, and that only a converted offer has an order.         *)
Agreed(row) ==
    /\ row.state = "accepted" \/ row.order = "held" =>
          /\ row.terms = row.seen.terms
          /\ row.seen.known # 0 => row.award = row.seen.known
    /\ row.order = "held" =>
          row.total \in {row.seen.terms.amount * row.seen.terms.quantity + extra :
                            extra \in {0, Records[row.award].shipping}}
    /\ row.order = "held" => row.state = "converted"
    /\ row.state = "accepted" => row.award \in Versions

(* What a command has read of its offer, seen from the row as it is now.   *)
Fits(q, row) ==
    /\ row.state # "none"
    /\ row.state \in Negotiating =>
          /\ q.rev <= row.rev
          /\ q.kind = "accept" /\ q.rev = row.rev =>
                q.seen = [terms |-> row.terms, known |-> row.known]

CommandFits(q) ==
    q.kind # "idle" => q.of \in OfferIds /\ q.got \in Versions /\ Fits(q, offer[q.of])

AgreedInv ==
    /\ Typed
    /\ \A o \in OfferIds : Agreed(offer[o]) /\ offer[o].made <= listing.life
    /\ \A c \in Commands : CommandFits(cmd[c])

(* What RevivedIsNew says of one step.                                     *)
Revives ==
    \A o \in OfferIds :
       (offer'[o].state # offer[o].state
          /\ offer'[o].state \in {"accepted", "converted"})
       => offer[o].made = listing.life

-----------------------------------------------------------------------------
(* A step that leaves the offers alone: the listing's life only grows, and *)
(* a command that is not as it was is idle.                                *)
LEMMA OffersKept ==
    ASSUME AgreedInv, offer' = offer, record' \in Known,
           listing'.life \in Nat, listing.life <= listing'.life,
           cmd' \in [Commands -> Command],
           \A c \in Commands : cmd'[c] = cmd[c] \/ cmd'[c] = Idle
    PROVE  AgreedInv' /\ Revives
<1>1. Typed'
  BY DEF AgreedInv, Typed
<1>2. \A o \in OfferIds : (Agreed(offer[o]) /\ offer[o].made <= listing.life)'
  <2>1. \A o \in OfferIds : offer[o].made \in Nat
    BY DEF AgreedInv, Typed, Row
  <2>2. QED
    BY <2>1, SMTT(60) DEF AgreedInv, Typed, Agreed
<1>3. \A c \in Commands : CommandFits(cmd[c])'
  BY SMTT(60) DEF AgreedInv, CommandFits, Fits, Idle
<1>4. QED
  BY <1>1, <1>2, <1>3 DEF AgreedInv, Revives

(* One row is replaced.  A negotiation goes on at the same terms or at a   *)
(* higher revision, or begins.                                             *)
LEMMA RowReplaced ==
    ASSUME AgreedInv, NEW o \in OfferIds, NEW r \in Row,
           offer' = [offer EXCEPT ![o] = r],
           Agreed(r), r.state # "none", r.made <= listing.life,
           r.state \in {"accepted", "converted"} /\ r.state # offer[o].state =>
               offer[o].made = listing.life,
           r.state \in Negotiating =>
               \/ offer[o].state = "none"
               \/ /\ offer[o].state \in Negotiating
                  /\ \/ offer[o].rev < r.rev
                     \/ /\ r.rev = offer[o].rev
                        /\ r.terms = offer[o].terms /\ r.known = offer[o].known,
           record' = record, listing'.life = listing.life,
           \A c \in Commands : cmd'[c] = cmd[c] \/ cmd'[c] = Idle,
           cmd' \in [Commands -> Command]
    PROVE  AgreedInv' /\ Revives
<1>0. /\ offer'[o] = r /\ offer' \in [OfferIds -> Row]
      /\ \A p \in OfferIds \ {o} : offer'[p] = offer[p]
  BY DEF AgreedInv, Typed
<1>1. Typed'
  BY <1>0 DEF AgreedInv, Typed
<1>2. \A p \in OfferIds : (Agreed(offer[p]) /\ offer[p].made <= listing.life)'
  BY <1>0, SMTT(60) DEF AgreedInv, Agreed
<1>3. \A c \in Commands : CommandFits(cmd[c])'
  <2>1. SUFFICES ASSUME NEW c \in Commands, cmd'[c] = cmd[c], cmd[c].kind # "idle"
                 PROVE  /\ cmd[c].of \in OfferIds /\ cmd[c].got \in Versions
                        /\ Fits(cmd[c], offer'[cmd[c].of])
    BY SMTT(60) DEF CommandFits, Idle, Fits
  <2>2. /\ cmd[c].of \in OfferIds /\ cmd[c].got \in Versions
        /\ Fits(cmd[c], offer[cmd[c].of])
    BY <2>1, Zenon DEF AgreedInv, CommandFits
  <2>3. CASE cmd[c].of # o
    BY <1>0, <2>2, <2>3, Zenon
  <2>4. CASE cmd[c].of = o
    <3>1. /\ cmd[c].rev \in Nat /\ r.rev \in Nat /\ offer[o].rev \in Nat
      BY Zenon DEF AgreedInv, Typed, Row, Command
    <3>2. Fits(cmd[c], r)
      BY <2>2, <2>4, <3>1 DEF Fits
    <3>3. QED
      BY <1>0, <2>2, <2>4, <3>2
  <2>5. QED
    BY <2>3, <2>4, Zenon
<1>4. Revives
  BY <1>0 DEF Revives
<1>5. QED
  BY <1>1, <1>2, <1>3, <1>4 DEF AgreedInv

-----------------------------------------------------------------------------
(* A row in a final state, and the terms somebody proposed.                *)
LEMMA FinalRow ==
    ASSUME NEW st \in States \ {"accepted"}
    PROVE  /\ Final(st) \in Row /\ Final(st).state = st
           /\ Final(st).order = "none" /\ Final(st).made = 0 /\ Final(st).hold = "none"
           /\ Agreed(Final(st))
BY DEF Final, NoOffer, NothingSeen, NoTerms, Row, Seen, Terms, Known, Parties, Agreed

(* The row of an offer that was not made yet is typed.                     *)
LEMMA NoOfferIsRow == NoOffer \in Row
BY DEF NoOffer, NothingSeen, NoTerms, Row, Seen, Terms, Known, Parties, States

(* A command that is not running is typed.                                 *)
LEMMA IdleIsCommand == Idle \in Command
BY DEF Idle, NothingSeen, NoTerms, Command, Seen, Terms, Known, Parties

(* What a party may propose are terms.                                     *)
LEMMA ProposalsAreTerms == Proposals \subseteq Terms
BY ProposalsType DEF Terms

(* The records' columns.                                                   *)
LEMMA RecordColumns ==
    \A v \in Versions : Records[v].shipping \in Nat /\ Records[v].quantity \in Nat
BY RecordsType, Zenon DEF Versions

-----------------------------------------------------------------------------
(* The seller's record, and the listing that follows it.                   *)
LEMMA ListingSteps ==
    ASSUME AgreedInv, SellerWrites \/ Tombstone \/ SyncRecord
    PROVE  AgreedInv' /\ Revives
<1>0. cmd \in [Commands -> Command] /\ listing.life \in Nat /\ record \in Known
  BY DEF AgreedInv, Typed
<1>1. CASE SellerWrites
  <2>1. record' \in Known
    BY <1>1 DEF SellerWrites, Known
  <2>2. QED
    BY <1>0, <1>1, <2>1, OffersKept DEF SellerWrites
<1>2. CASE Tombstone
  BY <1>0, <1>2, OffersKept DEF Tombstone
<1>3. CASE SyncRecord
  <2>1. listing'.life \in Nat /\ listing.life <= listing'.life
    BY <1>0, <1>3 DEF SyncRecord
  <2>2. QED
    BY <1>0, <1>3, <2>1, OffersKept DEF SyncRecord
<1>4. QED
  BY <1>1, <1>2, <1>3

(* A command that is refused is idle again.                                *)
LEMMA RefusedStep ==
    ASSUME AgreedInv, NEW c \in Commands, Refused(c)
    PROVE  AgreedInv' /\ Revives
<1>1. /\ cmd' \in [Commands -> Command]
      /\ \A d \in Commands : cmd'[d] = cmd[d] \/ cmd'[d] = Idle
  BY IdleIsCommand DEF AgreedInv, Typed, Refused
<1>2. QED
  BY <1>1, OffersKept DEF AgreedInv, Typed, Refused

(* What a command reads when it starts is the row as it is.                *)
LEMMA StartStep ==
    ASSUME AgreedInv, NEW c \in Commands, NEW o \in OfferIds, Start(c, o)
    PROVE  AgreedInv' /\ Revives
<1>1. PICK kind \in {"counter", "accept"} :
         cmd' = [cmd EXCEPT ![c] = [Idle EXCEPT
             !.kind = kind, !.of = o, !.by = Other(offer[o].by), !.rev = offer[o].rev,
             !.seen = IF kind = "accept" THEN Shown(o) ELSE NothingSeen,
             !.got = record]]
  BY Zenon DEF Start
<1> DEFINE q == [Idle EXCEPT
             !.kind = kind, !.of = o, !.by = Other(offer[o].by), !.rev = offer[o].rev,
             !.seen = IF kind = "accept" THEN Shown(o) ELSE NothingSeen,
             !.got = record]
<1>2. /\ offer[o] \in Row /\ record \in Versions /\ offer[o].state \in Negotiating
      /\ UNCHANGED <<record, listing, offer>>
  BY DEF AgreedInv, Typed, Start, Known
<1>3. Shown(o) \in Seen /\ NothingSeen \in Seen /\ Other(offer[o].by) \in Parties
  BY <1>2 DEF Shown, Row, Seen, NothingSeen, NoTerms, Terms, Known, Other, Parties
<1>4. /\ q \in Command
      /\ q.kind = kind /\ q.of = o /\ q.rev = offer[o].rev /\ q.got = record
      /\ kind = "accept" => q.seen = Shown(o)
  BY <1>2, <1>3, Zenon DEF Idle, Command, Row, Known
<1> HIDE DEF q
<1>5. /\ cmd' \in [Commands -> Command] /\ cmd'[c] = q
      /\ \A d \in Commands \ {c} : cmd'[d] = cmd[d]
  BY <1>1, <1>4 DEF AgreedInv, Typed, q
<1>6. Typed'
  BY <1>2, <1>5 DEF AgreedInv, Typed
<1>7. \A p \in OfferIds : (Agreed(offer[p]) /\ offer[p].made <= listing.life)'
  BY <1>2, SMTT(60) DEF AgreedInv, Agreed
<1>8. CommandFits(q)
  <2>1. offer[o].rev \in Nat
    BY <1>2 DEF Row
  <2>2. QED
    BY <1>2, <1>4, <2>1 DEF CommandFits, Fits, Shown, Negotiating
<1>9. \A d \in Commands : CommandFits(cmd[d])'
  BY <1>2, <1>5, <1>8, SMTT(60) DEF AgreedInv, CommandFits, Fits
<1>10. QED
  BY <1>2, <1>6, <1>7, <1>9, Zenon DEF AgreedInv, Revives

-----------------------------------------------------------------------------
(* The negotiation.                                                        *)
LEMMA CreateStep ==
    ASSUME AgreedInv, NEW o \in OfferIds, Create(o)
    PROVE  AgreedInv' /\ Revives
<1>1. PICK p \in Proposals, got \in {record, 0} :
         offer' = [offer EXCEPT ![o] = [NoOffer EXCEPT
                !.state = "pending", !.rev = 1, !.terms = p, !.known = got,
                !.made = listing.life]]
  BY Zenon DEF Create
<1> DEFINE r == [NoOffer EXCEPT !.state = "pending", !.rev = 1, !.terms = p, !.known = got,
                !.made = listing.life]
<1>2. /\ offer[o].state = "none" /\ UNCHANGED <<record, listing, cmd>>
      /\ listing.life \in Nat /\ record \in Known /\ cmd \in [Commands -> Command]
  BY DEF AgreedInv, Typed, Create, NoOffer
<1>3. p \in Terms /\ got \in Known
  BY <1>2, ProposalsAreTerms DEF Known
<1>4. r \in Row
  BY <1>2, <1>3, NoOfferIsRow, Zenon DEF Row, NoOffer, States
<1>5. r.state = "pending" /\ r.order = "none" /\ r.made = listing.life
  BY DEF NoOffer
<1>6. offer' = [offer EXCEPT ![o] = r]
  BY <1>1
<1> HIDE DEF r
<1>7. Agreed(r) /\ r.made <= listing.life
  BY <1>2, <1>5 DEF Agreed
<1>8. QED
  BY <1>2, <1>4, <1>5, <1>6, <1>7, RowReplaced, Zenon

(* What a command that commits knows of its offer.                         *)
LEMMA CommandRow ==
    ASSUME AgreedInv, NEW c \in Commands, cmd[c].kind # "idle"
    PROVE  /\ cmd[c].of \in OfferIds /\ cmd[c].got \in Versions
           /\ offer[cmd[c].of] \in Row /\ cmd[c] \in Command
           /\ Agreed(offer[cmd[c].of]) /\ offer[cmd[c].of].made <= listing.life
           /\ Fits(cmd[c], offer[cmd[c].of])
BY DEF AgreedInv, Typed, CommandFits

(* Rows a counter and an acceptance write.                                 *)
Countered(x, b, p, v) ==
    [x EXCEPT !.state = "countered", !.rev = @ + 1, !.by = b, !.terms = p,
              !.known = v, !.window = "open"]

Accepted(x, v, z) ==
    [x EXCEPT !.state = "accepted", !.rev = @ + 1, !.window = "open",
              !.hold = "active", !.award = v, !.seen = z]

(* A countered row: new terms at the next revision.                        *)
LEMMA CounteredRow ==
    ASSUME NEW x \in Row, NEW b \in Parties, NEW p \in Terms, NEW v \in Known
    PROVE  /\ Countered(x, b, p, v) \in Row
           /\ Countered(x, b, p, v).state = "countered"
           /\ x.rev < Countered(x, b, p, v).rev
           /\ Countered(x, b, p, v).order = x.order
           /\ Countered(x, b, p, v).made = x.made /\ Countered(x, b, p, v).hold = x.hold
<1>1. x.rev \in Nat
  BY DEF Row
<1>2. x.rev + 1 \in Nat /\ x.rev < x.rev + 1
  BY <1>1
<1>3. QED
  BY <1>2, Zenon DEF Countered, Row, States

(* An accepted row: the terms as they were, and what was seen.             *)
LEMMA AcceptedRow ==
    ASSUME NEW x \in Row, NEW v \in Known, NEW z \in Seen
    PROVE  /\ Accepted(x, v, z) \in Row
           /\ Accepted(x, v, z).state = "accepted" /\ Accepted(x, v, z).hold = "active"
           /\ Accepted(x, v, z).order = x.order /\ Accepted(x, v, z).made = x.made
           /\ Accepted(x, v, z).terms = x.terms
           /\ Accepted(x, v, z).award = v /\ Accepted(x, v, z).seen = z
<1>1. x.rev + 1 \in Nat
  BY DEF Row
<1>2. QED
  BY <1>1, Zenon DEF Accepted, Row, States

(* A counter raises the revision past what any command has read.           *)
LEMMA CounterStep ==
    ASSUME AgreedInv, NEW c \in Commands, Counter(c)
    PROVE  AgreedInv' /\ Revives
<1> DEFINE q == cmd[c]
           o == cmd[c].of
<1>0. /\ q.kind = "counter" /\ offer[o].state \in Negotiating
      /\ cmd' = [cmd EXCEPT ![c] = Idle] /\ UNCHANGED <<record, listing>>
  BY Zenon DEF Counter, Actionable
<1>1. PICK p \in Proposals :
         offer' = [offer EXCEPT ![o].state = "countered", ![o].rev = @ + 1,
                    ![o].by = q.by, ![o].terms = p, ![o].known = q.got,
                    ![o].window = "open"]
  BY Zenon DEF Counter
<1>2. /\ o \in OfferIds /\ q.got \in Versions /\ offer[o] \in Row /\ q \in Command
      /\ Agreed(offer[o]) /\ offer[o].made <= listing.life
  BY <1>0, CommandRow, Zenon
<1> DEFINE r == Countered(offer[o], q.by, p, q.got)
<1>3. p \in Terms /\ q.got \in Known /\ q.by \in Parties
  BY <1>2, ProposalsAreTerms, Zenon DEF Known, Command
<1>5. /\ r \in Row /\ r.state = "countered" /\ offer[o].rev < r.rev
      /\ r.order = offer[o].order /\ r.made = offer[o].made
  BY <1>2, <1>3, CounteredRow, SMTT(60)
<1>7. offer' = [offer EXCEPT ![o] = r]
  BY <1>1, <1>2, Zenon DEF AgreedInv, Typed, Row, Countered
<1> HIDE DEF r
<1>8. Agreed(r) /\ r.made <= listing.life
  BY <1>0, <1>2, <1>5, Zenon DEF Agreed, Negotiating
<1>10. /\ cmd' \in [Commands -> Command]
       /\ \A d \in Commands : cmd'[d] = cmd[d] \/ cmd'[d] = Idle
  BY <1>0, IdleIsCommand, Zenon DEF AgreedInv, Typed
<1>11. QED
  BY <1>0, <1>2, <1>5, <1>7, <1>8, <1>10, RowReplaced, Zenon

(* An acceptance at the offer's revision has seen the offer's terms, and   *)
(* an offer is accepted in the life of the listing it was made in.         *)
LEMMA AcceptStep ==
    ASSUME AgreedInv, NEW c \in Commands, Accept(c)
    PROVE  AgreedInv' /\ Revives
<1> DEFINE q == cmd[c]
           o == cmd[c].of
<1>0. /\ q.kind = "accept" /\ offer[o].state \in Negotiating /\ q.rev = offer[o].rev
      /\ offer[o].known \in {0, q.got} /\ offer[o].made >= listing.life
      /\ cmd' = [cmd EXCEPT ![c] = Idle] /\ UNCHANGED record
      /\ offer' = [offer EXCEPT ![o].state = "accepted", ![o].rev = @ + 1,
                         ![o].window = "open", ![o].hold = "active",
                         ![o].award = q.got, ![o].seen = q.seen]
  BY Zenon DEF Accept, Actionable, Awardable, AcceptsCommitment
<1>1. listing'.life = listing.life
  <2>1. listing' = [listing EXCEPT !.available = @ - offer[o].terms.quantity,
                                   !.reserved = @ + offer[o].terms.quantity]
    BY Zenon DEF Accept
  <2>2. QED
    BY <2>1
<1>2. /\ o \in OfferIds /\ q.got \in Versions /\ offer[o] \in Row /\ q \in Command
      /\ Agreed(offer[o]) /\ offer[o].made <= listing.life
      /\ q.seen = [terms |-> offer[o].terms, known |-> offer[o].known]
  BY <1>0, CommandRow, Zenon DEF Fits
<1> DEFINE r == Accepted(offer[o], q.got, q.seen)
<1>3. q.seen \in Seen /\ q.got \in Known
  BY <1>2, Zenon DEF Known, Command
<1>6. /\ r \in Row /\ r.state = "accepted" /\ r.order = offer[o].order
      /\ r.made = offer[o].made /\ r.terms = offer[o].terms
      /\ r.award = q.got /\ r.seen = q.seen
  BY <1>2, <1>3, AcceptedRow, SMTT(60)
<1>7. offer' = [offer EXCEPT ![o] = r]
  BY <1>0, <1>2, ZenonT(60) DEF AgreedInv, Typed, Row, Accepted
<1> HIDE DEF r
<1>8. Agreed(r) /\ r.made <= listing.life
  <2>1. offer[o].order # "held"
    BY <1>0, <1>2, Zenon DEF Agreed, Negotiating
  <2>2. r.seen.terms = r.terms /\ r.seen.known = offer[o].known
    BY <1>2, <1>6, SMTT(60)
  <2>3. QED
    BY <1>0, <1>2, <1>6, <2>1, <2>2, Zenon DEF Agreed
<1>9. offer[o].made = listing.life
  <2>0. offer[o].made >= listing.life /\ offer[o].made <= listing.life
    BY <1>0, <1>2, Zenon
  <2>1. offer[o].made \in Nat /\ listing.life \in Nat
    BY <1>2, Zenon DEF Row, AgreedInv, Typed
  <2>2. QED
    BY <2>1, <2>0
<1>10. /\ cmd' \in [Commands -> Command]
       /\ \A d \in Commands : cmd'[d] = cmd[d] \/ cmd'[d] = Idle
  BY <1>0, IdleIsCommand, Zenon DEF AgreedInv, Typed
<1>11. r.state \notin Negotiating
  BY <1>6 DEF Negotiating
<1>12. QED
  BY <1>0, <1>1, <1>2, <1>6, <1>7, <1>8, <1>9, <1>10, <1>11, RowReplaced, Zenon

-----------------------------------------------------------------------------
(* A step that writes a final row: nothing of an award is left.            *)
LEMMA FinalStep ==
    ASSUME AgreedInv, NEW o \in OfferIds, NEW st \in {"rejected", "withdrawn", "expired"},
           offer' = [offer EXCEPT ![o] = Final(st)],
           UNCHANGED <<record, cmd>>, listing'.life = listing.life
    PROVE  AgreedInv' /\ Revives
<1>1. /\ Final(st) \in Row /\ Final(st).state = st /\ Final(st).made = 0
      /\ Agreed(Final(st))
  BY FinalRow, Zenon DEF States
<1>2. /\ listing.life \in Nat /\ record \in Known /\ cmd \in [Commands -> Command]
  BY DEF AgreedInv, Typed
<1>3. Final(st).made <= listing.life
  BY <1>1, <1>2
<1>4. st \notin Negotiating
  BY DEF Negotiating
<1>5. QED
  BY <1>1, <1>2, <1>3, <1>4, RowReplaced, Zenon

(* The end of a negotiation, and of an award that was not used.            *)
LEMMA EndSteps ==
    ASSUME AgreedInv, NEW o \in OfferIds,
           RejectOrWithdraw(o) \/ ExpireOffer(o) \/ ExpireAward(o)
    PROVE  AgreedInv' /\ Revives
<1>1. CASE RejectOrWithdraw(o)
  BY <1>1, FinalStep, Zenon DEF RejectOrWithdraw
<1>2. CASE ExpireOffer(o)
  BY <1>2, FinalStep, Zenon DEF ExpireOffer
<1>3. CASE ExpireAward(o)
  <2>1. listing'.life = listing.life
    BY <1>3 DEF ExpireAward, ToShelf
  <2>2. QED
    BY <1>3, <2>1, FinalStep, Zenon DEF ExpireAward
<1>4. QED
  BY <1>1, <1>2, <1>3, Zenon

(* A window that ends leaves the terms and the revision alone.             *)
LEMMA WindowStep ==
    ASSUME AgreedInv, NEW o \in OfferIds, WindowEnds(o)
    PROVE  AgreedInv' /\ Revives
<1> DEFINE x == offer[o]
           r == [x EXCEPT !.window = "over"]
<1>0. /\ offer' = [offer EXCEPT ![o].window = "over"] /\ UNCHANGED <<record, listing, cmd>>
      /\ x.state \in Negotiating \union {"accepted"}
  BY DEF WindowEnds
<1>1. /\ x \in Row /\ Agreed(x) /\ x.made <= listing.life
      /\ record \in Known /\ cmd \in [Commands -> Command]
  BY DEF AgreedInv, Typed
<1>2. offer' = [offer EXCEPT ![o] = r]
  BY <1>0 DEF AgreedInv, Typed
<1> HIDE DEF x
<1>3. r \in Row
  BY <1>1 DEF Row
<1>4. /\ r.state = x.state /\ r.rev = x.rev /\ r.terms = x.terms /\ r.known = x.known
      /\ r.order = x.order /\ r.made = x.made /\ r.award = x.award /\ r.seen = x.seen
      /\ r.total = x.total
  BY <1>1 DEF Row
<1> HIDE DEF r
<1>5. Agreed(r)
  BY <1>1, <1>4, Zenon DEF Agreed
<1>6. r.state # "none"
  BY <1>0, <1>4 DEF Negotiating
<1>7. x = offer[o]
  BY DEF x
<1>8. QED
  BY <1>0, <1>1, <1>2, <1>3, <1>4, <1>5, <1>6, <1>7, RowReplaced, Zenon

(* The row of an award that was checked out.                               *)
Bought(x, n) ==
    [x EXCEPT !.state = "converted", !.rev = @ + 1, !.hold = "converted",
              !.order = "held", !.total = n]

(* It keeps what was agreed.                                               *)
LEMMA BoughtRow ==
    ASSUME NEW x \in Row, NEW n \in Nat
    PROVE  /\ Bought(x, n) \in Row
           /\ Bought(x, n).state = "converted" /\ Bought(x, n).order = "held"
           /\ Bought(x, n).made = x.made /\ Bought(x, n).terms = x.terms
           /\ Bought(x, n).award = x.award /\ Bought(x, n).seen = x.seen
           /\ Bought(x, n).total = n /\ Bought(x, n).hold = "converted"
<1>1. x.rev + 1 \in Nat
  BY DEF Row
<1>2. QED
  BY <1>1, Zenon DEF Bought, Row, States

(* What an offer's checkout charges.                                       *)
Charge(x, pickup) ==
    x.terms.amount * x.terms.quantity
       + (IF pickup THEN 0 ELSE Records[x.award].shipping)

(* A checkout charges what was agreed, in the life the offer was made in.  *)
LEMMA CheckoutStep ==
    ASSUME AgreedInv, NEW o \in OfferIds, NEW pickup \in BOOLEAN, Checkout(o, pickup)
    PROVE  AgreedInv' /\ Revives
<1> DEFINE x == offer[o]
           n == Charge(x, pickup)
           r == Bought(x, n)
<1>0. /\ x.state = "accepted" /\ x.made >= listing.life
      /\ UNCHANGED <<record, listing, cmd>>
  BY Zenon DEF Checkout, AcceptsCommitment
<1>1. /\ x \in Row /\ Agreed(x) /\ x.made <= listing.life /\ listing.life \in Nat
      /\ record \in Known /\ cmd \in [Commands -> Command]
  BY DEF AgreedInv, Typed
<1>2. offer' = [offer EXCEPT ![o] = r]
  <2>1. offer' = [offer EXCEPT ![o].state = "converted", ![o].rev = @ + 1,
              ![o].hold = "converted", ![o].order = "held",
              ![o].total = Charge(offer[o], pickup)]
    BY Zenon DEF Checkout, Charge
  <2>2. QED
    BY <1>1, <2>1, Zenon DEF Bought, AgreedInv, Typed
<1>n. n \in Nat
  <2>1. x.award \in Versions
    BY <1>0, <1>1, Zenon DEF Agreed
  <2>2. x.terms.amount \in Nat /\ x.terms.quantity \in Nat
    BY <1>1, Zenon DEF Row, Terms
  <2>3. x.terms.amount * x.terms.quantity \in Nat /\ Records[x.award].shipping \in Nat
    BY <2>1, <2>2, RecordColumns
  <2>4. QED
    BY <2>3 DEF Charge
<1>3. /\ r \in Row /\ r.state = "converted" /\ r.order = "held" /\ r.made = x.made
      /\ r.terms = x.terms /\ r.award = x.award /\ r.seen = x.seen /\ r.total = n
  BY <1>1, <1>n, BoughtRow, SMTT(60)
<1> HIDE DEF r
<1>4. x.terms = x.seen.terms /\ (x.seen.known # 0 => x.award = x.seen.known)
  BY <1>0, <1>1, Zenon DEF Agreed
<1>5. n \in {x.seen.terms.amount * x.seen.terms.quantity + extra :
                 extra \in {0, Records[x.award].shipping}}
  BY <1>4, Zenon DEF Charge
<1> HIDE DEF n, x
<1>6. Agreed(r)
  BY <1>3, <1>4, <1>5, Zenon DEF Agreed
<1>7. x.made = listing.life
  <2>1. x.made \in Nat
    BY <1>1 DEF Row
  <2>2. QED
    BY <1>0, <1>1, <2>1
<1>8. x = offer[o] /\ r.state \notin Negotiating
  BY <1>3, Zenon DEF x, Negotiating
<1>9. QED
  BY <1>0, <1>1, <1>2, <1>3, <1>6, <1>7, <1>8, RowReplaced, Zenon

(* The order of a checked-out award is settled, and its row is final.      *)
LEMMA SettleStep ==
    ASSUME AgreedInv, NEW o \in OfferIds, OrderSettles(o)
    PROVE  AgreedInv' /\ Revives
<1> DEFINE r == [Final("converted") EXCEPT !.order = "settled"]
<1>0. /\ offer' = [offer EXCEPT ![o] = r] /\ UNCHANGED <<record, cmd>>
      /\ offer[o].order = "held"
  BY DEF OrderSettles
<1>1. listing'.life = listing.life
  <2> DEFINE n == offer[o].terms.quantity
             Back == ToShelf(n)
             Gone == [listing EXCEPT !.sold = @ + n, !.reserved = @ - n]
  <2>0. listing' \in {Back, Gone}
    BY DEF OrderSettles
  <2> HIDE DEF Back, Gone
  <2>1. listing' = Back \/ listing' = Gone
    BY <2>0
  <2>2. Back.life = listing.life /\ Gone.life = listing.life
    BY DEF Back, Gone, ToShelf
  <2>3. QED
    BY <2>1, <2>2
<1>2. /\ record \in Known /\ cmd \in [Commands -> Command] /\ listing.life \in Nat
      /\ offer[o].state = "converted"
  BY <1>0, Zenon DEF AgreedInv, Typed, Agreed
<1>3. r \in Row
  BY FinalRow, ZenonT(60)
  DEF Final, NoOffer, NothingSeen, NoTerms, Row, Seen, Terms, Known, Parties, States
<1>4. r.state = "converted" /\ r.order = "settled" /\ r.made = 0
  BY DEF Final, NoOffer
<1> HIDE DEF r
<1>5. Agreed(r) /\ r.made <= listing.life /\ r.state \notin Negotiating
  BY <1>2, <1>4, SMTT(60) DEF Agreed, Negotiating
<1>6. QED
  BY <1>0, <1>1, <1>2, <1>3, <1>4, <1>5, RowReplaced, Zenon

-----------------------------------------------------------------------------
(* Before the first offer nothing is agreed.                               *)
LEMMA InitAgreed ==
    ASSUME Init
    PROVE  AgreedInv
<1>1. /\ listing.life = 1 /\ offer = [o \in OfferIds |-> NoOffer]
      /\ cmd = [c \in Commands |-> Idle] /\ record = 1
  BY DEF Init
<1>2. Typed
  BY <1>1, FirstRecord, NoOfferIsRow, IdleIsCommand DEF Typed, Known, Versions
<1>3. /\ NoOffer.state = "none" /\ NoOffer.order = "none" /\ NoOffer.made = 0
      /\ Idle.kind = "idle"
  BY Zenon DEF NoOffer, Idle
<1>4. Agreed(NoOffer) /\ NoOffer.made <= 1
  BY <1>3 DEF Agreed
<1>5. \A o \in OfferIds : Agreed(offer[o]) /\ offer[o].made <= listing.life
  BY <1>1, <1>4
<1>6. \A c \in Commands : CommandFits(cmd[c])
  BY <1>1, <1>3 DEF CommandFits
<1>7. QED
  BY <1>2, <1>5, <1>6, Zenon DEF AgreedInv

(* Every step keeps the invariant, and revives nothing.                    *)
LEMMA NextAgreed ==
    ASSUME AgreedInv, [Next]_vars
    PROVE  AgreedInv' /\ Revives
<1>1. CASE UNCHANGED vars
  BY <1>1, OffersKept DEF vars, AgreedInv, Typed
<1>2. CASE SellerWrites \/ Tombstone \/ SyncRecord
  BY <1>2, ListingSteps
<1>3. CASE \E c \in Commands : \/ \E o \in OfferIds : Start(c, o)
                               \/ Counter(c) \/ Accept(c) \/ Refused(c)
  BY <1>3, StartStep, CounterStep, AcceptStep, RefusedStep
<1>4. CASE \E o \in OfferIds :
             \/ Create(o) \/ RejectOrWithdraw(o) \/ WindowEnds(o) \/ ExpireOffer(o)
             \/ ExpireAward(o) \/ (\E pickup \in BOOLEAN : Checkout(o, pickup))
             \/ OrderSettles(o)
  BY <1>4, CreateStep, EndSteps, WindowStep, CheckoutStep, SettleStep
<1>5. QED
  BY <1>1, <1>2, <1>3, <1>4 DEF Next

(* The revision fence of offers.rs holds in every reachable state: what a  *)
(* command in flight has read is older than the row, or is the row.        *)
THEOREM FencedByRevision == Spec => []AgreedInv
<1>1. Init => AgreedInv
  BY InitAgreed
<1>2. AgreedInv /\ [Next]_vars => AgreedInv'
  BY NextAgreed
<1>3. QED
  BY <1>1, <1>2, PTL DEF Spec

(* Nobody is bound to terms they did not see (accept), and the order       *)
(* charges the agreed terms with the accepted record's shipping or none    *)
(* (offer_checkout::handle), for any number of offers and commands.        *)
THEOREM AwardsAreAgreed == Spec => []AwardIsAgreed
<1>1. AgreedInv => AwardIsAgreed
  BY Zenon DEF AgreedInv, Agreed, AwardIsAgreed
<1>2. QED
  BY <1>1, FencedByRevision, PTL

(* A listing created again at a deleted id sells to no offer made on the   *)
(* deleted one (accepts_commitment_created_at in accept and                *)
(* offer_checkout::handle).                                                *)
THEOREM RevivedListingsAreNew == Spec => RevivedIsNew
<1>1. AgreedInv /\ [Next]_vars => [Revives]_vars
  BY NextAgreed
<1>2. Spec => [][Revives]_vars
  BY <1>1, FencedByRevision, PTL DEF Spec
<1>3. QED
  BY <1>2 DEF RevivedIsNew, Revives

-----------------------------------------------------------------------------
(* What the listing's row holds.                                           *)
Shelf == [available : Nat, reserved : Nat, sold : Nat, deleted : BOOLEAN, life : Nat]

(* A hold is active exactly while its award waits for checkout.            *)
Reserves(row) == row.hold = "active" <=> row.state = "accepted"

(* AwardsBacked with what makes it inductive: the types, and that an offer *)
(* holds units in one way only.  Being finite is part of it: no assumption *)
(* says that there are finitely many offers.                               *)
BackedInv ==
    /\ AgreedInv
    /\ listing \in Shelf
    /\ \A o \in OfferIds : Reserves(offer[o])
    /\ IsFiniteSet(Units)
    /\ AwardsBacked

(* The n units of one offer, as pairs.                                     *)
Block(o, n) == {o} \X (1 .. n)

(* n units of one offer are n units.                                       *)
LEMMA BlockSize ==
    ASSUME NEW x, NEW n \in Nat
    PROVE  IsFiniteSet(Block(x, n)) /\ Cardinality(Block(x, n)) = n
<1> DEFINE one == {x}
           upto == 1 .. n
<1>1. IsFiniteSet(one) /\ Cardinality(one) = 1
  BY FS_Singleton
<1>2. IsFiniteSet(upto) /\ Cardinality(upto) = n
  BY FS_Interval
<1> HIDE DEF one, upto
<1>3. /\ IsFiniteSet(one \X upto)
      /\ Cardinality(one \X upto) = Cardinality(one) * Cardinality(upto)
  BY <1>1, <1>2, FS_Product
<1>4. Cardinality(one \X upto) = n
  BY <1>1, <1>2, <1>3
<1> QED
  BY <1>3, <1>4 DEF one, upto, Block

(* An offer keeps a number of units reserved.                              *)
LEMMA UnitsAreNat ==
    ASSUME NEW row \in Row
    PROVE  UnitsOf(row) \in Nat
BY DEF Row, Terms, UnitsOf

(* The units reserved are those of one offer and those of all the others.  *)
LEMMA OthersUnits ==
    ASSUME BackedInv, NEW o \in OfferIds
    PROVE  LET rest == UNION {Block(p, UnitsOf(offer[p])) : p \in OfferIds \ {o}}
           IN  /\ IsFiniteSet(rest) /\ Cardinality(rest) \in Nat
               /\ listing.reserved = Cardinality(rest) + UnitsOf(offer[o])
               /\ \A n \in Nat : /\ IsFiniteSet(rest \union Block(o, n))
                                 /\ Cardinality(rest \union Block(o, n)) = Cardinality(rest) + n
<1> DEFINE rest == UNION {Block(p, UnitsOf(offer[p])) : p \in OfferIds \ {o}}
<1>1. Units = rest \union Block(o, UnitsOf(offer[o]))
  BY DEF Units, Block
<1>2. \A n \in Nat : rest \cap Block(o, n) = {}
  BY DEF Block
<1> HIDE DEF rest
<1>3. IsFiniteSet(rest)
  BY <1>1, FS_Subset DEF BackedInv
<1>4. Cardinality(rest) \in Nat
  BY <1>3, FS_CardinalityType
<1>5. ASSUME NEW n \in Nat
      PROVE  /\ IsFiniteSet(rest \union Block(o, n))
             /\ Cardinality(rest \union Block(o, n)) = Cardinality(rest) + n
  <2>1. IsFiniteSet(Block(o, n)) /\ Cardinality(Block(o, n)) = n
    BY BlockSize
  <2>2. /\ IsFiniteSet(rest \union Block(o, n))
        /\ Cardinality(rest \union Block(o, n))
              = Cardinality(rest) + Cardinality(Block(o, n)) - Cardinality(rest \cap Block(o, n))
    BY <1>3, <2>1, FS_Union, Zenon
  <2>3. Cardinality(rest \cap Block(o, n)) = 0
    BY <1>2, FS_EmptySet
  <2> QED
    BY <1>4, <2>1, <2>2, <2>3
<1>6. UnitsOf(offer[o]) \in Nat
  BY UnitsAreNat, Zenon DEF BackedInv, AgreedInv, Typed
<1>7. listing.reserved = Cardinality(rest) + UnitsOf(offer[o])
  BY <1>1, <1>5, <1>6, Zenon DEF BackedInv, AwardsBacked
<1> QED
  BY <1>3, <1>4, <1>5, <1>7, Zenon DEF rest

(* When one offer is written, the listing reserves as many more or fewer   *)
(* units as that offer keeps.                                              *)
LEMMA RowBacked ==
    ASSUME BackedInv, AgreedInv', NEW o \in OfferIds, NEW r \in Row,
           offer' = [offer EXCEPT ![o] = r], Reserves(r), listing' \in Shelf,
           listing'.reserved + UnitsOf(offer[o]) = listing.reserved + UnitsOf(r)
    PROVE  BackedInv'
<1> DEFINE rest == UNION {Block(p, UnitsOf(offer[p])) : p \in OfferIds \ {o}}
<1>1. offer'[o] = r /\ \A p \in OfferIds \ {o} : offer'[p] = offer[p]
  BY Zenon DEF BackedInv, AgreedInv, Typed
<1>2. \A p \in OfferIds : Reserves(offer'[p])
  BY <1>1 DEF BackedInv
<1>3. Units' = rest \union Block(o, UnitsOf(r))
  <2>1. Units' = UNION {Block(p, UnitsOf(offer'[p])) : p \in OfferIds}
    BY DEF Units, Block
  <2>2. rest = UNION {Block(p, UnitsOf(offer'[p])) : p \in OfferIds \ {o}}
    BY <1>1
  <2> QED
    BY <1>1, <2>1, <2>2
<1>4. /\ IsFiniteSet(rest) /\ Cardinality(rest) \in Nat
      /\ listing.reserved = Cardinality(rest) + UnitsOf(offer[o])
      /\ \A n \in Nat : /\ IsFiniteSet(rest \union Block(o, n))
                        /\ Cardinality(rest \union Block(o, n)) = Cardinality(rest) + n
  BY OthersUnits, Zenon
<1>5. UnitsOf(r) \in Nat /\ UnitsOf(offer[o]) \in Nat
  BY UnitsAreNat, Zenon DEF BackedInv, AgreedInv, Typed
<1>6. listing'.reserved \in Nat
  BY DEF Shelf
<1> HIDE DEF rest
<1>7. IsFiniteSet(Units') /\ Cardinality(Units') = Cardinality(rest) + UnitsOf(r)
  BY <1>3, <1>4, <1>5, Zenon
<1>8. AwardsBacked'
  <2>1. listing'.reserved = Cardinality(rest) + UnitsOf(r)
    BY <1>4, <1>5, <1>6
  <2> QED
    BY <1>7, <2>1 DEF AwardsBacked
<1> QED
  BY <1>2, <1>7, <1>8, Zenon DEF BackedInv

(* A step that writes no offer leaves the units it reserves.               *)
LEMMA ShelfMoved ==
    ASSUME BackedInv, AgreedInv', offer' = offer, listing' \in Shelf,
           listing'.reserved = listing.reserved
    PROVE  BackedInv'
<1>1. Units' = Units
  BY Zenon DEF Units
<1> QED
  BY <1>1 DEF BackedInv, AwardsBacked

(* The seller's writes and the record sync change what is available, never *)
(* what is reserved (apply_registration).                                  *)
LEMMA ListingBacked ==
    ASSUME BackedInv, AgreedInv', SellerWrites \/ Tombstone \/ SyncRecord
    PROVE  BackedInv'
<1>0. listing \in Shelf
  BY DEF BackedInv
<1>1. CASE SellerWrites
  BY <1>0, <1>1, ShelfMoved DEF SellerWrites
<1>2. CASE Tombstone
  <2>1. listing' = [listing EXCEPT !.deleted = TRUE] /\ offer' = offer
    BY <1>2 DEF Tombstone
  <2>2. listing' \in Shelf /\ listing'.reserved = listing.reserved
    BY <1>0, <2>1, Zenon DEF Shelf
  <2> QED
    BY <2>1, <2>2, ShelfMoved
<1>3. CASE SyncRecord
  <2> DEFINE committed == listing.reserved + listing.sold
             a == Records[record].quantity - committed
             n == IF listing.deleted THEN listing.life + 1 ELSE listing.life
  <2>1. /\ record # 0 /\ Records[record].quantity >= committed /\ offer' = offer
        /\ listing' = [listing EXCEPT !.available = a, !.life = n, !.deleted = FALSE]
    BY <1>3 DEF SyncRecord
  <2>2. listing.reserved \in Nat /\ listing.sold \in Nat /\ listing.life \in Nat
    BY <1>0 DEF Shelf
  <2>3. Records[record].quantity \in Nat
    BY <2>1, RecordColumns DEF BackedInv, AgreedInv, Typed, Known
  <2>4. a \in Nat /\ n \in Nat
    BY <2>1, <2>2, <2>3
  <2> HIDE DEF a, n
  <2>5. listing' \in Shelf /\ listing'.reserved = listing.reserved
    BY <1>0, <2>1, <2>4, Zenon DEF Shelf
  <2> QED
    BY <2>1, <2>5, ShelfMoved
<1> QED
  BY <1>1, <1>2, <1>3

(* An offer written anew with the same units leaves the listing as it is.  *)
LEMMA NothingHeld ==
    ASSUME BackedInv, AgreedInv', NEW o \in OfferIds, NEW r \in Row,
           offer' = [offer EXCEPT ![o] = r], Reserves(r), listing' = listing,
           UnitsOf(offer[o]) = UnitsOf(r)
    PROVE  BackedInv'
BY RowBacked, Zenon DEF BackedInv

(* An offer under negotiation reserves nothing.                            *)
LEMMA NegotiatingHoldsNothing ==
    ASSUME BackedInv, NEW o \in OfferIds,
           offer[o].state \in Negotiating \union {"none"}
    PROVE  /\ offer[o] \in Row /\ offer[o].hold # "active" /\ offer[o].order # "held"
           /\ UnitsOf(offer[o]) = 0
<1>1. offer[o] \in Row /\ offer[o].hold # "active" /\ offer[o].order # "held"
  BY Zenon DEF BackedInv, Reserves, AgreedInv, Typed, Agreed, Negotiating
<1> QED
  BY <1>1 DEF UnitsOf

(* offers::create reserves nothing.                                        *)
LEMMA CreateBacked ==
    ASSUME BackedInv, AgreedInv', NEW o \in OfferIds, Create(o)
    PROVE  BackedInv'
<1>1. PICK p \in Proposals, got \in {record, 0} :
         offer' = [offer EXCEPT ![o] = [NoOffer EXCEPT
                !.state = "pending", !.rev = 1, !.terms = p, !.known = got,
                !.made = listing.life]]
  BY Zenon DEF Create
<1> DEFINE r == [NoOffer EXCEPT !.state = "pending", !.rev = 1, !.terms = p, !.known = got,
                !.made = listing.life]
<1>2. /\ offer[o].state = "none" /\ listing' = listing
      /\ listing.life \in Nat /\ record \in Known
  BY DEF BackedInv, AgreedInv, Typed, Create, NoOffer
<1>3. p \in Terms /\ got \in Known
  BY <1>2, ProposalsAreTerms DEF Known
<1>4. r \in Row
  BY <1>2, <1>3, NoOfferIsRow, Zenon DEF Row, NoOffer, States
<1>5. r.state = "pending" /\ r.order = "none" /\ r.hold = "none"
  BY DEF NoOffer
<1>6. offer' = [offer EXCEPT ![o] = r]
  BY <1>1
<1> HIDE DEF r
<1>7. Reserves(r) /\ UnitsOf(r) = 0
  BY <1>5 DEF Reserves, UnitsOf
<1> QED
  BY <1>2, <1>4, <1>6, <1>7, NegotiatingHoldsNothing, NothingHeld, Zenon

(* offers::counter reserves nothing: the offer is under negotiation before *)
(* and after it.                                                           *)
LEMMA CounterBacked ==
    ASSUME BackedInv, AgreedInv', NEW c \in Commands, Counter(c)
    PROVE  BackedInv'
<1> DEFINE q == cmd[c]
           o == cmd[c].of
<1>0. /\ q.kind = "counter" /\ offer[o].state \in Negotiating /\ listing' = listing
  BY Zenon DEF Counter, Actionable
<1>1. PICK p \in Proposals :
         offer' = [offer EXCEPT ![o].state = "countered", ![o].rev = @ + 1,
                    ![o].by = q.by, ![o].terms = p, ![o].known = q.got,
                    ![o].window = "open"]
  BY Zenon DEF Counter
<1>2. o \in OfferIds /\ q.got \in Versions /\ offer[o] \in Row /\ q \in Command
  BY <1>0, CommandRow, Zenon DEF BackedInv
<1> DEFINE r == Countered(offer[o], q.by, p, q.got)
<1>3. p \in Terms /\ q.got \in Known /\ q.by \in Parties
  BY <1>2, ProposalsAreTerms, Zenon DEF Known, Command
<1>4. /\ r \in Row /\ r.state = "countered"
      /\ r.order = offer[o].order /\ r.hold = offer[o].hold
  BY <1>2, <1>3, CounteredRow, SMTT(60)
<1>5. offer' = [offer EXCEPT ![o] = r]
  <2>1. offer \in [OfferIds -> Row]
    BY Zenon DEF BackedInv, AgreedInv, Typed
  <2> QED
    BY <1>1, <1>2, <2>1, Zenon DEF Row, Countered
<1> HIDE DEF r
<1>6. offer[o].hold # "active" /\ offer[o].order # "held" /\ UnitsOf(offer[o]) = 0
  BY <1>0, <1>2, NegotiatingHoldsNothing, Zenon
<1>7. Reserves(r) /\ UnitsOf(r) = 0
  BY <1>4, <1>6, Zenon DEF Reserves, UnitsOf
<1> QED
  BY <1>0, <1>2, <1>4, <1>5, <1>6, <1>7, NothingHeld, Zenon

(* offers::accept takes the units of the terms it accepts off the shelf    *)
(* and into its hold.                                                      *)
LEMMA AcceptBacked ==
    ASSUME BackedInv, AgreedInv', NEW c \in Commands, Accept(c)
    PROVE  BackedInv'
<1> DEFINE q == cmd[c]
           o == cmd[c].of
           n == offer[o].terms.quantity
<1>0. /\ q.kind = "accept" /\ offer[o].state \in Negotiating /\ n <= listing.available
      /\ listing' = [listing EXCEPT !.available = @ - n, !.reserved = @ + n]
      /\ offer' = [offer EXCEPT ![o].state = "accepted", ![o].rev = @ + 1,
                         ![o].window = "open", ![o].hold = "active",
                         ![o].award = q.got, ![o].seen = q.seen]
  BY Zenon DEF Accept, Actionable, Awardable
<1>1. o \in OfferIds /\ q.got \in Versions /\ offer[o] \in Row /\ q \in Command
  BY <1>0, CommandRow, Zenon DEF BackedInv
<1> DEFINE r == Accepted(offer[o], q.got, q.seen)
<1>2. q.seen \in Seen /\ q.got \in Known
  BY <1>1, Zenon DEF Known, Command
<1>3. r \in Row /\ r.state = "accepted" /\ r.hold = "active" /\ r.terms = offer[o].terms
  BY <1>1, <1>2, AcceptedRow, SMTT(60)
<1>4. offer' = [offer EXCEPT ![o] = r]
  <2>1. offer \in [OfferIds -> Row]
    BY Zenon DEF BackedInv, AgreedInv, Typed
  <2> QED
    BY <1>0, <1>1, <2>1, ZenonT(60) DEF Row, Accepted
<1> HIDE DEF r
<1>5. Reserves(r) /\ UnitsOf(r) = n /\ n \in Nat
  BY <1>1, <1>3, Zenon DEF Reserves, UnitsOf, Row, Terms
<1>6. UnitsOf(offer[o]) = 0
  BY <1>0, <1>1, NegotiatingHoldsNothing, Zenon
<1>7. /\ listing' \in Shelf /\ listing.reserved \in Nat
      /\ listing'.reserved = listing.reserved + n
  <2> DEFINE a == listing.available - n
             v == listing.reserved + n
  <2>1. listing \in Shelf /\ listing' = [listing EXCEPT !.available = a, !.reserved = v]
    BY <1>0, Zenon DEF BackedInv
  <2>2. a \in Nat /\ v \in Nat /\ listing.reserved \in Nat
    <3>1. n <= listing.available /\ n \in Nat
      BY <1>0, <1>5, Zenon
    <3>2. listing.available \in Nat /\ listing.reserved \in Nat
      BY <2>1 DEF Shelf
    <3> HIDE DEF n
    <3> QED
      BY <3>1, <3>2
  <2> HIDE DEF a, v
  <2>3. listing' \in Shelf /\ listing'.reserved = v
    BY <2>1, <2>2, Zenon DEF Shelf
  <2> QED
    BY <2>2, <2>3, Zenon DEF v
<1> HIDE DEF n
<1>8. listing'.reserved + UnitsOf(offer[o]) = listing.reserved + UnitsOf(r)
  BY <1>5, <1>6, <1>7
<1> QED
  BY <1>1, <1>3, <1>4, <1>5, <1>7, <1>8, RowBacked, Zenon

(* An offer that ends gives back the units it kept.                        *)
LEMMA FinalBacked ==
    ASSUME BackedInv, AgreedInv', NEW o \in OfferIds,
           NEW st \in {"rejected", "withdrawn", "expired"},
           offer' = [offer EXCEPT ![o] = Final(st)], listing' \in Shelf,
           listing'.reserved + UnitsOf(offer[o]) = listing.reserved
    PROVE  BackedInv'
<1>1. /\ Final(st) \in Row /\ Final(st).state = st /\ Final(st).order = "none"
      /\ Final(st).hold = "none"
  BY FinalRow, Zenon DEF States
<1>2. Reserves(Final(st)) /\ UnitsOf(Final(st)) = 0
  BY <1>1, Zenon DEF Reserves, UnitsOf
<1>3. listing.reserved \in Nat
  BY DEF BackedInv, Shelf
<1>4. listing'.reserved + UnitsOf(offer[o]) = listing.reserved + UnitsOf(Final(st))
  BY <1>2, <1>3
<1> DEFINE r == Final(st)
<1>5. /\ r \in Row /\ Reserves(r) /\ offer' = [offer EXCEPT ![o] = r]
      /\ listing'.reserved + UnitsOf(offer[o]) = listing.reserved + UnitsOf(r)
  BY <1>1, <1>2, <1>4, Zenon
<1> HIDE DEF r
<1> QED
  BY <1>5, RowBacked, Zenon

(* The units an award or an order keeps are among the reserved ones, so    *)
(* giving them back, or selling them, cannot take the count below zero.    *)
LEMMA ToShelfBacked ==
    ASSUME BackedInv, NEW o \in OfferIds,
           offer[o].hold = "active" \/ offer[o].order = "held"
    PROVE  LET n == offer[o].terms.quantity
               gone == [listing EXCEPT !.sold = @ + n, !.reserved = @ - n]
           IN  /\ UnitsOf(offer[o]) = n /\ n \in Nat /\ listing.reserved \in Nat
               /\ ToShelf(n) \in Shelf /\ ToShelf(n).reserved + n = listing.reserved
               /\ gone \in Shelf /\ gone.reserved + n = listing.reserved
<1> DEFINE n == offer[o].terms.quantity
           a == listing.available + n
           d == listing.sold + n
           v == listing.reserved - n
           gone == [listing EXCEPT !.sold = @ + n, !.reserved = @ - n]
<1>1. UnitsOf(offer[o]) = n /\ n \in Nat
  <2>1. offer[o] \in Row
    BY DEF BackedInv, AgreedInv, Typed
  <2> QED
    BY <2>1, Zenon DEF UnitsOf, Row, Terms
<1>2. PICK k \in Nat : listing.reserved = k + n
  BY <1>1, OthersUnits, Zenon
<1>3. /\ listing \in Shelf /\ listing.reserved \in Nat /\ listing.available \in Nat
      /\ listing.sold \in Nat
  BY Zenon DEF BackedInv, Shelf
<1>4. /\ ToShelf(n) = [listing EXCEPT !.available = a, !.reserved = v]
      /\ gone = [listing EXCEPT !.sold = d, !.reserved = v]
  BY DEF ToShelf
<1> HIDE DEF n, gone
<1>5. a \in Nat /\ v \in Nat /\ v + n = listing.reserved /\ d \in Nat
  BY <1>1, <1>2, <1>3
<1> HIDE DEF a, v, d
<1>6. /\ ToShelf(n) \in Shelf /\ ToShelf(n).reserved = v
      /\ gone \in Shelf /\ gone.reserved = v
  BY <1>3, <1>4, <1>5, Zenon DEF Shelf
<1> QED
  BY <1>1, <1>3, <1>5, <1>6, Zenon DEF n, gone

(* Rejection, withdrawal and the end of the offer's window give back       *)
(* nothing, the end of an award's hold its units (expire_due_offers,       *)
(* expire_due_award).                                                      *)
LEMMA EndsBacked ==
    ASSUME BackedInv, AgreedInv', NEW o \in OfferIds,
           RejectOrWithdraw(o) \/ ExpireOffer(o) \/ ExpireAward(o)
    PROVE  BackedInv'
<1>0. listing \in Shelf /\ listing.reserved \in Nat
  BY DEF BackedInv, Shelf
<1>1. CASE RejectOrWithdraw(o) \/ ExpireOffer(o)
  <2>1. PICK st \in {"rejected", "withdrawn", "expired"} :
           offer' = [offer EXCEPT ![o] = Final(st)]
    BY <1>1, Zenon DEF RejectOrWithdraw, ExpireOffer
  <2>2. offer[o].state \in Negotiating /\ listing' = listing
    BY <1>1, Zenon DEF RejectOrWithdraw, ExpireOffer
  <2>3. UnitsOf(offer[o]) = 0
    BY <2>2, NegotiatingHoldsNothing, Zenon
  <2>4. listing' \in Shelf /\ listing'.reserved + UnitsOf(offer[o]) = listing.reserved
    BY <1>0, <2>2, <2>3
  <2> QED
    BY <2>1, <2>4, FinalBacked, Zenon
<1>2. CASE ExpireAward(o)
  <2> DEFINE n == offer[o].terms.quantity
  <2>1. /\ offer[o].hold = "active" /\ listing' = ToShelf(n)
        /\ offer' = [offer EXCEPT ![o] = Final("expired")]
    BY <1>2, Zenon DEF ExpireAward
  <2>2. /\ UnitsOf(offer[o]) = n /\ ToShelf(n) \in Shelf
        /\ ToShelf(n).reserved + n = listing.reserved
    BY <2>1, ToShelfBacked, Zenon
  <2> HIDE DEF n
  <2> QED
    BY <2>1, <2>2, FinalBacked, Zenon
<1> QED
  BY <1>1, <1>2

(* Time passing reserves nothing.                                          *)
LEMMA WindowBacked ==
    ASSUME BackedInv, AgreedInv', NEW o \in OfferIds, WindowEnds(o)
    PROVE  BackedInv'
<1> DEFINE x == offer[o]
           r == [x EXCEPT !.window = "over"]
<1>0. offer' = [offer EXCEPT ![o].window = "over"] /\ listing' = listing
  BY DEF WindowEnds
<1>1. x \in Row /\ Reserves(x) /\ offer \in [OfferIds -> Row]
  BY Zenon DEF BackedInv, AgreedInv, Typed
<1>2. offer' = [offer EXCEPT ![o] = r]
  BY <1>0, <1>1
<1> HIDE DEF x
<1>3. /\ r \in Row /\ r.state = x.state /\ r.terms = x.terms /\ r.order = x.order
      /\ r.hold = x.hold
  BY <1>1 DEF Row
<1> HIDE DEF r
<1>4. Reserves(r) /\ UnitsOf(r) = UnitsOf(x) /\ x = offer[o]
  BY <1>1, <1>3, Zenon DEF Reserves, UnitsOf, x
<1> QED
  BY <1>0, <1>2, <1>3, <1>4, NothingHeld, Zenon

(* offer_checkout::handle hands the units of the hold to the order.        *)
LEMMA CheckoutBacked ==
    ASSUME BackedInv, AgreedInv', NEW o \in OfferIds, NEW pickup \in BOOLEAN,
           Checkout(o, pickup)
    PROVE  BackedInv'
<1> DEFINE x == offer[o]
           n == Charge(x, pickup)
           r == Bought(x, n)
<1>0. x.state = "accepted" /\ x.hold = "active" /\ listing' = listing
  BY Zenon DEF Checkout
<1>1. x \in Row /\ Agreed(x) /\ offer \in [OfferIds -> Row]
  BY Zenon DEF BackedInv, AgreedInv, Typed
<1>2. offer' = [offer EXCEPT ![o] = r]
  <2>1. offer' = [offer EXCEPT ![o].state = "converted", ![o].rev = @ + 1,
              ![o].hold = "converted", ![o].order = "held",
              ![o].total = Charge(offer[o], pickup)]
    BY Zenon DEF Checkout, Charge
  <2> QED
    BY <1>1, <2>1, Zenon DEF Bought
<1>3. n \in Nat
  <2>1. x.award \in Versions
    BY <1>0, <1>1, Zenon DEF Agreed
  <2>2. x.terms.amount \in Nat /\ x.terms.quantity \in Nat
    BY <1>1, Zenon DEF Row, Terms
  <2>3. x.terms.amount * x.terms.quantity \in Nat /\ Records[x.award].shipping \in Nat
    BY <2>1, <2>2, RecordColumns, SMTT(60)
  <2> QED
    BY <2>3 DEF Charge
<1>4. /\ r \in Row /\ r.state = "converted" /\ r.order = "held" /\ r.hold = "converted"
      /\ r.terms = x.terms
  BY <1>1, <1>3, BoughtRow, SMTT(60)
<1> HIDE DEF r, n
<1>5. Reserves(r) /\ UnitsOf(r) = UnitsOf(x)
  BY <1>0, <1>4, Zenon DEF Reserves, UnitsOf
<1> QED
  BY <1>0, <1>2, <1>4, <1>5, NothingHeld, Zenon

(* The order's units are sold or go back to the shelf, and leave the       *)
(* reserved ones either way.                                               *)
LEMMA SettleBacked ==
    ASSUME BackedInv, AgreedInv', NEW o \in OfferIds, OrderSettles(o)
    PROVE  BackedInv'
<1> DEFINE r == [Final("converted") EXCEPT !.order = "settled"]
           n == offer[o].terms.quantity
           gone == [listing EXCEPT !.sold = @ + n, !.reserved = @ - n]
<1>0. /\ offer' = [offer EXCEPT ![o] = r] /\ offer[o].order = "held"
      /\ listing' = ToShelf(n) \/ listing' = gone
  BY DEF OrderSettles
<1>1. /\ UnitsOf(offer[o]) = n /\ n \in Nat /\ listing.reserved \in Nat
      /\ ToShelf(n) \in Shelf /\ ToShelf(n).reserved + n = listing.reserved
      /\ gone \in Shelf /\ gone.reserved + n = listing.reserved
  BY <1>0, ToShelfBacked, Zenon
<1> HIDE DEF n, gone
<1>2. r \in Row
  BY Zenon DEF Final, NoOffer, NothingSeen, NoTerms, Row, Seen, Terms, Known, Parties, States
<1>3. r.state = "converted" /\ r.order = "settled" /\ r.hold = "none"
  BY DEF Final, NoOffer
<1> HIDE DEF r
<1>4. Reserves(r) /\ UnitsOf(r) = 0
  BY <1>3, Zenon DEF Reserves, UnitsOf
<1>5. /\ listing' \in Shelf
      /\ listing'.reserved + UnitsOf(offer[o]) = listing.reserved + UnitsOf(r)
  BY <1>0, <1>1, <1>4
<1> QED
  BY <1>0, <1>2, <1>4, <1>5, RowBacked, Zenon

(* One case per action of Next.                                            *)
LEMMA NextBacked ==
    ASSUME BackedInv, [Next]_vars
    PROVE  BackedInv'
<1>0. AgreedInv' /\ listing \in Shelf
  BY NextAgreed DEF BackedInv
<1>1. CASE UNCHANGED vars
  BY <1>0, <1>1, ShelfMoved DEF vars
<1>2. CASE SellerWrites \/ Tombstone \/ SyncRecord
  BY <1>0, <1>2, ListingBacked
<1>3. ASSUME NEW c \in Commands, NEW o \in OfferIds, Start(c, o) PROVE BackedInv'
  BY <1>0, <1>3, ShelfMoved DEF Start
<1>4. ASSUME NEW c \in Commands, Counter(c) \/ Accept(c) \/ Refused(c) PROVE BackedInv'
  <2>1. CASE Refused(c)
    BY <1>0, <2>1, ShelfMoved, Zenon DEF Refused
  <2> QED
    BY <1>0, <1>4, <2>1, CounterBacked, AcceptBacked
<1>5. ASSUME NEW o \in OfferIds,
             \/ Create(o) \/ RejectOrWithdraw(o) \/ WindowEnds(o) \/ ExpireOffer(o)
             \/ ExpireAward(o) \/ (\E pickup \in BOOLEAN : Checkout(o, pickup))
             \/ OrderSettles(o)
      PROVE  BackedInv'
  BY <1>0, <1>5, CreateBacked, EndsBacked, WindowBacked, CheckoutBacked, SettleBacked, Zenon
<1> QED
  BY <1>1, <1>2, <1>3, <1>4, <1>5, Zenon DEF Next

(* Nothing is reserved at the start.                                       *)
LEMMA InitBacked ==
    ASSUME Init
    PROVE  BackedInv
<1>1. /\ offer = [o \in OfferIds |-> NoOffer]
      /\ NoOffer.hold = "none" /\ NoOffer.order = "none" /\ NoOffer.state = "none"
  BY Zenon DEF Init, NoOffer
<1>2. \A o \in OfferIds : Reserves(offer[o]) /\ UnitsOf(offer[o]) = 0
  BY <1>1, Zenon DEF Reserves, UnitsOf
<1>3. Units = {}
  BY <1>2 DEF Units
<1>4. listing \in Shelf /\ listing.reserved = 0
  <2>1. Records[1].quantity \in Nat
    BY FirstRecord, RecordColumns DEF Versions
  <2> QED
    BY <2>1, Zenon DEF Init, Shelf
<1>5. IsFiniteSet(Units) /\ AwardsBacked
  <2>1. IsFiniteSet({}) /\ Cardinality({}) = 0
    BY FS_EmptySet
  <2> QED
    BY <1>3, <1>4, <2>1 DEF AwardsBacked
<1> QED
  BY <1>2, <1>4, <1>5, InitAgreed DEF BackedInv

(* For any number of offers, proposals and commands in flight: the units   *)
(* the listing has reserved are exactly those of the awards that wait for  *)
(* checkout and of the orders that came from one, so an award's checkout   *)
(* finds its units (offers::accept, offer_checkout::handle,                *)
(* expire_due_award).                                                      *)
THEOREM AwardsKeepTheirUnits == Spec => []AwardsBacked
<1>1. Init => BackedInv
  BY InitBacked
<1>2. BackedInv /\ [Next]_vars => BackedInv'
  BY NextBacked, Zenon
<1>3. BackedInv => AwardsBacked
  BY DEF BackedInv
<1> QED
  BY <1>1, <1>2, <1>3, PTL DEF Spec

-----------------------------------------------------------------------------
(* Least and greatest members of sets of naturals.                         *)

(* Every set of naturals with a member has a least one.                    *)
LEMMA LeastNat ==
    ASSUME NEW T \in SUBSET Nat, T # {}
    PROVE  \E m \in T : \A n \in T : m <= n
<1> DEFINE R == OpToRel(<, Nat)
<1>1. IsWellFoundedOn(R, Nat)
  BY NatLessThanWellFounded, Zenon
<1>2. \A y, x \in Nat : y < x => <<y, x>> \in R
  BY DEF OpToRel
<1> HIDE DEF R
<1>3. PICK m \in T : \A y \in T : ~(<<y, m>> \in R)
  BY <1>1, WFMin, Zenon
<1>4. ASSUME NEW n \in T PROVE m <= n
  <2>1. m \in Nat /\ n \in Nat
    OBVIOUS
  <2>2. ~(n < m)
    BY <1>2, <1>3, <2>1, Zenon
  <2> QED
    BY <2>1, <2>2
<1> QED
  BY <1>4

(* And, when it has a bound, a greatest one.                               *)
LEMMA GreatestNat ==
    ASSUME NEW T \in SUBSET Nat, T # {}, NEW b \in Nat, \A x \in T : x <= b
    PROVE  \E m \in T : \A n \in T : n <= m
<1> DEFINE U == {k \in Nat : \A x \in T : x <= k}
<1>1. U \in SUBSET Nat /\ U # {}
  OBVIOUS
<1>2. PICK u \in U : \A n \in U : u <= n
  BY <1>1, LeastNat, Zenon
<1>3. u \in Nat /\ \A x \in T : x \in Nat /\ x <= u
  OBVIOUS
<1>4. ASSUME u \notin T PROVE FALSE
  <2>1. \A x \in T : x \in Nat /\ x < u
    BY <1>3, <1>4
  <2>2. PICK x \in T : TRUE
    BY Zenon
  <2>3. u - 1 \in Nat /\ \A y \in T : y <= u - 1
    BY <1>3, <2>1, <2>2
  <2>4. u - 1 \in U
    BY <2>3
  <2>5. u <= u - 1
    BY <1>2, <2>4, Zenon
  <2> QED
    BY <1>3, <2>5
<1> QED
  BY <1>3, <1>4

-----------------------------------------------------------------------------
(* The bids table and its ranking.                                         *)

Tables == Seq([bidder : Bidders, maximum : 1..MaxAmount])

(* A row of the table.                                                     *)
LEMMA BidTyped ==
    ASSUME NEW seq \in Tables, NEW i \in DOMAIN seq
    PROVE  /\ i \in Nat /\ seq[i].bidder \in Bidders
           /\ seq[i].maximum \in Nat /\ seq[i].maximum <= MaxAmount
<1> DEFINE Bids == [bidder : Bidders, maximum : 1..MaxAmount]
<1>1. seq \in Seq(Bids)
  BY Zenon DEF Tables
<1> HIDE DEF Bids
<1>2. i \in Nat /\ seq[i] \in Bids
  BY <1>1
<1> QED
  BY <1>2, MoneyPositive DEF Bids

(* Whoever bid has a representative bid: none of theirs is higher, and     *)
(* none as high is earlier.                                                *)
LEMMA RepresentativeBid ==
    ASSUME NEW seq \in Tables, NEW b, BidsOf(b, seq) # {}
    PROVE  LET i == Representative(b, seq)
           IN /\ i \in DOMAIN seq /\ i \in Nat /\ seq[i].bidder = b
              /\ Top(b, seq) = seq[i].maximum /\ Top(b, seq) \in Nat
              /\ Top(b, seq) <= MaxAmount
              /\ \A j \in DOMAIN seq : seq[j].bidder = b =>
                    \/ seq[i].maximum > seq[j].maximum
                    \/ seq[i].maximum = seq[j].maximum /\ i <= j
<1> DEFINE B == BidsOf(b, seq)
           T == {seq[i].maximum : i \in B}
<1>1. /\ B \subseteq DOMAIN seq /\ B # {} /\ \A i \in DOMAIN seq : i \in B <=> seq[i].bidder = b
  BY DEF BidsOf
<1>2. \A i \in B : i \in Nat /\ seq[i].maximum \in Nat /\ seq[i].maximum <= MaxAmount
  BY <1>1, BidTyped
<1> HIDE DEF B
<1>3. T \in SUBSET Nat /\ T # {} /\ \A x \in T : x <= MaxAmount
  BY <1>1, <1>2
<1>4. PICK m \in T : \A x \in T : x <= m
  <2>1. MaxAmount \in Nat
    BY MoneyPositive
  <2> HIDE DEF T
  <2> QED
    BY <1>3, <2>1, GreatestNat, Zenon
<1>5. \A i \in B : seq[i].maximum <= m
  BY <1>4
<1> DEFINE I == {i \in B : seq[i].maximum = m}
<1>6. I \in SUBSET Nat /\ I # {}
  BY <1>2, <1>4
<1>7. PICK k \in I : \A i \in I : k <= i
  <2> HIDE DEF I
  <2> QED
    BY <1>6, LeastNat, Zenon
<1>8. k \in B /\ seq[k].maximum = m /\ \A i \in B : seq[i].maximum = m => k <= i
  BY <1>7
<1>9. ASSUME NEW j \in B
      PROVE  seq[k].maximum > seq[j].maximum \/ (seq[k].maximum = seq[j].maximum /\ k <= j)
  <2>1. m \in Nat /\ seq[j].maximum \in Nat /\ seq[j].maximum <= m
    BY <1>2, <1>5, <1>8
  <2>2. seq[j].maximum < m \/ seq[j].maximum = m
    BY <2>1
  <2>3. CASE seq[j].maximum < m
    BY <1>8, <2>1, <2>3
  <2>4. CASE seq[j].maximum = m
    BY <1>8, <2>4, Zenon
  <2> QED
    BY <2>2, <2>3, <2>4, Zenon
<1> HIDE DEF T, I
<1> DEFINE i == Representative(b, seq)
<1>10. /\ i \in B
       /\ \A j \in B : \/ seq[i].maximum > seq[j].maximum
                       \/ seq[i].maximum = seq[j].maximum /\ i <= j
  BY <1>8, <1>9, Zenon DEF Representative, B
<1>11. Top(b, seq) = seq[i].maximum
  BY Zenon DEF Top
<1> HIDE DEF i
<1>12. /\ i \in DOMAIN seq /\ i \in Nat /\ seq[i].bidder = b
       /\ Top(b, seq) \in Nat /\ Top(b, seq) <= MaxAmount
  BY <1>1, <1>2, <1>10, <1>11
<1>13. \A j \in DOMAIN seq : seq[j].bidder = b => j \in B
  BY <1>1
<1> QED
  BY <1>10, <1>11, <1>12, <1>13, Zenon DEF i
(* Any bidders who bid have one of them ranked above all the others: a     *)
(* higher representative, or as high a one placed before.                  *)
LEMMA FirstRanked ==
    ASSUME NEW seq \in Tables, NEW S, S \subseteq BiddersIn(seq), S # {}
    PROVE  /\ First(S, seq) \in S
           /\ \A c \in S \ {First(S, seq)} : RankedAbove(First(S, seq), c, seq)
<1> DEFINE rep(b) == Representative(b, seq)
<1>1. ASSUME NEW b \in S
      PROVE  /\ rep(b) \in Nat /\ seq[rep(b)].bidder = b
             /\ Top(b, seq) = seq[rep(b)].maximum
             /\ Top(b, seq) \in Nat /\ Top(b, seq) <= MaxAmount
  <2>1. BidsOf(b, seq) # {}
    BY DEF BidsOf, BiddersIn
  <2> QED
    BY <2>1, RepresentativeBid, Zenon
<1> HIDE DEF rep
<1> DEFINE T == {Top(b, seq) : b \in S}
<1>2. T \in SUBSET Nat /\ T # {} /\ \A x \in T : x <= MaxAmount
  BY <1>1
<1>3. PICK m \in T : \A x \in T : x <= m
  <2>1. MaxAmount \in Nat
    BY MoneyPositive
  <2> HIDE DEF T
  <2> QED
    BY <1>2, <2>1, GreatestNat, Zenon
<1>4. \A b \in S : Top(b, seq) <= m
  BY <1>3
<1> DEFINE I == {rep(b) : b \in {c \in S : Top(c, seq) = m}}
<1>5. I \in SUBSET Nat /\ I # {}
  BY <1>1, <1>3
<1>6. PICK k \in I : \A i \in I : k <= i
  <2> HIDE DEF I
  <2> QED
    BY <1>5, LeastNat, Zenon
<1>7. PICK b \in S : Top(b, seq) = m /\ k = rep(b)
  BY <1>6
<1>8. \A c \in S : Top(c, seq) = m => k <= rep(c)
  BY <1>6
<1> HIDE DEF T, I
<1>9. ASSUME NEW c \in S \ {b} PROVE RankedAbove(b, c, seq)
  <2>1. /\ m \in Nat /\ Top(c, seq) \in Nat /\ Top(c, seq) <= m
        /\ k \in Nat /\ rep(c) \in Nat
    BY <1>1, <1>4, <1>7
  <2>2. seq[rep(b)].maximum = m /\ seq[rep(c)].maximum = Top(c, seq)
    BY <1>1, <1>7, SMTT(60)
  <2>3. rep(c) # k
    BY <1>1, <1>7
  <2>4. \/ m > Top(c, seq)
        \/ m = Top(c, seq) /\ k < rep(c)
    BY <1>8, <2>1, <2>3
  <2>5. /\ seq[rep(b)].maximum > seq[rep(c)].maximum
           \/ (seq[rep(b)].maximum = seq[rep(c)].maximum /\ rep(b) < rep(c))
    BY <1>7, <2>2, <2>4, Zenon
  <2> QED
    BY <2>5, Zenon DEF RankedAbove, rep
<1> QED
  BY <1>9, Zenon DEF First

(* The least and the greatest of two amounts.                              *)
LEMMA MinOfTwo ==
    ASSUME NEW x \in Nat, NEW y \in Nat
    PROVE  /\ MinOf({x, y}) \in {x, y}
           /\ MinOf({x, y}) <= x /\ MinOf({x, y}) <= y
<1>1. \E z \in {x, y} : \A w \in {x, y} : z <= w
  OBVIOUS
<1>2. MinOf({x, y}) \in {x, y} /\ \A w \in {x, y} : MinOf({x, y}) <= w
  BY <1>1, Zenon DEF MinOf
<1> QED
  BY <1>2, Zenon

LEMMA MaxOfTwo ==
    ASSUME NEW x \in Nat, NEW y \in Nat
    PROVE  /\ MaxOf({x, y}) \in {x, y}
           /\ MaxOf({x, y}) >= x /\ MaxOf({x, y}) >= y
<1>1. \E z \in {x, y} : \A w \in {x, y} : z >= w
  OBVIOUS
<1>2. MaxOf({x, y}) \in {x, y} /\ \A w \in {x, y} : MaxOf({x, y}) >= w
  BY <1>1, Zenon DEF MaxOf
<1> QED
  BY <1>2, Zenon

-----------------------------------------------------------------------------
(* The invariant of the bidding.                                           *)

(* Every maximum and the price are at least the opening price, and once    *)
(* there is a bid the leader and the price are those of the table.         *)
BidInv ==
    /\ bids \in Tables
    /\ \A i \in DOMAIN bids : bids[i].maximum >= Opening
    /\ auction = [status |-> auction.status, ends |-> auction.ends, price |-> auction.price,
                  leader |-> auction.leader, reserve |-> auction.reserve]
    /\ auction.price \in Nat /\ auction.price >= Opening
    /\ auction.leader \in Bidders \union {NoOne}
    /\ bids # <<>> => /\ auction.leader = First(BiddersIn(bids), bids)
                      /\ auction.price = VisibleAmount(bids)

(* What a table with a bid in it shows: the first of its bidders, with     *)
(* their highest bid, and a price between the runner-up's maximum and the  *)
(* leader's.                                                               *)
LEMMA TableRanked ==
    ASSUME NEW seq \in Tables, seq # <<>>, \A i \in DOMAIN seq : seq[i].maximum >= Opening
    PROVE  LET leader == First(BiddersIn(seq), seq)
               price == VisibleAmount(seq)
           IN /\ leader \in Bidders /\ price \in Nat /\ price >= Opening
              /\ price <= Top(leader, seq)
              /\ \A b \in BiddersIn(seq) \ {leader} : Top(b, seq) <= price
              /\ BiddersIn(seq) # {leader} =>
                    \E b \in BiddersIn(seq) \ {leader} : price <= Top(b, seq) + Increment
              /\ \E i \in DOMAIN seq :
                    /\ seq[i].bidder = leader
                    /\ \A j \in DOMAIN seq :
                          \/ seq[j].maximum < seq[i].maximum
                          \/ seq[j].maximum = seq[i].maximum /\ i <= j
<1> DEFINE S == BiddersIn(seq)
           a == First(S, seq)
           others == S \ {a}
           s == First(others, seq)
           price == VisibleAmount(seq)
           rep(b) == Representative(b, seq)
<1>1. DOMAIN seq # {} /\ \A i \in DOMAIN seq : i \in Nat
  BY DEF Tables
<1>2. /\ S # {} /\ S \subseteq Bidders
      /\ \A i \in DOMAIN seq : seq[i].bidder \in S
  BY <1>1, BidTyped DEF BiddersIn
<1>3. ASSUME NEW b \in S
      PROVE  /\ rep(b) \in DOMAIN seq /\ rep(b) \in Nat /\ seq[rep(b)].bidder = b
             /\ Top(b, seq) = seq[rep(b)].maximum /\ Top(b, seq) \in Nat
             /\ Top(b, seq) >= Opening
             /\ \A j \in DOMAIN seq : seq[j].bidder = b =>
                   \/ seq[rep(b)].maximum > seq[j].maximum
                   \/ seq[rep(b)].maximum = seq[j].maximum /\ rep(b) <= j
  <2>1. BidsOf(b, seq) # {}
    BY DEF BidsOf, BiddersIn
  <2>2. /\ rep(b) \in DOMAIN seq /\ rep(b) \in Nat /\ seq[rep(b)].bidder = b
        /\ Top(b, seq) = seq[rep(b)].maximum /\ Top(b, seq) \in Nat
        /\ \A j \in DOMAIN seq : seq[j].bidder = b =>
                   \/ seq[rep(b)].maximum > seq[j].maximum
                   \/ seq[rep(b)].maximum = seq[j].maximum /\ rep(b) <= j
    BY <2>1, RepresentativeBid, Zenon
  <2>3. Top(b, seq) >= Opening
    BY <2>2, Zenon
  <2> QED
    BY <2>2, <2>3, Zenon
<1>4. S \subseteq BiddersIn(seq) /\ others \subseteq BiddersIn(seq)
  OBVIOUS
<1> HIDE DEF S
<1>5. a \in S /\ \A c \in S \ {a} : RankedAbove(a, c, seq)
  BY <1>2, <1>4, FirstRanked, Zenon
<1>6. \A b, c : RankedAbove(b, c, seq) =>
          \/ seq[rep(b)].maximum > seq[rep(c)].maximum
          \/ seq[rep(b)].maximum = seq[rep(c)].maximum /\ rep(b) < rep(c)
  BY Zenon DEF RankedAbove
<1>7. others # {} => s \in others /\ \A c \in others \ {s} : RankedAbove(s, c, seq)
  BY <1>4, FirstRanked, Zenon
<1>8. price = IF others = {} THEN Opening ELSE MinOf({Top(a, seq), Top(s, seq) + Increment})
  BY Zenon DEF VisibleAmount, S
<1> HIDE DEF a, s, price, rep
<1>9. Opening \in Nat /\ Increment \in Nat
  BY MoneyPositive
<1>10. ASSUME NEW j \in DOMAIN seq
       PROVE  \/ seq[j].maximum < seq[rep(a)].maximum
              \/ seq[j].maximum = seq[rep(a)].maximum /\ rep(a) <= j
  <2> DEFINE c == seq[j].bidder
  <2>1. c \in S /\ seq[j].maximum \in Nat /\ j \in Nat
    BY <1>2, BidTyped, Zenon
  <2> HIDE DEF c
  <2>2. /\ rep(c) \in Nat /\ rep(a) \in Nat
        /\ seq[rep(c)].maximum \in Nat /\ seq[rep(a)].maximum \in Nat
    BY <1>3, <1>5, <2>1
  <2>3. \/ seq[rep(c)].maximum > seq[j].maximum
        \/ seq[rep(c)].maximum = seq[j].maximum /\ rep(c) <= j
    BY <1>3, <2>1, Zenon DEF c
  <2>4. CASE c = a
    BY <2>1, <2>2, <2>3, <2>4, SMTT(60)
  <2>5. CASE c # a
    <3>1. \/ seq[rep(a)].maximum > seq[rep(c)].maximum
          \/ seq[rep(a)].maximum = seq[rep(c)].maximum /\ rep(a) < rep(c)
      BY <1>5, <1>6, <2>1, <2>5, Zenon
    <3> QED
      BY <2>1, <2>2, <2>3, <3>1, SMTT(60)
  <2> QED
    BY <2>4, <2>5, Zenon
<1>11. \E i \in DOMAIN seq :
         /\ seq[i].bidder = a
         /\ \A j \in DOMAIN seq :
               \/ seq[j].maximum < seq[i].maximum
               \/ seq[j].maximum = seq[i].maximum /\ i <= j
  BY <1>3, <1>5, <1>10, Zenon
<1>12. CASE others = {}
  <2>1. price = Opening
    BY <1>8, <1>12
  <2>2. S = {a}
    BY <1>5, <1>12
  <2>3. price \in Nat /\ price >= Opening /\ price <= Top(a, seq)
    BY <1>3, <1>5, <1>9, <2>1
  <2>4. a \in Bidders
    BY <1>2, <1>5
  <2> QED
    BY <1>11, <1>12, <2>2, <2>3, <2>4, Zenon DEF a, price, S
<1>13. CASE others # {}
  <2>1. s \in S /\ s # a /\ s \in others
    BY <1>7, <1>13
  <2>2. /\ Top(a, seq) \in Nat /\ Top(s, seq) \in Nat
        /\ Top(a, seq) >= Opening /\ Top(s, seq) >= Opening
    BY <1>3, <1>5, <2>1, SMTT(60)
  <2>3. ASSUME NEW b \in S, NEW c \in S, RankedAbove(b, c, seq) PROVE Top(c, seq) <= Top(b, seq)
    <3>1. /\ Top(b, seq) = seq[rep(b)].maximum /\ Top(b, seq) \in Nat
          /\ Top(c, seq) = seq[rep(c)].maximum /\ Top(c, seq) \in Nat
      BY <1>3, Zenon
    <3>2. seq[rep(b)].maximum > seq[rep(c)].maximum \/ seq[rep(b)].maximum = seq[rep(c)].maximum
      BY <1>6, <2>3, Zenon
    <3> QED
      BY <3>1, <3>2, SMTT(60)
  <2>4. Top(s, seq) <= Top(a, seq)
    <3>1. RankedAbove(a, s, seq)
      BY <1>5, <2>1
    <3> QED
      BY <1>5, <2>1, <2>3, <3>1, Zenon
  <2>5. ASSUME NEW b \in others PROVE Top(b, seq) \in Nat /\ Top(b, seq) <= Top(s, seq)
    <3>1. b \in S /\ Top(b, seq) \in Nat
      BY <1>3
    <3>2. CASE b = s
      BY <2>2, <3>1, <3>2
    <3>3. CASE b # s
      <4>1. RankedAbove(s, b, seq)
        BY <1>7, <1>13, <3>3
      <4> QED
        BY <2>1, <2>3, <3>1, <4>1, Zenon
    <3> QED
      BY <3>2, <3>3, Zenon
  <2> DEFINE x == Top(a, seq)
             y == Top(s, seq) + Increment
  <2>6. price = MinOf({x, y})
    BY <1>8, <1>13
  <2>7. x \in Nat /\ y \in Nat
    BY <1>9, <2>2
  <2> HIDE DEF x, y
  <2>8. price \in {x, y} /\ price <= x /\ price <= y
    BY <2>6, <2>7, MinOfTwo
  <2>9. /\ price \in Nat /\ price >= Opening /\ price <= Top(a, seq)
        /\ Top(s, seq) <= price /\ price <= Top(s, seq) + Increment
    BY <1>9, <2>2, <2>4, <2>7, <2>8, SMTT(60) DEF x, y
  <2>10. \A b \in others : Top(b, seq) <= price
    BY <2>2, <2>5, <2>9, SMTT(60)
  <2>11. a \in Bidders
    BY <1>2, <1>5
  <2> QED
    BY <1>11, <2>1, <2>9, <2>10, <2>11, Zenon DEF a, price, S
<1> QED
  BY <1>12, <1>13, Zenon

(* An auction is registered with no bid and its opening price.             *)
LEMMA BidInvInit == BidInit => BidInv
<1> SUFFICES ASSUME BidInit PROVE BidInv
  OBVIOUS
<1>1. bids = <<>> /\ bids \in Tables
  BY DEF BidInit, Tables
<1>2. PICK ends, reserve :
        auction = [status |-> IF terms.starts > now THEN "scheduled" ELSE "active",
                   ends |-> ends, price |-> Opening, leader |-> NoOne, reserve |-> reserve]
  BY Zenon DEF BidInit
<1>3. DOMAIN bids = {}
  BY <1>1
<1> QED
  BY <1>1, <1>2, <1>3, MoneyPositive DEF BidInv

(* An accepted bid is at least the opening price.                          *)
LEMMA BidAtLeastOpening ==
    ASSUME BidInv, NEW b \in Bidders, NEW maximum \in 1..MaxAmount, PlaceBid(b, maximum)
    PROVE  maximum >= Opening
<1> DEFINE visible == auction.price + Increment
<1>1. /\ maximum \in Nat /\ maximum >= PersonalMinimumNextBid(b)
      /\ bids \in Tables /\ auction.price \in Nat /\ auction.price >= Opening
  BY DEF PlaceBid, BidInv
<1>2. visible \in Nat /\ visible >= Opening /\ Opening \in Nat
  BY <1>1, MoneyPositive
<1>3. PersonalMinimumNextBid(b) =
        IF BidsOf(b, bids) = {} THEN visible ELSE MaxOf({visible, Top(b, bids) + 1})
  BY Zenon DEF PersonalMinimumNextBid
<1> HIDE DEF visible
<1>4. CASE BidsOf(b, bids) = {}
  BY <1>1, <1>2, <1>3, <1>4
<1>5. CASE BidsOf(b, bids) # {}
  <2> DEFINE next == Top(b, bids) + 1
  <2>1. Top(b, bids) \in Nat
    BY <1>1, <1>5, RepresentativeBid, Zenon
  <2>2. next \in Nat
    BY <2>1
  <2>3. PersonalMinimumNextBid(b) = MaxOf({visible, next})
    BY <1>3, <1>5
  <2> HIDE DEF next
  <2>4. MaxOf({visible, next}) \in {visible, next} /\ MaxOf({visible, next}) >= visible
    BY <1>2, <2>2, MaxOfTwo
  <2> QED
    BY <1>1, <1>2, <2>2, <2>3, <2>4
<1> QED
  BY <1>4, <1>5, Zenon

(* A bid is appended to the table, and the leader and the price are taken  *)
(* from the table with it.                                                 *)
LEMMA PlaceBidKeeps ==
    ASSUME BidInv, NEW b \in Bidders, NEW maximum \in 1..MaxAmount, PlaceBid(b, maximum)
    PROVE  BidInv'
<1> DEFINE bid == [bidder |-> b, maximum |-> maximum]
           Bids == [bidder : Bidders, maximum : 1..MaxAmount]
<1>1. bid \in Bids /\ bid.maximum = maximum
  OBVIOUS
<1>2. bids \in Seq(Bids) /\ bids' = Append(bids, bid)
  BY Zenon DEF BidInv, Tables, PlaceBid
<1>3. \A i \in DOMAIN bids : bids[i].maximum >= Opening
  BY Zenon DEF BidInv
<1>4. maximum >= Opening
  BY BidAtLeastOpening, Zenon
<1> HIDE DEF bid, Bids
<1>5. bids' \in Seq(Bids) /\ bids' # <<>>
  BY <1>1, <1>2
<1>6. ASSUME NEW i \in DOMAIN bids' PROVE bids'[i].maximum >= Opening
  <2>1. i \in 1..(Len(bids) + 1) /\ Len(bids) \in Nat
    BY <1>1, <1>2
  <2>2. CASE i = Len(bids) + 1
    <3>1. bids'[i] = bid
      BY <1>1, <1>2, <2>2
    <3> QED
      BY <1>1, <1>4, <3>1
  <2>3. CASE i # Len(bids) + 1
    <3>1. i \in DOMAIN bids /\ bids'[i] = bids[i]
      BY <1>1, <1>2, <2>1, <2>3
    <3> QED
      BY <1>3, <3>1
  <2> QED
    BY <2>2, <2>3
<1>7. bids' \in Tables
  BY <1>5, Zenon DEF Tables, Bids
<1> DEFINE leader == First(BiddersIn(bids'), bids')
           price == VisibleAmount(bids')
<1>8. leader \in Bidders /\ price \in Nat /\ price >= Opening
  BY <1>5, <1>6, <1>7, TableRanked, Zenon
<1>9. auction' = [auction EXCEPT !.price = price, !.leader = leader, !.ends = EndAfterBid]
  BY Zenon DEF PlaceBid
<1>10. auction = [status |-> auction.status, ends |-> auction.ends, price |-> auction.price,
                  leader |-> auction.leader, reserve |-> auction.reserve]
  BY Zenon DEF BidInv
<1> HIDE DEF leader, price
<1>11. auction' = [status |-> auction.status, ends |-> EndAfterBid, price |-> price,
                   leader |-> leader, reserve |-> auction.reserve]
  BY <1>9, <1>10, Zenon
<1>12. /\ auction' = [status |-> auction'.status, ends |-> auction'.ends,
                      price |-> auction'.price, leader |-> auction'.leader,
                      reserve |-> auction'.reserve]
       /\ auction'.price = price /\ auction'.leader = leader
  BY <1>11
<1> QED
  BY <1>6, <1>7, <1>8, <1>12, Zenon DEF BidInv, leader, price

(* The reserve, the deletion, the clock and the close leave the bids, the  *)
(* leader and the price as they are.                                       *)
LEMMA OtherStepsKeepBids ==
    ASSUME BidInv,
           \/ Tick \/ TombstoneAuction \/ Close
           \/ \E reserve \in 1..MaxAmount : LowerReserve(reserve)
           \/ UNCHANGED bidVars
    PROVE  BidInv'
<1>1. /\ bids' = bids
      /\ \/ auction' = auction
         \/ \E x : auction' = [auction EXCEPT !.status = x]
         \/ \E x : auction' = [auction EXCEPT !.reserve = x]
  BY Zenon DEF Tick, TombstoneAuction, Close, LowerReserve, bidVars
<1>2. auction = [status |-> auction.status, ends |-> auction.ends, price |-> auction.price,
                 leader |-> auction.leader, reserve |-> auction.reserve]
  BY Zenon DEF BidInv
<1>3. /\ auction' = [status |-> auction'.status, ends |-> auction'.ends,
                     price |-> auction'.price, leader |-> auction'.leader,
                     reserve |-> auction'.reserve]
      /\ auction'.price = auction.price /\ auction'.leader = auction.leader
  <2>1. CASE auction' = auction
    BY <1>2, <2>1
  <2>2. ASSUME NEW x, auction' = [auction EXCEPT !.status = x]
        PROVE  auction' = [status |-> x, ends |-> auction.ends, price |-> auction.price,
                           leader |-> auction.leader, reserve |-> auction.reserve]
    BY <1>2, <2>2
  <2>3. ASSUME NEW x, auction' = [auction EXCEPT !.reserve = x]
        PROVE  auction' = [status |-> auction.status, ends |-> auction.ends,
                           price |-> auction.price, leader |-> auction.leader, reserve |-> x]
    BY <1>2, <2>3
  <2> QED
    BY <1>1, <2>1, <2>2, <2>3
<1> QED
  BY <1>1, <1>3, Zenon DEF BidInv

(* However the bids of an auction are raised and interleaved, and whenever *)
(* it closes or is deleted, its leader and its price are the ones its      *)
(* table of bids shows.                                                    *)
THEOREM BiddingInvariant == BidSpec => []BidInv
<1>1. BidInv /\ [BidNext]_bidVars => BidInv'
  <2> SUFFICES ASSUME BidInv, [BidNext]_bidVars PROVE BidInv'
    OBVIOUS
  <2>1. ASSUME NEW b \in Bidders, NEW maximum \in 1..MaxAmount, PlaceBid(b, maximum)
        PROVE  BidInv'
    BY <2>1, PlaceBidKeeps, Zenon
  <2> QED
    BY <2>1, OtherStepsKeepBids, Zenon DEF BidNext
<1> QED
  BY <1>1, BidInvInit, PTL DEF BidSpec

(* The leader and the price of the invariant are those that the two        *)
(* properties of the bidding ask for.                                      *)
LEMMA BidInvShows == BidInv => LeaderBidHighestFirst /\ PriceBetweenBids
<1> SUFFICES ASSUME BidInv, bids # <<>>
             PROVE  LeaderBidHighestFirst /\ PriceBetweenBids
  BY Zenon DEF LeaderBidHighestFirst, PriceBetweenBids
<1>1. /\ bids \in Tables /\ \A i \in DOMAIN bids : bids[i].maximum >= Opening
      /\ auction.leader = First(BiddersIn(bids), bids)
      /\ auction.price = VisibleAmount(bids)
  BY Zenon DEF BidInv
<1> DEFINE leader == First(BiddersIn(bids), bids)
           price == VisibleAmount(bids)
<1>2. /\ price <= Top(leader, bids)
      /\ \A b \in BiddersIn(bids) \ {leader} : Top(b, bids) <= price
      /\ BiddersIn(bids) # {leader} =>
            \E b \in BiddersIn(bids) \ {leader} : price <= Top(b, bids) + Increment
      /\ \E i \in DOMAIN bids :
            /\ bids[i].bidder = leader
            /\ \A j \in DOMAIN bids :
                  \/ bids[j].maximum < bids[i].maximum
                  \/ bids[j].maximum = bids[i].maximum /\ i <= j
  BY <1>1, TableRanked, Zenon
<1>3. auction.leader = leader /\ auction.price = price
  BY <1>1
<1> HIDE DEF leader, price
<1> QED
  BY <1>2, <1>3, SMTT(60) DEF LeaderBidHighestFirst, PriceBetweenBids

(* The leader always is the first who offered the highest maximum.         *)
THEOREM LeaderAlwaysBidHighestFirst == BidSpec => []LeaderBidHighestFirst
  BY BiddingInvariant, BidInvShows, PTL

(* The visible price always is one the leader can pay, covers every other  *)
(* bidder's maximum, and exceeds the runner-up's by at most an increment.  *)
THEOREM PriceAlwaysBetweenBids == BidSpec => []PriceBetweenBids
  BY BiddingInvariant, BidInvShows, PTL

-----------------------------------------------------------------------------
(* The auction over a listing with stock.                                  *)

(* The auction whose close takes a unit and makes the order implements the *)
(* bidding: its steps are steps of the bidding or leave it alone, so the   *)
(* price the winner owes is the price the bids show.                       *)
THEOREM AuctionImplementsBidding == AuctionSpec => BidSpec
<1>1. AuctionInit => BidInit
  BY Zenon DEF AuctionInit
<1>2. [AuctionNext]_auctionVars => [BidNext]_bidVars
  <2> SUFFICES ASSUME [AuctionNext]_auctionVars PROVE BidNext \/ UNCHANGED bidVars
    BY Zenon
  <2>1. CASE Bidding
    BY <2>1, Zenon DEF Bidding, BidNext
  <2>2. CASE Closing
    BY <2>2, Zenon DEF Closing, CloseSold, CloseUnsold, BidNext
  <2>3. CASE Paying
    BY <2>3, Zenon DEF Paying, Bind, MoneyArrives, MoneyMismatched, MoneyDetected,
       SharedObserved, SellerConfirms, RouteSellerWindow, CancelUnpaid, CancelPaid,
       ApproveCancel, RecordExternalRefund, Resolve
  <2>4. CASE LateMoney
    BY <2>4, Zenon DEF LateMoney
  <2>5. CASE Reserving
    BY <2>5, Zenon DEF Reserving, ReserveInventory, Lapse, ExpireDue
  <2>6. CASE Stocking
    BY <2>6, Zenon DEF Stocking, Reregister, AdjustInventory
  <2>7. CASE UNCHANGED auctionVars
    BY <2>7, Zenon DEF auctionVars, bidVars
  <2> QED
    BY <2>1, <2>2, <2>3, <2>4, <2>5, <2>6, <2>7, Zenon DEF AuctionNext
<1> QED
  BY <1>1, <1>2, PTL DEF AuctionSpec, BidSpec

ReservationRows ==
    [status : {"none", "active", "expired", "released", "converted"},
     buyer : Bidders \union {NoOne}, quantity : Nat, due : BOOLEAN]

WinningOrders ==
    [state : {"none", "pending_payment", "paid", "cancel_requested", "cancelled",
              "refunded_external"},
     buyer : Bidders \union {NoOne},
     rail : {"null", "bitcoin", "fiat"},
     request : {"null", "pending", "detected", "awaiting_seller", "confirmed"},
     money : {"awaiting", "confirmed", "manual_review", "expired"},
     reason : {"null", "amount_mismatch", "refund_required"},
     resolution : {"null", "paid", "refunded", "abandoned"}]

(* Only an order has a rail, and a bitcoin payment goes under review only  *)
(* with its request confirmed.                                             *)
HoldInv ==
    /\ reservation \in [Reservations -> ReservationRows]
    /\ order \in WinningOrders
    /\ order.rail # "null" => order.state # "none"
    /\ order.rail = "bitcoin" /\ order.money = "manual_review" => order.request = "confirmed"

(* Before the close there is neither a reservation nor an order.           *)
LEMMA HoldInvInit == AuctionInit => HoldInv
  BY SMTT(60) DEF AuctionInit, HoldInv, NoReservation, NoOrder, ReservationRows, WinningOrders

(* Rows that get another status are rows.                                  *)
LEMMA MarkedTyped ==
    ASSUME HoldInv, NEW rs, NEW status \in {"expired", "released", "converted"}
    PROVE  Marked(rs, status) \in [Reservations -> ReservationRows]
  BY DEF HoldInv, Marked, ReservationRows

(* The close writes the winner's row and order.                            *)
LEMMA ClosingKeeps ==
    ASSUME BidInv, HoldInv, Closing
    PROVE  HoldInv'
<1>1. CASE CloseUnsold
  BY <1>1, Zenon DEF CloseUnsold, HoldInv
<1>2. ASSUME NEW r \in Reservations, CloseSold(r) PROVE HoldInv'
  <2>1. auction.leader \in Bidders \union {NoOne}
    BY Zenon DEF BidInv
  <2> DEFINE row == [status |-> "active", buyer |-> auction.leader, quantity |-> 1,
                     due |-> FALSE]
  <2>2. row \in ReservationRows
    BY <2>1 DEF ReservationRows
  <2>3. reservation' = [reservation EXCEPT ![r] = row]
    BY <1>2, Zenon DEF CloseSold
  <2> HIDE DEF row
  <2>4. reservation' \in [Reservations -> ReservationRows]
    BY <2>2, <2>3 DEF HoldInv
  <2>5. order' = [NoOrder EXCEPT !.state = "pending_payment", !.buyer = auction.leader]
    BY <1>2, Zenon DEF CloseSold
  <2>6. order' \in WinningOrders /\ order'.rail = "null"
    BY <2>1, <2>5, Zenon DEF NoOrder, WinningOrders
  <2> QED
    BY <2>4, <2>6, SMT DEF HoldInv
<1> QED
  BY <1>1, <1>2, Zenon DEF Closing

(* Reservations are made, come due and are expired by any buyer's use of   *)
(* the listing and by the sweep; the order is not touched.                 *)
LEMMA ReservingKeeps ==
    ASSUME HoldInv, Reserving
    PROVE  HoldInv'
<1>1. ASSUME NEW r \in Reservations, NEW b \in Bidders, NEW q \in 1..MaxTotal,
             ReserveInventory(r, b, q)
      PROVE  HoldInv'
  BY <1>1, SMTT(60) DEF ReserveInventory, HoldInv, ReservationRows
<1>2. ASSUME NEW r \in Reservations, Lapse(r) PROVE HoldInv'
  BY <1>2, Zenon DEF Lapse, HoldInv, ReservationRows
<1>3. CASE ExpireDue
  <2>1. reservation' = Marked(Due, "expired") /\ order' = order
    BY <1>3, Zenon DEF ExpireDue
  <2>2. reservation' \in [Reservations -> ReservationRows]
    BY <2>1, MarkedTyped
  <2> QED
    BY <2>1, <2>2, Zenon DEF HoldInv
<1> QED
  BY <1>1, <1>2, <1>3, Zenon DEF Reserving

(* Confirming, releasing and taking back a hold write rows of the table.   *)
LEMMA HoldWritesTyped ==
    ASSUME HoldInv,
           \/ UNCHANGED <<stock, reservation>>
           \/ \E rs : reservation' = Marked(rs, "converted")
           \/ \E rs : reservation' = Marked(rs, "released")
    PROVE  reservation' \in [Reservations -> ReservationRows]
<1>1. reservation \in [Reservations -> ReservationRows]
  BY Zenon DEF HoldInv
<1>2. ASSUME NEW rs PROVE Marked(rs, "converted") \in [Reservations -> ReservationRows]
  BY MarkedTyped
<1>3. ASSUME NEW rs PROVE Marked(rs, "released") \in [Reservations -> ReservationRows]
  BY MarkedTyped
<1> QED
  BY <1>1, <1>2, <1>3, Zenon

(* The steps of the order and its payment: each keeps the rows rows, and   *)
(* money goes under review only together with its request.                 *)
LEMMA PayingKeeps ==
    ASSUME HoldInv, Paying
    PROVE  HoldInv'
<1> DEFINE Kept == /\ order' \in WinningOrders
                   /\ order'.rail # "null" => order'.state # "none"
                   /\ order'.rail = "bitcoin" /\ order'.money = "manual_review"
                         => order'.request = "confirmed"
<1>1. /\ order \in WinningOrders
      /\ order.rail # "null" => order.state # "none"
      /\ order.rail = "bitcoin" /\ order.money = "manual_review"
            => order.request = "confirmed"
  BY Zenon DEF HoldInv
<1>2. reservation \in [Reservations -> ReservationRows]
  BY Zenon DEF HoldInv
<1>3. reservation' \in [Reservations -> ReservationRows] /\ Kept => HoldInv'
  BY Zenon DEF HoldInv
<1>4. ASSUME NEW rail \in {"bitcoin", "fiat"}, Bind(rail) PROVE HoldInv'
  <2>1. reservation' = reservation
    BY <1>4, Zenon DEF Bind
  <2>2. Kept
    BY <1>1, <1>4, ZenonT(60) DEF Bind, WinningOrders
  <2> QED
    BY <1>2, <1>3, <2>1, <2>2, Zenon
<1>5. CASE MoneyArrives
  <2>1. reservation' \in [Reservations -> ReservationRows]
    BY <1>5, HoldWritesTyped, Zenon DEF MoneyArrives, ConfirmOrder
  <2> DEFINE o == [order EXCEPT !.request = IF order.rail = "bitcoin" THEN "confirmed" ELSE @]
  <2>2. /\ order \in WinningOrders /\ order.rail # "null" /\ order.state # "none"
        /\ \/ order' = [o EXCEPT !.state = "paid", !.money = "confirmed", !.reason = "null"]
           \/ order' = [o EXCEPT !.money = "manual_review"]
    BY <1>1, <1>5, Zenon DEF MoneyArrives, ConfirmOrder
  <2>3. /\ o \in WinningOrders /\ o.state # "none"
        /\ o.rail = "bitcoin" => o.request = "confirmed"
    BY <2>2 DEF WinningOrders
  <2> HIDE DEF o
  <2>4. /\ order' \in WinningOrders /\ order'.state # "none"
        /\ order'.rail = "bitcoin" /\ order'.money = "manual_review"
              => order'.request = "confirmed"
    <3>1. CASE order' = [o EXCEPT !.state = "paid", !.money = "confirmed", !.reason = "null"]
      BY <2>3, <3>1, ZenonT(60) DEF WinningOrders
    <3>2. CASE order' = [o EXCEPT !.money = "manual_review"]
      BY <2>3, <3>2 DEF WinningOrders
    <3> QED
      BY <2>2, <3>1, <3>2, Zenon
  <2> QED
    BY <1>3, <2>1, <2>4, Zenon
<1>6. CASE MoneyMismatched
  <2>1. reservation' = reservation
    BY <1>6, Zenon DEF MoneyMismatched
  <2>2. Kept
    BY <1>1, <1>6, Zenon DEF MoneyMismatched, WinningOrders
  <2> QED
    BY <1>2, <1>3, <2>1, <2>2, Zenon
<1>7. CASE MoneyDetected
  <2>1. reservation' = reservation
    BY <1>7, Zenon DEF MoneyDetected
  <2>2. Kept
    BY <1>1, <1>7 DEF MoneyDetected, WinningOrders
  <2> QED
    BY <1>2, <1>3, <2>1, <2>2, Zenon
<1>8. CASE SharedObserved
  <2>1. reservation' \in [Reservations -> ReservationRows]
    <3>1. \A r \in Reservations :
            /\ reservation[r] \in ReservationRows
            /\ [reservation[r] EXCEPT !.due = FALSE] \in ReservationRows
      BY <1>2, Zenon DEF ReservationRows
    <3>2. reservation' = [r \in Reservations |->
            IF r \in ActiveOf(order.buyer) THEN [reservation[r] EXCEPT !.due = FALSE]
            ELSE reservation[r]]
      BY <1>8, Zenon DEF SharedObserved
    <3> QED
      BY <3>1, <3>2
  <2>2. Kept
    BY <1>1, <1>8 DEF SharedObserved, WinningOrders
  <2> QED
    BY <1>3, <2>1, <2>2, Zenon
<1>9. CASE SellerConfirms
  <2>1. reservation' \in [Reservations -> ReservationRows]
    BY <1>9, HoldWritesTyped, Zenon DEF SellerConfirms, ConfirmOrder
  <2>2. Kept
    BY <1>1, <1>9, Zenon DEF SellerConfirms, ConfirmOrder, WinningOrders
  <2> QED
    BY <1>3, <2>1, <2>2, Zenon
<1>10. CASE RouteSellerWindow
  <2>1. reservation' = reservation
    BY <1>10, Zenon DEF RouteSellerWindow
  <2>2. Kept
    BY <1>1, <1>10, Zenon DEF RouteSellerWindow, WinningOrders
  <2> QED
    BY <1>2, <1>3, <2>1, <2>2, Zenon
<1>11. CASE CancelUnpaid
  <2>1. reservation' \in [Reservations -> ReservationRows]
    BY <1>11, HoldWritesTyped, Zenon DEF CancelUnpaid, ReleaseReservedHold
  <2>2. Kept
    BY <1>1, <1>11, ZenonT(60) DEF CancelUnpaid, WinningOrders
  <2> QED
    BY <1>3, <2>1, <2>2, Zenon
<1>12. CASE CancelPaid
  <2>1. reservation' = reservation
    BY <1>12, Zenon DEF CancelPaid
  <2>2. Kept
    BY <1>1, <1>12 DEF CancelPaid, WinningOrders
  <2> QED
    BY <1>2, <1>3, <2>1, <2>2, Zenon
<1>13. CASE ApproveCancel
  <2>1. reservation' = reservation
    BY <1>13, Zenon DEF ApproveCancel
  <2>2. Kept
    BY <1>1, <1>13 DEF ApproveCancel, WinningOrders
  <2> QED
    BY <1>2, <1>3, <2>1, <2>2, Zenon
<1>14. CASE RecordExternalRefund
  <2>1. reservation' = reservation
    BY <1>14, Zenon DEF RecordExternalRefund
  <2>2. Kept
    BY <1>1, <1>14 DEF RecordExternalRefund, WinningOrders
  <2> QED
    BY <1>2, <1>3, <2>1, <2>2, Zenon
<1>15. ASSUME NEW outcome \in {"paid", "refunded", "abandoned"}, Resolve(outcome)
       PROVE  HoldInv'
  <2>1. reservation' \in [Reservations -> ReservationRows]
    BY <1>15, HoldWritesTyped, Zenon DEF Resolve, ReleaseReservedHold, Reacquired
  <2>2. CASE order' = [order EXCEPT !.state = "paid", !.money = "confirmed",
                                    !.resolution = outcome]
    <3>1. Kept
      BY <1>1, <2>2, ZenonT(60) DEF WinningOrders
    <3> QED
      BY <1>3, <2>1, <3>1, Zenon
  <2>3. CASE order' = [order EXCEPT
                !.state = IF outcome = "refunded" THEN "refunded_external" ELSE "cancelled",
                !.money = IF outcome = "refunded" THEN "confirmed" ELSE "expired",
                !.resolution = outcome]
    <3>1. CASE outcome = "refunded"
      <4>1. order' = [order EXCEPT !.state = "refunded_external", !.money = "confirmed",
                                   !.resolution = "refunded"]
        BY <2>3, <3>1
      <4>2. Kept
        BY <1>1, <4>1, Zenon DEF WinningOrders
      <4> QED
        BY <1>3, <2>1, <4>2, Zenon
    <3>2. CASE outcome # "refunded"
      <4>1. order' = [order EXCEPT !.state = "cancelled", !.money = "expired",
                                   !.resolution = outcome]
        BY <2>3, <3>2
      <4>2. Kept
        BY <1>1, <4>1, ZenonT(60) DEF WinningOrders
      <4> QED
        BY <1>3, <2>1, <4>2, Zenon
    <3> QED
      BY <3>1, <3>2
  <2> QED
    BY <1>15, <2>2, <2>3, Zenon DEF Resolve
<1> QED
  BY <1>4, <1>5, <1>6, <1>7, <1>8, <1>9, <1>10, <1>11, <1>12, <1>13, <1>14, <1>15, Zenon
     DEF Paying

(* Late money takes the unit back or is put under review.                  *)
LEMMA LateMoneyKeeps ==
    ASSUME HoldInv, LateMoney
    PROVE  HoldInv'
<1>1. CASE reservation' = Marked(LapsedOf(order.buyer) \union ActiveOf(order.buyer), "converted")
           /\ order' = [order EXCEPT !.state = "paid", !.money = "confirmed",
                                     !.request = "confirmed"]
  <2>1. reservation' \in [Reservations -> ReservationRows]
    BY <1>1, MarkedTyped
  <2> QED
    BY <1>1, <2>1, ZenonT(60) DEF HoldInv, WinningOrders
<1> DEFINE active == [r \in Reservations |->
                        IF r \in LapsedOf(order.buyer)
                        THEN [reservation[r] EXCEPT !.status = "active", !.due = FALSE]
                        ELSE reservation[r]]
<1>2. CASE /\ reservation' = IF OneLapsed THEN active ELSE reservation
           /\ order' = [order EXCEPT
                !.state = IF @ = "pending_payment" THEN "cancelled" ELSE @,
                !.request = "confirmed", !.money = "manual_review", !.reason = "refund_required"]
  <2>1. active \in [Reservations -> ReservationRows]
    BY Zenon DEF HoldInv, ReservationRows
  <2> HIDE DEF active
  <2>2. reservation' \in [Reservations -> ReservationRows]
    BY <1>2, <2>1 DEF HoldInv
  <2>3. order \in WinningOrders /\ order.rail = "bitcoin" /\ order.state # "none"
    BY Zenon DEF HoldInv, LateMoney
  <2>4. /\ order' \in WinningOrders /\ order'.state # "none"
        /\ order'.request = "confirmed"
    BY <1>2, <2>3, ZenonT(60) DEF WinningOrders
  <2> QED
    BY <2>2, <2>4, SMT DEF HoldInv
<1> QED
  BY <1>1, <1>2, Zenon DEF LateMoney, Reacquired

(* Every step of the auction keeps the invariant.                          *)
LEMMA HoldInvNext ==
    ASSUME BidInv, HoldInv, [AuctionNext]_auctionVars
    PROVE  HoldInv'
<1>1. CASE Bidding
  BY <1>1, Zenon DEF Bidding, holdVars, HoldInv
<1>2. CASE Stocking
  BY <1>2, Zenon DEF Stocking, Reregister, AdjustInventory, HoldInv
<1>3. CASE UNCHANGED auctionVars
  BY <1>3, Zenon DEF auctionVars, HoldInv
<1> QED
  BY <1>1, <1>2, <1>3, ClosingKeeps, PayingKeeps, LateMoneyKeeps, ReservingKeeps, Zenon
     DEF AuctionNext

(* The bidding and the winner's hold keep their invariants together.       *)
THEOREM AuctionInvariant == AuctionSpec => [](BidInv /\ HoldInv)
<1>1. AuctionSpec => []BidInv
  BY AuctionImplementsBidding, BiddingInvariant, PTL
<1> QED
  BY <1>1, HoldInvInit, HoldInvNext, PTL DEF AuctionSpec

-----------------------------------------------------------------------------
(* Money that waits keeps the stock held.                                  *)

(* The sweep spares the rows of the buyer whose bitcoin waits.             *)
LEMMA SweepSparesWaiting ==
    ASSUME HoldInv, Waiting(order), NEW r \in ActiveOf(order.buyer)
    PROVE  r \notin Due
  BY SMTT(60) DEF HoldInv, Waiting, ActiveOf, Having, Due, Preserved

(* A step of the order that takes or converts the rows of its buyer is     *)
(* taken when the money does not wait, or ends the wait.                   *)
LEMMA WaitingOrderKeepsRows ==
    ASSUME HoldInv, Waiting(order), Waiting(order)', Paying \/ LateMoney
    PROVE  reservation' = reservation
<1> USE DEF HoldInv, WinningOrders, Waiting
<1>1. ASSUME NEW rail \in {"bitcoin", "fiat"}, Bind(rail) PROVE reservation' = reservation
  BY <1>1, Zenon DEF Bind
<1>2. ASSUME MoneyArrives \/ MoneyMismatched \/ SharedObserved \/ LateMoney PROVE FALSE
  BY <1>2, Zenon DEF MoneyArrives, MoneyMismatched, SharedObserved, LateMoney
<1>3. CASE MoneyDetected \/ RouteSellerWindow \/ CancelPaid \/ ApproveCancel
             \/ RecordExternalRefund
  BY <1>3, Zenon DEF MoneyDetected, RouteSellerWindow, CancelPaid, ApproveCancel,
     RecordExternalRefund
<1>4. ASSUME SellerConfirms PROVE FALSE
  <2>1. order' = [[order EXCEPT !.request = "confirmed"] EXCEPT
                     !.state = "paid", !.money = "confirmed", !.reason = "null"]
    BY <1>4, Zenon DEF SellerConfirms, ConfirmOrder
  <2> QED
    BY <2>1
<1>5. ASSUME CancelUnpaid PROVE FALSE
  BY <1>5 DEF CancelUnpaid
<1>6. ASSUME NEW outcome \in {"paid", "refunded", "abandoned"}, Resolve(outcome) PROVE FALSE
  <2>1. order.request = "confirmed"
    BY <1>6, Zenon DEF Resolve
  <2>2. order'.request = order.request /\ order'.money # "manual_review"
    BY <1>6, Zenon DEF Resolve
  <2> QED
    BY <2>1, <2>2
<1> QED
  BY <1>1, <1>2, <1>3, <1>4, <1>5, <1>6, Zenon DEF Paying

(* While the winner's bitcoin waits for the seller or for a decision,      *)
(* nothing takes a reservation of theirs: no sweep, no cancellation, no    *)
(* use of the listing by another buyer.                                    *)
THEOREM WaitingMoneyAlwaysKeepsHold == AuctionSpec => WaitingMoneyKeepsHold
<1> DEFINE Kept == Waiting(order) /\ Waiting(order') =>
                       \A r \in ActiveOf(order.buyer) : reservation'[r].status = "active"
<1>1. ASSUME HoldInv, [AuctionNext]_auctionVars PROVE [Kept]_auctionVars
  <2> SUFFICES ASSUME AuctionNext, Waiting(order), Waiting(order'),
                      NEW r \in ActiveOf(order.buyer)
               PROVE  reservation'[r].status = "active"
    BY <1>1, Zenon
  <2>1. /\ r \in Reservations /\ reservation[r].status = "active"
        /\ reservation \in [Reservations -> ReservationRows]
    BY <1>1 DEF HoldInv, ActiveOf, Having
  <2>2. CASE reservation' = reservation
    BY <2>1, <2>2
  <2>3. CASE Closing
    <3>1. CASE CloseUnsold
      BY <2>2, <3>1, Zenon DEF CloseUnsold
    <3>2. ASSUME NEW s \in Reservations, CloseSold(s) PROVE FALSE
      BY <3>2 DEF CloseSold, NoOrder, Waiting
    <3> QED
      BY <2>3, <3>1, <3>2, Zenon DEF Closing
  <2>4. ASSUME NEW s \in Reservations, NEW b \in Bidders, NEW q \in 1..MaxTotal,
               ReserveInventory(s, b, q)
        PROVE  reservation'[r].status = "active"
    BY <2>1, <2>4, SMTT(60) DEF ReserveInventory
  <2>5. ASSUME NEW s \in Reservations, Lapse(s) PROVE reservation'[r].status = "active"
    BY <2>1, <2>5 DEF Lapse, ReservationRows
  <2>6. CASE ExpireDue
    <3>1. r \notin Due
      BY <1>1, SweepSparesWaiting, Zenon
    <3> QED
      BY <2>1, <2>6, <3>1 DEF ExpireDue, Marked
  <2>7. CASE Bidding
    BY <2>2, <2>7, Zenon DEF Bidding, holdVars
  <2>8. CASE Stocking
    BY <2>2, <2>8, Zenon DEF Stocking, Reregister, AdjustInventory
  <2>9. CASE Paying \/ LateMoney
    BY <1>1, <2>2, <2>9, WaitingOrderKeepsRows, Zenon
  <2> QED
    BY <2>3, <2>4, <2>5, <2>6, <2>7, <2>8, <2>9, Zenon DEF AuctionNext, Reserving
<1> QED
  BY <1>1, AuctionInvariant, PTL DEF AuctionSpec, WaitingMoneyKeepsHold

=============================================================================
