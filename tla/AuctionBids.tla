---------------------------- MODULE AuctionBids ----------------------------
(***************************************************************************)
(* An auction from its registration to its close: proxy bids under a       *)
(* maximum, the visible price, the anti-sniping window, the seller's       *)
(* reserve, and the close that the seller's command and the worker share.  *)
(* Amounts are minor units of the listing's asset and instants are         *)
(* seconds; a bid whose expected revision is stale is refused, so a bid    *)
(* acts on the state it was made against.                                  *)
(***************************************************************************)
EXTENDS Integers, Sequences, FiniteSets

CONSTANTS
    Bidders,
    Opening, Increment,      \* unit_price and minimum_increment
    MaxAmount,               \* bound: the highest maximum a bidder offers
    LastEnd,                 \* bound: the latest ends_at a record gives
    MaxSpan,                 \* bound: the longest window and extension
    MaxBids,                 \* bound: accepted bids
    MaxNow                   \* bound: the clock

ASSUME MoneyPositive ==
    Opening \in Nat \ {0} /\ Increment \in Nat \ {0} /\ MaxAmount \in Nat

VARIABLES
    now,        \* server time
    terms,      \* starts_at, anti-sniping window and extension: never edited
    auction,    \* the listing's auction document, with its reserve
    bids,       \* the bids table, by sequence
    deleted     \* listings.deleted_at is set

bidVars == <<now, terms, auction, bids, deleted>>

NoOne == "null"
NoReserve == 0

(* auction_json on a new registration.                                     *)
BidInit ==
    /\ now = 0
    /\ terms \in [starts : 0..(LastEnd - 1), window : 0..MaxSpan, extension : 0..MaxSpan]
    /\ \E ends \in (terms.starts + 1)..LastEnd,
          reserve \in (Opening..MaxAmount) \union {NoReserve} :
          auction = [status |-> IF terms.starts > now THEN "scheduled" ELSE "active",
                     ends |-> ends, price |-> Opening, leader |-> NoOne, reserve |-> reserve]
    /\ bids = <<>>
    /\ deleted = FALSE

-----------------------------------------------------------------------------
(* Ranking and price.                                                      *)

MaxOf(S) == CHOOSE x \in S : \A y \in S : x >= y
MinOf(S) == CHOOSE x \in S : \A y \in S : x <= y

BidsOf(b, seq) == {i \in DOMAIN seq : seq[i].bidder = b}
BiddersIn(seq) == {seq[i].bidder : i \in DOMAIN seq}

(* The bidder's representative bid: their highest, the earliest on a tie.  *)
Representative(b, seq) ==
    CHOOSE i \in BidsOf(b, seq) : \A j \in BidsOf(b, seq) :
        \/ seq[i].maximum > seq[j].maximum
        \/ seq[i].maximum = seq[j].maximum /\ i <= j

(* ranked_bidder_maximums: by maximum descending, then sequence ascending. *)
RankedLastFirst(b, c, seq) ==            \* faulty: a tie goes to the later bid
    LET i == Representative(b, seq)
        j == Representative(c, seq)
    IN  seq[i].maximum > seq[j].maximum \/ (seq[i].maximum = seq[j].maximum /\ i > j)
RankedAbove(b, c, seq) ==
    LET i == Representative(b, seq)
        j == Representative(c, seq)
    IN  seq[i].maximum > seq[j].maximum \/ (seq[i].maximum = seq[j].maximum /\ i < j)

First(S, seq) == CHOOSE b \in S : \A c \in S \ {b} : RankedAbove(b, c, seq)
Top(b, seq) == seq[Representative(b, seq)].maximum

(* One increment over the runner-up, but never over the leader's maximum;  *)
(* the opening price while there is one bidder.                            *)
VisibleUncapped(seq) ==                 \* faulty: may exceed the leader's maximum
    LET leader == First(BiddersIn(seq), seq)
        others == BiddersIn(seq) \ {leader}
    IN  IF others = {} THEN Opening ELSE Top(First(others, seq), seq) + Increment
VisibleAmount(seq) ==
    LET leader == First(BiddersIn(seq), seq)
        others == BiddersIn(seq) \ {leader}
    IN  IF others = {} THEN Opening
        ELSE MinOf({Top(leader, seq), Top(First(others, seq), seq) + Increment})

PersonalMinimumNextBid(b) ==
    LET visible == auction.price + Increment
    IN  IF BidsOf(b, bids) = {} THEN visible
        ELSE MaxOf({visible, Top(b, bids) + 1})

(* A bid inside the window moves the end to extension from now.            *)
EndAfterBid ==
    IF terms.window > 0 /\ auction.ends - now <= terms.window
    THEN now + terms.extension ELSE auction.ends

-----------------------------------------------------------------------------
(* The steps.                                                              *)

Tick ==
    /\ now < MaxNow
    /\ now' = now + 1
    /\ UNCHANGED <<terms, auction, bids, deleted>>

Open == auction.status = "active" /\ terms.starts <= now /\ now < auction.ends

PlaceBid(b, maximum) ==
    /\ Len(bids) < MaxBids
    /\ ~deleted
    /\ Open
    /\ maximum >= PersonalMinimumNextBid(b)
    /\ bids' = Append(bids, [bidder |-> b, maximum |-> maximum])
    /\ auction' = [auction EXCEPT !.price = VisibleAmount(bids'),
                                  !.leader = First(BiddersIn(bids'), bids'),
                                  !.ends = EndAfterBid]
    /\ UNCHANGED <<now, terms, deleted>>

(* validate_edit: of a registered auction only the reserve may change, and *)
(* only downwards before the start.                                        *)
LowerReserve(reserve) ==
    /\ ~deleted
    /\ auction.status = "scheduled" /\ now < terms.starts /\ bids = <<>>
    /\ Opening <= reserve /\ reserve < auction.reserve
    /\ auction' = [auction EXCEPT !.reserve = reserve]
    /\ UNCHANGED <<now, terms, bids, deleted>>

TombstoneAuction ==
    /\ ~deleted
    /\ deleted' = TRUE
    /\ UNCHANGED <<now, terms, auction, bids>>

(* reserve_satisfied: the visible price, not the leader's maximum, has to  *)
(* reach the reserve.                                                      *)
Sells ==
    /\ auction.leader # NoOne
    /\ auction.reserve # NoReserve => auction.price >= auction.reserve
    /\ ~deleted

CloseWhatSells ==                        \* faulty: a deleted auction stays open
    /\ auction.status = "active"
    /\ now >= auction.ends /\ ~deleted
    /\ auction' = [auction EXCEPT !.status = IF Sells THEN "sold" ELSE "unsold"]
    /\ UNCHANGED <<now, terms, bids, deleted>>
(* close_locked_auction, for auction.close and close_due_auctions alike.   *)
Close ==
    /\ auction.status = "active"
    /\ now >= auction.ends
    /\ auction' = [auction EXCEPT !.status = IF Sells THEN "sold" ELSE "unsold"]
    /\ UNCHANGED <<now, terms, bids, deleted>>

BidNext ==
    \/ Tick
    \/ \E b \in Bidders, maximum \in 1..MaxAmount : PlaceBid(b, maximum)
    \/ \E reserve \in 1..MaxAmount : LowerReserve(reserve)
    \/ TombstoneAuction
    \/ Close

BidSpec == BidInit /\ [][BidNext]_bidVars

(* Time passes, and close_due_auctions runs in every cycle.                *)
FairBidSpec == BidSpec /\ WF_bidVars(Tick) /\ WF_bidVars(Close)

-----------------------------------------------------------------------------
(* Properties.                                                             *)

(* Maximums are proxies: the leader was the first to offer the highest     *)
(* maximum of all, however the bids were raised and interleaved.           *)
LeaderBidHighestFirst ==
    bids # <<>> =>
        \E i \in DOMAIN bids :
            /\ bids[i].bidder = auction.leader
            /\ \A j \in DOMAIN bids :
                  \/ bids[j].maximum < bids[i].maximum
                  \/ bids[j].maximum = bids[i].maximum /\ i <= j

(* The price is one a truthful second-price auction would show: the leader *)
(* can pay it, and it covers every other bidder's maximum by at most the   *)
(* increment.                                                              *)
PriceBetweenBids ==
    bids # <<>> =>
        /\ auction.price <= Top(auction.leader, bids)
        /\ \A b \in BiddersIn(bids) \ {auction.leader} : Top(b, bids) <= auction.price
        /\ BiddersIn(bids) # {auction.leader} =>
              \E b \in BiddersIn(bids) \ {auction.leader} :
                  auction.price <= Top(b, bids) + Increment

(* close_due_auctions ends every auction that was open, bid on or not,     *)
(* deleted or not.                                                         *)
EndedAuctionsClose ==
    auction.status = "active" ~> auction.status \in {"sold", "unsold"}

=============================================================================
