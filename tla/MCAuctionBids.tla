--------------------------- MODULE MCAuctionBids ---------------------------
(* Instances of AuctionBids for TLC.                                       *)
EXTENDS AuctionBids, TLC

Symmetric == Permutations(Bidders)

=============================================================================
