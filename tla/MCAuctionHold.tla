--------------------------- MODULE MCAuctionHold ---------------------------
(* Instances of AuctionHold for TLC.                                       *)
EXTENDS AuctionHold
=============================================================================
