------------------------------ MODULE MCOffers ------------------------------
(***************************************************************************)
(* Two offers competing for a listing of two units.                        *)
(***************************************************************************)
EXTENDS Offers, TLC

MCProposals == {[amount |-> 5, quantity |-> 1], [amount |-> 4, quantity |-> 2]}

(* The second record raises the shipping and allows pickup.                *)
MCRecords == <<[quantity |-> 2, shipping |-> 1, pickup |-> FALSE],
               [quantity |-> 2, shipping |-> 2, pickup |-> TRUE]>>

Interchangeable == Permutations(OfferIds) \union Permutations(Commands)

=============================================================================
