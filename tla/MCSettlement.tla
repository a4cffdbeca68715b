---------------------------- MODULE MCSettlement ----------------------------
(* Instances of Settlement for TLC.                                        *)
EXTENDS Settlement, TLC

(* Every order takes one unit of every listing.                            *)
OneEach == [o \in Orders |-> [l \in Listings |-> 1]]
OneUnit == [l \in Listings |-> 1]

Symmetric == Permutations(Orders) \union Permutations(Listings)

=============================================================================
