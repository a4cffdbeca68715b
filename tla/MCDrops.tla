------------------------------ MODULE MCDrops ------------------------------
(* Instances of Drops for TLC.                                             *)
EXTENDS Drops, TLC

Symmetric == Permutations(Drops) \union Permutations(Buyers) \union Permutations(Claims)

=============================================================================
