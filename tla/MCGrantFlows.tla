----------------------------- MODULE MCGrantFlows -----------------------------
(* Instances of GrantFlows for TLC.                                        *)
EXTENDS GrantFlows
=============================================================================
