------------------------------ MODULE MCDelivery ------------------------------
(* Instances of Delivery for TLC.                                          *)
EXTENDS Delivery

(* An outbox drain, a re-seal that may always fail, and a task behind it.  *)
Order == <<"outbox", "reseal", "attest">>
=============================================================================
