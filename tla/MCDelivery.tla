----------------------------- MODULE MCDelivery -----------------------------
(* Delivery on small instances; the bounds are in the configurations.        *)
EXTENDS Delivery
=============================================================================
