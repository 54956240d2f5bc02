-------------------------- MODULE MCDeliveryQueue --------------------------
(* Bounded instances of DeliveryQueue. *)
EXTENDS DeliveryQueue, TLC

\* Lane objects are interchangeable.
LaneSymmetry == Permutations(Lanes)
=============================================================================
