------------------------ MODULE MCDeliveryScheduler ------------------------
(* Symmetry for model-checking the safety of DeliveryScheduler. *)
EXTENDS DeliveryScheduler, TLC

Symmetry == Permutations(Sockets)
=============================================================================
