----------------------- MODULE MCDeliveryVerification -----------------------
(* Small instances of DeliveryVerification for TLC. *)
EXTENDS DeliveryVerification, TLC

Symmetric == Permutations(Riders) \cup Permutations(Handlers)

=============================================================================
