----------------------------- MODULE MCHubCash -----------------------------
(* Small instances of RiderSettlement and HubTransferRecords for TLC. *)
EXTENDS HubTransferRecords, TLC

OneRider == [d \in Deliveries |-> CHOOSE r \in Riders : TRUE]

\* Every delivery collects 2.
Twos == [d \in Deliveries |-> 2]

Symmetric == Permutations(Deliveries) \cup Permutations(Desks)

=============================================================================
