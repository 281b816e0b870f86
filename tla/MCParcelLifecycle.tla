------------------------- MODULE MCParcelLifecycle -------------------------
(* Small instances of ParcelLifecycle for TLC. *)
EXTENDS ParcelLifecycleCustody, ParcelWorklists, TLC

\* Hubs and riders are told apart only by equality.
Symmetric == Permutations(Hubs) \cup Permutations(Riders) \cup Permutations(Parcels)
             \cup Permutations(Handlers)

\* One order, and the return parcels that come of it and wait in the hub.
OneOrder ==
  \E p \in Parcels :
    \A q \in Parcels \ (unused \cup {p}) :
      rows[q].returnOf # NULL /\ rows[q].status = "IN_HUB"

=============================================================================
