----------------------- MODULE ParcelLifecycleCustody -----------------------
(***************************************************************************)
(* ParcelLifecycle implements ParcelCustody when requests are served one   *)
(* at a time and nobody edits statuses by hand.  The row tells where the   *)
(* parcel is; what is only in flight has not happened yet.                 *)
(***************************************************************************)
EXTENDS ParcelLifecycle

PlaceOf(row) ==
  LET where(at, hub, rider) == [at |-> at, hub |-> hub, rider |-> rider]
  IN  CASE row.provider = "CARRYBEE" -> where("courier", NULL, NULL)
        [] row.provider = "INTERNAL" /\ row.status = "PENDING" ->
             where("merchant", NULL, NULL)
        [] row.provider = "INTERNAL" /\ row.status = "DELIVERED" ->
             where("customer", NULL, NULL)
        [] row.provider = "INTERNAL" /\ row.status = "IN_TRANSIT" ->
             where("transit", row.dest, NULL)
        [] row.provider = "INTERNAL"
           /\ row.status \in {"IN_HUB", "ASSIGNED_TO_RIDER", "RETURNED_TO_HUB",
                              "RETURN_TO_MERCHANT"} ->
             where("hub", row.current, NULL)
        [] OTHER -> where("rider", row.current, row.rider)

CurrentPlace ==
  [p \in Parcels |-> IF p \in live THEN PlaceOf(rows[p])
                     ELSE [at |-> "nowhere", hub |-> NULL, rider |-> NULL]]

Custody == INSTANCE ParcelCustody WITH place <- CurrentPlace

\* A parcel changes hands only between parties that meet: a rider gets it from
\* the hub that has it and brings it back there, it leaves a hub for another
\* one and arrives at that one, and nobody takes it from a rider, a customer or
\* the road any other way.
CustodySpec == Custody!Spec

=============================================================================
