-------------------------- MODULE ParcelWorklists --------------------------
(***************************************************************************)
(* What hub managers, riders and merchants see of the parcels: the lists   *)
(* and counts of parcels.service.ts, as functions of the state of          *)
(* ParcelLifecycle.  A parcel that is on nobody's list is not found by     *)
(* those who have to move it.                                              *)
(*                                                                         *)
(* Paging, sorting and the filters a caller adds are left out.  A parcel   *)
(* is also listed at the hub of its pickup request, which is the hub that  *)
(* its store had on the day it was posted.                                 *)
(***************************************************************************)
EXTENDS ParcelLifecycle

AtStoreHub(p, hub) == rows[p].store # NULL /\ storeHub[rows[p].store] = hub

(* Hub managers.                                                           *)

\* Waiting to be received, as the default of the list has it.
FindAllForHub(hub) ==
  {p \in live : AtStoreHub(p, hub) /\ rows[p].status \in {"PENDING", "PICKED_UP"}}

GetParcelsForAssignment(hub) ==
  {p \in live : AtStoreHub(p, hub) /\ rows[p].status = "IN_HUB" /\ rows[p].rider = NULL}

GetIncomingParcels(hub) ==
  {p \in live : rows[p].dest = hub /\ rows[p].status = "IN_TRANSIT" /\ ~rows[p].received}

GetDeliveryOutcomes(hub) ==
  {p \in live : /\ rows[p].current = hub
                /\ rows[p].status \in {"PARTIAL_DELIVERY", "EXCHANGE", "PAID_RETURN", "RETURNED"}}

GetRescheduledDeliveries(hub) ==
  {p \in live : rows[p].current = hub /\ rows[p].status = "DELIVERY_RESCHEDULED"}

(* Riders.                                                                 *)

Carried(r, statuses) == {p \in live : rows[p].rider = r /\ rows[p].status \in statuses}

GetRiderParcels(r) == Carried(r, {"ASSIGNED_TO_RIDER", "OUT_FOR_DELIVERY"})

\* The pending and the completed tab.
GetRiderDeliveries(r) ==
  Carried(r, {"OUT_FOR_DELIVERY", "DELIVERED", "PARTIAL_DELIVERY", "EXCHANGE",
              "DELIVERY_RESCHEDULED"})

GetRiderReturns(r) ==
  Carried(r, {"RETURNED", "PAID_RETURN", "RETURNED_TO_HUB", "RETURN_TO_MERCHANT"})

(* Merchants.                                                              *)

\* The rows of the lifetime summary and the statuses each of them counts.
GetLifetimeSummary ==
  [new_parcels          |-> {"PENDING"},
   pickup               |-> {"PICKED_UP", "OUT_FOR_PICKUP"},
   in_transit           |-> {"IN_TRANSIT", "IN_HUB"},
   assigned             |-> {"ASSIGNED_TO_RIDER", "ASSIGNED_TO_THIRD_PARTY"},
   out_for_delivery     |-> {"OUT_FOR_DELIVERY"},
   delivered            |-> {"DELIVERED", "PARTIAL_DELIVERY", "EXCHANGE"},
   delivery_rescheduled |-> {"DELIVERY_RESCHEDULED"},
   returned             |-> {"RETURNED", "PAID_RETURN", "RETURN_TO_MERCHANT",
                             "RETURNED_TO_HUB"},
   cancelled            |-> {"CANCELLED"}]

-----------------------------------------------------------------------------
(* What holds when requests are served one at a time.                      *)

\* No handler, and no chain of them over two attempts, transfers and returns,
\* leaves a rider with a parcel that none of his lists shows.
CarriedIsListed ==
  \A p \in live : rows[p].rider # NULL =>
    LET r == rows[p].rider
    IN  p \in GetRiderParcels(r) \cup GetRiderDeliveries(r) \cup GetRiderReturns(r)

\* What a rider could not deliver, or not whole, is listed in the hub to which
\* the rider belongs and will bring it, also after transfers between hubs.
OutcomeListedAtRidersHub ==
  \A p \in live :
    /\ rows[p].rider # NULL
    /\ rows[p].status \in RiderOutcomes \ {"DELIVERED"}
    => LET hub == riders[rows[p].rider].hub
       IN  p \in GetDeliveryOutcomes(hub) \cup GetRescheduledDeliveries(hub)

\* The merchant's summary counts an own parcel as delivered or returned only on
\* the word of a rider, whoever moved and marked the parcel since.
SummaryIsEarned ==
  \A p \in live : rows[p].provider = "INTERNAL" =>
    /\ rows[p].status \in GetLifetimeSummary.delivered =>
         chosen[p] \in {"DELIVERED", "PARTIAL_DELIVERY", "EXCHANGE"}
    /\ rows[p].status \in GetLifetimeSummary.returned =>
         chosen[p] \in {"RETURNED", "PAID_RETURN", "PARTIAL_DELIVERY", "EXCHANGE"}

-----------------------------------------------------------------------------
(* What the code says and does not keep.                                   *)

\* "Get parcels ready for rider assignment": a parcel that the manager of its
\* hub may assign is on his list.
ReadyIsListed ==
  \A p \in live :
    rows[p].provider = "INTERNAL" /\ rows[p].status = "IN_HUB" =>
      p \in GetParcelsForAssignment(rows[p].current)

\* The rows of the merchant's summary add up to its total.
SummaryAddsUp ==
  \A p \in live : \E row \in DOMAIN GetLifetimeSummary :
    rows[p].status \in GetLifetimeSummary[row]

=============================================================================
