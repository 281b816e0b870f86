--------------------------- MODULE ParcelCustody ---------------------------
(***************************************************************************)
(* What the parcel service promises about where a parcel is, without       *)
(* statuses, columns or requests: at every moment one party is responsible *)
(* for it, and it changes hands only between parties that meet.            *)
(***************************************************************************)
CONSTANTS Parcels, Hubs, Riders, NULL

VARIABLE place   \* where each parcel is

Place ==
  [at    : {"nowhere", "merchant", "hub", "rider", "transit", "customer", "courier"},
   hub   : Hubs \cup {NULL},   \* the hub, the rider's hub, or the destination
   rider : Riders \cup {NULL}]

At(where)    == [at |-> where, hub |-> NULL, rider |-> NULL]
InHub(h)     == [at |-> "hub", hub |-> h, rider |-> NULL]
OnTheWay(h)  == [at |-> "transit", hub |-> h, rider |-> NULL]
With(r, h)   == [at |-> "rider", hub |-> h, rider |-> r]

Init == place = [p \in Parcels |-> At("nowhere")]

Move(p, from, to) ==
  /\ place[p] = from
  /\ place' = [place EXCEPT ![p] = to]

\* A new order is with its merchant, a return parcel in the hub that makes it.
Post(p) ==
  \/ Move(p, At("nowhere"), At("merchant"))
  \/ \E h \in Hubs : Move(p, At("nowhere"), InHub(h))

Arrive(p) == \E h \in Hubs : Move(p, At("merchant"), InHub(h))

HandOut(p)   == \E r \in Riders, h \in Hubs : Move(p, InHub(h), With(r, h))
BringBack(p) == \E r \in Riders, h \in Hubs : Move(p, With(r, h), InHub(h))
Deliver(p)   == \E r \in Riders, h \in Hubs : Move(p, With(r, h), At("customer"))

Dispatch(p) ==
  \E from, to \in Hubs : from # to /\ Move(p, InHub(from), OnTheWay(to))
Unload(p)   == \E h \in Hubs : Move(p, OnTheWay(h), InHub(h))

HandToCourier(p) == \E h \in Hubs : Move(p, InHub(h), At("courier"))

\* A delivered parcel and one on the road between hubs cannot be deleted.
Withdraw(p) ==
  /\ place[p].at \notin {"customer", "transit"}
  /\ place' = [place EXCEPT ![p] = At("nowhere")]

Next ==
  \E p \in Parcels :
    \/ Post(p) \/ Arrive(p) \/ HandOut(p) \/ BringBack(p) \/ Deliver(p)
    \/ Dispatch(p) \/ Unload(p) \/ HandToCourier(p) \/ Withdraw(p)

Spec == Init /\ [][Next]_place

=============================================================================
