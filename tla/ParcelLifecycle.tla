-------------------------- MODULE ParcelLifecycle --------------------------
(***************************************************************************)
(* The life of a parcel: received at a hub, handed to a rider or to the    *)
(* courier CarryBee, delivered or brought back, sent on to another hub,    *)
(* returned to the merchant (parcels.service.ts, with the parts of         *)
(* delivery-verifications and carrybee that write the parcels table).      *)
(*                                                                         *)
(* Every HTTP handler of the service reads one parcel row, checks it, and  *)
(* writes it back in a later database statement; nothing locks the row in  *)
(* between.  A handler is therefore two or three steps here: a step that   *)
(* reads and checks and leaves the intended write in inflight[h], and a    *)
(* step that performs the write.  With one element in Handlers requests    *)
(* are served one at a time; with two, handlers interleave as they do      *)
(* under Node's event loop.                                                *)
(*                                                                         *)
(* repository.save(entity) writes every column of the entity that was read *)
(* (the last writer wins on the whole row) and inserts the row when it is  *)
(* gone; repository.update(id, {...}) writes the named columns only.       *)
(***************************************************************************)
EXTENDS FiniteSets

CONSTANTS
  Parcels,            \* parcel ids
  Hubs,
  Riders,
  Stores,
  Handlers,           \* requests that may be in progress at the same time
  NULL,
  SelectableOutcomes, \* outcomes riders report in this instance
  EditableStatuses,   \* statuses clients send in PATCH /parcels/:id
  WebhookStatuses,    \* statuses CarryBee's events map to in this instance
  RelationObjectWins  \* TypeORM: a loaded relation object overrides its FK column

ASSUME NullAssumption == NULL \notin Hubs \cup Riders \cup Parcels \cup Stores
ASSUME RelationAssumption == RelationObjectWins \in BOOLEAN

\* The outcomes a rider may select (RIDER_DELIVERY_STATUSES).
RiderOutcomes ==
  {"DELIVERED", "PARTIAL_DELIVERY", "EXCHANGE", "DELIVERY_RESCHEDULED",
   "PAID_RETURN", "RETURNED"}

\* What CarrybeeWebhookService.mapEventToStatus can answer.
CarrybeeStatuses ==
  {"PICKED_UP", "IN_HUB", "IN_TRANSIT", "OUT_FOR_DELIVERY", "DELIVERED",
   "FAILED_DELIVERY", "RETURNED", "CANCELLED"}

ParcelStatus ==
  RiderOutcomes \cup
  {"PENDING", "PICKED_UP", "IN_HUB", "ASSIGNED_TO_RIDER",
   "ASSIGNED_TO_THIRD_PARTY", "OUT_FOR_DELIVERY", "OUT_FOR_PICKUP",
   "IN_TRANSIT", "FAILED_DELIVERY", "RETURNED_TO_HUB", "CANCELLED",
   "RETURN_TO_MERCHANT"}

ASSUME StatusAssumption ==
  /\ SelectableOutcomes \subseteq RiderOutcomes
  /\ NULL \notin RiderOutcomes
  /\ EditableStatuses \subseteq ParcelStatus
  /\ WebhookStatuses \subseteq CarrybeeStatuses

\* The columns of parcels that the handlers of this module test or assign.
\* Timestamps that are only tested against null are BOOLEANs; returnOf stands
\* for the tracking number of a return parcel, RTN-<tracking of returnOf>.
Row ==
  [status   : ParcelStatus,
   store    : Stores \cup {NULL},
   provider : {"INTERNAL", "CARRYBEE"},  \* delivery_provider
   current  : Hubs \cup {NULL},     \* current_hub_id
   origin   : Hubs \cup {NULL},     \* origin_hub_id
   dest     : Hubs \cup {NULL},     \* destination_hub_id
   received : BOOLEAN,              \* received_at_destination_hub
   rider    : Riders \cup {NULL},   \* assigned_rider_id
   accepted : BOOLEAN,              \* rider_accepted_at
   returnOf : Parcels \cup {NULL}]

\* A new order; create leaves every hub and rider column null.
BlankRow(s) ==
  [status |-> "PENDING", store |-> s, provider |-> "INTERNAL", current |-> NULL, origin |-> NULL,
   dest |-> NULL, received |-> FALSE, rider |-> NULL, accepted |-> FALSE,
   returnOf |-> NULL]

\* What a handler has still to write.
Steps ==
  {"save",          \* parcelRepository.save(parcel), then respond
   "assign",        \* parcelRepository.update(id, {rider, status}), then respond
   "remove",        \* parcelRepository.remove(parcel), then respond
   "saveOriginal",  \* markReturnToMerchant: save the original, then the return
   "insertReturn",  \* markReturnToMerchant: insert the return parcel
   "verification",  \* initiateDelivery: insert the delivery verification
   "outcome"}       \* verifyOtp accepted the code; completeDelivery follows

Request == [step : Steps, parcel : Parcels, row : Row]

VARIABLES
  rows,      \* the parcels table
  chosen,    \* delivery_verifications.selected_status of the parcel, or NULL
  live,      \* ids of the rows that exist
  unused,    \* ids no row has had yet
  storeHub,  \* stores.hub_id
  riders,    \* riders.hub_id and riders.is_active
  inflight   \* what each handler is doing, NULL when it serves no request

vars == <<rows, chosen, live, unused, storeHub, riders, inflight>>

TypeOK ==
  /\ rows \in [Parcels -> Row]
  /\ chosen \in [Parcels -> RiderOutcomes \cup {NULL}]
  /\ live \subseteq Parcels
  /\ unused \subseteq Parcels \ live
  /\ storeHub \in [Stores -> Hubs \cup {NULL}]
  /\ riders \in [Riders -> [hub : Hubs, active : BOOLEAN]]
  /\ inflight \in [Handlers -> Request \cup {NULL}]

Init ==
  /\ rows = [p \in Parcels |-> BlankRow(NULL)]
  /\ chosen = [p \in Parcels |-> NULL]
  /\ live = {}
  /\ unused = Parcels
  /\ storeHub = [s \in Stores |-> NULL]
  /\ riders \in [Riders -> [hub : Hubs, active : {TRUE}]]
  /\ inflight = [h \in Handlers |-> NULL]

-----------------------------------------------------------------------------
(* What the handlers make of the row they have read.                       *)

\* `x_id = null` in a handler that loaded the relation of x_id: TypeORM takes
\* the column's value from the relation object when there is one.
Cleared(id) == IF RelationObjectWins THEN id ELSE NULL

WithStatus(row, status) == [row EXCEPT !.status = status]

Received(row, hub) ==
  [row EXCEPT !.status = "IN_HUB",
              !.current = hub,
              !.origin = IF @ = NULL THEN hub ELSE @]

Assigned(row, r) == [row EXCEPT !.status = "ASSIGNED_TO_RIDER", !.rider = r]

Accepted(row) == [row EXCEPT !.status = "OUT_FOR_DELIVERY", !.accepted = TRUE]

BroughtBack(row) ==
  [row EXCEPT !.status = "RETURNED_TO_HUB",
              !.rider = Cleared(@),
              !.accepted = FALSE]

\* Mutants: rider_accepted_at or assigned_rider_id is not reset.
Redelivered_KeepsAcceptance(row) ==
  [row EXCEPT !.status = "IN_HUB", !.rider = NULL]
Redelivered_KeepsRider(row) ==
  [row EXCEPT !.status = "IN_HUB", !.accepted = FALSE]

Redelivered(row) ==
  [row EXCEPT !.status = "IN_HUB", !.rider = NULL, !.accepted = FALSE]

Transferred(row, from, to) ==
  [row EXCEPT !.status = "IN_TRANSIT",
              !.origin = IF @ = NULL THEN from ELSE @,
              !.current = Cleared(@),
              !.dest = to,
              !.rider = NULL,
              !.accepted = FALSE]

Unloaded(row, hub) ==
  [row EXCEPT !.status = "IN_HUB",
              !.current = hub,
              !.dest = Cleared(@),
              !.received = TRUE]

HandedToCarrybee(row) ==
  [row EXCEPT !.status = "ASSIGNED_TO_THIRD_PARTY", !.provider = "CARRYBEE"]

\* The row of the return parcel of p.
ReturnOf(p, row) ==
  [BlankRow(row.store) EXCEPT !.status = "IN_HUB",
                              !.current = row.current,
                              !.returnOf = p]

\* status and store_id are the fields of the body that matter here.
Edited(row, status, s) == [row EXCEPT !.status = status, !.store = s]

-----------------------------------------------------------------------------
(* Reading a row and leaving the write for a later step.                   *)

Reads(h, p) == inflight[h] = NULL /\ p \in live

Then(h, step, p, row) ==
  /\ inflight' = [inflight EXCEPT ![h] = [step |-> step, parcel |-> p, row |-> row]]
  /\ UNCHANGED <<rows, chosen, live, unused, storeHub, riders>>

MarkAsReceived(h, p, hub) ==
  /\ Reads(h, p)
  /\ rows[p].store # NULL
  /\ storeHub[rows[p].store] = hub
  /\ rows[p].status \in {"PENDING", "PICKED_UP"}
  /\ Then(h, "save", p, Received(rows[p], hub))

\* Mutants: the status check dropped; reassignment allowed; riders of any hub.
AssignToRider_AnyStatus(h, p, r, hub) ==
  /\ Reads(h, p)
  /\ rows[p].current = hub
  /\ rows[p].rider = NULL
  /\ riders[r] = [hub |-> hub, active |-> TRUE]
  /\ Then(h, "assign", p, Assigned(rows[p], r))

AssignToRider_Reassigns(h, p, r, hub) ==
  /\ Reads(h, p)
  /\ rows[p].current = hub
  /\ rows[p].status \in {"IN_HUB", "ASSIGNED_TO_RIDER"}
  /\ riders[r] = [hub |-> hub, active |-> TRUE]
  /\ Then(h, "assign", p, Assigned(rows[p], r))

AssignToRider_AnyHub(h, p, r, hub) ==
  /\ Reads(h, p)
  /\ rows[p].current = hub
  /\ rows[p].status = "IN_HUB"
  /\ rows[p].rider = NULL
  /\ riders[r].active
  /\ Then(h, "assign", p, Assigned(rows[p], r))

AssignToRider(h, p, r, hub) ==
  /\ Reads(h, p)
  /\ rows[p].current = hub
  /\ rows[p].status = "IN_HUB"
  /\ rows[p].rider = NULL
  /\ riders[r] = [hub |-> hub, active |-> TRUE]
  /\ Then(h, "assign", p, Assigned(rows[p], r))

RiderAcceptParcel(h, p, r) ==
  /\ Reads(h, p)
  /\ rows[p].rider = r
  /\ rows[p].status = "ASSIGNED_TO_RIDER"
  /\ ~rows[p].accepted
  /\ Then(h, "save", p, Accepted(rows[p]))

\* Mutant: the outcome goes to the parcel before it is verified.
InitiateDelivery_Unverified(h, p, r, outcome) ==
  /\ Reads(h, p)
  /\ rows[p].rider = r
  /\ rows[p].status = "OUT_FOR_DELIVERY"
  /\ chosen[p] = NULL
  /\ Then(h, "save", p, WithStatus(rows[p], outcome))

\* The outcome the rider reports is fixed when the verification is inserted.
InitiateDelivery(h, p, r, outcome) ==
  /\ Reads(h, p)
  /\ rows[p].rider = r
  /\ rows[p].status = "OUT_FOR_DELIVERY"
  /\ chosen[p] = NULL
  /\ Then(h, "verification", p, WithStatus(rows[p], outcome))

\* verifyOtp accepts the code from the parcel's rider.  The status of the
\* parcel is not looked at, and resendOtp reopens any verification.
VerifyOtp(h, p, r) ==
  /\ Reads(h, p)
  /\ rows[p].rider = r
  /\ chosen[p] # NULL
  /\ Then(h, "outcome", p, rows[p])

\* completeDelivery reads verification and parcel again, and checks nothing.
CompleteDelivery(h) ==
  /\ inflight[h] # NULL
  /\ inflight[h].step = "outcome"
  /\ LET p == inflight[h].parcel
     IN  /\ p \in live
         /\ chosen[p] # NULL
         /\ Then(h, "save", p, WithStatus(rows[p], chosen[p]))

RiderReturnParcel(h, p, r) ==
  /\ Reads(h, p)
  /\ rows[p].rider = r
  /\ rows[p].status \in {"RETURNED", "PAID_RETURN"}
  /\ Then(h, "save", p, BroughtBack(rows[p]))

PrepareForRedelivery(h, p, hub) ==
  /\ Reads(h, p)
  /\ rows[p].current = hub
  /\ rows[p].status = "DELIVERY_RESCHEDULED"
  /\ Then(h, "save", p, Redelivered(rows[p]))

TransferParcelToHub(h, p, from, to) ==
  /\ Reads(h, p)
  /\ rows[p].current \in {from, NULL}
  /\ rows[p].status \in {"IN_HUB", "RETURNED_TO_HUB"}
  /\ to # from
  /\ Then(h, "save", p, Transferred(rows[p], from, to))

\* Mutant: any hub may take the parcel.
AcceptIncomingParcel_AnyHub(h, p, hub) ==
  /\ Reads(h, p)
  /\ rows[p].status = "IN_TRANSIT"
  /\ ~rows[p].received
  /\ Then(h, "save", p, Unloaded(rows[p], hub))

AcceptIncomingParcel(h, p, hub) ==
  /\ Reads(h, p)
  /\ rows[p].dest = hub
  /\ rows[p].status = "IN_TRANSIT"
  /\ ~rows[p].received
  /\ Then(h, "save", p, Unloaded(rows[p], hub))

\* Mutant: any parcel of the hub is sent back.
MarkReturnToMerchant_AnyStatus(h, p, hub) ==
  /\ Reads(h, p)
  /\ rows[p].current = hub
  /\ Then(h, "saveOriginal", p, WithStatus(rows[p], "RETURN_TO_MERCHANT"))

MarkReturnToMerchant(h, p, hub) ==
  /\ Reads(h, p)
  /\ rows[p].current = hub
  /\ rows[p].status \in {"RETURNED", "PAID_RETURN", "PARTIAL_DELIVERY",
                         "EXCHANGE", "RETURNED_TO_HUB"}
  /\ Then(h, "saveOriginal", p, WithStatus(rows[p], "RETURN_TO_MERCHANT"))

\* createOrder has answered; until the save the order exists at CarryBee only.
AssignParcelToCarrybee(h, p, hub) ==
  /\ Reads(h, p)
  /\ rows[p].store # NULL
  /\ hub \in {rows[p].current, storeHub[rows[p].store]}
  /\ rows[p].status = "IN_HUB"
  /\ rows[p].rider = NULL
  /\ rows[p].provider # "CARRYBEE"
  /\ Then(h, "save", p, HandedToCarrybee(rows[p]))

\* An event that maps to no status leaves the status alone.
HandleWebhook(h, p, status) ==
  /\ Reads(h, p)
  /\ rows[p].provider = "CARRYBEE"
  /\ status \in WebhookStatuses \cup {rows[p].status}
  /\ Then(h, "save", p, WithStatus(rows[p], status))

\* PATCH by the merchant or an admin; status and store_id may be left out.
UpdateParcel(h, p, status, s) ==
  /\ Reads(h, p)
  /\ status \in EditableStatuses \cup {rows[p].status}
  /\ s \in Stores \cup {rows[p].store}
  /\ Then(h, "save", p, Edited(rows[p], status, s))

RemoveParcel(h, p) ==
  /\ Reads(h, p)
  /\ rows[p].status \notin {"DELIVERED", "IN_TRANSIT"}
  /\ Then(h, "remove", p, rows[p])

-----------------------------------------------------------------------------
(* The writes.                                                             *)

Pending(h, step) == inflight[h] # NULL /\ inflight[h].step = step

Responds(h) == inflight' = [inflight EXCEPT ![h] = NULL]

\* Mutant: no unique index on tracking_number.
TrackingFree_NoIndex(p, row) == TRUE

\* tracking_number is UNIQUE: another row with the number refuses an insert.
TrackingFree(p, row) ==
  row.returnOf # NULL =>
    \A q \in live \ {p} : rows[q].returnOf # row.returnOf

\* save: UPDATE when the id exists, INSERT when the row was removed meanwhile.
Saved(p, row) ==
  /\ p \in live \/ TrackingFree(p, row)
  /\ rows' = [rows EXCEPT ![p] = row]
  /\ live' = live \cup {p}

SaveRow(h) ==
  /\ Pending(h, "save")
  /\ Saved(inflight[h].parcel, inflight[h].row)
  /\ Responds(h)
  /\ UNCHANGED <<chosen, unused, storeHub, riders>>

\* update: named columns only, and no effect on a row that is gone.
UpdateAssignment(h) ==
  /\ Pending(h, "assign")
  /\ LET p == inflight[h].parcel
     IN  rows' = IF p \in live
                 THEN [rows EXCEPT ![p].status = inflight[h].row.status,
                                   ![p].rider = inflight[h].row.rider]
                 ELSE rows
  /\ Responds(h)
  /\ UNCHANGED <<chosen, live, unused, storeHub, riders>>

DeleteRow(h) ==
  /\ Pending(h, "remove")
  /\ live' = live \ {inflight[h].parcel}
  /\ chosen' = [chosen EXCEPT ![inflight[h].parcel] = NULL]  \* ON DELETE CASCADE
  /\ Responds(h)
  /\ UNCHANGED <<rows, unused, storeHub, riders>>

SaveOriginal(h) ==
  /\ Pending(h, "saveOriginal")
  /\ LET p == inflight[h].parcel
     IN  /\ Saved(p, inflight[h].row)
         /\ inflight' = [inflight EXCEPT ![h] =
              [step |-> "insertReturn", parcel |-> p,
               row |-> ReturnOf(p, inflight[h].row)]]
  /\ UNCHANGED <<chosen, unused, storeHub, riders>>

InsertReturn(h, q) ==
  /\ Pending(h, "insertReturn")
  /\ q \in unused
  /\ TrackingFree(q, inflight[h].row)
  /\ rows' = [rows EXCEPT ![q] = inflight[h].row]
  /\ live' = live \cup {q}
  /\ unused' = unused \ {q}
  /\ Responds(h)
  /\ UNCHANGED <<chosen, storeHub, riders>>

\* parcel_id is UNIQUE and references the parcel.
InsertVerification(h) ==
  /\ Pending(h, "verification")
  /\ LET p == inflight[h].parcel
     IN  /\ p \in live
         /\ chosen[p] = NULL
         /\ chosen' = [chosen EXCEPT ![p] = inflight[h].row.status]
  /\ Responds(h)
  /\ UNCHANGED <<rows, live, unused, storeHub, riders>>

\* The statement fails (a constraint, a lost connection) or the process dies:
\* what was not written stays unwritten and nothing resumes the handler.
Abandon(h) ==
  /\ inflight[h] # NULL
  /\ Responds(h)
  /\ UNCHANGED <<rows, chosen, live, unused, storeHub, riders>>

-----------------------------------------------------------------------------
(* Steps outside the parcel handlers.                                      *)

CreateParcel(p, s) ==
  /\ p \in unused
  /\ rows' = [rows EXCEPT ![p] = BlankRow(s)]
  /\ live' = live \cup {p}
  /\ unused' = unused \ {p}
  /\ UNCHANGED <<chosen, storeHub, riders, inflight>>

\* The store is read with its hub: an existing hub object wins over the new id.
AssignHubToStore(s, hub) ==
  /\ storeHub' = [storeHub EXCEPT ![s] = IF @ = NULL \/ ~RelationObjectWins
                                         THEN hub ELSE @]
  /\ UNCHANGED <<rows, chosen, live, unused, riders, inflight>>

\* Activate and deactivate; an update of hub_id meets the loaded hub object.
UpdateRider(r, hub, active) ==
  /\ riders' = [riders EXCEPT ![r] =
                  [hub |-> IF RelationObjectWins THEN @.hub ELSE hub,
                   active |-> active]]
  /\ UNCHANGED <<rows, chosen, live, unused, storeHub, inflight>>

-----------------------------------------------------------------------------
HubStep(h) ==
  \E p \in Parcels, hub \in Hubs :
    \/ MarkAsReceived(h, p, hub)
    \/ PrepareForRedelivery(h, p, hub)
    \/ AcceptIncomingParcel(h, p, hub)
    \/ MarkReturnToMerchant(h, p, hub)
    \/ AssignParcelToCarrybee(h, p, hub)
    \/ \E r \in Riders : AssignToRider(h, p, r, hub)
    \/ \E to \in Hubs : TransferParcelToHub(h, p, hub, to)

RiderStep(h) ==
  \E p \in Parcels, r \in Riders :
    \/ RiderAcceptParcel(h, p, r)
    \/ RiderReturnParcel(h, p, r)
    \/ VerifyOtp(h, p, r)
    \/ \E outcome \in SelectableOutcomes : InitiateDelivery(h, p, r, outcome)

OwnerStep(h) ==
  \E p \in Parcels :
    \/ RemoveParcel(h, p)
    \/ \E status \in ParcelStatus, s \in Stores \cup {NULL} :
         UpdateParcel(h, p, status, s)

CourierStep(h) ==
  \E p \in Parcels, status \in ParcelStatus : HandleWebhook(h, p, status)

WriteStep(h) ==
  \/ CompleteDelivery(h)
  \/ SaveRow(h)
  \/ UpdateAssignment(h)
  \/ DeleteRow(h)
  \/ SaveOriginal(h)
  \/ InsertVerification(h)
  \/ \E q \in Parcels : InsertReturn(h, q)
  \/ Abandon(h)

StaffStep ==
  \/ \E p \in Parcels, s \in Stores \cup {NULL} : CreateParcel(p, s)
  \/ \E s \in Stores, hub \in Hubs : AssignHubToStore(s, hub)
  \/ \E r \in Riders, hub \in Hubs, active \in BOOLEAN : UpdateRider(r, hub, active)

Next ==
  \/ \E h \in Handlers :
       HubStep(h) \/ RiderStep(h) \/ OwnerStep(h) \/ CourierStep(h) \/ WriteStep(h)
  \/ StaffStep

Spec == Init /\ [][Next]_vars

-----------------------------------------------------------------------------
(* What the rows mean, however requests interleave.                        *)

\* Statuses whose other columns mean something.
GuardedStatuses ==
  {"PENDING", "PICKED_UP", "IN_HUB", "ASSIGNED_TO_RIDER", "OUT_FOR_DELIVERY",
   "IN_TRANSIT"}

PendingIsUntouched(row) ==
  row.status \in {"PENDING", "PICKED_UP"} =>
    row.current = NULL /\ row.rider = NULL /\ ~row.accepted

InHubIsAssignable(row) ==
  row.status = "IN_HUB" =>
    row.current # NULL /\ row.rider = NULL /\ ~row.accepted

TransitHasDestination(row) ==
  row.status = "IN_TRANSIT" =>
    row.dest \notin {NULL, row.current} /\ row.rider = NULL /\ ~row.accepted

RiderIsKnown(row) ==
  /\ row.status \in {"ASSIGNED_TO_RIDER", "OUT_FOR_DELIVERY"} => row.rider # NULL
  /\ row.status = "OUT_FOR_DELIVERY" => row.accepted

RowOK(row) ==
  row.provider = "INTERNAL" =>
    /\ PendingIsUntouched(row)
    /\ InHubIsAssignable(row)
    /\ TransitHasDestination(row)
    /\ RiderIsKnown(row)

\* Every row of an own parcel has the hub, destination and rider its status
\* needs, whatever the handlers overwrite: a parcel in a hub can be assigned,
\* one in transit names another hub, one out for delivery its rider.
RowsConsistent == \A p \in live : RowOK(rows[p])

\* markReturnToMerchant never leaves two return parcels of one parcel, also
\* when two managers press the button or the original is marked again.
OneReturnPerOriginal ==
  \A p, q \in live :
    rows[p].returnOf # NULL /\ rows[p].returnOf = rows[q].returnOf => p = q

\* The strengthening of RowsConsistent: what handlers are about to write is
\* as consistent as what they would overwrite.
WritesConsistent ==
  \A h \in Handlers : inflight[h] # NULL => RowOK(inflight[h].row)

-----------------------------------------------------------------------------
(* What holds when requests are served one at a time.                      *)

\* A destination that is still set is either ahead of the parcel or the hub
\* it is in: no leftover destination attracts a parcel that is elsewhere.
NoStrayDestination ==
  \A p \in live :
    rows[p].provider = "INTERNAL" /\ rows[p].status # "IN_TRANSIT" =>
      rows[p].dest \in {NULL, rows[p].current}

\* A parcel shows an outcome only when its rider reported that outcome and a
\* verification of it is on record.
OutcomeOnRecord ==
  \A p \in live :
    rows[p].provider = "INTERNAL" /\ rows[p].status \in RiderOutcomes =>
      rows[p].status = chosen[p]

\* No step takes a parcel out of one rider's hands and gives it to another.
NoLostAssignment ==
  [][\A p \in live \cap live' :
       rows[p].rider # NULL => rows'[p].rider \in {rows[p].rider, NULL}]_vars

\* A parcel handed to CarryBee is not with one of our riders as well.
CourierParcelHasNoRider ==
  \A p \in live : rows[p].provider = "CARRYBEE" => rows[p].rider = NULL

-----------------------------------------------------------------------------
(* What the comments and responses of the code say and the code does not   *)
(* keep; each is refuted by a run of its own.                              *)

\* "Get parcels in transit to this hub": getIncomingParcels lists, and
\* acceptIncomingParcel takes, every parcel on its way to the hub.
IncomingIsListed ==
  \A p \in live :
    rows[p].provider = "INTERNAL" /\ rows[p].status = "IN_TRANSIT" =>
      ~rows[p].received

\* "Parcel ready for redelivery": no old verification stands in the way of the
\* delivery of a parcel that is ready to be assigned.
ReadyForRedelivery ==
  \A p \in live :
    rows[p].provider = "INTERNAL" /\ rows[p].status = "IN_HUB" => chosen[p] = NULL

\* "Creates a NEW return parcel to track the return journey back to merchant":
\* an original marked for return has had its return parcel, or is getting it.
ReturnJourneyTracked ==
  \A p \in live :
    rows[p].status = "RETURN_TO_MERCHANT" =>
      \/ \E q \in Parcels : rows[q].returnOf = p
      \/ \E h \in Handlers :
           /\ inflight[h] # NULL
           /\ inflight[h].step = "insertReturn"
           /\ inflight[h].parcel = p

\* "has been successfully deleted": a removed parcel does not come back.
RemovedStaysRemoved == [][live' \subseteq live \cup unused]_vars

=============================================================================
