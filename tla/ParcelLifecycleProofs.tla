----------------------- MODULE ParcelLifecycleProofs -----------------------
(***************************************************************************)
(* Theorems about ParcelLifecycle, for any number of parcels, hubs,        *)
(* riders, stores and concurrent requests; and, for requests served one at *)
(* a time, what only then holds, with the refinement of ParcelCustody.     *)
(***************************************************************************)
EXTENDS ParcelLifecycleCustody, ParcelWorklists, TLAPS

\* Clients do not write a status that says where the parcel is.
PlaceNotEdited == EditableStatuses \cap GuardedStatuses = {}

\* What a handler may propose to write in the place of an old row: the same
\* return parcel or order as before, and no less consistent.
Replaces(row, old) ==
  /\ row \in Row
  /\ row.returnOf = old.returnOf
  /\ PlaceNotEdited /\ RowOK(old) => RowOK(row)

\* An assignment names a rider, a return parcel will start from a hub, a
\* verification holds an outcome.
Carries(step, row) ==
  /\ step = "assign" => row.status = "ASSIGNED_TO_RIDER" /\ row.rider # NULL
  /\ step = "saveOriginal" => row.current # NULL
  /\ step = "verification" => row.status \in RiderOutcomes

\* What every request handler does in its first step.
Proposes(h, p) ==
  \E step \in Steps \ {"insertReturn"}, row \in Row :
    /\ Then(h, step, p, row)
    /\ Replaces(row, rows[p])
    /\ Carries(step, row)

LEMMA ProposesRule ==
  ASSUME NEW h, NEW p, NEW step \in Steps \ {"insertReturn"}, NEW row,
         Then(h, step, p, row), Replaces(row, rows[p]),
         Carries(step, row)
  PROVE  Proposes(h, p)
BY DEF Proposes, Replaces

-----------------------------------------------------------------------------
(* The rows the handlers propose.                                          *)

LEMMA WithStatusReplaces ==
  ASSUME NEW old \in Row, NEW status \in ParcelStatus,
         status \in GuardedStatuses => status = old.status
  PROVE  Replaces(WithStatus(old, status), old)
BY DEF Replaces, WithStatus, Row, RowOK, PendingIsUntouched, InHubIsAssignable,
       TransitHasDestination, RiderIsKnown, GuardedStatuses

LEMMA ReceivedReplaces ==
  ASSUME NEW old \in Row, NEW hub \in Hubs, old.status \in {"PENDING", "PICKED_UP"}
  PROVE  Replaces(Received(old, hub), old)
BY NullAssumption
   DEF Replaces, Received, Row, ParcelStatus, RowOK, PendingIsUntouched,
       InHubIsAssignable, TransitHasDestination, RiderIsKnown

LEMMA AssignedReplaces ==
  ASSUME NEW old \in Row, NEW r \in Riders
  PROVE  Replaces(Assigned(old, r), old)
BY NullAssumption
   DEF Replaces, Assigned, Row, ParcelStatus, RowOK, PendingIsUntouched,
       InHubIsAssignable, TransitHasDestination, RiderIsKnown

LEMMA AcceptedReplaces ==
  ASSUME NEW old \in Row, old.rider \in Riders
  PROVE  Replaces(Accepted(old), old)
BY NullAssumption
   DEF Replaces, Accepted, Row, ParcelStatus, RowOK, PendingIsUntouched,
       InHubIsAssignable, TransitHasDestination, RiderIsKnown

LEMMA BroughtBackReplaces ==
  ASSUME NEW old \in Row
  PROVE  Replaces(BroughtBack(old), old)
<1>1. Cleared(old.rider) \in {old.rider, NULL}
  BY DEF Cleared
<1> QED
  BY <1>1
     DEF Replaces, BroughtBack, Row, ParcelStatus, RowOK, PendingIsUntouched,
         InHubIsAssignable, TransitHasDestination, RiderIsKnown

LEMMA RedeliveredReplaces ==
  ASSUME NEW old \in Row, old.current \in Hubs
  PROVE  Replaces(Redelivered(old), old)
BY NullAssumption
   DEF Replaces, Redelivered, Row, ParcelStatus, RowOK, PendingIsUntouched,
       InHubIsAssignable, TransitHasDestination, RiderIsKnown

LEMMA TransferredReplaces ==
  ASSUME NEW old \in Row, NEW from \in Hubs, NEW to \in Hubs, to # from,
         old.current \in {from, NULL}
  PROVE  Replaces(Transferred(old, from, to), old)
<1> DEFINE new == Transferred(old, from, to)
<1>1. Cleared(old.current) \in {old.current, NULL}
  BY DEF Cleared
<1>2. new \in Row
  <2> DEFINE origin  == IF old.origin = NULL THEN from ELSE old.origin
             current == Cleared(old.current)
  <2>1. origin \in Hubs \cup {NULL} /\ current \in Hubs \cup {NULL}
    BY <1>1 DEF Row
  <2>2. new = [old EXCEPT !.status = "IN_TRANSIT", !.origin = origin,
                          !.current = current, !.dest = to, !.rider = NULL,
                          !.accepted = FALSE]
    BY DEF Transferred
  <2> HIDE DEF origin, current, new
  <2> QED
    BY <2>1, <2>2 DEF Row, ParcelStatus
<1>3. /\ new.status = "IN_TRANSIT"
      /\ new.current = Cleared(old.current)
      /\ new.dest = to
      /\ new.rider = NULL
      /\ ~new.accepted
      /\ new.returnOf = old.returnOf
  BY DEF Transferred, Row
<1>4. RowOK(new)
  BY <1>1, <1>3, NullAssumption
     DEF RowOK, PendingIsUntouched, InHubIsAssignable, TransitHasDestination, RiderIsKnown
<1> QED
  BY <1>2, <1>3, <1>4 DEF Replaces

LEMMA UnloadedReplaces ==
  ASSUME NEW old \in Row, NEW hub \in Hubs, old.status = "IN_TRANSIT"
  PROVE  Replaces(Unloaded(old, hub), old)
<1>1. Cleared(old.dest) \in {old.dest, NULL}
  BY DEF Cleared
<1> QED
  BY <1>1, NullAssumption
     DEF Replaces, Unloaded, Row, ParcelStatus, RowOK, PendingIsUntouched,
         InHubIsAssignable, TransitHasDestination, RiderIsKnown

LEMMA HandedToCarrybeeReplaces ==
  ASSUME NEW old \in Row
  PROVE  Replaces(HandedToCarrybee(old), old)
<1>1. HandedToCarrybee(old) \in Row
  BY DEF HandedToCarrybee, Row, ParcelStatus
<1>2. /\ HandedToCarrybee(old).provider = "CARRYBEE"
      /\ HandedToCarrybee(old).returnOf = old.returnOf
  BY DEF HandedToCarrybee, Row
<1> QED
  BY <1>1, <1>2 DEF Replaces, RowOK

LEMMA EditedReplaces ==
  ASSUME NEW old \in Row, NEW status \in ParcelStatus, NEW s \in Stores \cup {NULL},
         status \in EditableStatuses \cup {old.status}
  PROVE  Replaces(Edited(old, status, s), old)
BY DEF Replaces, Edited, PlaceNotEdited, Row, RowOK, PendingIsUntouched,
       InHubIsAssignable, TransitHasDestination, RiderIsKnown, GuardedStatuses

\* A new order and a new return parcel are consistent from the start.
LEMMA NewRows ==
  ASSUME NEW s \in Stores \cup {NULL}
  PROVE  BlankRow(s) \in Row /\ RowOK(BlankRow(s)) /\ BlankRow(s).returnOf = NULL
BY DEF BlankRow, Row, ParcelStatus, RowOK, PendingIsUntouched, InHubIsAssignable,
       TransitHasDestination, RiderIsKnown

LEMMA ReturnRow ==
  ASSUME NEW p \in Parcels, NEW row \in Row
  PROVE  /\ ReturnOf(p, row) \in Row
         /\ ReturnOf(p, row).returnOf = p
         /\ row.current # NULL => RowOK(ReturnOf(p, row))
<1>1. row.store \in Stores \cup {NULL} /\ row.current \in Hubs \cup {NULL}
  BY DEF Row
<1> QED
  BY <1>1 DEF ReturnOf, BlankRow, Row, ParcelStatus, RowOK, PendingIsUntouched,
     InHubIsAssignable, TransitHasDestination, RiderIsKnown

-----------------------------------------------------------------------------
(* Every handler's first step proposes a row that may replace the old one. *)

LEMMA HubProposes ==
  ASSUME TypeOK, NEW h \in Handlers, HubStep(h)
  PROVE  \E p \in live : Proposes(h, p)
<1> USE DEF Reads, Steps, Carries
<1>1. PICK p \in Parcels, hub \in Hubs :
        \/ MarkAsReceived(h, p, hub)
        \/ PrepareForRedelivery(h, p, hub)
        \/ AcceptIncomingParcel(h, p, hub)
        \/ MarkReturnToMerchant(h, p, hub)
        \/ AssignParcelToCarrybee(h, p, hub)
        \/ \E r \in Riders : AssignToRider(h, p, r, hub)
        \/ \E to \in Hubs : TransferParcelToHub(h, p, hub, to)
  BY DEF HubStep
<1>2. rows[p] \in Row
  BY DEF TypeOK
<1>3. CASE MarkAsReceived(h, p, hub)
  BY <1>2, <1>3, ReceivedReplaces, ProposesRule DEF MarkAsReceived
<1>4. CASE PrepareForRedelivery(h, p, hub)
  BY <1>2, <1>4, RedeliveredReplaces, ProposesRule DEF PrepareForRedelivery
<1>5. CASE AcceptIncomingParcel(h, p, hub)
  BY <1>2, <1>5, UnloadedReplaces, ProposesRule DEF AcceptIncomingParcel
<1>6. CASE MarkReturnToMerchant(h, p, hub)
  <2>1. WithStatus(rows[p], "RETURN_TO_MERCHANT").current = hub
    BY <1>2, <1>6 DEF MarkReturnToMerchant, WithStatus, Row
  <2> QED
    BY <1>2, <1>6, <2>1, NullAssumption, WithStatusReplaces, ProposesRule
       DEF MarkReturnToMerchant, ParcelStatus, GuardedStatuses
<1>7. CASE AssignParcelToCarrybee(h, p, hub)
  BY <1>2, <1>7, HandedToCarrybeeReplaces, ProposesRule DEF AssignParcelToCarrybee
<1>8. CASE \E r \in Riders : AssignToRider(h, p, r, hub)
  <2>1. PICK r \in Riders : AssignToRider(h, p, r, hub)
    BY <1>8
  <2>2. /\ Assigned(rows[p], r).status = "ASSIGNED_TO_RIDER"
        /\ Assigned(rows[p], r).rider # NULL
    BY <1>2, NullAssumption DEF Assigned, Row
  <2> QED
    BY <1>2, <2>1, <2>2, AssignedReplaces, ProposesRule DEF AssignToRider
<1>9. CASE \E to \in Hubs : TransferParcelToHub(h, p, hub, to)
  BY <1>2, <1>9, TransferredReplaces, ProposesRule DEF TransferParcelToHub
<1> QED
  BY <1>1, <1>3, <1>4, <1>5, <1>6, <1>7, <1>8, <1>9

LEMMA RiderProposes ==
  ASSUME TypeOK, NEW h \in Handlers, RiderStep(h)
  PROVE  \E p \in live : Proposes(h, p)
<1> USE DEF Reads, Steps, Carries
<1>1. PICK p \in Parcels, r \in Riders :
        \/ RiderAcceptParcel(h, p, r)
        \/ RiderReturnParcel(h, p, r)
        \/ VerifyOtp(h, p, r)
        \/ \E outcome \in SelectableOutcomes : InitiateDelivery(h, p, r, outcome)
  BY DEF RiderStep
<1>2. rows[p] \in Row
  BY DEF TypeOK
<1>3. CASE RiderAcceptParcel(h, p, r)
  BY <1>2, <1>3, AcceptedReplaces, ProposesRule DEF RiderAcceptParcel
<1>4. CASE RiderReturnParcel(h, p, r)
  BY <1>2, <1>4, BroughtBackReplaces, ProposesRule DEF RiderReturnParcel
<1>5. CASE VerifyOtp(h, p, r)
  BY <1>2, <1>5, ProposesRule DEF VerifyOtp, Replaces
<1>6. CASE \E outcome \in SelectableOutcomes : InitiateDelivery(h, p, r, outcome)
  <2>1. PICK outcome \in SelectableOutcomes : InitiateDelivery(h, p, r, outcome)
    BY <1>6
  <2>2. /\ outcome \in RiderOutcomes
        /\ outcome \in ParcelStatus \ GuardedStatuses
    BY StatusAssumption DEF RiderOutcomes, ParcelStatus, GuardedStatuses
  <2>3. WithStatus(rows[p], outcome).status = outcome
    BY <1>2 DEF WithStatus, Row
  <2> QED
    BY <1>2, <2>1, <2>2, <2>3, WithStatusReplaces, ProposesRule DEF InitiateDelivery
<1> QED
  BY <1>1, <1>3, <1>4, <1>5, <1>6

LEMMA OwnerProposes ==
  ASSUME TypeOK, NEW h \in Handlers, OwnerStep(h)
  PROVE  \E p \in live : Proposes(h, p)
<1> USE DEF Reads, Steps, Carries
<1>1. PICK p \in Parcels :
        \/ RemoveParcel(h, p)
        \/ \E status \in ParcelStatus, s \in Stores \cup {NULL} :
             UpdateParcel(h, p, status, s)
  BY DEF OwnerStep
<1>2. rows[p] \in Row
  BY DEF TypeOK
<1>3. CASE RemoveParcel(h, p)
  BY <1>2, <1>3, ProposesRule DEF RemoveParcel, Replaces
<1>4. CASE \E status \in ParcelStatus, s \in Stores \cup {NULL} :
             UpdateParcel(h, p, status, s)
  BY <1>2, <1>4, EditedReplaces, ProposesRule DEF UpdateParcel
<1> QED
  BY <1>1, <1>3, <1>4

\* A parcel of CarryBee's stays CarryBee's, whatever status an event sets.
LEMMA CourierProposes ==
  ASSUME TypeOK, NEW h \in Handlers, CourierStep(h)
  PROVE  \E p \in live : Proposes(h, p)
<1>1. PICK p \in Parcels, status \in ParcelStatus : HandleWebhook(h, p, status)
  BY DEF CourierStep
<1>2. /\ WithStatus(rows[p], status) \in Row
      /\ WithStatus(rows[p], status).provider = "CARRYBEE"
      /\ WithStatus(rows[p], status).returnOf = rows[p].returnOf
  BY <1>1 DEF TypeOK, WithStatus, Row, HandleWebhook
<1>3. Replaces(WithStatus(rows[p], status), rows[p])
  BY <1>2 DEF Replaces, RowOK
<1> QED
  BY <1>1, <1>3, ProposesRule DEF HandleWebhook, Reads, Steps, Carries

LEMMA HandlerProposes ==
  ASSUME TypeOK, NEW h \in Handlers,
         HubStep(h) \/ RiderStep(h) \/ OwnerStep(h) \/ CourierStep(h)
  PROVE  \E p \in live : Proposes(h, p)
BY HubProposes, RiderProposes, OwnerProposes, CourierProposes

-----------------------------------------------------------------------------
(* Type correctness.                                                       *)

\* No request is about a parcel that was never created (a save could create
\* it, and unused would no longer avoid live), and each carries what its write
\* step relies on.
RequestsKnown ==
  \A h \in Handlers :
    inflight[h] # NULL =>
      /\ inflight[h].parcel \notin unused
      /\ Carries(inflight[h].step, inflight[h].row)

TypeInv == TypeOK /\ RequestsKnown

LEMMA ProposalKeepsType ==
  ASSUME TypeInv, NEW h \in Handlers, NEW p \in live, Proposes(h, p)
  PROVE  TypeInv'
<1> USE DEF TypeInv
<1>1. TypeOK'
  BY DEF TypeOK, Proposes, Then, Request
<1>2. RequestsKnown'
  BY DEF TypeOK, RequestsKnown, Proposes, Then
<1> QED
  BY <1>1, <1>2

\* The request a write step serves.
LEMMA Served ==
  ASSUME TypeOK, NEW h \in Handlers, inflight[h] # NULL
  PROVE  /\ inflight[h].step \in Steps
         /\ inflight[h].parcel \in Parcels
         /\ inflight[h].row \in Row
BY DEF TypeOK, Request

\* completeDelivery is a handler step that proposes the outcome on record.
LEMMA CompleteDeliveryProposes ==
  ASSUME TypeOK, NEW h \in Handlers, CompleteDelivery(h)
  PROVE  Proposes(h, inflight[h].parcel) /\ inflight[h].parcel \in live
<1> DEFINE p == inflight[h].parcel
<1>1. p \in Parcels /\ p \in live /\ rows[p] \in Row
  BY Served DEF CompleteDelivery, TypeOK
<1>2. chosen[p] \in RiderOutcomes
  BY <1>1 DEF CompleteDelivery, TypeOK
<1>3. Replaces(WithStatus(rows[p], chosen[p]), rows[p])
  BY <1>1, <1>2, WithStatusReplaces DEF RiderOutcomes, ParcelStatus, GuardedStatuses
<1> QED
  BY <1>1, <1>3, ProposesRule DEF CompleteDelivery, Steps, Carries

LEMMA WriteKeepsType ==
  ASSUME TypeInv, NEW h \in Handlers, WriteStep(h)
  PROVE  TypeInv'
<1> USE DEF TypeInv
<1>1. CASE CompleteDelivery(h)
  BY <1>1, CompleteDeliveryProposes, ProposalKeepsType
<1>2. ASSUME Responds(h), unused' \subseteq unused
      PROVE  RequestsKnown' /\ inflight' \in [Handlers -> Request \cup {NULL}]
  BY <1>2 DEF Responds, RequestsKnown, TypeOK
<1>3. CASE SaveRow(h)
  <2>1. /\ inflight[h].parcel \in Parcels \ unused
        /\ inflight[h].row \in Row
    BY <1>3, Served DEF SaveRow, Pending, RequestsKnown
  <2> QED
    BY <1>2, <1>3, <2>1 DEF SaveRow, Saved, TypeOK
<1>4. CASE UpdateAssignment(h)
  <2>1. inflight[h].row \in Row
    BY <1>4, Served DEF UpdateAssignment, Pending
  <2>2. rows' \in [Parcels -> Row]
    BY <2>1, <1>4 DEF UpdateAssignment, TypeOK, Row
  <2> QED
    BY <1>2, <1>4, <2>2 DEF UpdateAssignment, TypeOK
<1>5. CASE DeleteRow(h)
  BY <1>2, <1>5 DEF DeleteRow, TypeOK
<1>6. CASE SaveOriginal(h)
  <2> DEFINE p == inflight[h].parcel
             row == inflight[h].row
  <2>1. p \in Parcels \ unused /\ row \in Row /\ ReturnOf(p, row) \in Row
    BY <1>6, Served, ReturnRow DEF SaveOriginal, Pending, RequestsKnown
  <2>2. [step |-> "insertReturn", parcel |-> p, row |-> ReturnOf(p, row)] \in Request
    BY <2>1 DEF Request, Steps
  <2>3. inflight' \in [Handlers -> Request \cup {NULL}]
    BY <1>6, <2>2 DEF SaveOriginal, TypeOK
  <2>4. RequestsKnown'
    BY <1>6, <2>1 DEF SaveOriginal, TypeOK, RequestsKnown, Carries
  <2> QED
    BY <1>6, <2>1, <2>3, <2>4 DEF SaveOriginal, Saved, TypeOK
<1>7. ASSUME NEW q \in Parcels, InsertReturn(h, q) PROVE TypeInv'
  <2>1. inflight[h].row \in Row
    BY <1>7, Served DEF InsertReturn, Pending
  <2> QED
    BY <1>2, <1>7, <2>1 DEF InsertReturn, TypeOK
<1>8. CASE InsertVerification(h)
  <2>1. inflight[h].row.status \in RiderOutcomes
    BY <1>8 DEF InsertVerification, Pending, RequestsKnown, Carries
  <2> QED
    BY <1>2, <1>8, <2>1 DEF InsertVerification, TypeOK
<1>9. CASE Abandon(h)
  BY <1>2, <1>9 DEF Abandon, TypeOK
<1> QED
  BY <1>1, <1>3, <1>4, <1>5, <1>6, <1>7, <1>8, <1>9 DEF WriteStep

\* The tables and the requests in progress keep their types.
LEMMA TypeInvariant == Spec => []TypeInv
<1>1. Init => TypeInv
  <2>1. BlankRow(NULL) \in Row
    BY NewRows
  <2> QED
    BY <2>1 DEF Init, TypeInv, TypeOK, RequestsKnown
<1>2. TypeInv /\ [Next]_vars => TypeInv'
  <2> SUFFICES ASSUME TypeInv, [Next]_vars PROVE TypeInv'
    OBVIOUS
  <2>1. ASSUME NEW h \in Handlers,
               HubStep(h) \/ RiderStep(h) \/ OwnerStep(h) \/ CourierStep(h)
        PROVE  TypeInv'
    BY <2>1, HandlerProposes, ProposalKeepsType DEF TypeInv
  <2>2. ASSUME NEW h \in Handlers, WriteStep(h) PROVE TypeInv'
    BY <2>2, WriteKeepsType
  <2>3. CASE StaffStep
    BY <2>3, NewRows
       DEF StaffStep, CreateParcel, AssignHubToStore, UpdateRider, TypeInv, TypeOK,
           RequestsKnown
  <2>4. CASE UNCHANGED vars
    BY <2>4 DEF vars, TypeInv, TypeOK, RequestsKnown
  <2> QED
    BY <2>1, <2>2, <2>3, <2>4 DEF Next
<1> QED
  BY <1>1, <1>2, PTL DEF Spec

THEOREM TypeCorrect == Spec => []TypeOK
BY TypeInvariant, PTL DEF TypeInv

-----------------------------------------------------------------------------
(* Consistent rows.  Whatever a handler overwrites, it writes a row that   *)
(* was derived from a consistent one, so it is enough that both the table  *)
(* and the writes still to come are consistent.                            *)

Consistent == RowsConsistent /\ WritesConsistent

LEMMA ProposalKeepsConsistent ==
  ASSUME PlaceNotEdited, TypeInv, Consistent,
         NEW h \in Handlers, NEW p \in live, Proposes(h, p)
  PROVE  Consistent'
<1>1. PICK step \in Steps, row \in Row :
        Then(h, step, p, row) /\ Replaces(row, rows[p])
  BY DEF Proposes
<1>2. RowOK(row)
  BY <1>1 DEF Replaces, Consistent, RowsConsistent
<1>3. \A g \in Handlers :
        inflight'[g] = IF g = h THEN [step |-> step, parcel |-> p, row |-> row]
                       ELSE inflight[g]
  BY <1>1 DEF Then, TypeInv, TypeOK
<1>4. rows' = rows /\ live' = live
  BY <1>1 DEF Then
<1> QED
  BY <1>2, <1>3, <1>4 DEF Consistent, RowsConsistent, WritesConsistent

LEMMA WriteKeepsConsistent ==
  ASSUME PlaceNotEdited, TypeInv, Consistent, NEW h \in Handlers, WriteStep(h)
  PROVE  Consistent'
<1> USE DEF TypeInv, Consistent
<1>1. ASSUME Responds(h) PROVE WritesConsistent'
  BY <1>1 DEF Responds, WritesConsistent, TypeOK
<1>2. ASSUME inflight[h] # NULL
      PROVE  RowOK(inflight[h].row) /\ inflight[h].parcel \in Parcels
  BY <1>2, Served DEF WritesConsistent
<1>3. CASE CompleteDelivery(h)
  BY <1>3, CompleteDeliveryProposes, ProposalKeepsConsistent
<1>4. CASE SaveRow(h)
  BY <1>1, <1>2, <1>4 DEF SaveRow, Pending, Saved, RowsConsistent, TypeOK
<1>5. CASE UpdateAssignment(h)
  <2> DEFINE p == inflight[h].parcel
  <2>1. p \in Parcels /\ inflight[h].row \in Row
    BY <1>5, Served DEF UpdateAssignment, Pending
  <2>2. /\ inflight[h].row.status = "ASSIGNED_TO_RIDER"
        /\ inflight[h].row.rider # NULL
    BY <1>5 DEF UpdateAssignment, Pending, RequestsKnown, Carries
  <2>3. ASSUME p \in live PROVE RowOK(rows'[p])
    <3>1. /\ rows'[p].status = "ASSIGNED_TO_RIDER"
          /\ rows'[p].rider # NULL
      BY <1>5, <2>1, <2>2, <2>3 DEF UpdateAssignment, TypeOK, Row
    <3> QED
      BY <3>1 DEF RowOK, PendingIsUntouched, InHubIsAssignable, TransitHasDestination,
                  RiderIsKnown
  <2>4. \A q \in Parcels \ {p} : rows'[q] = rows[q]
    BY <1>5, <2>1 DEF UpdateAssignment, TypeOK
  <2>5. RowsConsistent'
    BY <1>5, <2>3, <2>4 DEF UpdateAssignment, RowsConsistent, TypeOK
  <2> QED
    BY <1>1, <1>5, <2>5 DEF UpdateAssignment
<1>6. CASE DeleteRow(h)
  BY <1>1, <1>6 DEF DeleteRow, RowsConsistent
<1>7. CASE SaveOriginal(h)
  <2> DEFINE p == inflight[h].parcel
             row == inflight[h].row
  <2>1. RowsConsistent'
    BY <1>2, <1>7 DEF SaveOriginal, Pending, Saved, RowsConsistent, TypeOK
  <2>2. RowOK(ReturnOf(p, row))
    BY <1>7, Served, ReturnRow DEF SaveOriginal, Pending, RequestsKnown, Carries
  <2>3. \A g \in Handlers :
          inflight'[g] = IF g = h
                         THEN [step |-> "insertReturn", parcel |-> p, row |-> ReturnOf(p, row)]
                         ELSE inflight[g]
    BY <1>7 DEF SaveOriginal, TypeOK
  <2> QED
    BY <2>1, <2>2, <2>3 DEF WritesConsistent
<1>8. ASSUME NEW q \in Parcels, InsertReturn(h, q) PROVE Consistent'
  BY <1>1, <1>2, <1>8 DEF InsertReturn, Pending, RowsConsistent, TypeOK
<1>9. CASE InsertVerification(h)
  BY <1>1, <1>9 DEF InsertVerification, RowsConsistent
<1>10. CASE Abandon(h)
  BY <1>1, <1>10 DEF Abandon, RowsConsistent
<1> QED
  BY <1>3, <1>4, <1>5, <1>6, <1>7, <1>8, <1>9, <1>10 DEF WriteStep

\* However requests interleave and wherever they break off, a row of our own
\* has the hub, the destination and the rider that its status needs, provided
\* nobody edits such a status in by hand.
THEOREM RowsAlwaysConsistent ==
  ASSUME PlaceNotEdited
  PROVE  Spec => []RowsConsistent
<1>1. Init => Consistent
  BY DEF Init, Consistent, RowsConsistent, WritesConsistent
<1>2. TypeInv /\ Consistent /\ [Next]_vars => Consistent'
  <2> SUFFICES ASSUME TypeInv, Consistent, [Next]_vars PROVE Consistent'
    OBVIOUS
  <2>1. ASSUME NEW h \in Handlers,
               HubStep(h) \/ RiderStep(h) \/ OwnerStep(h) \/ CourierStep(h)
        PROVE  Consistent'
    BY <2>1, PlaceNotEdited, HandlerProposes, ProposalKeepsConsistent DEF TypeInv
  <2>2. ASSUME NEW h \in Handlers, WriteStep(h) PROVE Consistent'
    BY <2>2, PlaceNotEdited, WriteKeepsConsistent
  <2>3. CASE StaffStep
    BY <2>3, NewRows
       DEF StaffStep, CreateParcel, AssignHubToStore, UpdateRider, TypeInv, TypeOK,
           Consistent, RowsConsistent, WritesConsistent
  <2>4. CASE UNCHANGED vars
    BY <2>4 DEF vars, Consistent, RowsConsistent, WritesConsistent
  <2> QED
    BY <2>1, <2>2, <2>3, <2>4 DEF Next
<1>3. Consistent => RowsConsistent
  BY DEF Consistent
<1> QED
  BY <1>1, <1>2, <1>3, TypeInvariant, PTL DEF Spec

-----------------------------------------------------------------------------
(* One return parcel per original.  The unique index refuses a second      *)
(* number, and a save never changes the number of the row it writes to.    *)

NumbersKept ==
  \A h \in Handlers :
    inflight[h] # NULL =>
      inflight[h].row.returnOf = IF inflight[h].step = "insertReturn"
                                 THEN inflight[h].parcel
                                 ELSE rows[inflight[h].parcel].returnOf

Numbered == OneReturnPerOriginal /\ NumbersKept

LEMMA ProposalKeepsNumbered ==
  ASSUME TypeInv, Numbered, NEW h \in Handlers, NEW p \in live, Proposes(h, p)
  PROVE  Numbered'
<1>1. PICK step \in Steps \ {"insertReturn"}, row \in Row :
        Then(h, step, p, row) /\ Replaces(row, rows[p])
  BY DEF Proposes
<1>2. \A g \in Handlers :
        inflight'[g] = IF g = h THEN [step |-> step, parcel |-> p, row |-> row]
                       ELSE inflight[g]
  BY <1>1 DEF Then, TypeInv, TypeOK
<1>3. rows' = rows /\ live' = live /\ row.returnOf = rows[p].returnOf
  BY <1>1 DEF Then, Replaces
<1> QED
  BY <1>2, <1>3 DEF Numbered, NumbersKept, OneReturnPerOriginal

\* A step that rewrites the row of a known parcel, or none, with its number.
LEMMA SameNumbers ==
  ASSUME TypeInv, Numbered,
         \A q \in Parcels : rows'[q].returnOf = rows[q].returnOf,
         \A h \in Handlers : inflight'[h] \in {inflight[h], NULL}
  PROVE  NumbersKept'
BY Served DEF Numbered, NumbersKept, TypeInv

LEMMA WriteKeepsNumbered ==
  ASSUME TypeInv, Numbered, NEW h \in Handlers, WriteStep(h)
  PROVE  Numbered'
<1> USE DEF TypeInv, Numbered
<1>1. ASSUME Responds(h) PROVE \A g \in Handlers : inflight'[g] \in {inflight[g], NULL}
  BY <1>1 DEF Responds, TypeOK
<1>2. CASE CompleteDelivery(h)
  BY <1>2, CompleteDeliveryProposes, ProposalKeepsNumbered
<1>3. ASSUME Pending(h, "save") \/ Pending(h, "saveOriginal"),
             Saved(inflight[h].parcel, inflight[h].row)
      PROVE  /\ \A q \in Parcels : rows'[q].returnOf = rows[q].returnOf
             /\ OneReturnPerOriginal'
  <2> DEFINE p == inflight[h].parcel
             row == inflight[h].row
  <2>1. p \in Parcels /\ row.returnOf = rows[p].returnOf
    BY <1>3, Served DEF Pending, NumbersKept
  <2>2. \A q \in Parcels : rows'[q].returnOf = rows[q].returnOf
    BY <1>3, <2>1 DEF Saved, TypeOK
  <2>3. CASE p \in live
    BY <1>3, <2>2, <2>3 DEF Saved, OneReturnPerOriginal, TypeOK
  <2>4. CASE p \notin live
    BY <1>3, <2>1, <2>2, <2>4 DEF Saved, TrackingFree, OneReturnPerOriginal, TypeOK
  <2> QED
    BY <2>2, <2>3, <2>4
<1>4. CASE SaveRow(h)
  BY <1>1, <1>3, <1>4, SameNumbers DEF SaveRow
<1>5. CASE UpdateAssignment(h)
  <2>1. \A q \in Parcels : rows'[q].returnOf = rows[q].returnOf
    BY <1>5, Served DEF UpdateAssignment, Pending, TypeOK, Row
  <2>2. OneReturnPerOriginal'
    BY <1>5, <2>1 DEF UpdateAssignment, OneReturnPerOriginal, TypeOK
  <2> QED
    BY <1>1, <1>5, <2>1, <2>2, SameNumbers DEF UpdateAssignment
<1>6. CASE DeleteRow(h)
  BY <1>1, <1>6, SameNumbers DEF DeleteRow, OneReturnPerOriginal
<1>7. CASE SaveOriginal(h)
  <2> DEFINE p == inflight[h].parcel
             row == inflight[h].row
  <2>1. p \in Parcels /\ row \in Row
    BY <1>7, Served DEF SaveOriginal, Pending
  <2>2. /\ \A q \in Parcels : rows'[q].returnOf = rows[q].returnOf
        /\ OneReturnPerOriginal'
    BY <1>3, <1>7 DEF SaveOriginal
  <2>3. \A g \in Handlers :
          inflight'[g] = IF g = h
                         THEN [step |-> "insertReturn", parcel |-> p, row |-> ReturnOf(p, row)]
                         ELSE inflight[g]
    BY <1>7 DEF SaveOriginal, TypeOK
  <2>4. ReturnOf(p, row).returnOf = p
    BY <2>1, ReturnRow
  <2>5. \A g \in Handlers : inflight[g] # NULL => inflight[g].parcel \in Parcels
    BY Served
  <2>6. NumbersKept'
    BY <2>2, <2>3, <2>4, <2>5 DEF NumbersKept
  <2> QED
    BY <2>2, <2>6
<1>8. ASSUME NEW q \in Parcels, InsertReturn(h, q) PROVE Numbered'
  <2>1. q \in unused /\ q \notin live
    BY <1>8 DEF InsertReturn, TypeOK
  <2>2. \A p \in Parcels \ {q} : rows'[p] = rows[p]
    BY <1>8 DEF InsertReturn, TypeOK
  <2>3. rows'[q].returnOf = inflight[h].row.returnOf
    BY <1>8 DEF InsertReturn, TypeOK
  <2>4. \A g \in Handlers :
          inflight[g] # NULL => inflight[g].parcel \in Parcels \ {q}
    BY <2>1, Served DEF RequestsKnown
  <2>5. NumbersKept'
    BY <1>1, <1>8, <2>2, <2>4 DEF InsertReturn, NumbersKept
  <2>6. OneReturnPerOriginal'
    BY <1>8, <2>1, <2>2, <2>3 DEF InsertReturn, TrackingFree, OneReturnPerOriginal, TypeOK
  <2> QED
    BY <2>5, <2>6
<1>9. CASE InsertVerification(h)
  BY <1>1, <1>9, SameNumbers DEF InsertVerification, OneReturnPerOriginal
<1>10. CASE Abandon(h)
  BY <1>1, <1>10, SameNumbers DEF Abandon, OneReturnPerOriginal
<1> QED
  BY <1>2, <1>4, <1>5, <1>6, <1>7, <1>8, <1>9, <1>10 DEF WriteStep

\* No interleaving, retry or repeated marking leaves two return parcels of one
\* original.
THEOREM OneReturn == Spec => []OneReturnPerOriginal
<1>1. Init => Numbered
  BY DEF Init, Numbered, OneReturnPerOriginal, NumbersKept
<1>2. TypeInv /\ Numbered /\ [Next]_vars => Numbered'
  <2> SUFFICES ASSUME TypeInv, Numbered, [Next]_vars PROVE Numbered'
    OBVIOUS
  <2>1. ASSUME NEW h \in Handlers,
               HubStep(h) \/ RiderStep(h) \/ OwnerStep(h) \/ CourierStep(h)
        PROVE  Numbered'
    BY <2>1, HandlerProposes, ProposalKeepsNumbered DEF TypeInv
  <2>2. ASSUME NEW h \in Handlers, WriteStep(h) PROVE Numbered'
    BY <2>2, WriteKeepsNumbered
  <2>3. ASSUME NEW p \in Parcels, NEW s \in Stores \cup {NULL}, CreateParcel(p, s)
        PROVE  Numbered'
    <3>1. p \in unused /\ p \notin live
      BY <2>3 DEF CreateParcel, TypeInv, TypeOK
    <3>2. /\ rows'[p].returnOf = NULL
          /\ \A q \in Parcels \ {p} : rows'[q] = rows[q]
          /\ live' = live \cup {p}
          /\ inflight' = inflight
      BY <2>3, NewRows DEF CreateParcel, TypeInv, TypeOK
    <3>3. \A g \in Handlers : inflight[g] # NULL => inflight[g].parcel \in Parcels \ {p}
      BY <3>1, Served DEF TypeInv, RequestsKnown
    <3> QED
      BY <3>1, <3>2, <3>3 DEF Numbered, OneReturnPerOriginal, NumbersKept, TypeInv, TypeOK
  <2>4. CASE \/ \E s \in Stores, hub \in Hubs : AssignHubToStore(s, hub)
             \/ \E r \in Riders, hub \in Hubs, active \in BOOLEAN :
                  UpdateRider(r, hub, active)
    BY <2>4 DEF AssignHubToStore, UpdateRider, Numbered, OneReturnPerOriginal, NumbersKept
  <2>5. CASE UNCHANGED vars
    BY <2>5 DEF vars, Numbered, OneReturnPerOriginal, NumbersKept
  <2> QED
    BY <2>1, <2>2, <2>3, <2>4, <2>5 DEF Next, StaffStep
<1>3. Numbered => OneReturnPerOriginal
  BY DEF Numbered
<1> QED
  BY <1>1, <1>2, <1>3, TypeInvariant, PTL DEF Spec

-----------------------------------------------------------------------------
(* Requests one at a time.                                                 *)

OneHandler == \A g, h \in Handlers : g = h

\* No status is edited in by hand, and the courier's events do not put a parcel
\* back among those that hubs and riders move.
CourierWork ==
  {"ASSIGNED_TO_THIRD_PARTY", "OUT_FOR_DELIVERY", "DELIVERED", "FAILED_DELIVERY",
   "RETURNED", "CANCELLED", "RETURN_TO_MERCHANT"}

Undisturbed == EditableStatuses = {} /\ WebhookStatuses \subseteq CourierWork

\* The statuses our own parcels then go through.
OwnStatuses ==
  RiderOutcomes \cup
  {"PENDING", "IN_HUB", "ASSIGNED_TO_RIDER", "OUT_FOR_DELIVERY", "IN_TRANSIT",
   "RETURNED_TO_HUB", "RETURN_TO_MERCHANT"}

\* What is true of the row of a parcel with verified outcome c.
Sound(row, c) ==
  /\ row.provider = "INTERNAL" =>
       /\ row.status \in OwnStatuses
       /\ row.status # "IN_TRANSIT" => row.dest \in {NULL, row.current}
       /\ row.status \notin {"PENDING", "IN_TRANSIT"} => row.current # NULL
       /\ row.status \in RiderOutcomes => row.status = c
       /\ row.status \in {"RETURNED_TO_HUB", "RETURN_TO_MERCHANT"} =>
            c \in {"RETURNED", "PAID_RETURN", "PARTIAL_DELIVERY", "EXCHANGE"}
       /\ row.status \in RiderOutcomes \cup {"OUT_FOR_DELIVERY"} => row.rider # NULL
       /\ c = "DELIVERED" => row.status \in {"OUT_FOR_DELIVERY", "DELIVERED"}
  /\ row.provider = "CARRYBEE" => row.rider = NULL /\ row.status \in CourierWork

\* A parcel stays where it is or passes between two parties that meet.
Passes(from, to) ==
  \/ to = from
  \/ \E hub \in Hubs :
       \/ from = Custody!At("merchant") /\ to = Custody!InHub(hub)
       \/ from = Custody!OnTheWay(hub) /\ to = Custody!InHub(hub)
       \/ from = Custody!InHub(hub) /\ to = Custody!At("courier")
       \/ \E other \in Hubs \ {hub} :
            from = Custody!InHub(hub) /\ to = Custody!OnTheWay(other)
       \/ \E r \in Riders :
            \/ from = Custody!InHub(hub) /\ to = Custody!With(r, hub)
            \/ from = Custody!With(r, hub)
               /\ to \in {Custody!InHub(hub), Custody!At("customer")}

\* What the one handler relies on is still so.
Holds(step, p, row) ==
  /\ p \in live
  /\ step \in {"save", "saveOriginal"} =>
       /\ Sound(row, chosen[p])
       /\ row.rider \in {rows[p].rider, NULL}
       /\ row.rider # NULL => row.current = rows[p].current
       /\ Passes(PlaceOf(rows[p]), PlaceOf(row))
  /\ step = "assign" =>
       rows[p].provider = "INTERNAL" /\ rows[p].status = "IN_HUB" /\ rows[p].rider = NULL
  /\ step = "remove" => rows[p].status \notin {"DELIVERED", "IN_TRANSIT"}
  /\ step = "verification" => rows[p].status = "OUT_FOR_DELIVERY"
  /\ step = "outcome" => rows[p].rider # NULL
  /\ step = "insertReturn" =>
       /\ row.provider = "INTERNAL" /\ row.status = "IN_HUB"
       /\ row.dest = NULL /\ row.current # NULL /\ row.rider = NULL

RowsSound == \A p \in live : Sound(rows[p], chosen[p])
NoneChosen == \A p \in Parcels \ live : chosen[p] = NULL
RequestsHold ==
  \A h \in Handlers : inflight[h] # NULL =>
    Holds(inflight[h].step, inflight[h].parcel, inflight[h].row)

Orderly == RowsSound /\ NoneChosen /\ RequestsHold

\* The places of rows.
LEMMA Located ==
  ASSUME NEW row \in Row
  PROVE  /\ row.provider = "CARRYBEE" => PlaceOf(row) = Custody!At("courier")
         /\ row.provider = "INTERNAL" =>
              /\ row.status = "PENDING" => PlaceOf(row) = Custody!At("merchant")
              /\ row.status = "DELIVERED" => PlaceOf(row) = Custody!At("customer")
              /\ row.status = "IN_TRANSIT" => PlaceOf(row) = Custody!OnTheWay(row.dest)
              /\ row.status \in {"IN_HUB", "ASSIGNED_TO_RIDER", "RETURNED_TO_HUB",
                                 "RETURN_TO_MERCHANT"} =>
                   PlaceOf(row) = Custody!InHub(row.current)
              /\ row.status \in (RiderOutcomes \ {"DELIVERED"}) \cup {"OUT_FOR_DELIVERY"} =>
                   PlaceOf(row) = Custody!With(row.rider, row.current)
BY DEF PlaceOf, Custody!At, Custody!InHub, Custody!OnTheWay, Custody!With, Row, RiderOutcomes

LEMMA SamePlace ==
  ASSUME NEW row, NEW old, row.provider = old.provider, row.status = old.status,
         row.current = old.current, row.dest = old.dest, row.rider = old.rider
  PROVE  PlaceOf(row) = PlaceOf(old)
BY DEF PlaceOf

Undertakes(h, p) ==
  \E step \in Steps, row \in Row : Then(h, step, p, row) /\ Holds(step, p, row)

LEMMA UndertakesRule ==
  ASSUME NEW h, NEW p, NEW step \in Steps, NEW row \in Row,
         Then(h, step, p, row), Holds(step, p, row)
  PROVE  Undertakes(h, p)
BY DEF Undertakes

LEMMA SavesUndertaken ==
  ASSUME NEW h, NEW p \in live, NEW row,
         Then(h, "save", p, row) \/ Then(h, "saveOriginal", p, row),
         Replaces(row, rows[p]), Sound(row, chosen[p]),
         row.rider = rows[p].rider \/ row.rider = NULL,
         row.rider # NULL => row.current = rows[p].current,
         Passes(PlaceOf(rows[p]), PlaceOf(row))
  PROVE  Undertakes(h, p)
<1>1. Holds("save", p, row) /\ Holds("saveOriginal", p, row)
  BY DEF Holds
<1> QED
  BY <1>1, UndertakesRule DEF Replaces, Steps

\* What a row says of its provider: only our own parcels have a rider or are on
\* their way between hubs.
LEMMA Whose ==
  ASSUME TypeOK, RowsSound, NEW p \in live,
         rows[p].rider # NULL \/ rows[p].status \notin CourierWork
  PROVE  rows[p].provider = "INTERNAL"
BY DEF TypeOK, RowsSound, Sound, Row

LEMMA HubUndertakes ==
  ASSUME TypeOK, RowsConsistent, RowsSound, NEW h \in Handlers, HubStep(h)
  PROVE  \E p \in live : Undertakes(h, p)
<1>1. PICK p \in Parcels, hub \in Hubs :
        \/ MarkAsReceived(h, p, hub)
        \/ PrepareForRedelivery(h, p, hub)
        \/ AcceptIncomingParcel(h, p, hub)
        \/ MarkReturnToMerchant(h, p, hub)
        \/ AssignParcelToCarrybee(h, p, hub)
        \/ \E r \in Riders : AssignToRider(h, p, r, hub)
        \/ \E to \in Hubs : TransferParcelToHub(h, p, hub, to)
  BY DEF HubStep
<1> DEFINE old == rows[p]
<1>2. p \in live
  BY <1>1 DEF MarkAsReceived, PrepareForRedelivery, AcceptIncomingParcel,
     MarkReturnToMerchant, AssignParcelToCarrybee, AssignToRider, TransferParcelToHub, Reads
<1>3. old \in Row /\ Sound(old, chosen[p]) /\ RowOK(old)
  BY <1>2 DEF TypeOK, RowsSound, RowsConsistent
<1>4. old.status \notin CourierWork => old.provider = "INTERNAL"
  BY <1>2, Whose
<1>5. CASE MarkAsReceived(h, p, hub)
  <2> DEFINE new == Received(old, hub)
  <2>1. old.status \in {"PENDING", "PICKED_UP"} /\ Then(h, "save", p, new)
    BY <1>5 DEF MarkAsReceived
  <2>2. /\ old.provider = "INTERNAL" /\ old.status = "PENDING" /\ old.current = NULL
        /\ old.rider = NULL
    BY <1>3, <1>4, <2>1 DEF CourierWork, RowOK, PendingIsUntouched, Sound, OwnStatuses, RiderOutcomes
  <2>3. old.dest = NULL /\ chosen[p] # "DELIVERED"
    BY <1>3, <2>2 DEF Sound
  <2>4. Replaces(new, old)
    BY <1>3, <2>1, ReceivedReplaces
  <2>5. /\ new.status = "IN_HUB" /\ new.provider = "INTERNAL" /\ new.current = hub
        /\ new.dest = NULL /\ new.rider = old.rider
    BY <1>3, <2>2, <2>3 DEF Received, Row
  <2>6. Sound(new, chosen[p])
    BY <2>3, <2>5, NullAssumption DEF Sound, OwnStatuses, RiderOutcomes
  <2> HIDE DEF new
  <2>7. Passes(PlaceOf(old), PlaceOf(new))
    BY <1>3, <2>2, <2>4, <2>5, Located DEF Passes, Replaces
  <2> QED
    BY <1>2, SavesUndertaken, <2>1, <2>2, <2>3, <2>4, <2>5, <2>6, <2>7
<1>6. CASE PrepareForRedelivery(h, p, hub)
  <2> DEFINE new == Redelivered(old)
  <2>1. /\ old.status = "DELIVERY_RESCHEDULED" /\ old.current = hub
        /\ Then(h, "save", p, new)
    BY <1>6 DEF PrepareForRedelivery
  <2>2. old.provider = "INTERNAL"
    BY <1>4, <2>1 DEF CourierWork
  <2>3. chosen[p] = "DELIVERY_RESCHEDULED" /\ old.rider \in Riders
    BY <1>3, <2>1, <2>2 DEF Sound, RiderOutcomes, Row
  <2>4. Replaces(new, old)
    BY <1>3, <2>1, RedeliveredReplaces
  <2>5. /\ new.status = "IN_HUB" /\ new.provider = "INTERNAL"
        /\ new.dest = old.dest /\ new.current = hub /\ new.rider = NULL
    BY <1>3, <2>1, <2>2 DEF Redelivered, Row
  <2>6. Sound(new, chosen[p])
    BY <1>3, <2>1, <2>2, <2>3, <2>5, NullAssumption DEF Sound, OwnStatuses, RiderOutcomes
  <2> HIDE DEF new
  <2>7. PlaceOf(old) = Custody!With(old.rider, hub) /\ PlaceOf(new) = Custody!InHub(hub)
    BY <1>3, <2>1, <2>2, <2>4, <2>5, Located DEF Replaces, RiderOutcomes
  <2>8. Passes(PlaceOf(old), PlaceOf(new))
    BY <2>3, <2>7 DEF Passes
  <2> QED
    BY <1>2, SavesUndertaken, <2>1, <2>4, <2>5, <2>6, <2>8
<1>7. CASE AcceptIncomingParcel(h, p, hub)
  <2> DEFINE new == Unloaded(old, hub)
  <2>1. /\ old.status = "IN_TRANSIT" /\ old.dest = hub
        /\ Then(h, "save", p, new)
    BY <1>7 DEF AcceptIncomingParcel
  <2>2. old.provider = "INTERNAL"
    BY <1>4, <2>1 DEF CourierWork
  <2>3. chosen[p] # "DELIVERED" /\ old.rider = NULL
    BY <1>3, <2>1, <2>2 DEF Sound, RowOK, TransitHasDestination
  <2>4. Replaces(new, old)
    BY <1>3, <2>1, UnloadedReplaces
  <2>5. /\ new.status = "IN_HUB" /\ new.provider = "INTERNAL"
        /\ new.dest \in {NULL, hub} /\ new.current = hub /\ new.rider = old.rider
    BY <1>3, <2>1, <2>2 DEF Unloaded, Cleared, Row
  <2>6. Sound(new, chosen[p])
    BY <2>3, <2>5, NullAssumption DEF Sound, OwnStatuses, RiderOutcomes
  <2> HIDE DEF new
  <2>7. Passes(PlaceOf(old), PlaceOf(new))
    BY <1>3, <2>1, <2>2, <2>4, <2>5, Located DEF Passes, Replaces
  <2> QED
    BY <1>2, SavesUndertaken, <2>1, <2>2, <2>3, <2>4, <2>5, <2>6, <2>7
<1>8. CASE MarkReturnToMerchant(h, p, hub)
  <2> DEFINE new == WithStatus(old, "RETURN_TO_MERCHANT")
  <2>1. /\ old.status \in {"RETURNED", "PAID_RETURN", "PARTIAL_DELIVERY", "EXCHANGE",
                           "RETURNED_TO_HUB"}
        /\ old.current = hub
        /\ Then(h, "saveOriginal", p, new)
    BY <1>8 DEF MarkReturnToMerchant
  <2>2. Replaces(new, old)
    BY <1>3, WithStatusReplaces DEF ParcelStatus, GuardedStatuses
  <2>3. /\ new.status = "RETURN_TO_MERCHANT" /\ new.provider = old.provider
        /\ new.dest = old.dest /\ new.current = old.current /\ new.rider = old.rider
    BY <1>3 DEF WithStatus, Row
  <2>4. Sound(new, chosen[p])
    BY <1>3, <2>1, <2>3 DEF Sound, OwnStatuses, RiderOutcomes, CourierWork
  <2> HIDE DEF new
  <2>5. CASE old.provider = "CARRYBEE"
    <3>1. Passes(PlaceOf(old), PlaceOf(new))
      BY <1>3, <2>2, <2>3, <2>5, Located DEF Passes, Replaces
    <3> QED
      BY <1>2, SavesUndertaken, <2>1, <2>2, <2>3, <2>4, <3>1
  <2>6. CASE old.provider = "INTERNAL"
    <3>1. PlaceOf(new) = Custody!InHub(hub)
      BY <2>1, <2>2, <2>3, <2>6, Located DEF Replaces
    <3>2. CASE old.status = "RETURNED_TO_HUB"
      BY <1>2, <1>3, <2>1, <2>2, <2>3, <2>4, <2>6, <3>1, <3>2, SavesUndertaken, Located DEF Passes
    <3>3. CASE old.status # "RETURNED_TO_HUB"
      <4>1. PlaceOf(old) = Custody!With(old.rider, hub) /\ old.rider \in Riders
        BY <1>3, <2>1, <2>6, <3>3, Located DEF Sound, RiderOutcomes, Row
      <4>2. Passes(PlaceOf(old), PlaceOf(new))
        BY <3>1, <4>1 DEF Passes
      <4> QED
        BY <1>2, SavesUndertaken, <2>1, <2>2, <2>3, <2>4, <4>2
    <3> QED
      BY <3>2, <3>3
  <2> QED
    BY <1>3, <2>5, <2>6 DEF Row
<1>9. CASE AssignParcelToCarrybee(h, p, hub)
  <2> DEFINE new == HandedToCarrybee(old)
  <2>1. old.status = "IN_HUB" /\ old.rider = NULL /\ Then(h, "save", p, new)
    BY <1>9 DEF AssignParcelToCarrybee
  <2>2. old.provider = "INTERNAL" /\ old.current \in Hubs
    BY <1>3, <1>4, <2>1 DEF CourierWork, Sound, Row
  <2>3. Replaces(new, old)
    BY <1>3, HandedToCarrybeeReplaces
  <2>4. /\ new.status = "ASSIGNED_TO_THIRD_PARTY" /\ new.provider = "CARRYBEE"
        /\ new.rider = NULL
    BY <1>3, <2>1 DEF HandedToCarrybee, Row
  <2>5. Sound(new, chosen[p])
    BY <2>4 DEF Sound, CourierWork
  <2> HIDE DEF new
  <2>6. Passes(PlaceOf(old), PlaceOf(new))
    BY <1>3, <2>1, <2>2, <2>3, <2>4, Located DEF Passes, Replaces
  <2> QED
    BY <1>2, SavesUndertaken, <2>1, <2>3, <2>4, <2>5, <2>6
<1>10. CASE \E r \in Riders : AssignToRider(h, p, r, hub)
  <2>1. PICK r \in Riders : AssignToRider(h, p, r, hub)
    BY <1>10
  <2>2. Assigned(old, r) \in Row
    BY <1>3, AssignedReplaces DEF Replaces
  <2>3. old.status = "IN_HUB" /\ old.rider = NULL /\ Then(h, "assign", p, Assigned(old, r))
    BY <2>1 DEF AssignToRider
  <2>4. Holds("assign", p, Assigned(old, r))
    BY <1>2, <1>4, <2>3 DEF Holds, CourierWork
  <2> HIDE DEF old
  <2> QED
    BY <2>2, <2>3, <2>4, UndertakesRule, <1>2 DEF Steps
<1>11. CASE \E to \in Hubs : TransferParcelToHub(h, p, hub, to)
  <2>1. PICK to \in Hubs : TransferParcelToHub(h, p, hub, to)
    BY <1>11
  <2> DEFINE new == Transferred(old, hub, to)
  <2>2. /\ old.status \in {"IN_HUB", "RETURNED_TO_HUB"} /\ old.current \in {hub, NULL}
        /\ to # hub /\ Then(h, "save", p, new)
    BY <2>1 DEF TransferParcelToHub
  <2>3. old.provider = "INTERNAL"
    BY <1>4, <2>2 DEF CourierWork
  <2>4. old.current = hub /\ chosen[p] # "DELIVERED"
    BY <1>3, <2>2, <2>3 DEF Sound
  <2>5. Replaces(new, old)
    BY <1>3, <2>2, TransferredReplaces
  <2>6. new.status = "IN_TRANSIT" /\ new.provider = "INTERNAL" /\ new.rider = NULL /\ new.dest = to
    BY <1>3, <2>3 DEF Transferred, Row
  <2>7. Sound(new, chosen[p])
    BY <2>4, <2>6 DEF Sound, OwnStatuses, RiderOutcomes
  <2> HIDE DEF new
  <2>8. PlaceOf(old) = Custody!InHub(hub) /\ PlaceOf(new) = Custody!OnTheWay(to)
    BY <1>3, <2>2, <2>3, <2>4, <2>5, <2>6, Located DEF Replaces
  <2>9. Passes(PlaceOf(old), PlaceOf(new))
    BY <2>2, <2>8 DEF Passes
  <2> QED
    BY <1>2, SavesUndertaken, <2>2, <2>5, <2>6, <2>7, <2>9
<1> QED
  BY <1>1, <1>2, <1>5, <1>6, <1>7, <1>8, <1>9, <1>10, <1>11

LEMMA RiderUndertakes ==
  ASSUME TypeOK, RowsConsistent, RowsSound, NEW h \in Handlers, RiderStep(h)
  PROVE  \E p \in live : Undertakes(h, p)
<1>1. PICK p \in Parcels, r \in Riders :
        \/ RiderAcceptParcel(h, p, r)
        \/ RiderReturnParcel(h, p, r)
        \/ VerifyOtp(h, p, r)
        \/ \E outcome \in SelectableOutcomes : InitiateDelivery(h, p, r, outcome)
  BY DEF RiderStep
<1> DEFINE old == rows[p]
<1>2. p \in live /\ old.rider = r /\ old.rider # NULL
  BY <1>1, NullAssumption
  DEF RiderAcceptParcel, RiderReturnParcel, VerifyOtp, InitiateDelivery, Reads
<1>3. old \in Row /\ Sound(old, chosen[p])
  BY <1>2 DEF TypeOK, RowsSound
<1>4. old.provider = "INTERNAL"
  BY <1>2, Whose
<1>5. CASE RiderAcceptParcel(h, p, r)
  <2> DEFINE new == Accepted(old)
  <2>1. old.status = "ASSIGNED_TO_RIDER" /\ Then(h, "save", p, new)
    BY <1>5 DEF RiderAcceptParcel
  <2>2. Replaces(new, old)
    BY <1>2, <1>3, AcceptedReplaces
  <2>3. old.current \in Hubs /\ chosen[p] # "DELIVERED"
    BY <1>3, <1>4, <2>1 DEF Sound, Row
  <2>4. /\ new.status = "OUT_FOR_DELIVERY" /\ new.provider = "INTERNAL"
        /\ new.dest = old.dest /\ new.current = old.current /\ new.rider = old.rider
    BY <1>3, <1>4 DEF Accepted, Row
  <2>5. Sound(new, chosen[p])
    BY <1>2, <1>3, <1>4, <2>1, <2>3, <2>4 DEF Sound, OwnStatuses, RiderOutcomes
  <2> HIDE DEF new
  <2>6. /\ PlaceOf(old) = Custody!InHub(old.current)
        /\ PlaceOf(new) = Custody!With(r, old.current)
    BY <1>2, <1>3, <1>4, <2>1, <2>2, <2>4, Located DEF Replaces
  <2>7. Passes(PlaceOf(old), PlaceOf(new))
    BY <2>3, <2>6 DEF Passes
  <2> QED
    BY <1>2, <2>1, <2>2, <2>4, <2>5, <2>7, SavesUndertaken
<1>6. CASE RiderReturnParcel(h, p, r)
  <2> DEFINE new == BroughtBack(old)
  <2>1. old.status \in {"RETURNED", "PAID_RETURN"} /\ Then(h, "save", p, new)
    BY <1>6 DEF RiderReturnParcel
  <2>2. Replaces(new, old)
    BY <1>3, BroughtBackReplaces
  <2>3. old.current \in Hubs /\ chosen[p] # "DELIVERED"
    BY <1>3, <1>4, <2>1 DEF Sound, Row, RiderOutcomes
  <2>4. /\ new.status = "RETURNED_TO_HUB" /\ new.provider = "INTERNAL"
        /\ new.dest = old.dest /\ new.current = old.current
        /\ new.rider = old.rider \/ new.rider = NULL
    BY <1>3, <1>4 DEF BroughtBack, Cleared, Row
  <2>5. Sound(new, chosen[p])
    BY <1>3, <1>4, <2>1, <2>3, <2>4 DEF Sound, OwnStatuses, RiderOutcomes
  <2> HIDE DEF new
  <2>6. /\ PlaceOf(old) = Custody!With(r, old.current)
        /\ PlaceOf(new) = Custody!InHub(old.current)
    BY <1>2, <1>3, <1>4, <2>1, <2>2, <2>4, Located DEF Replaces, RiderOutcomes
  <2>7. Passes(PlaceOf(old), PlaceOf(new))
    BY <2>3, <2>6 DEF Passes
  <2> QED
    BY <1>2, <2>1, <2>2, <2>4, <2>5, <2>7, SavesUndertaken
<1>7. CASE VerifyOtp(h, p, r)
  <2>1. Holds("outcome", p, old)
    BY <1>2 DEF Holds
  <2> QED
    BY <1>2, <1>3, <1>7, <2>1, UndertakesRule DEF VerifyOtp, Steps
<1>8. CASE \E outcome \in SelectableOutcomes : InitiateDelivery(h, p, r, outcome)
  <2>1. PICK outcome \in SelectableOutcomes : InitiateDelivery(h, p, r, outcome)
    BY <1>8
  <2> DEFINE new == WithStatus(old, outcome)
  <2>2. old.status = "OUT_FOR_DELIVERY" /\ Then(h, "verification", p, new)
    BY <2>1 DEF InitiateDelivery
  <2>3. outcome \in ParcelStatus
    BY StatusAssumption DEF ParcelStatus
  <2>4. new \in Row
    BY <1>3, <2>3 DEF WithStatus, Row
  <2>5. Holds("verification", p, new)
    BY <1>2, <2>2 DEF Holds
  <2> HIDE DEF new
  <2> QED
    BY <1>2, <2>2, <2>4, <2>5, UndertakesRule DEF Steps
<1> QED
  BY <1>1, <1>5, <1>6, <1>7, <1>8

LEMMA OthersUndertake ==
  ASSUME Undisturbed, TypeOK, RowsSound, NEW h \in Handlers, OwnerStep(h) \/ CourierStep(h)
  PROVE  \E p \in live : Undertakes(h, p)
<1>1. ASSUME NEW p \in Parcels, RemoveParcel(h, p)
      PROVE  \E q \in live : Undertakes(h, q)
  <2>1. Holds("remove", p, rows[p]) /\ rows[p] \in Row /\ p \in live
    BY <1>1 DEF Holds, RemoveParcel, Reads, TypeOK
  <2> QED
    BY <1>1, <2>1, UndertakesRule DEF RemoveParcel, Steps
<1>2. ASSUME NEW p \in Parcels, NEW status \in ParcelStatus, NEW s \in Stores \cup {NULL},
             UpdateParcel(h, p, status, s)
      PROVE  \E q \in live : Undertakes(h, q)
  <2> DEFINE new == Edited(rows[p], status, s)
  <2>1. p \in live /\ rows[p] \in Row /\ Sound(rows[p], chosen[p])
    BY <1>2 DEF UpdateParcel, Reads, TypeOK, RowsSound
  <2>2. status = rows[p].status /\ Then(h, "save", p, new)
    BY <1>2 DEF UpdateParcel, Undisturbed
  <2>3. /\ new \in Row /\ new.status = rows[p].status /\ new.provider = rows[p].provider
        /\ new.dest = rows[p].dest /\ new.current = rows[p].current
        /\ new.rider = rows[p].rider
    BY <2>1, <2>2 DEF Edited, Row
  <2>4. PlaceOf(new) = PlaceOf(rows[p])
    BY <2>3, SamePlace
  <2>5. Holds("save", p, new)
    BY <2>1, <2>3, <2>4 DEF Holds, Sound, Passes
  <2> HIDE DEF new
  <2> QED
    BY <2>1, <2>2, <2>3, <2>5, UndertakesRule DEF Steps
<1>3. ASSUME NEW p \in Parcels, NEW status \in ParcelStatus, HandleWebhook(h, p, status)
      PROVE  \E q \in live : Undertakes(h, q)
  <2> DEFINE new == WithStatus(rows[p], status)
  <2>1. p \in live /\ rows[p] \in Row /\ Sound(rows[p], chosen[p])
    BY <1>3 DEF HandleWebhook, Reads, TypeOK, RowsSound
  <2>2. /\ rows[p].provider = "CARRYBEE" /\ status \in WebhookStatuses \cup {rows[p].status}
        /\ Then(h, "save", p, new)
    BY <1>3 DEF HandleWebhook
  <2>3. rows[p].rider = NULL /\ status \in CourierWork
    BY <2>1, <2>2 DEF Sound, Undisturbed
  <2>4. new \in Row /\ new.status = status /\ new.provider = "CARRYBEE" /\ new.rider = NULL
    BY <2>1, <2>2, <2>3 DEF WithStatus, Row
  <2>5. PlaceOf(new) = PlaceOf(rows[p])
    BY <2>1, <2>2, <2>4, Located
  <2>6. Holds("save", p, new)
    BY <2>1, <2>3, <2>4, <2>5 DEF Holds, Sound, Passes
  <2> HIDE DEF new
  <2> QED
    BY <2>1, <2>2, <2>4, <2>6, UndertakesRule DEF Steps
<1> QED
  BY <1>1, <1>2, <1>3 DEF OwnerStep, CourierStep

LEMMA CompleteUndertakes ==
  ASSUME TypeOK, RowsConsistent, Orderly, NEW h \in Handlers, CompleteDelivery(h)
  PROVE  \E p \in live : Undertakes(h, p)
<1> DEFINE p   == inflight[h].parcel
           old == rows[p]
           new == WithStatus(old, chosen[p])
<1>1. p \in live /\ chosen[p] \in RiderOutcomes /\ Then(h, "save", p, new)
  BY DEF CompleteDelivery, TypeOK
<1>2. old \in Row /\ Sound(old, chosen[p]) /\ RowOK(old)
  BY <1>1 DEF Orderly, TypeOK, RowsSound, RowsConsistent
<1>3. old.rider # NULL
  BY DEF CompleteDelivery, Orderly, RequestsHold, Holds
<1>4. old.provider = "INTERNAL"
  BY <1>1, <1>3, Whose DEF Orderly
<1>5. /\ old.status \notin {"PENDING", "IN_HUB", "IN_TRANSIT"}
      /\ old.current \in Hubs /\ old.rider \in Riders
      /\ old.status \in RiderOutcomes => old.status = chosen[p]
  BY <1>2, <1>3, <1>4
  DEF RowOK, PendingIsUntouched, InHubIsAssignable, TransitHasDestination, Sound, Row
<1>6. /\ new \in Row /\ new.status = chosen[p] /\ new.provider = "INTERNAL"
      /\ new.dest = old.dest /\ new.current = old.current /\ new.rider = old.rider
  BY <1>1, <1>2, <1>4 DEF WithStatus, Row, ParcelStatus
<1>7. Sound(new, chosen[p])
  BY <1>1, <1>2, <1>3, <1>4, <1>5, <1>6, NullAssumption
  DEF Sound, OwnStatuses, RiderOutcomes
<1> HIDE DEF new
<1>8. Passes(PlaceOf(old), PlaceOf(new))
  <2> DEFINE carried == Custody!With(old.rider, old.current)
  <2>1. chosen[p] # "DELIVERED" => PlaceOf(new) = carried
    BY <1>1, <1>6, Located
  <2>2. chosen[p] = "DELIVERED" => PlaceOf(new) = Custody!At("customer")
    BY <1>6, Located
  <2>3. CASE old.status \in {"ASSIGNED_TO_RIDER", "RETURNED_TO_HUB", "RETURN_TO_MERCHANT"}
    <3>1. chosen[p] # "DELIVERED" /\ PlaceOf(old) = Custody!InHub(old.current)
      BY <1>2, <1>4, <2>3, Located DEF Sound
    <3> QED
      BY <1>5, <2>1, <3>1 DEF Passes
  <2>4. CASE old.status = "OUT_FOR_DELIVERY"
    <3>1. PlaceOf(old) = carried
      BY <1>2, <1>4, <2>4, Located
    <3> QED
      BY <1>5, <2>1, <2>2, <3>1 DEF Passes
  <2>5. CASE old.status = chosen[p]
    BY <1>2, <1>4, <1>6, <2>5, SamePlace DEF Passes
  <2> QED
    BY <1>2, <1>4, <1>5, <2>3, <2>4, <2>5 DEF Sound, OwnStatuses
<1>9. Holds("save", p, new)
  BY <1>1, <1>6, <1>7, <1>8 DEF Holds
<1> QED
  BY <1>1, <1>6, <1>9, UndertakesRule DEF Steps

LEMMA UndertakingKeepsOrder ==
  ASSUME OneHandler, TypeOK, Orderly, NEW h \in Handlers, NEW p \in live, Undertakes(h, p)
  PROVE  Orderly'
<1>1. PICK step \in Steps, row \in Row : Then(h, step, p, row) /\ Holds(step, p, row)
  BY DEF Undertakes
<1>2. \A g \in Handlers : inflight'[g] = [step |-> step, parcel |-> p, row |-> row]
  BY <1>1 DEF Then, OneHandler, TypeOK
<1>3. UNCHANGED <<rows, chosen, live>>
  BY <1>1 DEF Then
<1>4. RowsSound' /\ NoneChosen'
  BY <1>3 DEF Orderly, RowsSound, NoneChosen
<1>5. RequestsHold'
  BY <1>1, <1>2, <1>3 DEF RequestsHold, Holds
<1> QED
  BY <1>4, <1>5 DEF Orderly

LEMMA WriteKeepsOrder ==
  ASSUME OneHandler, TypeInv, RowsConsistent, Orderly, NEW h \in Handlers, WriteStep(h)
  PROVE  Orderly'
<1> DEFINE p   == inflight[h].parcel
           row == inflight[h].row
<1>1. TypeOK /\ RowsSound /\ NoneChosen /\ RequestsHold
  BY DEF TypeInv, Orderly
<1>2. ASSUME Responds(h), RowsSound', NoneChosen' PROVE Orderly'
  BY <1>1, <1>2 DEF Responds, OneHandler, TypeOK, Orderly, RequestsHold
<1>3. ASSUME inflight[h] # NULL
      PROVE  p \in Parcels /\ row \in Row /\ Holds(inflight[h].step, p, row)
  BY <1>1, <1>3, Served DEF RequestsHold
<1>4. ASSUME Saved(p, row), p \in Parcels, Sound(row, chosen[p]), chosen' = chosen
      PROVE  RowsSound' /\ NoneChosen'
  BY <1>1, <1>4 DEF Saved, RowsSound, NoneChosen, TypeOK
<1>5. CASE CompleteDelivery(h)
  BY <1>1, <1>5, CompleteUndertakes, UndertakingKeepsOrder
<1>6. CASE SaveRow(h)
  BY <1>2, <1>3, <1>4, <1>6 DEF SaveRow, Pending, Holds
<1>7. CASE UpdateAssignment(h)
  <2>1. /\ p \in Parcels /\ row \in Row /\ row.status = "ASSIGNED_TO_RIDER"
        /\ rows[p].provider = "INTERNAL" /\ rows[p].status = "IN_HUB"
    BY <1>3, <1>7 DEF UpdateAssignment, Pending, Holds, TypeInv, RequestsKnown, Carries
  <2>2. \A q \in Parcels : q # p => rows'[q] = rows[q]
    BY <1>1, <1>7 DEF UpdateAssignment, TypeOK
  <2>3. p \in live =>
          /\ rows'[p].status = row.status
          /\ rows'[p].provider = rows[p].provider
          /\ rows'[p].dest = rows[p].dest
          /\ rows'[p].current = rows[p].current
    BY <1>1, <1>7, <2>1 DEF UpdateAssignment, TypeOK, Row
  <2>4. p \in live => Sound(rows'[p], chosen[p])
    BY <1>1, <2>1, <2>3 DEF RowsSound, Sound, OwnStatuses, RiderOutcomes
  <2>5. RowsSound' /\ NoneChosen'
    BY <1>1, <1>7, <2>2, <2>4 DEF UpdateAssignment, RowsSound, NoneChosen, TypeOK
  <2> QED
    BY <1>2, <1>7, <2>5 DEF UpdateAssignment
<1>8. CASE DeleteRow(h)
  <2>1. RowsSound' /\ NoneChosen'
    BY <1>1, <1>8 DEF DeleteRow, RowsSound, NoneChosen, TypeOK
  <2> QED
    BY <1>2, <1>8, <2>1 DEF DeleteRow
<1>9. CASE SaveOriginal(h)
  <2> DEFINE new == ReturnOf(p, row)
  <2>1. /\ p \in Parcels /\ row \in Row /\ Sound(row, chosen[p])
        /\ p \in live /\ row.current # NULL
    BY <1>3, <1>9 DEF SaveOriginal, Pending, Holds, TypeInv, RequestsKnown, Carries
  <2>2. RowsSound' /\ NoneChosen' /\ p \in live'
    BY <1>4, <1>9, <2>1 DEF SaveOriginal, Saved
  <2>3. /\ new.provider = "INTERNAL" /\ new.status = "IN_HUB"
        /\ new.dest = NULL /\ new.current # NULL /\ new.rider = NULL
    BY <2>1 DEF ReturnOf, BlankRow
  <2>4. \A g \in Handlers :
          inflight'[g] = [step |-> "insertReturn", parcel |-> p, row |-> new]
    BY <1>1, <1>9 DEF SaveOriginal, TypeOK, OneHandler
  <2> HIDE DEF new
  <2>5. RequestsHold'
    BY <2>2, <2>3, <2>4 DEF RequestsHold, Holds
  <2> QED
    BY <2>2, <2>5 DEF Orderly
<1>10. ASSUME NEW q \in Parcels, InsertReturn(h, q) PROVE Orderly'
  <2>1. /\ row.provider = "INTERNAL" /\ row.status = "IN_HUB"
        /\ row.dest = NULL /\ row.current # NULL
    BY <1>3, <1>10 DEF InsertReturn, Pending, Holds
  <2>2. chosen[q] # "DELIVERED"
    BY <1>1, <1>10, StatusAssumption DEF InsertReturn, NoneChosen, TypeOK, RiderOutcomes
  <2>3. Sound(row, chosen[q])
    BY <2>1, <2>2 DEF Sound, OwnStatuses, RiderOutcomes
  <2>4. RowsSound' /\ NoneChosen'
    BY <1>1, <1>10, <2>3 DEF InsertReturn, RowsSound, NoneChosen, TypeOK
  <2> QED
    BY <1>2, <1>10, <2>4 DEF InsertReturn
<1>11. CASE InsertVerification(h)
  <2>1. p \in Parcels /\ rows[p].status = "OUT_FOR_DELIVERY" /\ p \in live
    BY <1>3, <1>11 DEF InsertVerification, Pending, Holds
  <2>2. /\ \A q \in Parcels : q # p => chosen'[q] = chosen[q]
        /\ rows' = rows /\ live' = live
    BY <1>1, <1>11 DEF InsertVerification, TypeOK
  <2>3. Sound(rows[p], chosen'[p])
    BY <1>1, <2>1 DEF RowsSound, Sound, RiderOutcomes
  <2>4. RowsSound' /\ NoneChosen'
    BY <1>1, <2>1, <2>2, <2>3 DEF RowsSound, NoneChosen, TypeOK
  <2> QED
    BY <1>2, <1>11, <2>4 DEF InsertVerification
<1>12. CASE Abandon(h)
  <2>1. RowsSound' /\ NoneChosen'
    BY <1>1, <1>12 DEF Abandon, RowsSound, NoneChosen
  <2> QED
    BY <1>2, <1>12, <2>1 DEF Abandon
<1> QED
  BY <1>5, <1>6, <1>7, <1>8, <1>9, <1>10, <1>11, <1>12 DEF WriteStep

LEMMA OrderlyInvariant ==
  ASSUME OneHandler, Undisturbed
  PROVE  Spec => [](Orderly /\ TypeInv /\ RowsConsistent)
<1>1. Init => Orderly
  BY DEF Init, Orderly, RowsSound, NoneChosen, RequestsHold
<1>2. TypeInv /\ RowsConsistent /\ Orderly /\ [Next]_vars => Orderly'
  <2> SUFFICES ASSUME TypeInv, RowsConsistent, Orderly, [Next]_vars PROVE Orderly'
    OBVIOUS
  <2>1. TypeOK /\ RowsSound /\ NoneChosen /\ RequestsHold /\ RequestsKnown
    BY DEF TypeInv, Orderly
  <2>2. ASSUME NEW h \in Handlers,
               HubStep(h) \/ RiderStep(h) \/ OwnerStep(h) \/ CourierStep(h)
        PROVE  Orderly'
    <3>1. \E p \in live : Undertakes(h, p)
      BY <2>1, <2>2, HubUndertakes, RiderUndertakes, OthersUndertake
    <3> QED
      BY <2>1, <3>1, UndertakingKeepsOrder
  <2>3. ASSUME NEW h \in Handlers, WriteStep(h) PROVE Orderly'
    BY <2>3, WriteKeepsOrder
  <2>4. ASSUME NEW p \in Parcels, NEW s \in Stores \cup {NULL}, CreateParcel(p, s)
        PROVE  Orderly'
    <3>1. chosen[p] # "DELIVERED"
      BY <2>1, <2>4, StatusAssumption DEF CreateParcel, NoneChosen, TypeOK, RiderOutcomes
    <3>2. Sound(BlankRow(s), chosen[p])
      BY <3>1 DEF Sound, BlankRow, OwnStatuses, RiderOutcomes
    <3>3. RowsSound' /\ NoneChosen'
      BY <2>1, <2>4, <3>2 DEF CreateParcel, RowsSound, NoneChosen, TypeOK
    <3>4. \A g \in Handlers : inflight[g] # NULL => inflight[g].parcel \in Parcels \ {p}
      BY <2>1, <2>4, Served DEF CreateParcel, RequestsKnown
    <3>5. \A q \in Parcels \ {p} : rows'[q] = rows[q]
      BY <2>1, <2>4 DEF CreateParcel, TypeOK
    <3>6. inflight' = inflight /\ chosen' = chosen /\ live \subseteq live'
      BY <2>4 DEF CreateParcel
    <3>7. RequestsHold'
      BY <2>1, <3>4, <3>5, <3>6 DEF RequestsHold, Holds
    <3> QED
      BY <3>3, <3>7 DEF Orderly
  <2>5. ASSUME UNCHANGED <<rows, chosen, live, inflight>> PROVE Orderly'
    BY <2>5 DEF Orderly, RowsSound, NoneChosen, RequestsHold, Holds
  <2>6. CASE \/ \E s \in Stores, hub \in Hubs : AssignHubToStore(s, hub)
             \/ \E r \in Riders, hub \in Hubs, active \in BOOLEAN :
                  UpdateRider(r, hub, active)
    BY <2>5, <2>6 DEF AssignHubToStore, UpdateRider
  <2>7. CASE UNCHANGED vars
    BY <2>5, <2>7 DEF vars
  <2> QED
    BY <2>2, <2>3, <2>4, <2>6, <2>7 DEF Next, StaffStep
<1>3. PlaceNotEdited
  BY DEF Undisturbed, PlaceNotEdited
<1>4. Spec => []RowsConsistent
  BY <1>3, RowsAlwaysConsistent
<1> QED
  BY <1>1, <1>2, <1>4, TypeInvariant, PTL DEF Spec

\* Served one at a time, a parcel shows only the outcome its rider reported and
\* that is on record.
THEOREM OutcomesOnRecord ==
  ASSUME OneHandler, Undisturbed
  PROVE  Spec => []OutcomeOnRecord
<1>1. Orderly => OutcomeOnRecord
  BY DEF Orderly, RowsSound, Sound, OutcomeOnRecord
<1> QED
  BY <1>1, OrderlyInvariant, PTL

\* Served one at a time, no parcel that the courier has is with one of our
\* riders as well.
THEOREM CourierParcelsHaveNoRider ==
  ASSUME OneHandler, Undisturbed
  PROVE  Spec => []CourierParcelHasNoRider
<1>1. Orderly => CourierParcelHasNoRider
  BY DEF Orderly, RowsSound, Sound, CourierParcelHasNoRider
<1> QED
  BY <1>1, OrderlyInvariant, PTL

\* Served one at a time, no transfer leaves a destination behind that is
\* neither ahead of the parcel nor where it is.
THEOREM NoDestinationStrays ==
  ASSUME OneHandler, Undisturbed
  PROVE  Spec => []NoStrayDestination
<1>1. Orderly => NoStrayDestination
  BY DEF Orderly, RowsSound, Sound, NoStrayDestination
<1> QED
  BY <1>1, OrderlyInvariant, PTL

\* Served one at a time, no request takes a parcel from one rider and gives it
\* to another: it passes through the hub's hands.
THEOREM NoAssignmentLost ==
  ASSUME OneHandler, Undisturbed
  PROVE  Spec => NoLostAssignment
<1> DEFINE Kept == \A p \in live \cap live' :
                     rows[p].rider # NULL => rows'[p].rider \in {rows[p].rider, NULL}
<1>1. Orderly /\ TypeInv /\ RowsConsistent /\ [Next]_vars => [Kept]_vars
  <2> SUFFICES ASSUME Orderly, TypeInv, Next PROVE Kept
    BY DEF Next
  <2>1. TypeOK /\ RequestsHold
    BY DEF TypeInv, Orderly
  <2>2. ASSUME UNCHANGED rows PROVE Kept
    BY <2>2
  <2>3. ASSUME NEW p \in Parcels \ live, NEW row, rows' = [rows EXCEPT ![p] = row] PROVE Kept
    BY <2>1, <2>3 DEF TypeOK
  <2>4. ASSUME NEW h \in Handlers, WriteStep(h) PROVE Kept
    <3> DEFINE p   == inflight[h].parcel
               row == inflight[h].row
    <3>1. ASSUME Saved(p, row), inflight[h] # NULL, inflight[h].step \in {"save", "saveOriginal"}
          PROVE  Kept
      <4>1. p \in Parcels /\ row.rider \in {rows[p].rider, NULL}
        BY <2>1, <3>1, Served DEF RequestsHold, Holds
      <4> QED
        BY <2>1, <3>1, <4>1 DEF Saved, TypeOK
    <3>2. CASE SaveRow(h) \/ SaveOriginal(h)
      BY <3>1, <3>2 DEF SaveRow, SaveOriginal, Pending
    <3>3. CASE UpdateAssignment(h)
      <4>1. p \in Parcels /\ rows[p].rider = NULL
        BY <2>1, <3>3, Served DEF UpdateAssignment, Pending, RequestsHold, Holds
      <4>2. \A q \in Parcels : q # p => rows'[q] = rows[q]
        BY <2>1, <3>3 DEF UpdateAssignment, TypeOK
      <4> QED
        BY <2>1, <4>1, <4>2 DEF TypeOK
    <3>4. CASE \E q \in Parcels : InsertReturn(h, q)
      BY <2>1, <2>3, <3>4 DEF InsertReturn, TypeOK
    <3>5. CASE CompleteDelivery(h) \/ DeleteRow(h) \/ InsertVerification(h) \/ Abandon(h)
      BY <2>2, <3>5 DEF CompleteDelivery, Then, DeleteRow, InsertVerification, Abandon
    <3> QED
      BY <2>4, <3>2, <3>3, <3>4, <3>5 DEF WriteStep
  <2>5. ASSUME NEW h \in Handlers,
               HubStep(h) \/ RiderStep(h) \/ OwnerStep(h) \/ CourierStep(h)
        PROVE  Kept
    BY <2>1, <2>2, <2>5, HandlerProposes DEF Proposes, Then
  <2>6. CASE StaffStep
    BY <2>1, <2>2, <2>3, <2>6 DEF StaffStep, CreateParcel, AssignHubToStore, UpdateRider, TypeOK
  <2> QED
    BY <2>4, <2>5, <2>6 DEF Next
<1> QED
  BY <1>1, OrderlyInvariant, PTL DEF Spec, NoLostAssignment

-----------------------------------------------------------------------------
(* The custody refinement.                                                 *)

LEMMA PassingIsMoving ==
  ASSUME NEW p \in Parcels, NEW to, Passes(CurrentPlace[p], to),
         CurrentPlace' = [CurrentPlace EXCEPT ![p] = to]
  PROVE  [Custody!Next]_CurrentPlace
<1> DEFINE from == CurrentPlace[p]
<1>1. CASE to = from
  BY <1>1 DEF CurrentPlace
<1>2. CASE to # from
  <2>1. PICK hub \in Hubs :
          \/ from = Custody!At("merchant") /\ to = Custody!InHub(hub)
          \/ from = Custody!OnTheWay(hub) /\ to = Custody!InHub(hub)
          \/ from = Custody!InHub(hub) /\ to = Custody!At("courier")
          \/ \E other \in Hubs \ {hub} :
               from = Custody!InHub(hub) /\ to = Custody!OnTheWay(other)
          \/ \E r \in Riders :
               \/ from = Custody!InHub(hub) /\ to = Custody!With(r, hub)
               \/ from = Custody!With(r, hub)
                  /\ to \in {Custody!InHub(hub), Custody!At("customer")}
    BY <1>2 DEF Passes
  <2>2. \/ Custody!Arrive(p) \/ Custody!Unload(p) \/ Custody!HandToCourier(p)
        \/ Custody!Dispatch(p) \/ Custody!HandOut(p) \/ Custody!BringBack(p)
        \/ Custody!Deliver(p)
    BY <2>1
    DEF Custody!Arrive, Custody!Unload, Custody!HandToCourier, Custody!Dispatch,
        Custody!HandOut, Custody!BringBack, Custody!Deliver, Custody!Move
  <2> QED
    BY <2>2 DEF Custody!Next
<1> QED
  BY <1>1, <1>2

LEMMA PlacesByParcel ==
  ASSUME NEW p, NEW to,
         \A q \in Parcels : CurrentPlace'[q] = IF q = p THEN to ELSE CurrentPlace[q]
  PROVE  CurrentPlace' = [CurrentPlace EXCEPT ![p] = to]
<1>1. /\ CurrentPlace  = [q \in Parcels |-> CurrentPlace[q]]
      /\ CurrentPlace' = [q \in Parcels |-> CurrentPlace'[q]]
  BY DEF CurrentPlace
<1> QED
  BY <1>1

\* A saved row moves the parcel as the two rows say, a new row posts it.
LEMMA SavingMoves ==
  ASSUME TypeOK, NEW p \in live, NEW row, rows' = [rows EXCEPT ![p] = row],
         live' = live, Passes(PlaceOf(rows[p]), PlaceOf(row))
  PROVE  [Custody!Next]_CurrentPlace
<1>1. p \in Parcels /\ CurrentPlace[p] = PlaceOf(rows[p])
  BY DEF TypeOK, CurrentPlace
<1>2. \A q \in Parcels : rows'[q] = IF q = p THEN row ELSE rows[q]
  BY DEF TypeOK
<1>3. \A q \in Parcels :
        CurrentPlace'[q] = IF q = p THEN PlaceOf(row) ELSE CurrentPlace[q]
  BY <1>2 DEF CurrentPlace
<1>4. CurrentPlace' = [CurrentPlace EXCEPT ![p] = PlaceOf(row)]
  BY <1>3, PlacesByParcel
<1> QED
  BY <1>1, <1>4, PassingIsMoving

LEMMA InsertingPosts ==
  ASSUME TypeOK, NEW p \in Parcels \ live, NEW row, rows' = [rows EXCEPT ![p] = row],
         live' = live \cup {p},
         \/ PlaceOf(row) = Custody!At("merchant")
         \/ \E hub \in Hubs : PlaceOf(row) = Custody!InHub(hub)
  PROVE  [Custody!Next]_CurrentPlace
<1>1. CurrentPlace[p] = Custody!At("nowhere")
  BY DEF CurrentPlace, Custody!At
<1>2. \A q \in Parcels : rows'[q] = IF q = p THEN row ELSE rows[q]
  BY DEF TypeOK
<1>3. \A q \in Parcels :
        CurrentPlace'[q] = IF q = p THEN PlaceOf(row) ELSE CurrentPlace[q]
  BY <1>2 DEF CurrentPlace
<1>4. CurrentPlace' = [CurrentPlace EXCEPT ![p] = PlaceOf(row)]
  BY <1>3, PlacesByParcel
<1>5. Custody!Post(p)
  BY <1>1, <1>4 DEF Custody!Post, Custody!Move
<1> QED
  BY <1>5 DEF Custody!Next

LEMMA WritesMove ==
  ASSUME OneHandler, TypeInv, Orderly, NEW h \in Handlers, WriteStep(h)
  PROVE  [Custody!Next]_CurrentPlace
<1> DEFINE p   == inflight[h].parcel
           row == inflight[h].row
<1>1. TypeOK /\ RowsSound /\ NoneChosen /\ RequestsHold
  BY DEF TypeInv, Orderly
<1>2. ASSUME inflight[h] # NULL
      PROVE  /\ p \in live /\ p \in Parcels /\ row \in Row /\ Holds(inflight[h].step, p, row)
             /\ Carries(inflight[h].step, row)
  BY <1>1, <1>2, Served DEF RequestsHold, Holds, TypeInv, RequestsKnown
<1>3. ASSUME UNCHANGED <<rows, live>> PROVE [Custody!Next]_CurrentPlace
  BY <1>3 DEF CurrentPlace
<1>4. CASE SaveRow(h) \/ SaveOriginal(h)
  <2>1. /\ p \in live /\ Passes(PlaceOf(rows[p]), PlaceOf(row))
        /\ rows' = [rows EXCEPT ![p] = row] /\ live' = live
    BY <1>2, <1>4 DEF SaveRow, SaveOriginal, Pending, Saved, Holds
  <2> QED
    BY <1>1, <2>1, SavingMoves
<1>5. CASE UpdateAssignment(h)
  <2> DEFINE new == [rows[p] EXCEPT !.status = row.status, !.rider = row.rider]
  <2>1. /\ p \in live /\ p \in Parcels /\ row \in Row /\ row.status = "ASSIGNED_TO_RIDER"
        /\ rows[p].provider = "INTERNAL" /\ rows[p].status = "IN_HUB" /\ rows[p] \in Row
    BY <1>1, <1>2, <1>5 DEF UpdateAssignment, Pending, Holds, Carries, TypeOK
  <2>2. new \in Row /\ new.status = "ASSIGNED_TO_RIDER" /\ new.provider = "INTERNAL"
        /\ new.current = rows[p].current
    BY <2>1 DEF Row
  <2>3. rows' = [rows EXCEPT ![p] = new] /\ live' = live
    BY <1>1, <1>5, <2>1 DEF UpdateAssignment, TypeOK
  <2> HIDE DEF new
  <2>4. PlaceOf(new) = PlaceOf(rows[p])
    BY <2>1, <2>2, Located
  <2> QED
    BY <1>1, <2>1, <2>3, <2>4, SavingMoves DEF Passes
<1>6. CASE DeleteRow(h)
  <2>1. /\ p \in live /\ p \in Parcels /\ rows[p].status \notin {"DELIVERED", "IN_TRANSIT"}
        /\ rows' = rows /\ live' = live \ {p}
    BY <1>2, <1>6 DEF DeleteRow, Pending, Holds
  <2>2. CurrentPlace[p].at \notin {"customer", "transit"}
    BY <2>1 DEF CurrentPlace, PlaceOf
  <2>3. CurrentPlace' = [CurrentPlace EXCEPT ![p] = Custody!At("nowhere")]
    BY <2>1 DEF CurrentPlace, Custody!At
  <2>4. Custody!Withdraw(p)
    BY <2>2, <2>3 DEF Custody!Withdraw
  <2> QED
    BY <2>1, <2>4 DEF Custody!Next
<1>7. ASSUME NEW q \in Parcels, InsertReturn(h, q) PROVE [Custody!Next]_CurrentPlace
  <2>1. /\ row.provider = "INTERNAL" /\ row.status = "IN_HUB"
        /\ row \in Row /\ row.current \in Hubs
    BY <1>2, <1>7 DEF InsertReturn, Pending, Holds, Row
  <2>2. PlaceOf(row) = Custody!InHub(row.current)
    BY <2>1, Located
  <2>3. q \in Parcels \ live
    BY <1>1, <1>7 DEF InsertReturn, TypeOK
  <2> QED
    BY <1>1, <1>7, <2>1, <2>2, <2>3, InsertingPosts DEF InsertReturn
<1>8. CASE CompleteDelivery(h) \/ InsertVerification(h) \/ Abandon(h)
  BY <1>3, <1>8 DEF CompleteDelivery, Then, InsertVerification, Abandon
<1> QED
  BY <1>4, <1>5, <1>6, <1>7, <1>8 DEF WriteStep

\* Served one at a time, the parcel service keeps the promise of ParcelCustody:
\* one party has the parcel, and it changes hands only between parties that meet.
THEOREM CustodyImplemented ==
  ASSUME OneHandler, Undisturbed
  PROVE  Spec => CustodySpec
<1>1. Init => Custody!Init
  BY DEF Init, Custody!Init, Custody!At, CurrentPlace
<1>2. Orderly /\ TypeInv /\ RowsConsistent /\ [Next]_vars => [Custody!Next]_CurrentPlace
  <2> SUFFICES ASSUME Orderly, TypeInv, [Next]_vars PROVE [Custody!Next]_CurrentPlace
    OBVIOUS
  <2>1. TypeOK
    BY DEF TypeInv
  <2>2. ASSUME UNCHANGED <<rows, live>> PROVE [Custody!Next]_CurrentPlace
    BY <2>2 DEF CurrentPlace
  <2>3. ASSUME NEW h \in Handlers,
               HubStep(h) \/ RiderStep(h) \/ OwnerStep(h) \/ CourierStep(h)
        PROVE  [Custody!Next]_CurrentPlace
    BY <2>1, <2>2, <2>3, HandlerProposes DEF Proposes, Then
  <2>4. ASSUME NEW h \in Handlers, WriteStep(h) PROVE [Custody!Next]_CurrentPlace
    BY <2>4, WritesMove
  <2>5. ASSUME NEW p \in Parcels, NEW s \in Stores \cup {NULL}, CreateParcel(p, s)
        PROVE  [Custody!Next]_CurrentPlace
    <3>1. BlankRow(s).provider = "INTERNAL" /\ BlankRow(s).status = "PENDING"
      BY DEF BlankRow
    <3>2. PlaceOf(BlankRow(s)) = Custody!At("merchant")
      BY <3>1, NewRows, Located
    <3> QED
      BY <2>1, <2>5, <3>2, InsertingPosts DEF CreateParcel, TypeOK
  <2>6. CASE \/ \E s \in Stores, hub \in Hubs : AssignHubToStore(s, hub)
             \/ \E r \in Riders, hub \in Hubs, active \in BOOLEAN :
                  UpdateRider(r, hub, active)
    BY <2>2, <2>6 DEF AssignHubToStore, UpdateRider
  <2>7. CASE UNCHANGED vars
    BY <2>2, <2>7 DEF vars
  <2> QED
    BY <2>3, <2>4, <2>5, <2>6, <2>7 DEF Next, StaffStep
<1> QED
  BY <1>1, <1>2, OrderlyInvariant, PTL DEF Spec, CustodySpec, Custody!Spec

-----------------------------------------------------------------------------
(* What hubs, riders and merchants see, one request at a time.             *)

\* Served one at a time, no handler, and no chain of them over attempts, transfers and
\* returns, leaves a rider with a parcel that none of his three lists shows.
THEOREM CarriedParcelsAreListed ==
  ASSUME OneHandler, Undisturbed
  PROVE  Spec => []CarriedIsListed
<1>1. Orderly /\ TypeInv /\ RowsConsistent => CarriedIsListed
  <2> SUFFICES ASSUME Orderly, TypeInv, RowsConsistent, NEW p \in live, rows[p].rider # NULL
               PROVE  LET r == rows[p].rider
                      IN  p \in GetRiderParcels(r) \cup GetRiderDeliveries(r) \cup GetRiderReturns(r)
    BY DEF CarriedIsListed
  <2>1. rows[p].provider = "INTERNAL"
    BY Whose DEF Orderly, TypeInv
  <2>2. RowOK(rows[p]) /\ Sound(rows[p], chosen[p])
    BY DEF Orderly, RowsSound, RowsConsistent
  <2>3. rows[p].status \in OwnStatuses \ {"PENDING", "IN_HUB", "IN_TRANSIT"}
    BY <2>1, <2>2 DEF RowOK, PendingIsUntouched, InHubIsAssignable, TransitHasDestination, Sound
  <2> QED
    BY <2>3 DEF OwnStatuses, RiderOutcomes, GetRiderParcels, GetRiderDeliveries, GetRiderReturns,
                Carried
<1> QED
  BY <1>1, OrderlyInvariant, PTL

\* Served one at a time, the merchant's summary counts an own parcel as delivered or
\* returned only when a rider reported such an outcome and it was verified, through
\* whichever returns and transfers it went since.
THEOREM SummariesAreEarned ==
  ASSUME OneHandler, Undisturbed
  PROVE  Spec => []SummaryIsEarned
<1>1. Orderly => SummaryIsEarned
  BY DEF Orderly, RowsSound, Sound, SummaryIsEarned, GetLifetimeSummary, RiderOutcomes
<1> QED
  BY <1>1, OrderlyInvariant, PTL

\* A rider's parcel is in the hub to which he belongs, also when he is about to get it.
RidersAtHome ==
  /\ \A p \in live : rows[p].rider # NULL => rows[p].current = riders[rows[p].rider].hub
  /\ \A h \in Handlers : inflight[h] # NULL /\ inflight[h].step = "assign" =>
       rows[inflight[h].parcel].current = riders[inflight[h].row.rider].hub

\* Handlers that have read a parcel, and leave the write for later.
LEMMA UndertakingKeepsHome ==
  ASSUME OneHandler, TypeOK, RidersAtHome, NEW h \in Handlers,
         HubStep(h) \/ RiderStep(h) \/ OwnerStep(h) \/ CourierStep(h) \/ CompleteDelivery(h)
  PROVE  RidersAtHome'
<1>1. ASSUME NEW step, NEW p, NEW row, Then(h, step, p, row),
             step = "assign" => rows[p].current = riders[row.rider].hub
      PROVE  RidersAtHome'
  <2>1. \A g \in Handlers : inflight'[g] = [step |-> step, parcel |-> p, row |-> row]
    BY <1>1 DEF Then, OneHandler, TypeOK
  <2> QED
    BY <1>1, <2>1 DEF Then, RidersAtHome
<1>2. ASSUME NEW p \in Parcels, NEW hub \in Hubs, NEW r \in Riders, AssignToRider(h, p, r, hub)
      PROVE  RidersAtHome'
  <2>1. /\ Then(h, "assign", p, Assigned(rows[p], r)) /\ rows[p] \in Row
        /\ rows[p].current = riders[r].hub
    BY <1>2 DEF AssignToRider, TypeOK
  <2>2. Assigned(rows[p], r).rider = r
    BY <2>1 DEF Assigned, Row
  <2> QED
    BY <1>1, <2>1, <2>2
<1>3. CASE HubStep(h)
  BY <1>1, <1>2, <1>3 DEF HubStep, MarkAsReceived, PrepareForRedelivery, AcceptIncomingParcel,
     MarkReturnToMerchant, AssignParcelToCarrybee, TransferParcelToHub
<1>4. CASE RiderStep(h) \/ OwnerStep(h) \/ CourierStep(h) \/ CompleteDelivery(h)
  BY <1>1, <1>4 DEF RiderStep, RiderAcceptParcel, RiderReturnParcel, VerifyOtp, InitiateDelivery,
     OwnerStep, RemoveParcel, UpdateParcel, CourierStep, HandleWebhook, CompleteDelivery
<1> QED
  BY <1>3, <1>4

LEMMA WriteKeepsHome ==
  ASSUME OneHandler, TypeInv, RequestsHold, RidersAtHome, NEW h \in Handlers, WriteStep(h)
  PROVE  RidersAtHome'
<1> DEFINE p   == inflight[h].parcel
           row == inflight[h].row
<1>1. TypeOK
  BY DEF TypeInv
<1>2. ASSUME inflight[h] # NULL
      PROVE  p \in Parcels /\ row \in Row /\ Holds(inflight[h].step, p, row)
  BY <1>2, Served DEF RequestsHold, TypeInv
\* No assignment is under way after the write.
<1>3. ASSUME Responds(h) \/ inflight'[h].step = "insertReturn",
             \A g \in Handlers : g = h, DOMAIN inflight' = Handlers,
             \A q \in live' : rows'[q].rider # NULL => rows'[q].current = riders'[rows'[q].rider].hub
      PROVE  RidersAtHome'
  BY <1>1, <1>3 DEF Responds, RidersAtHome, TypeOK
<1>4. \A g \in Handlers : g = h
  BY DEF OneHandler
<1>5. ASSUME Responds(h) PROVE DOMAIN inflight' = Handlers
  BY <1>1, <1>5 DEF Responds, TypeOK
\* The row that a handler saves has the rider and the hub that it overwrites, or no rider.
<1>6. ASSUME p \in live, p \in Parcels, Saved(p, row), riders' = riders,
             row.rider \in {rows[p].rider, NULL}, row.rider # NULL => row.current = rows[p].current
      PROVE  \A q \in live' : rows'[q].rider # NULL => rows'[q].current = riders'[rows'[q].rider].hub
  BY <1>1, <1>6 DEF Saved, RidersAtHome, TypeOK
<1>7. CASE CompleteDelivery(h)
  BY <1>1, <1>7, UndertakingKeepsHome
<1>8. CASE SaveRow(h)
  <2>1. /\ p \in live /\ p \in Parcels /\ Saved(p, row) /\ riders' = riders /\ Responds(h)
        /\ row.rider \in {rows[p].rider, NULL}
        /\ row.rider # NULL => row.current = rows[p].current
    BY <1>2, <1>8 DEF SaveRow, Pending, Holds
  <2>2. \A q \in live' : rows'[q].rider # NULL => rows'[q].current = riders'[rows'[q].rider].hub
    BY <1>6, <2>1
  <2> QED
    BY <1>3, <1>4, <1>5, <2>1, <2>2
<1>9. CASE SaveOriginal(h)
  <2>1. /\ p \in live /\ p \in Parcels /\ Saved(p, row) /\ riders' = riders
        /\ row.rider \in {rows[p].rider, NULL}
        /\ row.rider # NULL => row.current = rows[p].current
    BY <1>2, <1>9 DEF SaveOriginal, Pending, Holds
  <2>2. inflight'[h].step = "insertReturn" /\ DOMAIN inflight' = Handlers
    BY <1>1, <1>9 DEF SaveOriginal, TypeOK
  <2>3. \A q \in live' : rows'[q].rider # NULL => rows'[q].current = riders'[rows'[q].rider].hub
    BY <1>6, <2>1
  <2> QED
    BY <1>3, <1>4, <2>2, <2>3
<1>10. CASE UpdateAssignment(h)
  <2>1. /\ p \in live /\ p \in Parcels /\ row \in Row
        /\ rows[p].current = riders[row.rider].hub
    BY <1>2, <1>10 DEF UpdateAssignment, Pending, Holds, RidersAtHome
  <2>2. /\ \A q \in Parcels \ {p} : rows'[q] = rows[q]
        /\ rows'[p].rider = row.rider /\ rows'[p].current = rows[p].current
        /\ UNCHANGED <<live, riders>> /\ Responds(h)
    BY <1>1, <1>10, <2>1 DEF UpdateAssignment, TypeOK, Row
  <2>3. \A q \in live' : rows'[q].rider # NULL => rows'[q].current = riders'[rows'[q].rider].hub
    BY <1>1, <2>1, <2>2 DEF RidersAtHome, TypeOK
  <2> QED
    BY <1>3, <1>4, <1>5, <2>2, <2>3
<1>11. ASSUME NEW q \in Parcels, InsertReturn(h, q) PROVE RidersAtHome'
  <2>1. row.rider = NULL
    BY <1>2, <1>11 DEF InsertReturn, Pending, Holds
  <2>2. \A x \in live' : rows'[x].rider # NULL => rows'[x].current = riders'[rows'[x].rider].hub
    BY <1>1, <1>11, <2>1 DEF InsertReturn, RidersAtHome, TypeOK
  <2> QED
    BY <1>3, <1>4, <1>5, <1>11, <2>2 DEF InsertReturn
<1>12. CASE DeleteRow(h) \/ InsertVerification(h) \/ Abandon(h)
  <2>1. UNCHANGED <<rows, riders>> /\ live' \subseteq live /\ Responds(h)
    BY <1>12 DEF DeleteRow, InsertVerification, Abandon
  <2>2. \A q \in live' : rows'[q].rider # NULL => rows'[q].current = riders'[rows'[q].rider].hub
    BY <2>1 DEF RidersAtHome
  <2> QED
    BY <1>3, <1>4, <1>5, <2>1, <2>2
<1> QED
  BY <1>7, <1>8, <1>9, <1>10, <1>11, <1>12 DEF WriteStep

\* Served one at a time, and while an update of a rider does not change his hub (the
\* loaded hub object overrides the new id): what a rider could not deliver, or not
\* whole, is on a list of the hub to which he belongs and will bring it.
THEOREM OutcomesListedAtRidersHub ==
  ASSUME OneHandler, Undisturbed, RelationObjectWins
  PROVE  Spec => []OutcomeListedAtRidersHub
<1>1. Init => RidersAtHome
  BY DEF Init, RidersAtHome
<1>2. TypeInv /\ Orderly /\ RidersAtHome /\ [Next]_vars => RidersAtHome'
  <2> SUFFICES ASSUME TypeInv, Orderly, RidersAtHome, [Next]_vars PROVE RidersAtHome'
    OBVIOUS
  <2>1. TypeOK /\ RequestsHold /\ RequestsKnown
    BY DEF TypeInv, Orderly
  <2>2. ASSUME NEW h \in Handlers,
               HubStep(h) \/ RiderStep(h) \/ OwnerStep(h) \/ CourierStep(h)
        PROVE  RidersAtHome'
    BY <2>1, <2>2, UndertakingKeepsHome
  <2>3. ASSUME NEW h \in Handlers, WriteStep(h) PROVE RidersAtHome'
    BY <2>1, <2>3, WriteKeepsHome
  <2>4. ASSUME NEW p \in Parcels, NEW s \in Stores \cup {NULL}, CreateParcel(p, s)
        PROVE  RidersAtHome'
    <3>1. \A g \in Handlers : inflight[g] # NULL => inflight[g].parcel \in Parcels \ {p}
      BY <2>1, <2>4, Served DEF CreateParcel, RequestsKnown
    <3>2. /\ \A q \in Parcels \ {p} : rows'[q] = rows[q]
          /\ rows'[p].rider = NULL
      BY <2>1, <2>4 DEF CreateParcel, TypeOK, BlankRow
    <3>3. UNCHANGED <<riders, inflight>> /\ live' = live \cup {p} /\ live \subseteq Parcels
      BY <2>1, <2>4 DEF CreateParcel, TypeOK
    <3> QED
      BY <3>1, <3>2, <3>3 DEF RidersAtHome
  <2>5. CASE \E s \in Stores, hub \in Hubs : AssignHubToStore(s, hub)
    BY <2>5 DEF AssignHubToStore, RidersAtHome
  <2>6. ASSUME NEW r \in Riders, NEW hub \in Hubs, NEW active \in BOOLEAN, UpdateRider(r, hub, active)
        PROVE  RidersAtHome'
    <3>1. \A x \in Riders : riders'[x].hub = riders[x].hub
      BY <2>1, <2>6 DEF UpdateRider, TypeOK
    <3>2. \A p \in live : rows[p].rider # NULL => rows[p].rider \in Riders
      BY <2>1 DEF TypeOK, Row
    <3>3. ASSUME NEW h \in Handlers, inflight[h] # NULL, inflight[h].step = "assign"
          PROVE  inflight[h].row.rider \in Riders
      <4>1. inflight[h].row \in Row /\ inflight[h].row.rider # NULL
        BY <2>1, <3>3, Served DEF RequestsKnown, Carries
      <4> QED
        BY <4>1 DEF Row
    <3>4. UNCHANGED <<rows, live, inflight>>
      BY <2>6 DEF UpdateRider
    <3> QED
      BY <3>1, <3>2, <3>3, <3>4 DEF RidersAtHome
  <2>7. CASE UNCHANGED vars
    BY <2>7 DEF vars, RidersAtHome
  <2> QED
    BY <2>2, <2>3, <2>4, <2>5, <2>6, <2>7 DEF Next, StaffStep
<1>3. Spec => []RidersAtHome
  BY <1>1, <1>2, OrderlyInvariant, PTL DEF Spec
<1>4. RidersAtHome => OutcomeListedAtRidersHub
  BY DEF RidersAtHome, OutcomeListedAtRidersHub, GetDeliveryOutcomes, GetRescheduledDeliveries,
         RiderOutcomes
<1> QED
  BY <1>3, <1>4, PTL

=============================================================================
