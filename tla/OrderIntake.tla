---------------------------- MODULE OrderIntake ----------------------------
(***************************************************************************)
(* How an order comes in: a merchant posts a parcel, which joins the       *)
(* day's pickup request of its store (found, or created), gets the         *)
(* customer with its phone number (found, or created) and a tracking       *)
(* number, is inserted, and is counted in the pickup request               *)
(* (parcels.service.ts, pickup-requests.service.ts, customer.service.ts).  *)
(*                                                                         *)
(* Each of these is a statement of its own, and other requests come        *)
(* between.  The database makes tracking numbers and customers' phone      *)
(* numbers unique, and nothing else.  A tracking number is the day and a   *)
(* number: the count of the parcels created that day, plus one.            *)
(*                                                                         *)
(* The confirmation, the collection by the manager and the cancellation of *)
(* a pickup request are operations of the service that no route calls yet. *)
(***************************************************************************)
EXTENDS Requests, Integers, FiniteSets

CONSTANTS
  Orders, Stores, Hubs, Riders, Customers, Phones,
  Pickups,       \* ids of pickup requests
  LastDay,       \* days are 1 .. LastDay
  Estimates,     \* the numbers of parcels merchants announce
  RiderHub       \* the hub of each rider

Days == 1 .. LastDay

PickupRequestStatus == {"PENDING", "CONFIRMED", "PICKED_UP", "CANCELLED"}

PickupRequest ==
  [store : Stores, hub : Hubs, day : Days, status : PickupRequestStatus,
   estimated : Nat, actual : Nat, rider : Riders \cup {NULL}]

Tracking == Days \X Nat

Order ==
  [day : Days, number : Tracking, store : Stores, customer : Customers,
   request : Pickups \cup {NULL}]

IntakeSteps ==
  {"request", "announce", "find", "customer", "again", "count", "order", "read", "counted",
   "put", "register", "rename"}

Job ==
  [step : IntakeSteps,
   store : Stores \cup {NULL}, phone : Phones \cup {NULL},
   customer : Customers \cup {NULL}, number : Tracking \cup {NULL},
   request : Pickups \cup {NULL}, row : PickupRequest \cup {NULL},
   linked : SUBSET Orders, estimated : Nat]

NewJob ==
  [step |-> "request", store |-> NULL, phone |-> NULL, customer |-> NULL, number |-> NULL,
   request |-> NULL, row |-> NULL, linked |-> {}, estimated |-> 0]

ASSUME NullIsNothing ==
  NULL \notin Stores \cup Phones \cup Customers \cup Tracking \cup Pickups \cup PickupRequest
              \cup Riders \cup Hubs \cup Order

ASSUME IntakeAssumption == LastDay \in Nat \ {0} /\ Estimates \subseteq Nat

VARIABLES
  orders,      \* the parcels table, NULL where there is no row
  requests,    \* the pickup_requests table, likewise
  customers,   \* the phone number of each customer, NULL where there is no row
  storeHub,    \* the hub of each store, NULL until an admin assigns one
  today,
  gone,        \* ids of removed orders and customers, which are not given again
  missed,      \* requests that lost an order, or whose count was not updated
  touched,     \* whether a customer was removed or got another number
  refused      \* whether an order was refused for want of its customer

tables  == <<orders, requests, customers, storeHub>>
history == <<gone, missed, touched, refused>>
intakeVars == <<tables, today, history, jobs, alone>>

IntakeTypeOK ==
  /\ orders \in [Orders -> Order \cup {NULL}]
  /\ requests \in [Pickups -> PickupRequest \cup {NULL}]
  /\ customers \in [Customers -> Phones \cup {NULL}]
  /\ storeHub \in [Stores -> Hubs \cup {NULL}]
  /\ today \in Days
  /\ \A h \in Servers : jobs[h].step \in IntakeSteps => jobs[h] \in Job
  /\ gone \subseteq Orders \cup Customers
  /\ touched \in BOOLEAN /\ refused \in BOOLEAN
  /\ missed \subseteq Pickups

IntakeInit ==
  /\ orders = [o \in Orders |-> NULL]
  /\ requests = [r \in Pickups |-> NULL]
  /\ customers = [c \in Customers |-> NULL]
  /\ storeHub = [s \in Stores |-> NULL]
  /\ today = 1
  /\ gone = {} /\ missed = {} /\ touched = FALSE /\ refused = FALSE
  /\ NoRequests

-----------------------------------------------------------------------------
Live == {o \in Orders : orders[o] # NULL}
Linked(r) == {o \in Live : orders[o].request = r}

\* The pickup request of today that is open for the store, if there is one.
ActiveFor(s) ==
  {r \in Pickups : /\ requests[r] # NULL
                    /\ requests[r].store = s
                    /\ requests[r].status = "PENDING"
                    /\ requests[r].day = today}

WithPhone(p) == {c \in Customers : customers[c] = p}

\* Mutant: only parcels that wait for a pickup are counted.
NextNumber_Awaiting ==
  <<today, Cardinality({o \in Live : orders[o].day = today /\ orders[o].request # NULL}) + 1>>

NextNumber == <<today, Cardinality({o \in Live : orders[o].day = today}) + 1>>

NumberFree(n) == \A o \in Live : orders[o].number # n

(* Posting a parcel.                                                       *)

\* Mutant: the store's hub is not looked at.
Create_NoHub(h, s, p) ==
  LET job == [NewJob EXCEPT !.store = s, !.phone = p]
  IN  /\ \/ \E r \in ActiveFor(s) : Starts(h, [job EXCEPT !.step = "find", !.request = r])
         \/ ActiveFor(s) = {} /\ Starts(h, [job EXCEPT !.step = "request"])
      /\ UNCHANGED <<tables, today, history>>

\* A store without a hub gets no pickup request, and its order none.
Create(h, s, p) ==
  LET job == [NewJob EXCEPT !.store = s, !.phone = p]
  IN  /\ \/ \E r \in ActiveFor(s) : Starts(h, [job EXCEPT !.step = "find", !.request = r])
         \/ /\ ActiveFor(s) = {}
            /\ Starts(h, [job EXCEPT !.step = IF storeHub[s] = NULL THEN "find" ELSE "request"])
      /\ UNCHANGED <<tables, today, history>>

InsertsRequest(r, s, estimated) ==
  /\ requests[r] = NULL
  /\ requests' = [requests EXCEPT ![r] =
       [store |-> s, hub |-> storeHub[s], day |-> today, status |-> "PENDING",
        estimated |-> estimated, actual |-> 0, rider |-> NULL]]
  /\ UNCHANGED <<orders, customers, storeHub, today, history>>

FindOrCreateActiveForStore(h) ==
  /\ At(h, "request")
  /\ \E r \in Pickups :
       /\ InsertsRequest(r, jobs[h].store, 0)
       /\ Continues(h, [jobs[h] EXCEPT !.step = "find", !.request = r])

\* The failure is caught, and the order goes on without a pickup request.
RequestFails(h) ==
  /\ MayFail
  /\ At(h, "request")
  /\ Continues(h, [jobs[h] EXCEPT !.step = "find"])
  /\ UNCHANGED <<tables, today, history>>

FindCustomer(h) ==
  /\ At(h, "find")
  /\ LET p == jobs[h].phone
     IN  \/ \E c \in WithPhone(p) :
              Continues(h, [jobs[h] EXCEPT !.step = "count", !.customer = c])
         \/ WithPhone(p) = {} /\ Continues(h, [jobs[h] EXCEPT !.step = "customer"])
  /\ UNCHANGED <<tables, today, history>>

InsertsCustomer(c, p) ==
  /\ customers[c] = NULL /\ c \notin gone
  /\ WithPhone(p) = {}
  /\ customers' = [customers EXCEPT ![c] = p]
  /\ UNCHANGED <<orders, requests, storeHub, today, history>>

\* Mutant: an insert that meets the unique index fails the order.
CreateCustomerOfParcel_Once(h) ==
  /\ At(h, "customer")
  /\ \/ \E c \in Customers :
          /\ InsertsCustomer(c, jobs[h].phone)
          /\ Continues(h, [jobs[h] EXCEPT !.step = "count", !.customer = c])
     \/ /\ WithPhone(jobs[h].phone) # {}
        /\ Ends(h)
        /\ refused' = TRUE
        /\ UNCHANGED <<tables, today, gone, missed, touched>>

CreateCustomerOfParcel(h) ==
  /\ At(h, "customer")
  /\ \/ \E c \in Customers :
          /\ InsertsCustomer(c, jobs[h].phone)
          /\ Continues(h, [jobs[h] EXCEPT !.step = "count", !.customer = c])
     \/ /\ WithPhone(jobs[h].phone) # {}
        /\ Continues(h, [jobs[h] EXCEPT !.step = "again"])
        /\ UNCHANGED <<tables, today, history>>

\* After the unique index refused the insert.
FindCustomerAgain(h) ==
  /\ At(h, "again")
  /\ LET p == jobs[h].phone
     IN  \/ \E c \in WithPhone(p) :
              /\ Continues(h, [jobs[h] EXCEPT !.step = "count", !.customer = c])
              /\ UNCHANGED <<today, history>>
         \/ /\ WithPhone(p) = {}
            /\ Ends(h)
            /\ refused' = TRUE
            /\ UNCHANGED <<gone, missed, touched>>
  /\ UNCHANGED <<tables, today>>

GenerateTrackingNumber(h) ==
  /\ At(h, "count")
  /\ Continues(h, [jobs[h] EXCEPT !.step = "order", !.number = NextNumber])
  /\ UNCHANGED <<tables, today, history>>

\* The insert needs a free tracking number and a customer that still exists.
SaveParcel(h) ==
  /\ At(h, "order")
  /\ LET job == jobs[h]
     IN  IF NumberFree(job.number) /\ customers[job.customer] # NULL
         THEN \E o \in Orders \ gone :
                /\ orders[o] = NULL
                /\ orders' = [orders EXCEPT ![o] =
                     [day |-> today, number |-> job.number, store |-> job.store,
                      customer |-> job.customer, request |-> job.request]]
                /\ IF job.request = NULL THEN Ends(h)
                   ELSE Continues(h, [NewJob EXCEPT !.step = "read", !.request = job.request])
                /\ UNCHANGED <<requests, customers, storeHub>>
         ELSE Ends(h) /\ UNCHANGED tables
  /\ UNCHANGED <<today, history>>

ReadRequest(h) ==
  /\ At(h, "read")
  /\ LET r == jobs[h].request
     IN  Continues(h, [jobs[h] EXCEPT !.step = "counted", !.row = requests[r],
                                      !.linked = Linked(r)])
  /\ UNCHANGED <<tables, today, history>>

AtLeast(n, m) == IF n > m THEN n ELSE m

\* The row is saved with the list of parcels it was read with: those that have
\* joined since are detached from it, those that have left are attached again.
SetsParcels(r, list) ==
  orders' = [o \in Orders |->
               IF o \notin Live THEN NULL
               ELSE IF o \in list THEN [orders[o] EXCEPT !.request = r]
               ELSE IF orders[o].request = r THEN [orders[o] EXCEPT !.request = NULL]
               ELSE orders[o]]

\* Mutant: the count is of the parcels before this one.
UpdateActualParcelsCount_Stale(h) ==
  /\ At(h, "counted")
  /\ LET job == jobs[h]
     IN  /\ requests' = [requests EXCEPT ![job.request] =
              [job.row EXCEPT !.actual = @ + (IF Cardinality(job.linked) > 1 THEN 0 ELSE 1)]]
         /\ SetsParcels(job.request, job.linked)
  /\ Ends(h)
  /\ UNCHANGED <<customers, storeHub, today, history>>

UpdateActualParcelsCount(h) ==
  /\ At(h, "counted")
  /\ LET job == jobs[h]
         n   == Cardinality(job.linked)
     IN  /\ requests' = [requests EXCEPT ![job.request] =
              [job.row EXCEPT !.actual = n, !.estimated = AtLeast(n, @)]]
         /\ SetsParcels(job.request, job.linked)
  /\ Ends(h)
  /\ UNCHANGED <<customers, storeHub, today, history>>

\* A statement fails or the handler dies; a count that fails is swallowed.
HandlerFails(h) ==
  /\ MayFail
  /\ jobs[h].step \in IntakeSteps
  /\ Ends(h)
  /\ missed' = IF jobs[h].step \in {"read", "counted"} THEN missed \cup {jobs[h].request}
               ELSE missed
  /\ UNCHANGED <<tables, today, gone, touched, refused>>

\* A parcel is removed (its lifecycle is elsewhere); nothing counts again.
RemoveParcel(h, o) ==
  /\ jobs[h] = Idle
  /\ o \in Live
  /\ orders' = [orders EXCEPT ![o] = NULL]
  /\ gone' = gone \cup {o}
  /\ missed' = missed \cup ({orders[o].request} \ {NULL})
  /\ UNCHANGED <<requests, customers, storeHub, today, jobs, alone, touched, refused>>

-----------------------------------------------------------------------------
(* Pickup requests.                                                        *)

\* Mutant: a merchant may announce one more.
CreatePickupRequest_Again(h, s, n) ==
  /\ storeHub[s] # NULL
  /\ Starts(h, [NewJob EXCEPT !.step = "announce", !.store = s, !.estimated = n])
  /\ UNCHANGED <<tables, today, history>>

CreatePickupRequest(h, s, n) ==
  /\ storeHub[s] # NULL
  /\ ActiveFor(s) = {}
  /\ Starts(h, [NewJob EXCEPT !.step = "announce", !.store = s, !.estimated = n])
  /\ UNCHANGED <<tables, today, history>>

SaveNewRequest(h) ==
  /\ At(h, "announce")
  /\ \E r \in Pickups : InsertsRequest(r, jobs[h].store, jobs[h].estimated)
  /\ Ends(h)

\* The request is read, one of the statuses is asked for, and row is saved later.
Handles(h, r, statuses, row) ==
  /\ requests[r] # NULL /\ requests[r].status \in statuses
  /\ Starts(h, [NewJob EXCEPT !.step = "put", !.request = r, !.row = row])
  /\ UNCHANGED <<tables, today, history>>

Sets(r, status) == [requests[r] EXCEPT !.status = status]

UpdatePickupRequest(h, r, n) ==
  Handles(h, r, {"PENDING"}, [requests[r] EXCEPT !.estimated = n])
Confirm(h, r) == Handles(h, r, {"PENDING"}, Sets(r, "CONFIRMED"))
MarkAsPickedUp(h, r) == Handles(h, r, {"PENDING", "CONFIRMED"}, Sets(r, "PICKED_UP"))
Cancel(h, r) == Handles(h, r, {"PENDING", "CONFIRMED"}, Sets(r, "CANCELLED"))

AssignPickupToRider(h, r, rider) ==
  /\ requests[r] # NULL
  /\ requests[r].rider = NULL
  /\ RiderHub[rider] = requests[r].hub
  /\ Handles(h, r, {"CONFIRMED"}, [requests[r] EXCEPT !.rider = rider])

RiderCompletePickup(h, r, rider) ==
  /\ requests[r] # NULL
  /\ requests[r].rider = rider
  /\ Handles(h, r, {"CONFIRMED"}, Sets(r, "PICKED_UP"))

SaveRequest(h) ==
  /\ At(h, "put")
  /\ requests' = [requests EXCEPT ![jobs[h].request] = jobs[h].row]
  /\ Ends(h)
  /\ UNCHANGED <<orders, customers, storeHub, today, history>>

-----------------------------------------------------------------------------
(* Customers.                                                              *)

CreateCustomer(h, p) ==
  /\ WithPhone(p) = {}
  /\ Starts(h, [NewJob EXCEPT !.step = "register", !.phone = p])
  /\ UNCHANGED <<tables, today, history>>

\* The unique index may refuse the row, which is then an error to the caller.
SaveCustomer(h) ==
  /\ At(h, "register")
  /\ \/ \E c \in Customers : InsertsCustomer(c, jobs[h].phone)
     \/ WithPhone(jobs[h].phone) # {} /\ UNCHANGED <<tables, today, history>>
  /\ Ends(h)

UpdateCustomer(h, c, p) ==
  /\ customers[c] # NULL
  /\ WithPhone(p) \subseteq {c}
  /\ Starts(h, [NewJob EXCEPT !.step = "rename", !.customer = c, !.phone = p])
  /\ UNCHANGED <<tables, today, history>>

\* A row that was removed meanwhile is inserted again.
SaveCustomerUpdate(h) ==
  /\ At(h, "rename")
  /\ LET c == jobs[h].customer
         p == jobs[h].phone
     IN  IF WithPhone(p) \subseteq {c}
         THEN /\ customers' = [customers EXCEPT ![c] = p]
              /\ touched' = (touched \/ customers[c] # p)
         ELSE UNCHANGED <<customers, touched>>
  /\ Ends(h)
  /\ UNCHANGED <<orders, requests, storeHub, today, gone, missed, refused>>

\* A customer with parcels cannot be removed.
RemoveCustomer(h, c) ==
  /\ jobs[h] = Idle
  /\ customers[c] # NULL
  /\ \A o \in Live : orders[o].customer # c
  /\ customers' = [customers EXCEPT ![c] = NULL]
  /\ gone' = gone \cup {c}
  /\ touched' = TRUE
  /\ UNCHANGED <<orders, requests, storeHub, today, jobs, alone, missed, refused>>

-----------------------------------------------------------------------------
\* An admin gives the store its hub, which then stays.
AssignHubToStore(s, hub) ==
  /\ storeHub[s] = NULL
  /\ storeHub' = [storeHub EXCEPT ![s] = hub]
  /\ UNCHANGED <<orders, requests, customers, today, jobs, history, alone>>

Midnight ==
  /\ today < LastDay
  /\ today' = today + 1
  /\ UNCHANGED <<tables, jobs, history, alone>>

PostStep(h) ==
  \/ \E s \in Stores, p \in Phones : Create(h, s, p)
  \/ FindOrCreateActiveForStore(h) \/ RequestFails(h)
  \/ FindCustomer(h) \/ CreateCustomerOfParcel(h) \/ FindCustomerAgain(h)
  \/ GenerateTrackingNumber(h) \/ SaveParcel(h)
  \/ ReadRequest(h) \/ UpdateActualParcelsCount(h)
  \/ HandlerFails(h)
  \/ \E o \in Orders : RemoveParcel(h, o)

PickupStep(h) ==
  \/ \E s \in Stores, n \in Estimates : CreatePickupRequest(h, s, n)
  \/ SaveNewRequest(h) \/ SaveRequest(h)
  \/ \E r \in Pickups :
       \/ \E n \in Estimates : UpdatePickupRequest(h, r, n)
       \/ Confirm(h, r) \/ MarkAsPickedUp(h, r) \/ Cancel(h, r)
       \/ \E rider \in Riders : AssignPickupToRider(h, r, rider) \/ RiderCompletePickup(h, r, rider)

CustomerStep(h) ==
  \/ \E p \in Phones : CreateCustomer(h, p)
  \/ \E c \in Customers : RemoveCustomer(h, c) \/ \E p \in Phones : UpdateCustomer(h, c, p)
  \/ SaveCustomer(h) \/ SaveCustomerUpdate(h)

IntakeNext ==
  \/ \E h \in Servers : PostStep(h) \/ PickupStep(h) \/ CustomerStep(h)
  \/ \E s \in Stores, hub \in Hubs : AssignHubToStore(s, hub)
  \/ Midnight

IntakeSpec == IntakeInit /\ [][IntakeNext]_intakeVars

-----------------------------------------------------------------------------
(* Properties.                                                             *)

\* Served one at a time, whatever fails and whenever midnight falls, a store
\* has at most one open pickup request of a day ("Creates a new pickup request
\* each day").
OnePickupPerDay ==
  alone => \A s \in Stores, d \in Days :
    Cardinality({r \in Pickups : /\ requests[r] # NULL
                                  /\ requests[r].store = s /\ requests[r].day = d
                                  /\ requests[r].status = "PENDING"}) <= 1

\* Served one at a time, a pickup request says how many parcels wait for the
\* rider, once their handlers are done, unless a parcel was removed or a count
\* failed.
CountIsLinked ==
  alone => \A r \in Pickups \ missed :
    requests[r] # NULL /\ (\A h \in Servers : jobs[h].step \notin {"read", "counted"})
      => requests[r].actual = Cardinality(Linked(r))

\* However orders overlap, with each other and with midnight, the number that
\* the next one computes is free, as long as no order was removed.
NextTrackingFree ==
  gone \cap Orders = {} => NumberFree(NextNumber)

\* "RACE-SAFE helper used from parcel creation": an order is refused for want of
\* its customer only when somebody removes or renames that customer meanwhile.
RaceSafe == refused => touched

\* An order that has joined a pickup request stays in it.
StaysLinked ==
  [][\A o \in Live : orders[o].request # NULL /\ orders'[o] # NULL
       => orders'[o].request = orders[o].request]_intakeVars

\* "Please try again": the number that the next order computes is free.
NextTrackingAlwaysFree == NumberFree(NextNumber)

=============================================================================
