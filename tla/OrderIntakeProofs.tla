-------------------------- MODULE OrderIntakeProofs --------------------------
(* Theorems about OrderIntake, for any orders, stores, customers, pickup   *)
(* requests, days and any number of handlers.  Nothing is assumed finite:  *)
(* that the rows are finitely many is part of the invariant, because each  *)
(* is inserted by a step.                                                  *)
EXTENDS OrderIntake, RequestsProofs

(* Well-typed tables and jobs.                                             *)

Known(r) == requests[r] # NULL

\* The tables are typed; an order's pickup request exists, and no pickup request
\* is of a day to come.
TablesOK ==
  /\ orders \in [Orders -> Order \cup {NULL}]
  /\ requests \in [Pickups -> PickupRequest \cup {NULL}]
  /\ customers \in [Customers -> Phones \cup {NULL}]
  /\ storeHub \in [Stores -> Hubs \cup {NULL}]
  /\ today \in Days
  /\ gone \subseteq Orders \cup Customers /\ missed \subseteq Pickups
  /\ touched \in BOOLEAN /\ refused \in BOOLEAN
  /\ IsFiniteSet(Live)
  /\ \A o \in Live : orders[o].request # NULL => Known(orders[o].request)
  /\ \A r \in Pickups : Known(r) => requests[r].day <= today

\* What a handler at its step has found out before: a store's hub, a customer, a
\* number, the pickup request and the row of it that will be saved.
JobOK(job) ==
  /\ job \in Job
  /\ job.step \in {"request", "announce"} => job.store # NULL /\ storeHub[job.store] # NULL
  /\ job.step \in {"request", "find", "customer", "again", "count", "order"} => job.store # NULL
  /\ job.step \in {"request", "find", "customer", "again", "register", "rename"} => job.phone # NULL
  /\ job.step \in {"count", "order", "rename"} => job.customer # NULL
  /\ job.step = "order" => job.number # NULL
  /\ job.step \in {"read", "counted", "put"} => job.request # NULL
  /\ job.request # NULL => Known(job.request)
  /\ job.step \in {"counted", "put"} => job.row # NULL /\ job.row.day <= today
  /\ IsFiniteSet(job.linked)

JobsOK == \A h \in Servers : jobs[h] = Idle \/ JobOK(jobs[h])

TypeInv == TablesOK /\ JobsTotal /\ JobsOK /\ alone \in BOOLEAN

\* Hubs are assigned and pickup requests inserted for good, and days pass.
Forward ==
  /\ \A r \in Pickups : Known(r) => Known(r)'
  /\ \A s \in Stores : storeHub[s] # NULL => storeHub'[s] # NULL
  /\ today <= today'

-----------------------------------------------------------------------------
(* Tracking numbers.                                                       *)

TodaysOrders == Cardinality({o \in Live : orders[o].day = today})

\* No number of a day to come, and of today none above the bound.
UpTo(number, bound) == number[1] <= today /\ (number[1] = today => number[2] <= bound)

\* Without a removal, the numbers of today do not exceed the count of the day, and
\* one that a handler will insert exceeds it by one at most.
NumbersBehind ==
  gone \cap Orders = {} =>
    /\ \A o \in Live : UpTo(orders[o].number, TodaysOrders)
    /\ \A h \in Servers : At(h, "order") => UpTo(jobs[h].number, TodaysOrders + 1)

-----------------------------------------------------------------------------
(* The customer whose insert was refused is there to be found.             *)

FoundAgain ==
  ~touched => /\ ~refused
              /\ \A h \in Servers : At(h, "again") => WithPhone(jobs[h].phone) # {}

-----------------------------------------------------------------------------
(* Pickup requests, one request at a time.                                 *)

Open(r, s, d) ==
  Known(r) /\ requests[r].store = s /\ requests[r].day = d /\ requests[r].status = "PENDING"

OneOpen == \A s \in Stores, d \in Days : \A q, r \in Pickups : Open(q, s, d) /\ Open(r, s, d) => q = r

Counting(r) == \E h \in Servers : jobs[h].step \in {"read", "counted"} /\ jobs[h].request = r

CountsRight ==
  \A r \in Pickups \ missed :
    Known(r) /\ ~Counting(r) => requests[r].actual = Cardinality(Linked(r))

\* What the one handler has read is still so.
StillTrue(job) ==
  /\ job.step \in {"request", "announce"} => \A r \in Pickups : ~Open(r, job.store, today)
  /\ job.step = "put" =>
       LET row == requests[job.request] IN
       /\ job.row.store = row.store /\ job.row.day = row.day /\ job.row.actual = row.actual
       /\ job.row.status = "PENDING" => row.status = "PENDING"
  /\ job.step = "counted" =>
       /\ job.row = requests[job.request]
       /\ job.linked \cap Live = Linked(job.request)
       /\ job.request \notin missed => job.linked \subseteq Live

OneBusy == \A j, k \in Servers : jobs[j] # Idle /\ jobs[k] # Idle => j = k

Serial ==
  alone => /\ OneBusy /\ OneOpen /\ CountsRight
           /\ \A h \in Servers : jobs[h] = Idle \/ StillTrue(jobs[h])

-----------------------------------------------------------------------------
(* The tables and the jobs stay well-typed.                                *)

LEMMA TypeInit == IntakeInit => TypeInv
PROOF
<1> SUFFICES ASSUME IntakeInit PROVE TypeInv
  OBVIOUS
<1>1. JobsTotal /\ alone \in BOOLEAN /\ JobsOK
  BY Resting DEF IntakeInit, JobsOK
<1>2. Live = {}
  BY DEF IntakeInit, Live
<1>3. IsFiniteSet(Live)
  BY <1>2, FS_EmptySet
<1>4. today \in Days
  BY IntakeAssumption DEF IntakeInit, Days
<1>5. TablesOK
  BY <1>2, <1>3, <1>4 DEF IntakeInit, TablesOK, Known
<1> QED
  BY <1>1, <1>5 DEF TypeInv

\* What a handler has found out stays so.
LEMMA JobPersists ==
  ASSUME TablesOK, Forward, today' \in Days, NEW job, JobOK(job)
  PROVE  JobOK(job)'
PROOF
<1>1. job.step \in {"counted", "put"} => job.row \in PickupRequest
  BY DEF JobOK, Job
<1>2. job.step \in {"counted", "put"} => job.row.day \in Int /\ today \in Int /\ today' \in Int
  BY <1>1, IntakeAssumption DEF TablesOK, PickupRequest, Days
<1>3. job.step \in {"counted", "put"} => job.row.day <= today'
  BY <1>2 DEF JobOK, Forward
<1>4. job \in Job /\ (job.request # NULL => job.request \in Pickups)
      /\ (job.store # NULL => job.store \in Stores)
  BY DEF JobOK, Job
<1> QED
  BY <1>3, <1>4 DEF JobOK, Forward

\* A handler takes a job, or goes on with it, and leaves the tables in order.
LEMMA Turning ==
  ASSUME TypeInv, NEW h \in Servers, NEW job, Starts(h, job) \/ Continues(h, job),
         TablesOK', Forward, job = Idle \/ JobOK(job)'
  PROVE  TypeInv'
PROOF
<1>1. /\ JobsTotal' /\ jobs'[h] = job
      /\ \A j \in Servers : j # h => jobs'[j] = jobs[j]
  BY Starting, Continuing DEF TypeInv
<1>2. alone' \in BOOLEAN
  <2>1. alone \in BOOLEAN /\ JobsTotal
    BY DEF TypeInv
  <2>2. CASE Starts(h, job)
    BY <2>1, <2>2, StartingAlone
  <2>3. CASE Continues(h, job)
    BY <2>1, <2>3, Continuing
  <2> QED
    BY <2>2, <2>3
<1>3. ASSUME NEW j \in Servers PROVE jobs'[j] = Idle \/ JobOK(jobs[j])'
  <2>1. CASE j = h
    BY <1>1, <2>1
  <2>2. CASE j # h
    <3>1. jobs[j] = Idle \/ JobOK(jobs[j])
      BY DEF TypeInv, JobsOK
    <3>2. PICK d : d = jobs[j]
      OBVIOUS
    <3>3. JobOK(d) => JobOK(d)'
      BY JobPersists DEF TypeInv, TablesOK
    <3> QED
      BY <1>1, <2>2, <3>1, <3>2, <3>3
  <2> QED
    BY <2>1, <2>2
<1>4. JobsOK'
  BY <1>3 DEF JobsOK
<1> QED
  BY <1>1, <1>2, <1>4 DEF TypeInv

LEMMA Untouched ==
  ASSUME TypeInv, UNCHANGED <<tables, today, history>>
  PROVE  TablesOK' /\ Forward
PROOF
<1>1. UNCHANGED <<orders, requests, customers, storeHub, today, gone, missed, touched, refused>>
  BY DEF tables, history
<1>2. Live' = Live /\ today \in Int
  BY <1>1, IntakeAssumption DEF Live, TypeInv, TablesOK, Days
<1> QED
  BY <1>1, <1>2 DEF TypeInv, TablesOK, Known, Forward

\* No handler does anything.
LEMMA JobsPersist ==
  ASSUME TypeInv, UNCHANGED <<jobs, alone>>, TablesOK', Forward
  PROVE  TypeInv'
PROOF
<1>1. ASSUME NEW j \in Servers PROVE jobs'[j] = Idle \/ JobOK(jobs[j])'
  <2> PICK d : d = jobs[j]
    OBVIOUS
  <2>1. JobOK(d) => JobOK(d)'
    BY JobPersists DEF TypeInv, TablesOK
  <2> QED
    BY <2>1 DEF TypeInv, JobsOK
<1>2. JobsOK'
  BY <1>1 DEF JobsOK
<1> QED
  BY <1>2 DEF TypeInv, JobsTotal

LEMMA Held ==
  ASSUME TypeInv, NEW h \in Servers, jobs[h].step \in IntakeSteps
  PROVE  jobs[h] # Idle /\ JobOK(jobs[h]) /\ jobs[h] \in Job
PROOF
<1>1. Idle.step = "idle" /\ "idle" \notin IntakeSteps
  BY DEF Idle, IntakeSteps
<1> QED
  BY <1>1 DEF TypeInv, JobsOK, JobOK

\* A handler starts or goes on, and no table changes.
LEMMA TurnsOnly ==
  ASSUME TypeInv, NEW h \in Servers, NEW job, Starts(h, job) \/ Continues(h, job),
         UNCHANGED <<tables, today, history>>, job = Idle \/ JobOK(job)
  PROVE  TypeInv'
PROOF
<1>1. TablesOK' /\ Forward
  BY Untouched
<1>2. JobOK(job) => JobOK(job)'
  BY <1>1, JobPersists DEF TypeInv, TablesOK
<1> QED
  BY <1>1, <1>2, Turning

LEMMA NewJobOK ==
  /\ NewJob \in Job /\ NewJob.linked = {} /\ IsFiniteSet(NewJob.linked)
  /\ NewJob.request = NULL /\ NewJob.step = "request"
PROOF
<1>1. IsFiniteSet({})
  BY FS_EmptySet
<1> QED
  BY <1>1 DEF NewJob, Job, IntakeSteps

LEMMA CreatePreserves ==
  ASSUME TypeInv, NEW h \in Servers, NEW s \in Stores, NEW p \in Phones, Create(h, s, p)
  PROVE  TypeInv'
PROOF
<1> DEFINE job == [NewJob EXCEPT !.store = s, !.phone = p]
<1>1. /\ job \in Job /\ job.store = s /\ job.phone = p /\ job.request = NULL
      /\ IsFiniteSet(job.linked)
  BY NewJobOK DEF Job
<1>2. s # NULL /\ p # NULL
  BY NullIsNothing
<1> HIDE DEF job
<1>3. UNCHANGED <<tables, today, history>>
  BY DEF Create
<1>4. ASSUME NEW r \in ActiveFor(s), Starts(h, [job EXCEPT !.step = "find", !.request = r])
      PROVE  TypeInv'
  <2> DEFINE e == [job EXCEPT !.step = "find", !.request = r]
  <2>1. r \in Pickups /\ Known(r)
    BY DEF ActiveFor, Known
  <2>2. /\ e \in Job /\ e.step = "find" /\ e.request = r /\ e.store = s /\ e.phone = p
        /\ e.linked = job.linked
    BY <1>1, <2>1 DEF Job, IntakeSteps
  <2>3. Starts(h, e)
    BY <1>4
  <2> HIDE DEF e
  <2>4. JobOK(e)
    BY <1>1, <1>2, <2>1, <2>2 DEF JobOK
  <2> QED
    BY <1>3, <2>3, <2>4, TurnsOnly
<1>5. ASSUME NEW step \in {"find", "request"}, Starts(h, [job EXCEPT !.step = step]),
             step = "request" => storeHub[s] # NULL
      PROVE  TypeInv'
  <2> DEFINE e == [job EXCEPT !.step = step]
  <2>1. /\ e \in Job /\ e.step = step /\ e.request = NULL /\ e.store = s /\ e.phone = p
        /\ e.linked = job.linked
    BY <1>1 DEF Job, IntakeSteps
  <2>2. Starts(h, e)
    BY <1>5
  <2> HIDE DEF e
  <2>3. JobOK(e)
    BY <1>1, <1>2, <1>5, <2>1 DEF JobOK
  <2> QED
    BY <1>3, <2>2, <2>3, TurnsOnly
<1>6. \/ \E r \in ActiveFor(s) : Starts(h, [job EXCEPT !.step = "find", !.request = r])
      \/ Starts(h, [job EXCEPT !.step = IF storeHub[s] = NULL THEN "find" ELSE "request"])
  BY DEF Create, job
<1> QED
  BY <1>4, <1>5, <1>6

LEMMA Arithmetic ==
  ASSUME TypeInv
  PROVE  /\ today \in Int /\ today >= 1 /\ today <= LastDay /\ LastDay \in Int
         /\ \A S : IsFiniteSet(S) => Cardinality(S) \in Nat
         /\ \A S \in SUBSET Live : IsFiniteSet(S) /\ Cardinality(S) \in Nat
PROOF
<1>1. /\ today \in Int /\ today >= 1 /\ today <= LastDay /\ LastDay \in Int
      /\ IsFiniteSet(Live)
  BY IntakeAssumption DEF TypeInv, TablesOK, Days
<1> QED
  BY <1>1, FS_Subset, FS_CardinalityType

\* The next number is a tracking number of today.
LEMMA NumberType ==
  ASSUME TypeInv
  PROVE  NextNumber \in Tracking
PROOF
<1>1. {o \in Live : orders[o].day = today} \in SUBSET Live
  OBVIOUS
<1>2. Cardinality({o \in Live : orders[o].day = today}) + 1 \in Nat /\ today \in Days
  BY <1>1, Arithmetic DEF TypeInv, TablesOK
<1> QED
  BY <1>2 DEF NextNumber, Tracking

\* A pickup request is inserted.
LEMMA InsertingRequest ==
  ASSUME TypeInv, NEW r \in Pickups, NEW s \in Stores, NEW n \in Nat, storeHub[s] # NULL,
         InsertsRequest(r, s, n)
  PROVE  TablesOK' /\ Forward /\ Known(r)'
PROOF
<1> DEFINE row == [store |-> s, hub |-> storeHub[s], day |-> today, status |-> "PENDING",
                   estimated |-> n, actual |-> 0, rider |-> NULL]
<1>1. storeHub[s] \in Hubs /\ today \in Days
  BY DEF TypeInv, TablesOK
<1>2. row \in PickupRequest /\ row.day = today
  BY <1>1 DEF PickupRequest, PickupRequestStatus
<1>3. row # NULL
  BY <1>2, NullIsNothing
<1>4. /\ requests' = [requests EXCEPT ![r] = row]
      /\ UNCHANGED <<orders, customers, storeHub, today, gone, missed, touched, refused>>
  BY DEF InsertsRequest, history
<1> HIDE DEF row
<1>5. Live' = Live /\ today \in Int
  BY <1>4, Arithmetic DEF Live
<1>6. requests'[r] = row /\ \A q \in Pickups \ {r} : requests'[q] = requests[q]
  BY <1>4 DEF TypeInv, TablesOK
<1>7. requests' \in [Pickups -> PickupRequest \cup {NULL}]
  BY <1>2, <1>4 DEF TypeInv, TablesOK
<1>8. \A q \in Pickups : Known(q) => Known(q)'
  BY <1>3, <1>6 DEF Known
<1>9. \A o \in Live : orders[o].request # NULL => orders[o].request \in Pickups
  BY NullIsNothing DEF TypeInv, TablesOK, Live, Order
<1>10. \A q \in Pickups : Known(q)' => requests'[q].day <= today
  BY <1>2, <1>5, <1>6 DEF Known, TypeInv, TablesOK
<1>11. TablesOK'
  BY <1>4, <1>5, <1>7, <1>8, <1>9, <1>10 DEF TypeInv, TablesOK
<1> QED
  BY <1>3, <1>4, <1>5, <1>6, <1>8, <1>11 DEF Forward, Known

LEMMA RequestStepsPreserve ==
  ASSUME TypeInv, NEW h \in Servers,
         FindOrCreateActiveForStore(h) \/ RequestFails(h) \/ SaveNewRequest(h)
  PROVE  TypeInv'
PROOF
<1> PICK job : job = jobs[h]
  OBVIOUS
<1>1. /\ JobOK(job) /\ job \in Job /\ job.step \in {"request", "announce"}
      /\ job.store \in Stores /\ storeHub[job.store] # NULL
  <2>1. job.step \in {"request", "announce"}
    BY DEF FindOrCreateActiveForStore, RequestFails, SaveNewRequest, At
  <2> QED
    BY <2>1, Held DEF JobOK, Job, IntakeSteps
<1>2. ASSUME NEW r \in Pickups, InsertsRequest(r, job.store, 0),
             Continues(h, [job EXCEPT !.step = "find", !.request = r]), job.step = "request"
      PROVE  TypeInv'
  <2> PICK e : e = [job EXCEPT !.step = "find", !.request = r]
    OBVIOUS
  <2>1. TablesOK' /\ Forward /\ Known(r)'
    BY <1>1, <1>2, InsertingRequest
  <2>2. /\ e \in Job /\ e.step = "find" /\ e.request = r /\ e.store = job.store
        /\ e.phone = job.phone /\ e.linked = job.linked
    BY <1>1 DEF Job, IntakeSteps
  <2>3. Continues(h, e)
    BY <1>2
  <2>4. JobOK(e)'
    BY <1>1, <1>2, <2>1, <2>2 DEF JobOK
  <2> QED
    BY <2>1, <2>3, <2>4, Turning
<1>3. CASE RequestFails(h)
  <2> PICK e : e = [job EXCEPT !.step = "find"]
    OBVIOUS
  <2>1. /\ e \in Job /\ e.step = "find" /\ e.request = job.request /\ e.store = job.store
        /\ e.phone = job.phone /\ e.linked = job.linked
    BY <1>1 DEF Job, IntakeSteps
  <2>2. Continues(h, e) /\ UNCHANGED <<tables, today, history>> /\ job.step = "request"
    BY <1>3 DEF RequestFails, At
  <2>3. JobOK(e)
    BY <1>1, <2>1, <2>2 DEF JobOK
  <2> QED
    BY <2>2, <2>3, TurnsOnly
<1>4. CASE SaveNewRequest(h)
  <2>1. PICK r \in Pickups : InsertsRequest(r, job.store, job.estimated)
    BY <1>4 DEF SaveNewRequest
  <2>2. job.estimated \in Nat
    BY <1>1 DEF Job
  <2>3. TablesOK' /\ Forward
    BY <1>1, <2>1, <2>2, InsertingRequest
  <2>4. Continues(h, Idle)
    BY <1>4 DEF SaveNewRequest, Ends
  <2> QED
    BY <2>3, <2>4, Turning
<1> QED
  BY <1>2, <1>3, <1>4 DEF FindOrCreateActiveForStore, At

\* The handler goes on to a step that needs no more than it has, or than it was given.
LEMMA NextStepPreserves ==
  ASSUME TypeInv, NEW h \in Servers, NEW job, NEW e, JobOK(job), Continues(h, e),
         e \in Job, UNCHANGED <<tables, today, history>>,
         e.step \in {"customer", "again", "count", "order", "find"},
         e.store = job.store, e.phone = job.phone, e.request = job.request, e.linked = job.linked,
         e.store # NULL, e.step \in {"customer", "again", "find"} => e.phone # NULL,
         e.step \in {"count", "order"} => e.customer # NULL, e.step = "order" => e.number # NULL
  PROVE  TypeInv'
PROOF
<1>1. JobOK(e)
  BY DEF JobOK
<1> QED
  BY <1>1, TurnsOnly

LEMMA InsertingCustomer ==
  ASSUME TypeInv, NEW c \in Customers, NEW p \in Phones, InsertsCustomer(c, p)
  PROVE  TablesOK' /\ Forward
PROOF
<1>1. /\ customers' = [customers EXCEPT ![c] = p]
      /\ UNCHANGED <<orders, requests, storeHub, today, gone, missed, touched, refused>>
  BY DEF InsertsCustomer, history
<1>2. Live' = Live /\ today \in Int
  BY <1>1, Arithmetic DEF Live
<1> QED
  BY <1>1, <1>2 DEF TypeInv, TablesOK, Known, Forward

LEMMA FindingPreserves ==
  ASSUME TypeInv, NEW h \in Servers,
         \/ FindCustomer(h) \/ CreateCustomerOfParcel(h) \/ FindCustomerAgain(h)
         \/ GenerateTrackingNumber(h)
  PROVE  TypeInv'
PROOF
<1> PICK job : job = jobs[h]
  OBVIOUS
<1>1. /\ JobOK(job) /\ job \in Job /\ job.step \in {"find", "customer", "again", "count"}
      /\ job.store # NULL
      /\ job.step # "count" => job.phone # NULL /\ job.phone \in Phones
      /\ job.step = "count" => job.customer # NULL
  <2>1. job.step \in {"find", "customer", "again", "count"}
    BY DEF FindCustomer, CreateCustomerOfParcel, FindCustomerAgain, GenerateTrackingNumber, At
  <2> QED
    BY <2>1, Held DEF JobOK, Job, IntakeSteps
<1>2. ASSUME NEW step \in {"customer", "again"}, Continues(h, [job EXCEPT !.step = step]),
             UNCHANGED <<tables, today, history>>, job.step # "count"
      PROVE  TypeInv'
  <2> PICK e : e = [job EXCEPT !.step = step]
    OBVIOUS
  <2>1. /\ e \in Job /\ e.step = step /\ e.request = job.request /\ e.store = job.store
        /\ e.phone = job.phone /\ e.linked = job.linked
    BY <1>1 DEF Job, IntakeSteps
  <2> QED
    BY <1>1, <1>2, <2>1, NextStepPreserves
<1>3. ASSUME NEW c \in Customers, Continues(h, [job EXCEPT !.step = "count", !.customer = c]),
             job.step # "count", TablesOK', Forward
      PROVE  TypeInv'
  <2> PICK e : e = [job EXCEPT !.step = "count", !.customer = c]
    OBVIOUS
  <2>1. /\ e \in Job /\ e.step = "count" /\ e.request = job.request /\ e.store = job.store
        /\ e.phone = job.phone /\ e.linked = job.linked /\ e.customer = c
    BY <1>1 DEF Job, IntakeSteps
  <2>2. c # NULL
    BY NullIsNothing
  <2>3. JobOK(e)
    BY <1>1, <2>1, <2>2 DEF JobOK
  <2>4. JobOK(e)'
    BY <1>3, <2>3, JobPersists DEF TypeInv, TablesOK
  <2> QED
    BY <1>3, <2>1, <2>4, Turning
<1>4. WithPhone(job.phone) \subseteq Customers
  BY DEF WithPhone
<1>5. CASE FindCustomer(h)
  <2>1. UNCHANGED <<tables, today, history>> /\ job.step = "find"
    BY <1>5 DEF FindCustomer, At
  <2>2. \/ \E c \in WithPhone(job.phone) : Continues(h, [job EXCEPT !.step = "count", !.customer = c])
        \/ Continues(h, [job EXCEPT !.step = "customer"])
    BY <1>5 DEF FindCustomer
  <2> QED
    BY <1>2, <1>3, <1>4, <2>1, <2>2, Untouched
<1>6. CASE CreateCustomerOfParcel(h)
  <2>1. job.step = "customer"
    BY <1>6 DEF CreateCustomerOfParcel, At
  <2>2. CASE \E c \in Customers :
               /\ InsertsCustomer(c, job.phone)
               /\ Continues(h, [job EXCEPT !.step = "count", !.customer = c])
    BY <1>1, <1>3, <2>1, <2>2, InsertingCustomer
  <2>3. CASE Continues(h, [job EXCEPT !.step = "again"]) /\ UNCHANGED <<tables, today, history>>
    BY <1>2, <2>1, <2>3
  <2> QED
    BY <1>6, <2>2, <2>3 DEF CreateCustomerOfParcel
<1>7. CASE FindCustomerAgain(h)
  <2>1. UNCHANGED <<tables, today>> /\ job.step = "again"
    BY <1>7 DEF FindCustomerAgain, At
  <2>2. CASE \E c \in WithPhone(job.phone) :
               /\ Continues(h, [job EXCEPT !.step = "count", !.customer = c])
               /\ UNCHANGED <<today, history>>
    BY <1>3, <1>4, <2>1, <2>2, Untouched
  <2>3. CASE Ends(h) /\ refused' = TRUE /\ UNCHANGED <<gone, missed, touched>>
    <3>1. UNCHANGED <<orders, requests, customers, storeHub, today, gone, missed, touched>>
      BY <2>1, <2>3 DEF tables
    <3>2. Live' = Live /\ today \in Int
      BY <3>1, Arithmetic DEF Live
    <3>3. TablesOK' /\ Forward
      BY <2>3, <3>1, <3>2 DEF TypeInv, TablesOK, Known, Forward
    <3> QED
      BY <2>3, <3>3, Turning DEF Ends
  <2> QED
    BY <1>7, <2>2, <2>3 DEF FindCustomerAgain
<1>8. CASE GenerateTrackingNumber(h)
  <2> PICK n : n = NextNumber
    OBVIOUS
  <2> PICK e : e = [job EXCEPT !.step = "order", !.number = n]
    OBVIOUS
  <2>1. n \in Tracking /\ n # NULL
    BY NumberType, NullIsNothing
  <2>2. /\ job.step = "count" /\ Continues(h, e) /\ UNCHANGED <<tables, today, history>>
    BY <1>8 DEF GenerateTrackingNumber, At
  <2>3. /\ e \in Job /\ e.step = "order" /\ e.request = job.request /\ e.store = job.store
        /\ e.phone = job.phone /\ e.linked = job.linked /\ e.customer = job.customer /\ e.number = n
    BY <1>1, <2>1 DEF Job, IntakeSteps
  <2> QED
    BY <1>1, <2>1, <2>2, <2>3, NextStepPreserves
<1> QED
  BY <1>5, <1>6, <1>7, <1>8

\* An order is inserted.
LEMMA InsertingOrder ==
  ASSUME TypeInv, NEW o \in Orders, NEW order \in Order, orders[o] = NULL,
         order.request # NULL => Known(order.request),
         orders' = [orders EXCEPT ![o] = order],
         UNCHANGED <<requests, customers, storeHub, today, history>>
  PROVE  TablesOK' /\ Forward /\ Live' = Live \cup {o}
PROOF
<1>1. order # NULL
  BY NullIsNothing
<1>2. orders'[o] = order /\ \A p \in Orders \ {o} : orders'[p] = orders[p]
  BY DEF TypeInv, TablesOK
<1>3. Live' = Live \cup {o}
  BY <1>1, <1>2 DEF Live
<1>4. IsFiniteSet(Live')
  BY <1>3, FS_AddElement DEF TypeInv, TablesOK
<1>5. orders' \in [Orders -> Order \cup {NULL}] /\ today \in Int
  BY Arithmetic DEF TypeInv, TablesOK
<1>6. ASSUME NEW p \in Live', orders'[p].request # NULL
      PROVE  requests[orders'[p].request] # NULL
  <2>1. CASE p = o
    BY <1>2, <1>6, <2>1 DEF Known
  <2>2. CASE p # o
    <3>1. p \in Live /\ orders'[p] = orders[p]
      BY <1>2, <1>3, <1>6, <2>2 DEF Live
    <3> QED
      BY <1>6, <3>1 DEF TypeInv, TablesOK, Known
  <2> QED
    BY <2>1, <2>2
<1>7. UNCHANGED <<requests, customers, storeHub, today, gone, missed, touched, refused>>
  BY DEF history
<1>8. TablesOK'
  <2>1. \A p \in Live' : orders'[p].request # NULL => requests'[orders'[p].request] # NULL
    BY <1>6, <1>7
  <2> QED
    BY <1>4, <1>5, <1>7, <2>1 DEF TypeInv, TablesOK, Known
<1> QED
  BY <1>3, <1>5, <1>8 DEF Forward, Known

LEMMA SaveParcelPreserves ==
  ASSUME TypeInv, NEW h \in Servers, SaveParcel(h)
  PROVE  TypeInv'
PROOF
<1> PICK job : job = jobs[h]
  OBVIOUS
<1>1. /\ JobOK(job) /\ job \in Job /\ job.store \in Stores /\ job.customer \in Customers
      /\ job.number \in Tracking
  BY Held DEF SaveParcel, At, JobOK, Job, IntakeSteps
<1>2. CASE NumberFree(job.number) /\ customers[job.customer] # NULL
  <2>1. PICK o \in Orders \ gone :
          /\ orders[o] = NULL
          /\ orders' = [orders EXCEPT ![o] =
               [day |-> today, number |-> job.number, store |-> job.store,
                customer |-> job.customer, request |-> job.request]]
          /\ IF job.request = NULL THEN Ends(h)
             ELSE Continues(h, [NewJob EXCEPT !.step = "read", !.request = job.request])
          /\ UNCHANGED <<requests, customers, storeHub>>
    BY <1>2 DEF SaveParcel
  <2> PICK order : order = [day |-> today, number |-> job.number, store |-> job.store,
                            customer |-> job.customer, request |-> job.request]
    OBVIOUS
  <2>2. order \in Order /\ order.request = job.request
    BY <1>1 DEF Order, Job, TypeInv, TablesOK
  <2>3. TablesOK' /\ Forward
    BY <1>1, <2>1, <2>2, InsertingOrder DEF SaveParcel, JobOK
  <2>4. CASE job.request = NULL
    BY <2>1, <2>3, <2>4, Turning DEF Ends
  <2>5. CASE job.request # NULL
    <3> PICK e : e = [NewJob EXCEPT !.step = "read", !.request = job.request]
      OBVIOUS
    <3>1. job.request \in Pickups /\ Known(job.request)
      BY <1>1, <2>5 DEF JobOK, Job
    <3>2. e \in Job /\ e.step = "read" /\ e.request = job.request /\ e.linked = NewJob.linked
      BY <3>1, NewJobOK DEF Job, IntakeSteps
    <3>3. JobOK(e)
      BY <2>5, <3>1, <3>2, NewJobOK DEF JobOK
    <3>4. JobOK(e)'
      BY <2>3, <3>3, JobPersists DEF TypeInv, TablesOK
    <3> QED
      BY <2>1, <2>3, <2>5, <3>4, Turning
  <2> QED
    BY <2>4, <2>5
<1>3. CASE ~(NumberFree(job.number) /\ customers[job.customer] # NULL)
  <2>1. Continues(h, Idle) /\ UNCHANGED <<tables, today, history>>
    BY <1>3 DEF SaveParcel, Ends
  <2> QED
    BY <2>1, TurnsOnly
<1> QED
  BY <1>2, <1>3

\* Saving a pickup request with a list of orders changes nothing of an order but
\* the request it is linked to.
LEMMA SettingParcels ==
  ASSUME TypeInv, NEW r \in Pickups, NEW list, SetsParcels(r, list)
  PROVE  /\ orders' \in [Orders -> Order \cup {NULL}]
         /\ Live' = Live
         /\ \A o \in Live : /\ orders'[o].day = orders[o].day
                            /\ orders'[o].number = orders[o].number
                            /\ orders'[o].request \in {orders[o].request, r, NULL}
PROOF
<1>1. /\ orders' = [o \in Orders |-> orders'[o]]
      /\ \A o \in Orders \ Live : orders'[o] = NULL
  BY DEF SetsParcels
<1>2. ASSUME NEW o \in Live
      PROVE  /\ orders'[o] \in Order /\ orders'[o] # NULL
             /\ orders'[o].day = orders[o].day /\ orders'[o].number = orders[o].number
             /\ orders'[o].request \in {orders[o].request, r, NULL}
  <2>1. orders[o] \in Order /\ o \in Orders
    BY DEF TypeInv, TablesOK, Live
  <2>2. \/ orders'[o] = orders[o]
        \/ orders'[o] = [orders[o] EXCEPT !.request = r]
        \/ orders'[o] = [orders[o] EXCEPT !.request = NULL]
    BY <2>1, <1>2 DEF SetsParcels
  <2>3. orders'[o] \in Order
    BY <2>1, <2>2 DEF Order
  <2> QED
    BY <2>1, <2>2, <2>3, NullIsNothing DEF Order
<1>3. \A o \in Orders : orders'[o] \in Order \cup {NULL}
  BY <1>1, <1>2
<1>4. Live' = Live
  BY <1>1, <1>2 DEF Live
<1> QED
  BY <1>1, <1>2, <1>3, <1>4

LEMMA CountPreserves ==
  ASSUME TypeInv, NEW h \in Servers, ReadRequest(h) \/ UpdateActualParcelsCount(h)
  PROVE  TypeInv'
PROOF
<1> PICK job : job = jobs[h]
  OBVIOUS
<1>1. /\ JobOK(job) /\ job \in Job /\ job.request \in Pickups /\ Known(job.request)
      /\ job.step = "counted" => job.row \in PickupRequest /\ job.row.day <= today
      /\ job.step \in {"read", "counted"}
  <2>1. job.step \in {"read", "counted"}
    BY DEF ReadRequest, UpdateActualParcelsCount, At
  <2> QED
    BY <2>1, Held DEF JobOK, Job, IntakeSteps
<1>2. CASE ReadRequest(h)
  <2> PICK row, linked : row = requests[job.request] /\ linked = Linked(job.request)
    OBVIOUS
  <2> PICK e : e = [job EXCEPT !.step = "counted", !.row = row, !.linked = linked]
    OBVIOUS
  <2>1. row \in PickupRequest /\ row # NULL /\ row.day <= today
    BY <1>1 DEF TypeInv, TablesOK, Known
  <2>2. linked \in SUBSET Live /\ linked \in SUBSET Orders
    BY DEF Linked, Live
  <2>3. IsFiniteSet(linked)
    BY <2>2, Arithmetic
  <2>4. /\ e \in Job /\ e.step = "counted" /\ e.request = job.request /\ e.row = row
        /\ e.linked = linked
    BY <1>1, <2>1, <2>2 DEF Job, IntakeSteps
  <2>5. JobOK(e)
    BY <1>1, <2>1, <2>3, <2>4, NullIsNothing DEF JobOK
  <2>6. Continues(h, e) /\ UNCHANGED <<tables, today, history>>
    BY <1>2 DEF ReadRequest
  <2> QED
    BY <2>5, <2>6, TurnsOnly
<1>3. CASE UpdateActualParcelsCount(h)
  <2> PICK r, n, row : /\ r = job.request /\ n = Cardinality(job.linked)
                       /\ row = [job.row EXCEPT !.actual = n, !.estimated = AtLeast(n, @)]
    OBVIOUS
  <2>1. job.step = "counted" /\ n \in Nat /\ r \in Pickups
    BY <1>1, <1>3, Arithmetic DEF UpdateActualParcelsCount, At, JobOK
  <2>2. row \in PickupRequest /\ row.day = job.row.day /\ row # NULL
    <3>1. row \in PickupRequest /\ row.day = job.row.day
      BY <1>1, <2>1 DEF PickupRequest, AtLeast
    <3> QED
      BY <3>1, NullIsNothing
  <2>3. /\ requests' = [requests EXCEPT ![r] = row] /\ SetsParcels(r, job.linked)
        /\ Continues(h, Idle)
        /\ UNCHANGED <<customers, storeHub, today, gone, missed, touched, refused>>
    BY <1>3 DEF UpdateActualParcelsCount, Ends, history
  <2>4. /\ orders' \in [Orders -> Order \cup {NULL}] /\ Live' = Live
        /\ \A o \in Live : orders'[o].request \in {orders[o].request, r, NULL}
    BY <2>1, <2>3, SettingParcels
  <2>5. /\ requests' \in [Pickups -> PickupRequest \cup {NULL}]
        /\ requests'[r] = row /\ \A q \in Pickups \ {r} : requests'[q] = requests[q]
    BY <2>1, <2>2, <2>3 DEF TypeInv, TablesOK
  <2>6. \A q \in Pickups : Known(q) => Known(q)'
    BY <2>2, <2>5 DEF Known
  <2>7. \A q \in Pickups : Known(q)' => requests'[q].day <= today'
    BY <1>1, <2>1, <2>2, <2>3, <2>5 DEF Known, TypeInv, TablesOK
  <2>8. \A o \in Live : orders'[o].request # NULL => requests'[orders'[o].request] # NULL
    <3>1. \A o \in Live : orders[o].request # NULL => orders[o].request \in Pickups
      BY DEF TypeInv, TablesOK, Live, Order
    <3>2. requests'[r] # NULL /\ \A q \in Pickups : requests[q] # NULL => requests'[q] # NULL
      BY <2>2, <2>5, <2>6 DEF Known
    <3> QED
      BY <2>4, <3>1, <3>2 DEF TypeInv, TablesOK, Known
  <2>9. TablesOK'
    BY <2>3, <2>4, <2>5, <2>7, <2>8 DEF TypeInv, TablesOK, Known
  <2>10. Forward
    BY <2>3, <2>6, Arithmetic DEF Forward
  <2> QED
    BY <2>3, <2>9, <2>10, Turning
<1> QED
  BY <1>2, <1>3

LEMMA EndsPreserve ==
  ASSUME TypeInv, NEW h \in Servers, HandlerFails(h) \/ \E o \in Orders : RemoveParcel(h, o)
  PROVE  TypeInv'
PROOF
<1>1. CASE HandlerFails(h)
  <2> PICK job : job = jobs[h]
    OBVIOUS
  <2>1. JobOK(job) /\ job \in Job
    BY <1>1, Held DEF HandlerFails
  <2>2. missed' \subseteq Pickups
    BY <1>1, <2>1 DEF HandlerFails, JobOK, Job, TypeInv, TablesOK
  <2>3. UNCHANGED <<orders, requests, customers, storeHub, today, gone, touched, refused>>
    BY <1>1 DEF HandlerFails, tables
  <2>4. Live' = Live
    BY <2>3 DEF Live
  <2>5. TablesOK' /\ Forward
    BY <2>2, <2>3, <2>4, Arithmetic DEF TypeInv, TablesOK, Known, Forward
  <2> QED
    BY <1>1, <2>5, Turning DEF HandlerFails, Ends
<1>2. ASSUME NEW o \in Orders, RemoveParcel(h, o)
      PROVE  TypeInv'
  <2>1. /\ orders' = [orders EXCEPT ![o] = NULL] /\ gone' = gone \cup {o} /\ o \in Live
        /\ missed' = missed \cup ({orders[o].request} \ {NULL})
        /\ UNCHANGED <<requests, customers, storeHub, today, jobs, alone, touched, refused>>
    BY <1>2 DEF RemoveParcel
  <2>2. orders[o] \in Order
    BY <2>1 DEF TypeInv, TablesOK, Live
  <2>3. missed' \subseteq Pickups
    BY <2>1, <2>2 DEF TypeInv, TablesOK, Order
  <2>4. Live' \subseteq Live /\ \A p \in Live' : orders'[p] = orders[p]
    BY <2>1 DEF Live, TypeInv, TablesOK
  <2>5. IsFiniteSet(Live')
    BY <2>4, Arithmetic
  <2>6. TablesOK' /\ Forward
    BY <2>1, <2>3, <2>4, <2>5, Arithmetic DEF TypeInv, TablesOK, Known, Forward
  <2> QED
    BY <2>1, <2>6, JobsPersist
<1> QED
  BY <1>1, <1>2

\* The row of a pickup request is read, and will be saved with a change.
LEMMA HandlingPreserves ==
  ASSUME TypeInv, NEW h \in Servers, NEW r \in Pickups, NEW statuses, NEW row \in PickupRequest,
         row.day <= today, Handles(h, r, statuses, row)
  PROVE  TypeInv'
PROOF
<1> PICK e : e = [NewJob EXCEPT !.step = "put", !.request = r, !.row = row]
  OBVIOUS
<1>1. /\ e \in Job /\ e.step = "put" /\ e.request = r /\ e.row = row /\ e.linked = NewJob.linked
  BY NewJobOK DEF Job, IntakeSteps
<1>2. Known(r) /\ row # NULL /\ r # NULL
  BY NullIsNothing DEF Handles, Known
<1>3. JobOK(e)
  BY <1>1, <1>2, NewJobOK DEF JobOK
<1>4. Starts(h, e) /\ UNCHANGED <<tables, today, history>>
  BY DEF Handles
<1> QED
  BY <1>3, <1>4, TurnsOnly

LEMMA PickupPreserves ==
  ASSUME TypeInv, NEW h \in Servers, PickupStep(h)
  PROVE  TypeInv'
PROOF
<1>1. ASSUME NEW r \in Pickups, Known(r)
      PROVE  /\ requests[r] \in PickupRequest /\ requests[r].day <= today
             /\ \A status \in PickupRequestStatus :
                  Sets(r, status) \in PickupRequest /\ Sets(r, status).day <= today
             /\ \A n \in Estimates : [requests[r] EXCEPT !.estimated = n] \in PickupRequest
                                     /\ [requests[r] EXCEPT !.estimated = n].day <= today
             /\ \A rider \in Riders : [requests[r] EXCEPT !.rider = rider] \in PickupRequest
                                      /\ [requests[r] EXCEPT !.rider = rider].day <= today
  <2>1. requests[r] \in PickupRequest /\ requests[r].day <= today
    BY <1>1 DEF TypeInv, TablesOK, Known
  <2> QED
    BY <2>1, IntakeAssumption DEF PickupRequest, Sets
<1>2. ASSUME NEW s \in Stores, NEW n \in Estimates, CreatePickupRequest(h, s, n)
      PROVE  TypeInv'
  <2> PICK e : e = [NewJob EXCEPT !.step = "announce", !.store = s, !.estimated = n]
    OBVIOUS
  <2>1. /\ e \in Job /\ e.step = "announce" /\ e.store = s /\ e.linked = NewJob.linked
        /\ e.request = NULL
    BY NewJobOK, IntakeAssumption DEF Job, IntakeSteps
  <2>2. /\ storeHub[s] # NULL /\ s # NULL /\ Starts(h, e) /\ UNCHANGED <<tables, today, history>>
    BY <1>2, NullIsNothing DEF CreatePickupRequest
  <2>3. JobOK(e)
    BY <2>1, <2>2, NewJobOK DEF JobOK
  <2> QED
    BY <2>2, <2>3, TurnsOnly
<1>3. CASE SaveNewRequest(h)
  BY <1>3, RequestStepsPreserve
<1>4. CASE SaveRequest(h)
  <2> PICK job, r, row : job = jobs[h] /\ r = job.request /\ row = job.row
    OBVIOUS
  <2>1. /\ r \in Pickups /\ row \in PickupRequest /\ row # NULL /\ row.day <= today /\ Known(r)
    <3>1. job.step = "put"
      BY <1>4 DEF SaveRequest, At
    <3> QED
      BY <3>1, Held DEF JobOK, Job, IntakeSteps
  <2>2. /\ requests' = [requests EXCEPT ![r] = row] /\ Continues(h, Idle)
        /\ UNCHANGED <<orders, customers, storeHub, today, gone, missed, touched, refused>>
    BY <1>4 DEF SaveRequest, Ends, history
  <2>3. /\ requests' \in [Pickups -> PickupRequest \cup {NULL}]
        /\ requests'[r] = row /\ \A q \in Pickups \ {r} : requests'[q] = requests[q]
    BY <2>1, <2>2 DEF TypeInv, TablesOK
  <2>4. \A q \in Pickups : Known(q) => Known(q)'
    BY <2>1, <2>3 DEF Known
  <2>5. \A q \in Pickups : Known(q)' => requests'[q].day <= today
    BY <2>1, <2>3 DEF Known, TypeInv, TablesOK
  <2>6. Live' = Live /\ \A o \in Live : orders[o].request # NULL => orders[o].request \in Pickups
    BY <2>2 DEF TypeInv, TablesOK, Live, Order
  <2>7. TablesOK'
    BY <2>2, <2>3, <2>4, <2>5, <2>6 DEF TypeInv, TablesOK
  <2>8. Forward
    BY <2>2, <2>4, Arithmetic DEF Forward
  <2> QED
    BY <2>2, <2>7, <2>8, Turning
<1>5. ASSUME NEW r \in Pickups,
             \/ \E n \in Estimates : UpdatePickupRequest(h, r, n)
             \/ Confirm(h, r) \/ MarkAsPickedUp(h, r) \/ Cancel(h, r)
             \/ \E rider \in Riders :
                  AssignPickupToRider(h, r, rider) \/ RiderCompletePickup(h, r, rider)
      PROVE  TypeInv'
  <2>1. Known(r)
    BY <1>5 DEF UpdatePickupRequest, Confirm, MarkAsPickedUp, Cancel, AssignPickupToRider,
                RiderCompletePickup, Handles, Known
  <2>2. PICK statuses, row : /\ row \in PickupRequest /\ row.day <= today
                             /\ Handles(h, r, statuses, row)
    BY <1>1, <1>5, <2>1 DEF UpdatePickupRequest, Confirm, MarkAsPickedUp, Cancel,
                            AssignPickupToRider, RiderCompletePickup, PickupRequestStatus
  <2> QED
    BY <2>2, HandlingPreserves
<1> QED
  BY <1>2, <1>3, <1>4, <1>5 DEF PickupStep

LEMMA CustomerPreserves ==
  ASSUME TypeInv, NEW h \in Servers, CustomerStep(h)
  PROVE  TypeInv'
PROOF
<1>1. ASSUME NEW e, e \in Job, e.step \in {"register", "rename"}, e.phone # NULL,
             e.step = "rename" => e.customer # NULL, e.request = NULL, e.linked = NewJob.linked,
             Starts(h, e), UNCHANGED <<tables, today, history>>
      PROVE  TypeInv'
  <2>1. JobOK(e)
    BY <1>1, NewJobOK DEF JobOK
  <2> QED
    BY <1>1, <2>1, TurnsOnly
<1>2. ASSUME NEW p \in Phones, CreateCustomer(h, p)
      PROVE  TypeInv'
  <2> PICK e : e = [NewJob EXCEPT !.step = "register", !.phone = p]
    OBVIOUS
  <2>1. e \in Job /\ e.step = "register" /\ e.phone = p /\ e.request = NULL /\ e.linked = NewJob.linked
    BY NewJobOK DEF Job, IntakeSteps
  <2> QED
    BY <1>1, <1>2, <2>1, NullIsNothing DEF CreateCustomer
<1>3. ASSUME NEW c \in Customers, NEW p \in Phones, UpdateCustomer(h, c, p)
      PROVE  TypeInv'
  <2> PICK e : e = [NewJob EXCEPT !.step = "rename", !.customer = c, !.phone = p]
    OBVIOUS
  <2>1. /\ e \in Job /\ e.step = "rename" /\ e.phone = p /\ e.customer = c /\ e.request = NULL
        /\ e.linked = NewJob.linked
    BY NewJobOK DEF Job, IntakeSteps
  <2> QED
    BY <1>1, <1>3, <2>1, NullIsNothing DEF UpdateCustomer
<1> PICK job : job = jobs[h]
  OBVIOUS
<1>4. ASSUME NEW step \in {"register", "rename"}, At(h, step)
      PROVE  job.phone \in Phones /\ (step = "rename" => job.customer \in Customers)
  BY <1>4, Held DEF At, JobOK, Job, IntakeSteps
\* Whatever is written to the customers, orders and pickup requests stay.
<1>5. ASSUME customers' \in [Customers -> Phones \cup {NULL}],
             UNCHANGED <<orders, requests, storeHub, today, missed>>,
             gone' \subseteq Orders \cup Customers, touched' \in BOOLEAN, refused' \in BOOLEAN
      PROVE  TablesOK' /\ Forward
  <2>1. Live' = Live /\ today \in Int
    BY <1>5, Arithmetic DEF Live
  <2> QED
    BY <1>5, <2>1 DEF TypeInv, TablesOK, Known, Forward
<1>6. CASE SaveCustomer(h)
  <2>1. job.phone \in Phones
    BY <1>4, <1>6 DEF SaveCustomer
  <2>2. (\E c \in Customers : InsertsCustomer(c, job.phone)) \/ UNCHANGED <<tables, today, history>>
    BY <1>6 DEF SaveCustomer
  <2>3. TablesOK' /\ Forward
    BY <2>1, <2>2, InsertingCustomer, Untouched
  <2> QED
    BY <1>6, <2>3, Turning DEF SaveCustomer, Ends
<1>7. CASE SaveCustomerUpdate(h)
  <2> PICK c, p : c = job.customer /\ p = job.phone
    OBVIOUS
  <2>1. c \in Customers /\ p \in Phones
    BY <1>4, <1>7 DEF SaveCustomerUpdate
  <2>2. /\ \/ customers' = [customers EXCEPT ![c] = p] /\ touched' = (touched \/ customers[c] # p)
           \/ UNCHANGED <<customers, touched>>
        /\ Continues(h, Idle) /\ UNCHANGED <<orders, requests, storeHub, today, gone, missed, refused>>
    BY <1>7 DEF SaveCustomerUpdate, Ends
  <2>3. customers' \in [Customers -> Phones \cup {NULL}] /\ touched' \in BOOLEAN
    BY <2>1, <2>2 DEF TypeInv, TablesOK
  <2>4. gone \subseteq Orders \cup Customers /\ refused \in BOOLEAN
    BY DEF TypeInv, TablesOK
  <2> QED
    BY <1>5, <2>2, <2>3, <2>4, Turning
<1>8. ASSUME NEW c \in Customers, RemoveCustomer(h, c)
      PROVE  TypeInv'
  <2>1. /\ customers' = [customers EXCEPT ![c] = NULL] /\ gone' = gone \cup {c} /\ touched' = TRUE
        /\ UNCHANGED <<orders, requests, storeHub, today, jobs, alone, missed, refused>>
    BY <1>8 DEF RemoveCustomer
  <2>2. customers' \in [Customers -> Phones \cup {NULL}] /\ gone' \subseteq Orders \cup Customers
    BY <2>1 DEF TypeInv, TablesOK
  <2>3. TablesOK' /\ Forward
    BY <1>5, <2>1, <2>2 DEF TypeInv, TablesOK
  <2> QED
    BY <2>1, <2>3, JobsPersist
<1> QED
  BY <1>2, <1>3, <1>6, <1>7, <1>8 DEF CustomerStep

\* A store gets its hub, or a day passes.
LEMMA WorldPreserves ==
  ASSUME TypeInv, Midnight \/ \E s \in Stores, hub \in Hubs : AssignHubToStore(s, hub)
  PROVE  TypeInv'
PROOF
<1>1. /\ UNCHANGED <<orders, requests, customers, jobs, alone, gone, missed, touched, refused>>
      /\ storeHub' \in [Stores -> Hubs \cup {NULL}] /\ today' \in Days /\ today <= today'
      /\ \A s \in Stores : storeHub[s] # NULL => storeHub'[s] # NULL
  <2>1. CASE Midnight
    BY <2>1, Arithmetic DEF Midnight, tables, history, TypeInv, TablesOK, Days
  <2>2. CASE \E s \in Stores, hub \in Hubs : AssignHubToStore(s, hub)
    BY <2>2, Arithmetic DEF AssignHubToStore, history, TypeInv, TablesOK
  <2> QED
    BY <2>1, <2>2
<1>2. Live' = Live /\ today \in Int /\ today' \in Int
  BY <1>1, Arithmetic DEF Live, Days
<1>3. \A r \in Pickups : Known(r)' => requests'[r].day <= today'
  <2>1. ASSUME NEW r \in Pickups, Known(r) PROVE requests[r].day <= today'
    <3>1. requests[r].day \in Int /\ requests[r].day <= today
      BY <2>1, IntakeAssumption DEF TypeInv, TablesOK, Known, PickupRequest, Days
    <3> QED
      BY <1>1, <1>2, <3>1
  <2> QED
    BY <1>1, <2>1 DEF Known
<1>4. TablesOK' /\ Forward
  BY <1>1, <1>2, <1>3 DEF TypeInv, TablesOK, Known, Forward
<1> QED
  BY <1>1, <1>4, JobsPersist

LEMMA TypeStep == TypeInv /\ [IntakeNext]_intakeVars => TypeInv'
PROOF
<1> SUFFICES ASSUME TypeInv, [IntakeNext]_intakeVars PROVE TypeInv'
  OBVIOUS
<1>1. CASE UNCHANGED intakeVars
  BY <1>1, Untouched, JobsPersist DEF intakeVars
<1>2. ASSUME NEW h \in Servers, PostStep(h) PROVE TypeInv'
  BY <1>2, CreatePreserves, RequestStepsPreserve, FindingPreserves, SaveParcelPreserves,
     CountPreserves, EndsPreserve DEF PostStep
<1>3. ASSUME NEW h \in Servers, PickupStep(h) \/ CustomerStep(h) PROVE TypeInv'
  BY <1>3, PickupPreserves, CustomerPreserves
<1>4. CASE Midnight \/ \E s \in Stores, hub \in Hubs : AssignHubToStore(s, hub)
  BY <1>4, WorldPreserves
<1> QED
  BY <1>1, <1>2, <1>3, <1>4 DEF IntakeNext

\* However requests overlap and fail: every row and every job is well-typed.  A
\* handler never inserts a pickup request without a hub or saves an order without a
\* customer or a number, and what it counts is finite.
THEOREM TypeCorrect == IntakeSpec => []IntakeTypeOK
PROOF
<1>1. IntakeInit => TypeInv
  BY TypeInit
<1>2. TypeInv /\ [IntakeNext]_intakeVars => TypeInv'
  BY TypeStep
<1>3. TypeInv => IntakeTypeOK
  BY DEF TypeInv, TablesOK, JobsOK, JobOK, IntakeTypeOK, Idle, IntakeSteps
<1> QED
  BY <1>1, <1>2, <1>3, PTL DEF IntakeSpec

-----------------------------------------------------------------------------
(* Which action brings a handler to its step.                              *)

LEMMA Entering ==
  ASSUME TypeInv, NEW h \in Servers, PostStep(h) \/ PickupStep(h) \/ CustomerStep(h)
  PROVE  /\ \A j \in Servers \ {h} : jobs'[j] = jobs[j]
         /\ jobs'[h].step = "order" => GenerateTrackingNumber(h)
         /\ jobs'[h].step = "again" => CreateCustomerOfParcel(h)
PROOF
<1> DEFINE Goes(steps) ==
      jobs'[h].step \in steps /\ \A j \in Servers \ {h} : jobs'[j] = jobs[j]
<1>1. jobs = [k \in Servers |-> jobs[k]]
  BY DEF TypeInv, JobsTotal
<1>2. jobs[h].step \in IntakeSteps => jobs[h] \in Job
  BY Held
<1>3. Ends(h) => Goes({"idle"})
  BY <1>1 DEF Ends, Continues, Idle
<1>4. CASE \E s \in Stores, p \in Phones : Create(h, s, p)
  <2>1. Goes({"find", "request"})
    BY <1>1, <1>4 DEF Create, Starts, NewJob
  <2> QED
    BY <2>1
<1>5. CASE FindOrCreateActiveForStore(h) \/ RequestFails(h)
  <2>1. jobs[h] \in Job
    BY <1>2, <1>5 DEF FindOrCreateActiveForStore, RequestFails, At, IntakeSteps
  <2>2. Goes({"find"})
    BY <1>1, <1>5, <2>1 DEF FindOrCreateActiveForStore, RequestFails, Continues, Job
  <2> QED
    BY <2>2
<1>6. CASE FindCustomer(h)
  <2>1. jobs[h] \in Job
    BY <1>2, <1>6 DEF FindCustomer, At, IntakeSteps
  <2>2. Goes({"count", "customer"})
    BY <1>1, <1>6, <2>1 DEF FindCustomer, Continues, Job
  <2> QED
    BY <2>2
<1>7. CASE CreateCustomerOfParcel(h)
  <2>1. jobs[h] \in Job
    BY <1>2, <1>7 DEF CreateCustomerOfParcel, At, IntakeSteps
  <2>2. Goes({"count", "again"})
    BY <1>1, <1>7, <2>1 DEF CreateCustomerOfParcel, Continues, Job
  <2> QED
    BY <1>7, <2>2
<1>8. CASE FindCustomerAgain(h)
  <2>1. jobs[h] \in Job
    BY <1>2, <1>8 DEF FindCustomerAgain, At, IntakeSteps
  <2>2. CASE Ends(h)
    BY <1>3, <2>2
  <2>3. CASE \E c : Continues(h, [jobs[h] EXCEPT !.step = "count", !.customer = c])
    <3>1. Goes({"count"})
      BY <1>1, <2>1, <2>3 DEF Continues, Job
    <3> QED
      BY <3>1
  <2> QED
    BY <1>8, <2>2, <2>3 DEF FindCustomerAgain
<1>9. CASE GenerateTrackingNumber(h)
  <2>1. jobs[h] \in Job
    BY <1>2, <1>9 DEF GenerateTrackingNumber, At, IntakeSteps
  <2>2. Goes({"order"})
    BY <1>1, <1>9, <2>1 DEF GenerateTrackingNumber, Continues, Job
  <2> QED
    BY <1>9, <2>2
<1>10. CASE SaveParcel(h)
  <2>1. CASE Ends(h)
    BY <1>3, <2>1
  <2>2. CASE \E r : Continues(h, [NewJob EXCEPT !.step = "read", !.request = r])
    <3>1. Goes({"read"})
      BY <1>1, <2>2 DEF Continues, NewJob
    <3> QED
      BY <3>1
  <2> QED
    BY <1>10, <2>1, <2>2 DEF SaveParcel
<1>11. CASE ReadRequest(h)
  <2>1. jobs[h] \in Job
    BY <1>2, <1>11 DEF ReadRequest, At, IntakeSteps
  <2>2. Goes({"counted"})
    BY <1>1, <1>11, <2>1 DEF ReadRequest, Continues, Job
  <2> QED
    BY <2>2
<1>12. CASE \/ UpdateActualParcelsCount(h) \/ HandlerFails(h) \/ SaveNewRequest(h)
            \/ SaveRequest(h) \/ SaveCustomer(h) \/ SaveCustomerUpdate(h)
  BY <1>3, <1>12 DEF UpdateActualParcelsCount, HandlerFails, SaveNewRequest, SaveRequest,
                     SaveCustomer, SaveCustomerUpdate
<1>13. CASE (\E o \in Orders : RemoveParcel(h, o)) \/ \E c \in Customers : RemoveCustomer(h, c)
  BY <1>13 DEF RemoveParcel, RemoveCustomer, Idle
<1>14. CASE \/ \E s \in Stores, n \in Estimates : CreatePickupRequest(h, s, n)
            \/ \E p \in Phones : CreateCustomer(h, p)
            \/ \E c \in Customers, p \in Phones : UpdateCustomer(h, c, p)
  <2>1. Goes({"announce", "register", "rename"})
    BY <1>1, <1>14 DEF CreatePickupRequest, CreateCustomer, UpdateCustomer, Starts, NewJob
  <2> QED
    BY <2>1
<1>15. CASE \E r \in Pickups :
              \/ \E n \in Estimates : UpdatePickupRequest(h, r, n)
              \/ Confirm(h, r) \/ MarkAsPickedUp(h, r) \/ Cancel(h, r)
              \/ \E rider \in Riders : AssignPickupToRider(h, r, rider) \/ RiderCompletePickup(h, r, rider)
  <2>1. PICK r, statuses, row : Handles(h, r, statuses, row)
    BY <1>15 DEF UpdatePickupRequest, Confirm, MarkAsPickedUp, Cancel, AssignPickupToRider,
                 RiderCompletePickup
  <2>2. Goes({"put"})
    BY <1>1, <2>1 DEF Handles, Starts, NewJob
  <2> QED
    BY <2>2
<1> QED
  BY <1>4, <1>5, <1>6, <1>7, <1>8, <1>9, <1>10, <1>11, <1>12, <1>13, <1>14, <1>15
     DEF PostStep, PickupStep, CustomerStep

\* Three actions write orders.
LEMMA OrdersWritten ==
  ASSUME NEW h \in Servers, PostStep(h) \/ PickupStep(h) \/ CustomerStep(h)
  PROVE  /\ today' = today /\ gone \subseteq gone'
         /\ \/ orders' = orders
            \/ SaveParcel(h) \/ UpdateActualParcelsCount(h) \/ \E o \in Orders : RemoveParcel(h, o)
PROOF
<1> USE DEF tables, history
<1>1. ASSUME PostStep(h)
      PROVE  /\ today' = today /\ gone \subseteq gone'
             /\ \/ orders' = orders
                \/ SaveParcel(h) \/ UpdateActualParcelsCount(h) \/ \E o \in Orders : RemoveParcel(h, o)
  BY <1>1 DEF PostStep, Create, FindOrCreateActiveForStore, InsertsRequest, RequestFails, FindCustomer,
              CreateCustomerOfParcel, InsertsCustomer, FindCustomerAgain, GenerateTrackingNumber,
              SaveParcel, ReadRequest, UpdateActualParcelsCount, HandlerFails, RemoveParcel
<1>2. ASSUME PickupStep(h)
      PROVE  today' = today /\ gone' = gone /\ orders' = orders
  BY <1>2 DEF PickupStep, CreatePickupRequest, SaveNewRequest, InsertsRequest, SaveRequest, Handles,
              UpdatePickupRequest, Confirm, MarkAsPickedUp, Cancel, AssignPickupToRider,
              RiderCompletePickup
<1>3. ASSUME CustomerStep(h)
      PROVE  today' = today /\ gone \subseteq gone' /\ orders' = orders
  BY <1>3 DEF CustomerStep, CreateCustomer, RemoveCustomer, UpdateCustomer, SaveCustomer,
              SaveCustomerUpdate, InsertsCustomer
<1> QED
  BY <1>1, <1>2, <1>3

-----------------------------------------------------------------------------
(* Tracking numbers.                                                       *)

LEMMA NumbersInit == IntakeInit => NumbersBehind
PROOF
<1>1. ASSUME IntakeInit PROVE Live = {} /\ \A h \in Servers : ~At(h, "order")
  BY <1>1, Resting DEF IntakeInit, Live, At, Idle
<1> QED
  BY <1>1 DEF NumbersBehind

LEMMA TodaysOrdersType == TypeInv => TodaysOrders \in Nat
PROOF
<1>1. {o \in Live : orders[o].day = today} \in SUBSET Live
  OBVIOUS
<1> QED
  BY <1>1, Arithmetic DEF TodaysOrders

\* The day's count and the orders' numbers stay; a handler may take the next one.
LEMMA NumbersStay ==
  ASSUME TypeInv, NumbersBehind, today' = today, gone \subseteq gone', Live' = Live,
         \A o \in Live : orders'[o].day = orders[o].day /\ orders'[o].number = orders[o].number,
         \A j \in Servers : jobs'[j].step = "order" =>
           jobs'[j] = jobs[j] \/ jobs'[j].number = NextNumber
  PROVE  NumbersBehind'
PROOF
<1> DEFINE todays == {o \in Live : orders[o].day = today}
<1>1. todays' = todays
  OBVIOUS
<1>2. TodaysOrders' = TodaysOrders /\ NextNumber = <<today, TodaysOrders + 1>>
  BY <1>1 DEF TodaysOrders, NextNumber
<1>3. TodaysOrders \in Nat /\ today \in Int
  BY TodaysOrdersType, Arithmetic
<1> SUFFICES ASSUME gone' \cap Orders = {}
             PROVE  /\ \A o \in Live : UpTo(orders'[o].number, TodaysOrders)
                    /\ \A j \in Servers : jobs'[j].step = "order" => UpTo(jobs'[j].number, TodaysOrders + 1)
  BY <1>2 DEF NumbersBehind, UpTo, At
<1>4. UpTo(NextNumber, TodaysOrders + 1)
  BY <1>2, <1>3 DEF UpTo
<1>5. \A o \in Live : UpTo(orders[o].number, TodaysOrders)
  BY DEF NumbersBehind
<1>6. \A j \in Servers : jobs[j].step = "order" => UpTo(jobs[j].number, TodaysOrders + 1)
  BY DEF NumbersBehind, At
<1> QED
  BY <1>4, <1>5, <1>6

LEMMA NumbersStep == TypeInv /\ NumbersBehind /\ [IntakeNext]_intakeVars => NumbersBehind'
PROOF
<1> SUFFICES ASSUME TypeInv, NumbersBehind, [IntakeNext]_intakeVars PROVE NumbersBehind'
  OBVIOUS
<1>1. orders' = orders => Live' = Live
  BY DEF Live
<1>2. CASE UNCHANGED intakeVars
  BY <1>1, <1>2, NumbersStay DEF intakeVars, tables, history
<1>3. CASE \E s \in Stores, hub \in Hubs : AssignHubToStore(s, hub)
  BY <1>1, <1>3, NumbersStay DEF AssignHubToStore, history
<1>4. CASE Midnight
  <2>1. today' = today + 1 /\ UNCHANGED <<orders, jobs, gone>> /\ today \in Int
    BY <1>4, Arithmetic DEF Midnight, tables, history
  <2>2. ASSUME NEW n \in Tracking, n[1] <= today PROVE n[1] <= today' /\ n[1] # today'
    <3>1. n[1] \in Int
      BY IntakeAssumption DEF Tracking, Days
    <3> QED
      BY <2>1, <2>2, <3>1
  <2>3. \A o \in Live : orders[o].number \in Tracking
    BY DEF TypeInv, TablesOK, Live, Order
  <2>4. \A j \in Servers : jobs[j].step = "order" => jobs[j].number \in Tracking
    BY Held DEF JobOK, Job, IntakeSteps
  <2> QED
    BY <1>1, <2>1, <2>2, <2>3, <2>4 DEF NumbersBehind, UpTo, At
<1>5. ASSUME NEW h \in Servers, PostStep(h) \/ PickupStep(h) \/ CustomerStep(h)
      PROVE  NumbersBehind'
  <2>1. /\ today' = today /\ gone \subseteq gone'
        /\ \A j \in Servers \ {h} : jobs'[j] = jobs[j]
        /\ jobs'[h].step = "order" => GenerateTrackingNumber(h)
    BY <1>5, OrdersWritten, Entering
  <2>2. GenerateTrackingNumber(h) => jobs'[h].number = NextNumber
    <3>1. GenerateTrackingNumber(h) => jobs[h] \in Job
      BY Held DEF GenerateTrackingNumber, At, IntakeSteps
    <3> QED
      BY <3>1 DEF GenerateTrackingNumber, Continues, Job, TypeInv, JobsTotal
  <2>3. \A j \in Servers : jobs'[j].step = "order" => jobs'[j] = jobs[j] \/ jobs'[j].number = NextNumber
    BY <2>1, <2>2
  <2>4. CASE orders' = orders
    BY <1>1, <2>1, <2>3, <2>4, NumbersStay
  <2>5. CASE UpdateActualParcelsCount(h)
    <3> PICK r, list : r = jobs[h].request /\ list = jobs[h].linked
      OBVIOUS
    <3>1. SetsParcels(r, list) /\ r \in Pickups
      BY <2>5, Held DEF UpdateActualParcelsCount, At, JobOK, Job, IntakeSteps
    <3> QED
      BY <2>1, <2>3, <3>1, SettingParcels, NumbersStay
  <2>6. CASE \E o \in Orders : RemoveParcel(h, o)
    <3>1. gone' \cap Orders # {}
      BY <2>6 DEF RemoveParcel
    <3> QED
      BY <3>1 DEF NumbersBehind
  <2>7. CASE SaveParcel(h) /\ orders' # orders
    <3> PICK job : job = jobs[h]
      OBVIOUS
    <3>1. PICK o \in Orders \ gone :
            /\ orders[o] = NULL
            /\ orders' = [orders EXCEPT ![o] =
                 [day |-> today, number |-> job.number, store |-> job.store,
                  customer |-> job.customer, request |-> job.request]]
      BY <2>7 DEF SaveParcel, tables
    <3>2. jobs[h].step = "order" /\ job.number \in Tracking
      BY <2>7, Held DEF SaveParcel, At, JobOK, Job, IntakeSteps
    <3>3. /\ orders'[o].day = today /\ orders'[o].number = job.number /\ orders'[o] # NULL
          /\ \A p \in Orders \ {o} : orders'[p] = orders[p]
      <4>1. orders'[o] = [day |-> today, number |-> job.number, store |-> job.store,
                          customer |-> job.customer, request |-> job.request]
        BY <3>1 DEF TypeInv, TablesOK
      <4>2. orders'[o] \in Order
        <5>1. job \in Job /\ job.store \in Stores /\ job.customer \in Customers
          BY <2>7, Held DEF SaveParcel, At, JobOK, Job, IntakeSteps
        <5> QED
          BY <3>2, <4>1, <5>1 DEF Order, Job, TypeInv, TablesOK
      <4> QED
        BY <3>1, <4>1, <4>2, NullIsNothing DEF TypeInv, TablesOK
    <3>4. Live' = Live \cup {o} /\ o \notin Live
      BY <3>1, <3>3 DEF Live
    <3> DEFINE todays == {p \in Live : orders[p].day = today}
    <3>5. todays' = todays \cup {o} /\ o \notin todays /\ todays \in SUBSET Live
      BY <2>1, <3>3, <3>4 DEF Live
    <3>6. IsFiniteSet(todays)
      BY <3>5, Arithmetic
    <3>7. TodaysOrders' = TodaysOrders + 1 /\ TodaysOrders \in Nat
      BY <3>5, <3>6, FS_AddElement, TodaysOrdersType DEF TodaysOrders
    <3> SUFFICES ASSUME gone' \cap Orders = {} PROVE NumbersBehind'
      BY DEF NumbersBehind
    <3>8. UpTo(job.number, TodaysOrders + 1)
      BY <2>1, <3>2 DEF NumbersBehind, At
    <3>9. ASSUME NEW n \in Tracking, UpTo(n, TodaysOrders) \/ UpTo(n, TodaysOrders + 1)
          PROVE  UpTo(n, TodaysOrders + 1) /\ UpTo(n, TodaysOrders + 2)
      <4>1. n[2] \in Int
        BY DEF Tracking
      <4> QED
        BY <3>7, <3>9, <4>1 DEF UpTo
    <3>10. \A p \in Live : orders[p].number \in Tracking /\ UpTo(orders[p].number, TodaysOrders)
      BY <2>1 DEF NumbersBehind, TypeInv, TablesOK, Live, Order
    <3>11. ASSUME NEW p \in Live' PROVE UpTo(orders'[p].number, TodaysOrders + 1)
      <4>1. CASE p = o
        BY <3>3, <3>8, <4>1
      <4>2. CASE p # o
        BY <3>3, <3>4, <3>9, <3>10, <4>2 DEF Live
      <4> QED
        BY <4>1, <4>2
    <3>12. ASSUME NEW j \in Servers, jobs'[j].step = "order" PROVE UpTo(jobs'[j].number, TodaysOrders + 2)
      <4>1. jobs'[j] = jobs[j]
        BY <2>1, <2>7, <3>2, <3>12 DEF GenerateTrackingNumber, At
      <4>2. jobs[j].number \in Tracking /\ UpTo(jobs[j].number, TodaysOrders + 1)
        BY <2>1, <3>12, <4>1, Held DEF NumbersBehind, At, JobOK, Job, IntakeSteps
      <4> QED
        BY <3>9, <4>1, <4>2
    <3>13. today' = today /\ TodaysOrders' + 1 = TodaysOrders + 2
      BY <2>1, <3>7
    <3> QED
      BY <3>7, <3>11, <3>12, <3>13 DEF NumbersBehind, UpTo, At
  <2> QED
    BY <1>5, <2>4, <2>5, <2>6, <2>7, OrdersWritten
<1> QED
  BY <1>2, <1>3, <1>4, <1>5 DEF IntakeNext

\* However orders overlap, with each other and with midnight, the count of the day
\* (generateTrackingNumber) names a number that no order has, unless an order was
\* removed: no number of today is above the count, whoever took it and when.
THEOREM NextIsFree == IntakeSpec => []NextTrackingFree
PROOF
<1>1. IntakeInit => TypeInv /\ NumbersBehind
  BY TypeInit, NumbersInit
<1>2. TypeInv /\ NumbersBehind /\ [IntakeNext]_intakeVars => TypeInv' /\ NumbersBehind'
  BY TypeStep, NumbersStep
<1>3. TypeInv /\ NumbersBehind => NextTrackingFree
  <2> SUFFICES ASSUME TypeInv, NumbersBehind, gone \cap Orders = {}, NEW o \in Live
               PROVE  orders[o].number # NextNumber
    BY DEF NextTrackingFree, NumberFree
  <2>1. orders[o].number \in Tracking /\ UpTo(orders[o].number, TodaysOrders)
    BY DEF NumbersBehind, TypeInv, TablesOK, Live, Order
  <2>2. NextNumber = <<today, TodaysOrders + 1>> /\ TodaysOrders \in Nat
    BY TodaysOrdersType DEF NextNumber, TodaysOrders
  <2> QED
    BY <2>1, <2>2 DEF UpTo, Tracking
<1> QED
  BY <1>1, <1>2, <1>3, PTL DEF IntakeSpec

-----------------------------------------------------------------------------
(* The customer whose insert was refused.                                  *)

\* Customers are only added as long as nobody touches one.
LEMMA FoundStays ==
  ASSUME TypeInv, FoundAgain, touched => touched',
         ~touched' => refused' = refused
                      /\ \A p \in Phones : WithPhone(p) # {} => WithPhone(p)' # {},
         ~touched' => \A j \in Servers : jobs'[j].step = "again" =>
                        \/ jobs'[j] = jobs[j]
                        \/ \E c \in Customers : customers'[c] = jobs'[j].phone
  PROVE  FoundAgain'
PROOF
<1> SUFFICES ASSUME ~touched'
             PROVE  /\ ~refused'
                    /\ \A j \in Servers : jobs'[j].step = "again" =>
                         \E c \in Customers : customers'[c] = jobs'[j].phone
  BY DEF FoundAgain, At, WithPhone
<1>1. ~refused /\ \A j \in Servers : jobs[j].step = "again" => WithPhone(jobs[j].phone) # {}
  BY DEF FoundAgain, At
<1>2. \A j \in Servers : jobs[j].step = "again" => jobs[j].phone \in Phones
  BY Held DEF JobOK, Job, IntakeSteps
<1>3. ASSUME NEW j \in Servers, jobs'[j].step = "again", jobs'[j] = jobs[j]
      PROVE  \E c \in Customers : customers'[c] = jobs'[j].phone
  <2> PICK p : p = jobs[j].phone
    OBVIOUS
  <2>1. p \in Phones /\ WithPhone(p) # {}
    BY <1>1, <1>2, <1>3
  <2>2. WithPhone(p)' # {} /\ jobs'[j].phone = p
    BY <1>3, <2>1
  <2> QED
    BY <2>2 DEF WithPhone
<1> QED
  BY <1>1, <1>3

\* Two inserts, an update and a removal write customers.
LEMMA CustomersWritten ==
  ASSUME NEW h \in Servers, PostStep(h) \/ PickupStep(h) \/ CustomerStep(h)
  PROVE  \/ UNCHANGED <<customers, touched, refused>>
         \/ CreateCustomerOfParcel(h) \/ FindCustomerAgain(h)
         \/ SaveCustomer(h) \/ SaveCustomerUpdate(h) \/ \E c \in Customers : RemoveCustomer(h, c)
PROOF
<1> USE DEF tables, history
<1>1. ASSUME PostStep(h)
      PROVE  UNCHANGED <<customers, touched, refused>> \/ CreateCustomerOfParcel(h) \/ FindCustomerAgain(h)
  BY <1>1 DEF PostStep, Create, FindOrCreateActiveForStore, InsertsRequest, RequestFails, FindCustomer,
              GenerateTrackingNumber, SaveParcel, ReadRequest, UpdateActualParcelsCount, HandlerFails,
              RemoveParcel
<1>2. ASSUME PickupStep(h)
      PROVE  UNCHANGED <<customers, touched, refused>>
  BY <1>2 DEF PickupStep, CreatePickupRequest, SaveNewRequest, InsertsRequest, SaveRequest, Handles,
              UpdatePickupRequest, Confirm, MarkAsPickedUp, Cancel, AssignPickupToRider,
              RiderCompletePickup
<1>3. ASSUME CustomerStep(h)
      PROVE  \/ UNCHANGED <<customers, touched, refused>>
             \/ SaveCustomer(h) \/ SaveCustomerUpdate(h) \/ \E c \in Customers : RemoveCustomer(h, c)
  BY <1>3 DEF CustomerStep, CreateCustomer, UpdateCustomer
<1> QED
  BY <1>1, <1>2, <1>3

LEMMA FoundStep == TypeInv /\ FoundAgain /\ [IntakeNext]_intakeVars => FoundAgain'
PROOF
<1> SUFFICES ASSUME TypeInv, FoundAgain, [IntakeNext]_intakeVars PROVE FoundAgain'
  OBVIOUS
<1>1. UNCHANGED customers => \A p \in Phones : WithPhone(p)' = WithPhone(p)
  BY DEF WithPhone
<1>2. CASE UNCHANGED intakeVars \/ Midnight \/ \E s \in Stores, hub \in Hubs : AssignHubToStore(s, hub)
  <2>1. UNCHANGED <<customers, touched, refused, jobs>>
    BY <1>2 DEF intakeVars, Midnight, AssignHubToStore, tables, history
  <2> QED
    BY <1>1, <2>1, FoundStays
<1>3. ASSUME NEW h \in Servers, PostStep(h) \/ PickupStep(h) \/ CustomerStep(h)
      PROVE  FoundAgain'
  <2> PICK job : job = jobs[h]
    OBVIOUS
  <2>1. /\ \A j \in Servers \ {h} : jobs'[j] = jobs[j]
        /\ jobs'[h].step = "again" => CreateCustomerOfParcel(h)
    BY <1>3, Entering
  <2>2. ASSUME NEW c \in Customers, NEW p \in Phones, InsertsCustomer(c, p)
        PROVE  \A q \in Phones : WithPhone(q) # {} => WithPhone(q)' # {}
    BY <2>2, NullIsNothing DEF InsertsCustomer, WithPhone, TypeInv, TablesOK
  <2>3. CASE UNCHANGED <<customers, touched, refused>> /\ ~CreateCustomerOfParcel(h)
    BY <1>1, <2>1, <2>3, FoundStays
  <2>4. CASE CreateCustomerOfParcel(h)
    <3>1. jobs[h] \in Job /\ job.step = "customer" /\ job.phone \in Phones
      BY <2>4, Held DEF CreateCustomerOfParcel, At, JobOK, Job, IntakeSteps
    <3>2. CASE \E c \in Customers :
                 /\ InsertsCustomer(c, job.phone)
                 /\ Continues(h, [job EXCEPT !.step = "count", !.customer = c])
      <4> PICK c \in Customers :
             /\ InsertsCustomer(c, job.phone)
             /\ Continues(h, [job EXCEPT !.step = "count", !.customer = c])
        BY <3>2
      <4>1. jobs'[h].step = "count"
        BY <3>1 DEF Continues, Job, TypeInv, JobsTotal
      <4>2. touched' = touched /\ refused' = refused
        BY DEF InsertsCustomer, history
      <4>3. \A q \in Phones : WithPhone(q) # {} => WithPhone(q)' # {}
        BY <2>2, <3>1
      <4> QED
        BY <2>1, <4>1, <4>2, <4>3, FoundStays
    <3>3. CASE /\ WithPhone(job.phone) # {}
               /\ Continues(h, [job EXCEPT !.step = "again"])
               /\ UNCHANGED <<tables, today, history>>
      <4>1. jobs'[h].phone = job.phone
        BY <3>1, <3>3 DEF Continues, Job, TypeInv, JobsTotal
      <4>2. UNCHANGED <<customers, touched, refused>>
        BY <3>3 DEF tables, history
      <4>3. \E c \in Customers : customers'[c] = jobs'[h].phone
        BY <3>3, <4>1, <4>2 DEF WithPhone
      <4> QED
        BY <1>1, <2>1, <4>2, <4>3, FoundStays
    <3> QED
      BY <2>4, <3>2, <3>3 DEF CreateCustomerOfParcel
  <2>5. CASE FindCustomerAgain(h)
    <3>1. jobs[h].step = "again" /\ UNCHANGED <<customers, touched>>
      BY <2>5 DEF FindCustomerAgain, At, tables, history
    <3>2. ~touched' => refused' = refused
      BY <2>5, <3>1 DEF FindCustomerAgain, FoundAgain, At, history
    <3>3. jobs'[h].step # "again"
      BY <2>1, <2>5, <3>1 DEF CreateCustomerOfParcel, At
    <3> QED
      BY <1>1, <2>1, <3>1, <3>2, <3>3, FoundStays
  <2>6. CASE SaveCustomer(h)
    <3>1. job.step = "register" /\ job.phone \in Phones
      BY <2>6, Held DEF SaveCustomer, At, JobOK, Job, IntakeSteps
    <3>2. jobs'[h].step # "again"
      BY <2>1, <3>1 DEF CreateCustomerOfParcel, At
    <3>3. UNCHANGED <<touched, refused>>
      BY <2>6 DEF SaveCustomer, InsertsCustomer, history
    <3>4. \A q \in Phones : WithPhone(q) # {} => WithPhone(q)' # {}
      BY <1>1, <2>2, <2>6, <3>1 DEF SaveCustomer, tables
    <3> QED
      BY <2>1, <3>2, <3>3, <3>4, FoundStays
  <2>7. CASE SaveCustomerUpdate(h)
    <3> PICK c, p : c = job.customer /\ p = job.phone
      OBVIOUS
    <3>1. job.step = "rename" /\ c \in Customers /\ p \in Phones
      BY <2>7, Held DEF SaveCustomerUpdate, At, JobOK, Job, IntakeSteps
    <3>2. jobs'[h].step # "again"
      BY <2>1, <3>1 DEF CreateCustomerOfParcel, At
    <3>3. /\ refused' = refused
          /\ \/ UNCHANGED <<customers, touched>>
             \/ customers' = [customers EXCEPT ![c] = p] /\ touched' = (touched \/ customers[c] # p)
      BY <2>7 DEF SaveCustomerUpdate
    <3>4. touched => touched'
      BY <3>3
    <3>5. ~touched' => customers' = customers
      BY <3>1, <3>3 DEF TypeInv, TablesOK
    <3> QED
      BY <1>1, <2>1, <3>2, <3>3, <3>4, <3>5, FoundStays
  <2>8. CASE \E c \in Customers : RemoveCustomer(h, c)
    <3>1. touched'
      BY <2>8 DEF RemoveCustomer
    <3> QED
      BY <3>1 DEF FoundAgain
  <2> QED
    BY <1>3, <2>3, <2>4, <2>5, <2>6, <2>7, <2>8, CustomersWritten
<1> QED
  BY <1>2, <1>3 DEF IntakeNext

\* "RACE-SAFE helper used from parcel creation" (customer.service.ts), and so it is,
\* however orders and customers overlap: the customer whose insert met the unique
\* index is there for the search that follows, unless somebody removes or renames him.
THEOREM CustomersAreFound == IntakeSpec => []RaceSafe
PROOF
<1>1. IntakeInit => TypeInv /\ FoundAgain
  <2>1. IntakeInit => FoundAgain
    BY Resting DEF IntakeInit, FoundAgain, At, Idle
  <2> QED
    BY <2>1, TypeInit
<1>2. TypeInv /\ FoundAgain /\ [IntakeNext]_intakeVars => TypeInv' /\ FoundAgain'
  BY TypeStep, FoundStep
<1>3. FoundAgain => RaceSafe
  BY DEF FoundAgain, RaceSafe
<1> QED
  BY <1>1, <1>2, <1>3, PTL DEF IntakeSpec

-----------------------------------------------------------------------------
(* Pickup requests, one request at a time.                                 *)

LEMMA SerialInit == IntakeInit => Serial
PROOF
<1>1. IntakeInit => /\ \A h \in Servers : jobs[h] = Idle
                    /\ \A r \in Pickups : ~Known(r)
  BY Resting DEF IntakeInit, Known
<1> QED
  BY <1>1 DEF Serial, OneBusy, OneOpen, CountsRight, Open

\* A request is taken, or its handler goes on.
LEMMA SerialTurning ==
  ASSUME TypeInv, Serial, NEW h \in Servers, NEW e,
         Starts(h, e) \/ (Continues(h, e) /\ jobs[h] # Idle),
         alone /\ (\A j \in Servers \ {h} : jobs[j] = Idle)
           => OneOpen' /\ CountsRight' /\ (e = Idle \/ StillTrue(e)')
  PROVE  Serial'
PROOF
<1> SUFFICES ASSUME alone'
             PROVE  /\ OneBusy' /\ OneOpen' /\ CountsRight'
                    /\ \A j \in Servers : jobs'[j] = Idle \/ StillTrue(jobs[j])'
  BY DEF Serial
<1>1. /\ jobs'[h] = e
      /\ \A j \in Servers \ {h} : jobs'[j] = jobs[j]
  BY Starting, Continuing DEF TypeInv
<1>2. alone /\ \A j \in Servers \ {h} : jobs[j] = Idle
  <2>1. CASE Starts(h, e)
    BY <2>1, StartingAlone DEF TypeInv
  <2>2. CASE Continues(h, e) /\ jobs[h] # Idle
    BY <2>2 DEF Continues, Serial, OneBusy
  <2> QED
    BY <2>1, <2>2
<1>3. OneBusy'
  BY <1>1, <1>2 DEF OneBusy
<1>4. ASSUME NEW j \in Servers PROVE jobs'[j] = Idle \/ StillTrue(jobs[j])'
  <2>1. CASE j = h
    <3> PICK d : d = jobs'[j]
      OBVIOUS
    <3>1. d = e
      BY <1>1, <2>1
    <3> QED
      BY <1>2, <3>1, <2>1
  <2>2. CASE j # h
    BY <1>1, <1>2, <2>2
  <2> QED
    BY <2>1, <2>2
<1> QED
  BY <1>2, <1>3, <1>4

\* Orders and pickup requests stay, and the handler was not counting.
LEMMA QuietTurn ==
  ASSUME TypeInv, Serial, NEW h \in Servers, NEW e,
         Starts(h, e) \/ (Continues(h, e) /\ jobs[h] # Idle),
         UNCHANGED <<orders, requests, today, missed>>,
         jobs[h].step \notin {"read", "counted"},
         alone => e = Idle \/ StillTrue(e)
  PROVE  Serial'
PROOF
<1>1. /\ Live' = Live
      /\ \A r \in Pickups : Linked(r)' = Linked(r) /\ (Known(r)' <=> Known(r))
      /\ \A r \in Pickups, s \in Stores, d \in Days : Open(r, s, d)' <=> Open(r, s, d)
  BY DEF Live, Linked, Known, Open
<1>2. \A j \in Servers \ {h} : jobs'[j] = jobs[j]
  BY Starting, Continuing DEF TypeInv
<1>3. \A r \in Pickups : Counting(r) => Counting(r)'
  BY <1>2 DEF Counting
<1>4. alone => OneOpen' /\ CountsRight'
  BY <1>1, <1>3 DEF Serial, OneOpen, CountsRight
<1>5. StillTrue(e) => StillTrue(e)'
  BY DEF StillTrue, Open, Known, Linked, Live
<1> QED
  BY <1>4, <1>5, SerialTurning

\* A store without an open pickup request of today gets one; nobody counts it yet.
LEMMA InsertedRequest ==
  ASSUME TypeInv, NEW r \in Pickups, NEW s \in Stores, NEW n, InsertsRequest(r, s, n),
         OneOpen, CountsRight, \A q \in Pickups : ~Open(q, s, today),
         \A q \in Pickups : Counting(q) => Counting(q)'
  PROVE  OneOpen' /\ CountsRight'
PROOF
<1>1. /\ requests[r] = NULL /\ requests'[r].store = s /\ requests'[r].day = today
      /\ requests'[r].actual = 0
      /\ \A q \in Pickups \ {r} : requests'[q] = requests[q]
      /\ UNCHANGED <<orders, today, missed>>
  BY DEF InsertsRequest, history, TypeInv, TablesOK
<1>2. \A q \in Pickups : Linked(q)' = Linked(q)
  BY <1>1 DEF Linked, Live
<1>3. Linked(r) = {}
  BY <1>1, NullIsNothing DEF Linked, TypeInv, TablesOK, Known
<1>4. Cardinality(Linked(r)') = 0
  BY <1>2, <1>3, FS_EmptySet
<1>5. CountsRight'
  BY <1>1, <1>2, <1>4 DEF CountsRight, Known
<1>6. OneOpen'
  BY <1>1 DEF OneOpen, Open, Known
<1> QED
  BY <1>5, <1>6

LEMMA SerialRequests ==
  ASSUME TypeInv, Serial, NEW h \in Servers,
         \/ \E s \in Stores, p \in Phones : Create(h, s, p)
         \/ \E s \in Stores, n \in Estimates : CreatePickupRequest(h, s, n)
         \/ FindOrCreateActiveForStore(h) \/ SaveNewRequest(h)
  PROVE  Serial'
PROOF
<1>1. ASSUME NEW s \in Stores, ActiveFor(s) = {}
      PROVE  \A r \in Pickups : ~Open(r, s, today)
  BY <1>1 DEF ActiveFor, Open, Known
<1>2. ASSUME NEW e, NEW s \in Stores, Starts(h, e), UNCHANGED <<tables, today, history>>,
             e.step = "find" \/ (e.step \in {"request", "announce"} /\ e.store = s /\ ActiveFor(s) = {})
      PROVE  Serial'
  <2>1. StillTrue(e)
    BY <1>1, <1>2 DEF StillTrue
  <2>2. jobs[h].step \notin {"read", "counted"}
    BY <1>2 DEF Starts, Idle
  <2> QED
    BY <1>2, <2>1, <2>2, QuietTurn DEF tables, history
<1>3. ASSUME NEW s \in Stores, NEW p \in Phones, Create(h, s, p)
      PROVE  Serial'
  <2> PICK job : job = [NewJob EXCEPT !.store = s, !.phone = p]
    OBVIOUS
  <2>1. job \in Job /\ job.store = s
    BY NewJobOK DEF Job
  <2>2. ASSUME NEW r \in ActiveFor(s), Starts(h, [job EXCEPT !.step = "find", !.request = r])
        PROVE  Serial'
    <3> PICK e : e = [job EXCEPT !.step = "find", !.request = r]
      OBVIOUS
    <3>1. e.step = "find"
      BY <2>1 DEF Job
    <3> QED
      BY <1>2, <1>3, <2>2, <3>1 DEF Create
  <2>3. ASSUME NEW step \in {"find", "request"}, Starts(h, [job EXCEPT !.step = step]), ActiveFor(s) = {}
        PROVE  Serial'
    <3> PICK e : e = [job EXCEPT !.step = step]
      OBVIOUS
    <3>1. e.step = step /\ e.store = s
      BY <2>1 DEF Job
    <3> QED
      BY <1>2, <1>3, <2>3, <3>1 DEF Create
  <2> QED
    BY <1>3, <2>2, <2>3 DEF Create
<1>4. ASSUME NEW s \in Stores, NEW n \in Estimates, CreatePickupRequest(h, s, n)
      PROVE  Serial'
  <2> PICK e : e = [NewJob EXCEPT !.step = "announce", !.store = s, !.estimated = n]
    OBVIOUS
  <2>1. e.step = "announce" /\ e.store = s
    BY NewJobOK DEF Job
  <2> QED
    BY <1>2, <1>4, <2>1 DEF CreatePickupRequest
<1>5. CASE FindOrCreateActiveForStore(h) \/ SaveNewRequest(h)
  <2> PICK job : job = jobs[h]
    OBVIOUS
  <2>1. /\ job \in Job /\ job.step \in {"request", "announce"} /\ job.store \in Stores
        /\ job # Idle
    <3>1. job.step \in {"request", "announce"}
      BY <1>5 DEF FindOrCreateActiveForStore, SaveNewRequest, At
    <3> QED
      BY <3>1, Held DEF JobOK, Job, IntakeSteps
  <2>2. PICK r, n, e : /\ r \in Pickups /\ InsertsRequest(r, job.store, n)
                       /\ Continues(h, e) /\ (e = Idle \/ e.step = "find")
    <3>1. CASE FindOrCreateActiveForStore(h)
      <4> PICK r \in Pickups : /\ InsertsRequest(r, job.store, 0)
                               /\ Continues(h, [job EXCEPT !.step = "find", !.request = r])
        BY <3>1 DEF FindOrCreateActiveForStore
      <4> [job EXCEPT !.step = "find", !.request = r].step = "find"
        BY <2>1 DEF Job
      <4> QED
        OBVIOUS
    <3>2. CASE SaveNewRequest(h)
      BY <3>2 DEF SaveNewRequest, Ends
    <3> QED
      BY <1>5, <3>1, <3>2
  <2>3. \A q \in Pickups : Counting(q) => Counting(q)'
    BY <2>1, <2>2, Continuing DEF Counting, TypeInv
  <2>4. alone => \A q \in Pickups : ~Open(q, job.store, today)
    BY <2>1 DEF Serial, StillTrue
  <2>5. alone => OneOpen' /\ CountsRight'
    BY <2>1, <2>2, <2>3, <2>4, InsertedRequest DEF Serial
  <2>6. e = Idle \/ StillTrue(e)'
    BY <2>2 DEF StillTrue
  <2> QED
    BY <2>1, <2>2, <2>5, <2>6, SerialTurning
<1> QED
  BY <1>3, <1>4, <1>5

\* Handlers that neither write orders and pickup requests nor read a pickup request.
LEMMA SerialOthers ==
  ASSUME TypeInv, Serial, NEW h \in Servers,
         \/ RequestFails(h) \/ FindCustomer(h) \/ CreateCustomerOfParcel(h) \/ FindCustomerAgain(h)
         \/ GenerateTrackingNumber(h)
         \/ SaveCustomer(h) \/ SaveCustomerUpdate(h)
         \/ \E p \in Phones : CreateCustomer(h, p)
         \/ \E c \in Customers, p \in Phones : UpdateCustomer(h, c, p)
  PROVE  Serial'
PROOF
<1> DEFINE harmless == {"find", "count", "customer", "again", "order", "register", "rename"}
<1>1. \A e : e.step \in harmless => StillTrue(e)
  BY DEF StillTrue
<1>2. ASSUME NEW e, e = Idle \/ e.step \in harmless,
             Starts(h, e) \/ (Continues(h, e) /\ jobs[h] # Idle),
             UNCHANGED <<orders, requests, today, missed>>,
             jobs[h].step \notin {"read", "counted"}
      PROVE  Serial'
  <2> HIDE DEF harmless
  <2> QED
    BY <1>1, <1>2, QuietTurn
<1> PICK job : job = jobs[h]
  OBVIOUS
<1>3. ASSUME jobs[h].step \in {"request", "find", "customer", "again", "count", "register", "rename"}
      PROVE  job \in Job /\ jobs[h] # Idle /\ jobs[h].step \notin {"read", "counted"}
  BY <1>3, Held DEF IntakeSteps
<1> PICK e : e = jobs'[h]
  OBVIOUS
<1>4. jobs = [k \in Servers |-> jobs[k]]
  BY DEF TypeInv, JobsTotal
<1>5. CASE RequestFails(h) \/ FindCustomer(h) \/ GenerateTrackingNumber(h)
  <2>1. job \in Job /\ jobs[h] # Idle /\ jobs[h].step \notin {"read", "counted"}
    BY <1>3, <1>5 DEF RequestFails, FindCustomer, GenerateTrackingNumber, At
  <2>2. UNCHANGED <<orders, requests, today, missed>>
    BY <1>5 DEF RequestFails, FindCustomer, GenerateTrackingNumber, tables, history
  <2>3. CASE RequestFails(h)
    <3>1. Continues(h, e) /\ e.step \in harmless
      BY <1>4, <2>1, <2>3 DEF RequestFails, Continues, Job
    <3> QED
      BY <1>2, <2>1, <2>2, <3>1
  <2>4. CASE FindCustomer(h)
    <3>1. Continues(h, e) /\ e.step \in harmless
      BY <1>4, <2>1, <2>4 DEF FindCustomer, Continues, Job
    <3> QED
      BY <1>2, <2>1, <2>2, <3>1
  <2>5. CASE GenerateTrackingNumber(h)
    <3>1. Continues(h, e) /\ e.step \in harmless
      BY <1>4, <2>1, <2>5 DEF GenerateTrackingNumber, Continues, Job
    <3> QED
      BY <1>2, <2>1, <2>2, <3>1
  <2> QED
    BY <1>5, <2>3, <2>4, <2>5
<1>6. CASE CreateCustomerOfParcel(h) \/ FindCustomerAgain(h)
  <2>1. job \in Job /\ jobs[h] # Idle /\ jobs[h].step \notin {"read", "counted"}
    BY <1>3, <1>6 DEF CreateCustomerOfParcel, FindCustomerAgain, At
  <2>2. UNCHANGED <<orders, requests, today, missed>>
    BY <1>6 DEF CreateCustomerOfParcel, FindCustomerAgain, InsertsCustomer, tables, history
  <2>3. CASE CreateCustomerOfParcel(h)
    <3>1. Continues(h, e) /\ e.step \in harmless
      BY <1>4, <2>1, <2>3 DEF CreateCustomerOfParcel, Continues, Job
    <3> QED
      BY <1>2, <2>1, <2>2, <3>1
  <2>4. CASE FindCustomerAgain(h)
    <3>1. Continues(h, e) /\ (e = Idle \/ e.step \in harmless)
      BY <1>4, <2>1, <2>4 DEF FindCustomerAgain, Ends, Continues, Job
    <3> QED
      BY <1>2, <2>1, <2>2, <3>1
  <2> QED
    BY <1>6, <2>3, <2>4
<1>7. CASE SaveCustomer(h) \/ SaveCustomerUpdate(h)
  <2>1. jobs[h] # Idle /\ jobs[h].step \notin {"read", "counted"}
    BY <1>3, <1>7 DEF SaveCustomer, SaveCustomerUpdate, At
  <2>2. UNCHANGED <<orders, requests, today, missed>> /\ Continues(h, Idle)
    BY <1>7 DEF SaveCustomer, SaveCustomerUpdate, InsertsCustomer, tables, history, Ends
  <2> QED
    BY <1>2, <2>1, <2>2
<1>8. CASE \/ \E p \in Phones : CreateCustomer(h, p)
           \/ \E c \in Customers, p \in Phones : UpdateCustomer(h, c, p)
  <2>1. UNCHANGED <<orders, requests, today, missed>>
    BY <1>8 DEF CreateCustomer, UpdateCustomer, tables, history
  <2>2. Starts(h, e) /\ e.step \in harmless
    BY <1>4, <1>8 DEF CreateCustomer, UpdateCustomer, Starts, NewJob
  <2>3. jobs[h].step \notin {"read", "counted"}
    BY <2>2 DEF Starts, Idle
  <2> QED
    BY <1>2, <2>1, <2>2, <2>3
<1> QED
  BY <1>5, <1>6, <1>7, <1>8

\* An order enters the pickup request that its handler goes on to count.
LEMMA SerialSaveParcel ==
  ASSUME TypeInv, Serial, NEW h \in Servers, SaveParcel(h)
  PROVE  Serial'
PROOF
<1> PICK job : job = jobs[h]
  OBVIOUS
<1>1. /\ JobOK(job) /\ job \in Job /\ job.step = "order" /\ job # Idle
      /\ job.store \in Stores /\ job.customer \in Customers /\ job.number \in Tracking
  BY Held DEF SaveParcel, At, JobOK, Job, IntakeSteps
<1>2. CASE NumberFree(job.number) /\ customers[job.customer] # NULL
  <2>1. PICK o \in Orders \ gone :
          /\ orders[o] = NULL
          /\ orders' = [orders EXCEPT ![o] =
               [day |-> today, number |-> job.number, store |-> job.store,
                customer |-> job.customer, request |-> job.request]]
          /\ IF job.request = NULL THEN Ends(h)
             ELSE Continues(h, [NewJob EXCEPT !.step = "read", !.request = job.request])
          /\ UNCHANGED <<requests, customers, storeHub>>
    BY <1>2 DEF SaveParcel
  <2>2. UNCHANGED <<requests, today, missed>>
    BY <2>1 DEF SaveParcel, history
  <2>3. /\ orders'[o].request = job.request
        /\ \A p \in Orders \ {o} : orders'[p] = orders[p]
    BY <2>1 DEF TypeInv, TablesOK
  <2>4. ASSUME NEW q \in Pickups, q # job.request PROVE Linked(q)' = Linked(q)
    BY <2>1, <2>3, <2>4 DEF Linked, Live
  <2> PICK e : e = IF job.request = NULL THEN Idle
                   ELSE [NewJob EXCEPT !.step = "read", !.request = job.request]
    OBVIOUS
  <2>5. Continues(h, e)
    BY <2>1 DEF Ends
  <2>6. jobs'[h] = e /\ \A j \in Servers \ {h} : jobs'[j] = jobs[j]
    BY <2>5, Continuing DEF TypeInv
  <2>7. job.request # NULL => e.step = "read" /\ e.request = job.request
    BY NewJobOK DEF Job
  <2>8. ASSUME NEW q \in Pickups, q = job.request \/ Counting(q) PROVE Counting(q)'
    <3>1. job.request = q => q # NULL
      BY NullIsNothing
    <3> QED
      BY <1>1, <2>6, <2>7, <2>8, <3>1 DEF Counting
  <2>9. \A q \in Pickups : Known(q)' <=> Known(q)
    BY <2>2 DEF Known
  <2>10. CountsRight => CountsRight'
    BY <2>2, <2>4, <2>8, <2>9 DEF CountsRight
  <2>11. OneOpen => OneOpen'
    BY <2>2, <2>9 DEF OneOpen, Open
  <2>12. e = Idle \/ StillTrue(e)'
    BY <2>7 DEF StillTrue
  <2> QED
    BY <1>1, <2>5, <2>10, <2>11, <2>12, SerialTurning DEF Serial
<1>3. CASE ~(NumberFree(job.number) /\ customers[job.customer] # NULL)
  BY <1>1, <1>3, QuietTurn DEF SaveParcel, Ends, tables, history
<1> QED
  BY <1>2, <1>3

LEMMA SerialReadRequest ==
  ASSUME TypeInv, Serial, NEW h \in Servers, ReadRequest(h)
  PROVE  Serial'
PROOF
<1> PICK job : job = jobs[h]
  OBVIOUS
<1>1. job \in Job /\ job # Idle /\ job.step = "read" /\ job.request \in Pickups
  BY Held DEF ReadRequest, At, JobOK, Job, IntakeSteps
<1> PICK e : e = [job EXCEPT !.step = "counted", !.row = requests[job.request],
                             !.linked = Linked(job.request)]
  OBVIOUS
<1>2. /\ e.step = "counted" /\ e.request = job.request /\ e.row = requests[job.request]
      /\ e.linked = Linked(job.request)
  BY <1>1 DEF Job
<1>3. Continues(h, e) /\ UNCHANGED <<orders, requests, today, missed>>
  BY DEF ReadRequest, tables, history
<1>4. /\ Live' = Live /\ \A q \in Pickups : Linked(q)' = Linked(q) /\ (Known(q)' <=> Known(q))
  BY <1>3 DEF Live, Linked, Known
<1>5. jobs'[h] = e /\ \A j \in Servers \ {h} : jobs'[j] = jobs[j]
  BY <1>3, Continuing DEF TypeInv
<1>6. \A q \in Pickups : Counting(q) => Counting(q)'
  BY <1>2, <1>5 DEF Counting
<1>7. CountsRight => CountsRight'
  BY <1>3, <1>4, <1>6 DEF CountsRight
<1>8. OneOpen => OneOpen'
  BY <1>3, <1>4 DEF OneOpen, Open
<1>9. Linked(job.request) \subseteq Live
  BY DEF Linked
<1>10. e.row = requests'[e.request] /\ e.linked = Linked(e.request)'
  BY <1>1, <1>2, <1>3, <1>4
<1>11. StillTrue(e)'
  BY <1>2, <1>4, <1>9, <1>10 DEF StillTrue
<1> QED
  BY <1>1, <1>3, <1>7, <1>8, <1>11, SerialTurning DEF Serial

\* The list that is saved with the pickup request is the list of its orders.
LEMMA CountKeepsLinks ==
  ASSUME TypeInv, Serial, alone, NEW h \in Servers, UpdateActualParcelsCount(h), NEW o \in Orders
  PROVE  orders'[o] = orders[o]
PROOF
<1> PICK job, r : job = jobs[h] /\ r = job.request
  OBVIOUS
<1>1. job # Idle /\ job.step = "counted" /\ SetsParcels(r, job.linked)
  BY Held DEF UpdateActualParcelsCount, At, IntakeSteps
<1>2. job.linked \cap Live = Linked(r)
  BY <1>1 DEF Serial, StillTrue
<1>3. CASE o \notin Live
  BY <1>1, <1>3 DEF SetsParcels, Live
<1>4. CASE o \in Live /\ o \in job.linked
  <2>1. orders[o].request = r /\ orders[o] \in Order
    BY <1>2, <1>4 DEF Linked, Live, TypeInv, TablesOK
  <2>2. [orders[o] EXCEPT !.request = r] = orders[o]
    BY <2>1 DEF Order
  <2> QED
    BY <1>1, <1>4, <2>2 DEF SetsParcels
<1>5. CASE o \in Live /\ o \notin job.linked
  <2>1. orders[o].request # r
    BY <1>2, <1>5 DEF Linked
  <2> QED
    BY <1>1, <1>5, <2>1 DEF SetsParcels
<1> QED
  BY <1>3, <1>4, <1>5

\* What is saved is what has just been read, with the count of it.
LEMMA SerialCount ==
  ASSUME TypeInv, Serial, NEW h \in Servers, UpdateActualParcelsCount(h)
  PROVE  Serial'
PROOF
<1> PICK job, r, n : job = jobs[h] /\ r = job.request /\ n = Cardinality(job.linked)
  OBVIOUS
<1>1. /\ JobOK(job) /\ job \in Job /\ job # Idle /\ job.step = "counted" /\ r \in Pickups
      /\ Known(r) /\ job.row \in PickupRequest
  BY Held DEF UpdateActualParcelsCount, At, JobOK, Job, IntakeSteps
<1>2. /\ requests' = [requests EXCEPT ![r] = [job.row EXCEPT !.actual = n, !.estimated = AtLeast(n, @)]]
      /\ SetsParcels(r, job.linked) /\ Continues(h, Idle) /\ UNCHANGED <<today, missed>>
  BY DEF UpdateActualParcelsCount, Ends, history
<1>3. /\ \A q \in Pickups \ {r} : requests'[q] = requests[q]
      /\ requests'[r].actual = n /\ requests'[r].store = job.row.store
      /\ requests'[r].day = job.row.day /\ requests'[r].status = job.row.status
  BY <1>1, <1>2 DEF PickupRequest, TypeInv, TablesOK
<1>4. jobs'[h] = Idle /\ \A j \in Servers \ {h} : jobs'[j] = jobs[j]
  BY <1>2, Continuing DEF TypeInv
<1> SUFFICES ASSUME alone, \A j \in Servers \ {h} : jobs[j] = Idle
             PROVE  OneOpen' /\ CountsRight'
  BY <1>1, <1>2, SerialTurning DEF Serial
<1>5. /\ job.row = requests[r] /\ job.linked \cap Live = Linked(r)
      /\ r \notin missed => job.linked \subseteq Live
  BY <1>1 DEF Serial, StillTrue
<1>6. \A o \in Orders : orders'[o] = orders[o]
  BY CountKeepsLinks
<1>7. /\ Live' = Live /\ \A q \in Pickups : Linked(q)' = Linked(q)
  BY <1>6 DEF Live, Linked
<1>8. \A q \in Pickups \ {r} : Counting(q) => Counting(q)'
  BY <1>1, <1>4 DEF Counting
<1>9. r \notin missed => n = Cardinality(Linked(r)')
  <2>1. r \notin missed => job.linked = Linked(r)
    BY <1>5
  <2> QED
    BY <1>1, <1>7, <2>1
<1>10. CountsRight'
  <2>1. ASSUME NEW q \in Pickups \ missed, Known(q)', ~Counting(q)'
        PROVE  requests'[q].actual = Cardinality(Linked(q)')
    <3>1. CASE q = r
      BY <1>3, <1>9, <2>1, <3>1
    <3>2. CASE q # r
      <4>1. Known(q) /\ ~Counting(q)
        BY <1>3, <1>8, <2>1, <3>2 DEF Known
      <4> QED
        BY <1>3, <1>7, <3>2, <4>1 DEF Serial, CountsRight
    <3> QED
      BY <3>1, <3>2
  <2> QED
    BY <1>2, <2>1 DEF CountsRight
<1>11. \A q \in Pickups, s \in Stores, d \in Days : Open(q, s, d)' => Open(q, s, d)
  BY <1>1, <1>3, <1>5 DEF Open, Known
<1> QED
  BY <1>10, <1>11 DEF Serial, OneOpen

\* Only what has just been read is saved: nothing of it is lost, nothing opens again.
LEMMA SerialHandling ==
  ASSUME TypeInv, Serial, NEW h \in Servers, PickupStep(h),
         ~ \E s \in Stores, n \in Estimates : CreatePickupRequest(h, s, n), ~SaveNewRequest(h)
  PROVE  Serial'
PROOF
<1>1. CASE SaveRequest(h)
  <2> PICK job, r : job = jobs[h] /\ r = job.request
    OBVIOUS
  <2>1. job \in Job /\ job # Idle /\ job.step = "put" /\ r \in Pickups /\ Known(r)
    BY <1>1, Held DEF SaveRequest, At, JobOK, Job, IntakeSteps
  <2>2. /\ requests' = [requests EXCEPT ![r] = job.row] /\ Continues(h, Idle)
        /\ UNCHANGED <<orders, today, missed>>
    BY <1>1 DEF SaveRequest, Ends, history
  <2>3. requests'[r] = job.row /\ \A q \in Pickups \ {r} : requests'[q] = requests[q]
    BY <2>1, <2>2 DEF TypeInv, TablesOK
  <2>4. \A j \in Servers \ {h} : jobs'[j] = jobs[j]
    BY <2>2, Continuing DEF TypeInv
  <2>5. \A q \in Pickups : Linked(q)' = Linked(q) /\ (Counting(q) => Counting(q)')
    BY <2>1, <2>2, <2>4 DEF Linked, Live, Counting
  <2> SUFFICES ASSUME alone PROVE OneOpen' /\ CountsRight'
    BY <2>1, <2>2, SerialTurning DEF Serial
  <2>6. /\ job.row.store = requests[r].store /\ job.row.day = requests[r].day
        /\ job.row.actual = requests[r].actual
        /\ job.row.status = "PENDING" => requests[r].status = "PENDING"
    BY <2>1 DEF Serial, StillTrue
  <2>7. CountsRight'
    BY <2>1, <2>2, <2>3, <2>5, <2>6 DEF Serial, CountsRight, Known
  <2>8. \A q \in Pickups, s \in Stores, d \in Days : Open(q, s, d)' => Open(q, s, d)
    BY <2>1, <2>3, <2>6 DEF Open, Known
  <2> QED
    BY <2>7, <2>8 DEF Serial, OneOpen
<1>2. ASSUME NEW r \in Pickups, NEW statuses, NEW row, Handles(h, r, statuses, row),
             /\ row.store = requests[r].store /\ row.day = requests[r].day
             /\ row.actual = requests[r].actual
             /\ row.status = "PENDING" => requests[r].status = "PENDING"
      PROVE  Serial'
  <2> PICK e : e = [NewJob EXCEPT !.step = "put", !.request = r, !.row = row]
    OBVIOUS
  <2>1. e.step = "put" /\ e.request = r /\ e.row = row
    BY DEF NewJob
  <2>2. Starts(h, e) /\ UNCHANGED <<orders, requests, today, missed>>
    BY <1>2 DEF Handles, tables, history
  <2>3. StillTrue(e)
    BY <1>2, <2>1 DEF StillTrue
  <2>4. jobs[h].step \notin {"read", "counted"}
    BY <2>2 DEF Starts, Idle
  <2> QED
    BY <2>2, <2>3, <2>4, QuietTurn
<1>3. ASSUME NEW r \in Pickups,
             \/ \E n \in Estimates : UpdatePickupRequest(h, r, n)
             \/ Confirm(h, r) \/ MarkAsPickedUp(h, r) \/ Cancel(h, r)
             \/ \E rider \in Riders :
                  AssignPickupToRider(h, r, rider) \/ RiderCompletePickup(h, r, rider)
      PROVE  Serial'
  <2>1. requests[r] \in PickupRequest
    BY <1>3 DEF UpdatePickupRequest, Confirm, MarkAsPickedUp, Cancel, AssignPickupToRider,
                RiderCompletePickup, Handles, TypeInv, TablesOK
  <2>2. ASSUME NEW n \in Estimates, UpdatePickupRequest(h, r, n) PROVE Serial'
    BY <1>2, <2>1, <2>2 DEF UpdatePickupRequest, PickupRequest
  <2>3. ASSUME NEW status \in {"CONFIRMED", "PICKED_UP", "CANCELLED"}, NEW statuses,
               Handles(h, r, statuses, Sets(r, status))
        PROVE  Serial'
    BY <1>2, <2>1, <2>3 DEF Sets, PickupRequest
  <2>4. ASSUME NEW rider \in Riders, AssignPickupToRider(h, r, rider) PROVE Serial'
    BY <1>2, <2>1, <2>4 DEF AssignPickupToRider, PickupRequest
  <2> QED
    BY <1>3, <2>2, <2>3, <2>4 DEF Confirm, MarkAsPickedUp, Cancel, RiderCompletePickup
<1> QED
  BY <1>1, <1>3 DEF PickupStep

\* A count that fails is noted, as the removal of a linked order is.
LEMMA SerialFailing ==
  ASSUME TypeInv, Serial, NEW h \in Servers, HandlerFails(h)
  PROVE  Serial'
PROOF
<1> PICK job : job = jobs[h]
  OBVIOUS
<1>1. job \in Job /\ job # Idle
  BY Held DEF HandlerFails
<1>2. /\ UNCHANGED <<orders, requests, today>> /\ Continues(h, Idle) /\ missed \subseteq missed'
      /\ job.step \in {"read", "counted"} => job.request \in missed'
  BY DEF HandlerFails, tables, Ends
<1>3. \A q \in Pickups : Linked(q)' = Linked(q) /\ (Known(q)' <=> Known(q))
  BY <1>2 DEF Linked, Live, Known
<1>4. \A j \in Servers \ {h} : jobs'[j] = jobs[j]
  BY <1>2, Continuing DEF TypeInv
<1>5. \A q \in Pickups \ missed' : Counting(q) => Counting(q)'
  BY <1>2, <1>4 DEF Counting
<1>6. CountsRight => CountsRight'
  BY <1>2, <1>3, <1>5 DEF CountsRight
<1>7. OneOpen => OneOpen'
  BY <1>2, <1>3 DEF OneOpen, Open
<1> QED
  BY <1>1, <1>2, <1>6, <1>7, SerialTurning DEF Serial

\* The handlers stay: an order is removed, or something else happens.
LEMMA SerialWorld ==
  ASSUME TypeInv, Serial, UNCHANGED <<requests, jobs, alone>>, today <= today', today' \in Int,
         missed \subseteq missed',
         \/ UNCHANGED orders
         \/ \E o \in Live : /\ orders' = [orders EXCEPT ![o] = NULL]
                            /\ orders[o].request # NULL => orders[o].request \in missed'
  PROVE  Serial'
PROOF
<1> SUFFICES ASSUME alone PROVE Serial'
  BY DEF Serial
<1>1. ASSUME NEW q \in Pickups
      PROVE  /\ Linked(q)' = Linked(q) \cap Live' /\ Live' \subseteq Live
             /\ q \notin missed' => Linked(q) \subseteq Live'
  <2>1. CASE UNCHANGED orders
    BY <2>1 DEF Linked, Live
  <2>2. ASSUME NEW o \in Live, orders' = [orders EXCEPT ![o] = NULL],
               orders[o].request # NULL => orders[o].request \in missed'
        PROVE  /\ Linked(q)' = Linked(q) \cap Live' /\ Live' \subseteq Live
               /\ q \notin missed' => Linked(q) \subseteq Live'
    <3>1. o \in Orders /\ orders'[o] = NULL /\ \A p \in Orders \ {o} : orders'[p] = orders[p]
      BY <2>2 DEF Live, TypeInv, TablesOK
    <3>2. Live' = Live \ {o}
      BY <3>1 DEF Live
    <3>3. q # NULL
      BY NullIsNothing
    <3> QED
      BY <2>2, <3>1, <3>2, <3>3 DEF Linked, Live
  <2> QED
    BY <2>1, <2>2
<1>2. \A q \in Pickups \ missed' : Linked(q)' = Linked(q)
  BY <1>1 DEF Linked
<1>3. CountsRight'
  BY <1>2 DEF Serial, CountsRight, Known, Counting
<1>4. OneOpen' /\ OneBusy'
  BY DEF Serial, OneOpen, Open, Known, OneBusy
<1>5. ASSUME NEW j \in Servers PROVE jobs'[j] = Idle \/ StillTrue(jobs[j])'
  <2> PICK e : e = jobs[j]
    OBVIOUS
  <2>1. CASE e = Idle
    BY <2>1
  <2>2. CASE e # Idle
    <3>1. StillTrue(e) /\ e \in Job /\ JobOK(e)
      BY <2>2 DEF Serial, TypeInv, JobsOK, JobOK
    <3>2. ASSUME e.step \in {"request", "announce"}, NEW r \in Pickups PROVE ~Open(r, e.store, today)'
      <4>1. CASE today' = today
        BY <3>1, <3>2, <4>1 DEF StillTrue, Open, Known
      <4>2. CASE today' # today
        <5>1. Known(r) => requests[r].day <= today /\ requests[r].day \in Int
          BY IntakeAssumption DEF TypeInv, TablesOK, Known, PickupRequest, Days
        <5> QED
          BY <4>2, <5>1, Arithmetic DEF Open, Known
      <4> QED
        BY <4>1, <4>2
    <3>3. e.step = "put" => LET row == requests'[e.request] IN
            /\ e.row.store = row.store /\ e.row.day = row.day /\ e.row.actual = row.actual
            /\ e.row.status = "PENDING" => row.status = "PENDING"
      BY <3>1 DEF StillTrue
    <3>4. e.step = "counted" =>
            /\ e.request \in Pickups /\ e.row = requests'[e.request]
            /\ e.linked \cap Live = Linked(e.request)
            /\ e.request \notin missed => e.linked \subseteq Live
      BY <3>1 DEF StillTrue, JobOK, Job
    <3>5. ASSUME e.step = "counted" PROVE e.linked \cap Live' = Linked(e.request)'
      BY <1>1, <3>4, <3>5
    <3>6. ASSUME e.step = "counted", e.request \notin missed' PROVE e.linked \subseteq Live'
      BY <1>1, <3>4, <3>6
    <3>7. StillTrue(e)'
      BY <3>2, <3>3, <3>4, <3>5, <3>6 DEF StillTrue
    <3> QED
      BY <3>7
  <2> QED
    BY <2>1, <2>2
<1> QED
  BY <1>3, <1>4, <1>5 DEF Serial

LEMMA SerialStep == TypeInv /\ Serial /\ [IntakeNext]_intakeVars => Serial'
PROOF
<1> SUFFICES ASSUME TypeInv, Serial, [IntakeNext]_intakeVars PROVE Serial'
  OBVIOUS
<1>1. CASE \/ UNCHANGED intakeVars \/ Midnight
           \/ \E s \in Stores, hub \in Hubs : AssignHubToStore(s, hub)
  <2>1. today' \in Int /\ today <= today'
    BY <1>1, Arithmetic DEF intakeVars, Midnight, AssignHubToStore
  <2> QED
    BY <1>1, <2>1, SerialWorld DEF intakeVars, Midnight, AssignHubToStore, tables, history
<1>2. ASSUME NEW h \in Servers, PostStep(h) PROVE Serial'
  <2>1. ASSUME NEW o \in Orders, RemoveParcel(h, o) PROVE Serial'
    <3>1. /\ o \in Live /\ orders' = [orders EXCEPT ![o] = NULL]
          /\ missed' = missed \cup ({orders[o].request} \ {NULL})
          /\ UNCHANGED <<requests, jobs, alone, today>>
      BY <2>1 DEF RemoveParcel
    <3>2. missed \subseteq missed' /\ (orders[o].request # NULL => orders[o].request \in missed')
      BY <3>1
    <3>3. today <= today' /\ today' \in Int
      BY <3>1, Arithmetic
    <3> QED
      BY <3>1, <3>2, <3>3, SerialWorld
  <2> QED
    BY <1>2, <2>1, SerialRequests, SerialOthers, SerialSaveParcel, SerialReadRequest, SerialCount,
       SerialFailing DEF PostStep
<1>3. ASSUME NEW h \in Servers, PickupStep(h) PROVE Serial'
  BY <1>3, SerialRequests, SerialHandling
<1>4. ASSUME NEW h \in Servers, CustomerStep(h) PROVE Serial'
  <2>1. CASE \E c \in Customers : RemoveCustomer(h, c)
    BY <2>1, SerialWorld, Arithmetic DEF RemoveCustomer
  <2> QED
    BY <1>4, <2>1, SerialOthers DEF CustomerStep
<1> QED
  BY <1>1, <1>2, <1>3, <1>4 DEF IntakeNext

LEMMA IntakeInvariant == IntakeSpec => [](TypeInv /\ Serial)
PROOF
<1>1. IntakeInit => TypeInv /\ Serial
  BY TypeInit, SerialInit
<1>2. TypeInv /\ Serial /\ [IntakeNext]_intakeVars => TypeInv' /\ Serial'
  BY TypeStep, SerialStep
<1> QED
  BY <1>1, <1>2, PTL DEF IntakeSpec

\* "Creates a new pickup request each day" (findOrCreateActiveForStore): served one at
\* a time, whatever fails, is removed or updated in between and whenever midnight falls,
\* a store never has two open pickup requests of one day.
THEOREM OneRequestADay == IntakeSpec => []OnePickupPerDay
PROOF
<1>1. TypeInv /\ Serial => OnePickupPerDay
  <2> SUFFICES ASSUME Serial, alone, NEW s \in Stores, NEW d \in Days
               PROVE  Cardinality({r \in Pickups : /\ requests[r] # NULL
                                                   /\ requests[r].store = s /\ requests[r].day = d
                                                   /\ requests[r].status = "PENDING"}) <= 1
    BY DEF OnePickupPerDay
  <2> DEFINE open == {r \in Pickups : /\ requests[r] # NULL
                                      /\ requests[r].store = s /\ requests[r].day = d
                                      /\ requests[r].status = "PENDING"}
  <2>1. \A q, r \in open : q = r
    BY DEF Serial, OneOpen, Open, Known
  <2> QED
    BY <2>1, AtMostOne
<1> QED
  BY <1>1, IntakeInvariant, PTL

\* Served one at a time, the number of parcels that a rider is told to collect
\* (updateActualParcelsCount) is that of the orders linked to the pickup request, once
\* nobody is counting, unless a count failed or a linked order was removed.
THEOREM CountsAreLinked == IntakeSpec => []CountIsLinked
PROOF
<1>1. TypeInv /\ Serial => CountIsLinked
  BY DEF Serial, CountsRight, Counting, CountIsLinked, Known
<1> QED
  BY <1>1, IntakeInvariant, PTL

\* Served one at a time, the save of a pickup request with the list that was read with it
\* (updateActualParcelsCount) detaches no order and attaches none again: an order that has
\* joined a pickup request stays in it until it is removed.
THEOREM OrdersStayLinked ==
  IntakeSpec => [][alone => \A o \in Live : orders[o].request # NULL /\ orders'[o] # NULL
                                              => orders'[o].request = orders[o].request]_intakeVars
PROOF
<1>1. ASSUME TypeInv, Serial, [IntakeNext]_intakeVars
      PROVE  [alone => \A o \in Live : orders[o].request # NULL /\ orders'[o] # NULL
                                         => orders'[o].request = orders[o].request]_intakeVars
  <2> SUFFICES ASSUME alone, NEW o \in Live, orders'[o] # NULL
               PROVE  orders'[o] = orders[o]
    OBVIOUS
  <2>1. o \in Orders /\ orders[o] # NULL
    BY DEF Live
  <2>2. CASE \/ UNCHANGED intakeVars \/ Midnight
             \/ \E s \in Stores, hub \in Hubs : AssignHubToStore(s, hub)
    BY <2>2 DEF intakeVars, Midnight, AssignHubToStore, tables
  <2>3. ASSUME NEW h \in Servers, PostStep(h) \/ PickupStep(h) \/ CustomerStep(h)
        PROVE  orders'[o] = orders[o]
    <3>1. CASE SaveParcel(h)
      BY <1>1, <2>1, <3>1 DEF SaveParcel, tables, TypeInv, TablesOK
    <3>2. CASE \E p \in Orders : RemoveParcel(h, p)
      BY <1>1, <2>1, <3>2 DEF RemoveParcel, TypeInv, TablesOK
    <3>3. CASE UpdateActualParcelsCount(h)
      BY <1>1, <2>1, <3>3, CountKeepsLinks
    <3> QED
      BY <2>3, <3>1, <3>2, <3>3, OrdersWritten
  <2> QED
    BY <1>1, <2>2, <2>3 DEF IntakeNext
<1> QED
  BY <1>1, IntakeInvariant, PTL DEF IntakeSpec

=============================================================================
