------------------------------- MODULE Staff -------------------------------
(***************************************************************************)
(* The staff: admins (admin.service.ts), hubs with their managers          *)
(* (hubs.service.ts) and riders (riders.service.ts).  Each of them is a    *)
(* user; a rider has a rider row besides, and a manager a row that ties    *)
(* him to his hub, which is where his token takes the hub from.            *)
(*                                                                         *)
(* Checks come first and the rows are inserted by later statements,        *)
(* without a transaction; phone numbers, identity cards and hub codes are  *)
(* unique in the database.  A hub is identified by the user it was made    *)
(* with.  Passwords and tokens are left to UserSessions, the riders' hubs  *)
(* and work to ParcelLifecycle.                                            *)
(***************************************************************************)
EXTENDS Requests, FiniteSets, Naturals

CONSTANTS
  People,      \* ids of users
  Phones,
  Cards,       \* identity cards of riders
  HubCodes

Positions == {"ADMIN", "RIDER", "HUB_MANAGER"}
Person == [phone : Phones, position : Positions, active : BOOLEAN]
Rider == [card : Cards, active : BOOLEAN]
Hub == [code : HubCodes, manager : People]

StaffSteps ==
  {"user", "rider", "hub", "manager", "delete", "changed", "account", "desk", "hub row", "close"}

\* What a handler works on: user (or hub) p and the rows it will write.
Task ==
  [step : StaffSteps, p : People, row : Person \cup {NULL}, rider : Rider \cup {NULL},
   hub : Hub \cup {NULL}, password : BOOLEAN]

TaskOn(step, p) ==
  [step |-> step, p |-> p, row |-> NULL, rider |-> NULL, hub |-> NULL, password |-> FALSE]

ASSUME StaffAssumption == NULL \notin Person \cup Rider \cup Hub

VARIABLES
  users,       \* the row of each user
  riders,      \* the rider row of each user
  hubs,        \* the hub made with each user, and the manager_user_id it has
  managers,    \* the users that hub_managers ties to the hub made with them
  known,       \* ids that have been given
  cutOff       \* users whose registration broke off half-way

staff == <<users, riders, hubs, managers, known, cutOff>>
staffVars == <<staff, jobs, alone>>

StaffTypeOK ==
  /\ users \in [People -> Person \cup {NULL}]
  /\ riders \in [People -> Rider \cup {NULL}]
  /\ hubs \in [People -> Hub \cup {NULL}]
  /\ \A k \in Servers : jobs[k].step \in StaffSteps => jobs[k] \in Task
  /\ managers \subseteq known /\ cutOff \subseteq known /\ known \subseteq People

Users == {p \in People : users[p] # NULL}
Holding(position) == {p \in Users : users[p].position = position}

\* What the unique columns allow to user or hub p.
PhoneFree(p, phone) == \A q \in Users \ {p} : users[q].phone # phone
CardFree(p, card) == \A q \in People \ {p} : riders[q] # NULL => riders[q].card # card
CodeFree(p, code) == \A q \in People \ {p} : hubs[q] # NULL => hubs[q].code # code

\* The first admin comes in by a request that needs no token.
StaffInit ==
  /\ \E first \in People, phone \in Phones :
       /\ users = [p \in People |->
                     IF p = first THEN [phone |-> phone, position |-> "ADMIN", active |-> TRUE] ELSE NULL]
       /\ known = {first}
  /\ riders = [p \in People |-> NULL]
  /\ hubs = [p \in People |-> NULL]
  /\ managers = {} /\ cutOff = {}

-----------------------------------------------------------------------------
(* Registration.                                                           *)

Undertakes(k, task) == Starts(k, task) /\ UNCHANGED staff

Registers(k, phone, position, task) ==
  /\ task.p \notin known
  /\ PhoneFree(task.p, phone)
  /\ Starts(k, [task EXCEPT !.row = [phone |-> phone, position |-> position, active |-> TRUE]])
  /\ known' = known \cup {task.p}
  /\ UNCHANGED <<users, riders, hubs, managers, cutOff>>

CreateAdmin(k, p, phone) == Registers(k, phone, "ADMIN", TaskOn("user", p))

CreateRider(k, p, phone, card) ==
  /\ CardFree(p, card)
  /\ Registers(k, phone, "RIDER", [TaskOn("user", p) EXCEPT !.rider = [card |-> card, active |-> TRUE]])

CreateHub(k, p, phone, code) ==
  /\ CodeFree(p, code)
  /\ Registers(k, phone, "HUB_MANAGER", [TaskOn("user", p) EXCEPT !.hub = [code |-> code, manager |-> p]])

\* What the database refuses to insert, update or delete.
Refused(task) ==
  \/ task.step \in {"user", "account", "changed"} /\ ~PhoneFree(task.p, task.row.phone)
  \/ task.step = "changed" /\ task.p \notin Users /\ ~task.password
  \/ task.step \in {"rider", "desk"} /\ ~CardFree(task.p, task.rider.card)
  \/ task.step \in {"hub", "hub row"} /\ (~CodeFree(task.p, task.hub.code) \/ task.hub.manager \notin Users)
  \/ task.step = "manager" /\ hubs[task.p] = NULL
  \/ task.step = "close" /\ task.p \in managers
  \/ task.step = "delete" /\ \E q \in People : hubs[q] # NULL /\ hubs[q].manager = task.p

Runs(k, step) == At(k, step) /\ ~Refused(jobs[k])

InsertUser(k) ==
  LET task == jobs[k] IN
  /\ Runs(k, "user")
  /\ users' = [users EXCEPT ![task.p] = task.row]
  /\ CASE task.rider # NULL -> Continues(k, [task EXCEPT !.step = "rider"])
       [] task.hub # NULL -> Continues(k, [task EXCEPT !.step = "hub"])
       [] OTHER -> Ends(k)
  /\ UNCHANGED <<riders, hubs, managers, known, cutOff>>

InsertRider(k) ==
  /\ Runs(k, "rider")
  /\ riders' = [riders EXCEPT ![jobs[k].p] = jobs[k].rider]
  /\ Ends(k)
  /\ UNCHANGED <<users, hubs, managers, known, cutOff>>

\* Mutant: the manager is tied to his hub only later, by an update of it.
InsertHub_Unmanaged(k) ==
  /\ Runs(k, "hub")
  /\ hubs' = [hubs EXCEPT ![jobs[k].p] = jobs[k].hub]
  /\ Ends(k)
  /\ UNCHANGED <<users, riders, managers, known, cutOff>>

InsertHub(k) ==
  /\ Runs(k, "hub")
  /\ hubs' = [hubs EXCEPT ![jobs[k].p] = jobs[k].hub]
  /\ Continues(k, [jobs[k] EXCEPT !.step = "manager"])
  /\ UNCHANGED <<users, riders, managers, known, cutOff>>

InsertManager(k) ==
  /\ Runs(k, "manager")
  /\ managers' = managers \cup {jobs[k].p}
  /\ Ends(k)
  /\ UNCHANGED <<users, riders, hubs, known, cutOff>>

-----------------------------------------------------------------------------
(* Admins.                                                                 *)

\* Mutant: the admin himself is counted with those who remain.
RemoveAdmin_Last(k, p) ==
  /\ p \in Holding("ADMIN")
  /\ Cardinality(Holding("ADMIN")) >= 1
  /\ Undertakes(k, TaskOn("delete", p))

\* One who is gone before the count is deleted to no effect.
RemoveAdmin(k, p) ==
  /\ p \in Holding("ADMIN")
  /\ Cardinality(Holding("ADMIN")) > 1
  /\ Undertakes(k, TaskOn("delete", p))

\* Mutant: the hubs whose manager he is are left without one, as ON DELETE SET
\* NULL would have it.
DeleteAdmin_SetsNull(k) ==
  /\ At(k, "delete")
  /\ users' = [users EXCEPT ![jobs[k].p] = NULL]
  /\ hubs' = [q \in People |-> IF hubs[q] # NULL /\ hubs[q].manager = jobs[k].p
                               THEN [hubs[q] EXCEPT !.manager = NULL] ELSE hubs[q]]
  /\ Ends(k)
  /\ UNCHANGED <<riders, managers, known, cutOff>>

DeleteAdmin(k) ==
  /\ Runs(k, "delete")
  /\ users' = [users EXCEPT ![jobs[k].p] = NULL]
  /\ Ends(k)
  /\ UNCHANGED <<riders, hubs, managers, known, cutOff>>

\* Updated, with or without a new password; deactivated or activated.
ChangeAdmin(k, p, phone, active, password) ==
  /\ p \in Holding("ADMIN")
  /\ Undertakes(k, [TaskOn("changed", p) EXCEPT
                      !.row = [users[p] EXCEPT !.phone = phone, !.active = active], !.password = password])

\* A row that is gone is inserted again, if the request has a password for it.
SaveChangedAdmin(k) ==
  /\ Runs(k, "changed")
  /\ users' = [users EXCEPT ![jobs[k].p] = jobs[k].row]
  /\ Ends(k)
  /\ UNCHANGED <<riders, hubs, managers, known, cutOff>>

-----------------------------------------------------------------------------
(* Riders and hubs.                                                        *)

\* The rider's row takes what was sent, the user's only name, phone and e-mail.
UpdateRider(k, p, phone, rider) ==
  /\ riders[p] # NULL
  /\ CardFree(p, rider.card)
  /\ \/ Undertakes(k, [TaskOn("desk", p) EXCEPT !.rider = rider])
     \/ /\ PhoneFree(p, phone)
        /\ Undertakes(k, [TaskOn("account", p) EXCEPT !.row = [users[p] EXCEPT !.phone = phone],
                                                      !.rider = rider])

\* deactivate and activate: user and rider are set alike.
SetRiderActive(k, p, active) ==
  /\ riders[p] # NULL
  /\ Undertakes(k, [TaskOn("account", p) EXCEPT !.row = [users[p] EXCEPT !.active = active],
                                                !.rider = [riders[p] EXCEPT !.active = active]])

SaveRidersUser(k) ==
  /\ Runs(k, "account")
  /\ users' = [users EXCEPT ![jobs[k].p] = jobs[k].row]
  /\ Continues(k, [jobs[k] EXCEPT !.step = "desk"])
  /\ UNCHANGED <<riders, hubs, managers, known, cutOff>>

SaveRider(k) ==
  /\ Runs(k, "desk")
  /\ riders' = [riders EXCEPT ![jobs[k].p] = jobs[k].rider]
  /\ Ends(k)
  /\ UNCHANGED <<users, hubs, managers, known, cutOff>>

\* Another manager_user_id leaves hub_managers as it is.
UpdateHub(k, p, manager) ==
  /\ hubs[p] # NULL
  /\ Undertakes(k, [TaskOn("hub row", p) EXCEPT !.hub = [hubs[p] EXCEPT !.manager = manager]])

SaveHub(k) ==
  /\ Runs(k, "hub row")
  /\ hubs' = [hubs EXCEPT ![jobs[k].p] = jobs[k].hub]
  /\ Ends(k)
  /\ UNCHANGED <<users, riders, managers, known, cutOff>>

RemoveHub(k, p) == hubs[p] # NULL /\ Undertakes(k, TaskOn("close", p))

DeleteHub(k) ==
  /\ Runs(k, "close")
  /\ hubs' = [hubs EXCEPT ![jobs[k].p] = NULL]
  /\ Ends(k)
  /\ UNCHANGED <<users, riders, managers, known, cutOff>>

-----------------------------------------------------------------------------
\* A registration that has inserted the user and breaks off leaves him there.
TaskFails(k) ==
  /\ jobs[k].step \in StaffSteps
  /\ MayFail \/ Refused(jobs[k])
  /\ cutOff' = IF jobs[k].step \in {"rider", "hub", "manager"} THEN cutOff \cup {jobs[k].p} ELSE cutOff
  /\ Ends(k)
  /\ UNCHANGED <<users, riders, hubs, managers, known>>

AdminStep(k, p) ==
  \/ RemoveAdmin(k, p)
  \/ \E phone \in Phones :
       \/ CreateAdmin(k, p, phone)
       \/ \E active, password \in BOOLEAN : ChangeAdmin(k, p, phone, active, password)

RiderStep(k, p) ==
  \/ \E active \in BOOLEAN : SetRiderActive(k, p, active)
  \/ \E phone \in Phones :
       \/ \E card \in Cards : CreateRider(k, p, phone, card)
       \/ \E rider \in Rider : UpdateRider(k, p, phone, rider)

HubStep(k, p) ==
  \/ \E phone \in Phones, code \in HubCodes : CreateHub(k, p, phone, code)
  \/ \E manager \in People : UpdateHub(k, p, manager)
  \/ RemoveHub(k, p)

TaskStep(k) ==
  \/ InsertUser(k) \/ InsertRider(k) \/ InsertHub(k) \/ InsertManager(k)
  \/ DeleteAdmin(k) \/ SaveChangedAdmin(k) \/ SaveRidersUser(k) \/ SaveRider(k)
  \/ SaveHub(k) \/ DeleteHub(k) \/ TaskFails(k)

StaffNext ==
  \E k \in Servers :
    \/ \E p \in People : AdminStep(k, p) \/ RiderStep(k, p) \/ HubStep(k, p)
    \/ TaskStep(k)

StaffSpec == StaffInit /\ NoRequests /\ [][StaffNext]_staffVars

-----------------------------------------------------------------------------
(* Properties.                                                             *)

\* When requests are served one at a time there is always an admin.
AnAdminRemains == alone => Holding("ADMIN") # {}

\* "Prevent deleting the last admin": does not hold when two are removed at once.
LastAdminStays == Holding("ADMIN") # {}

\* Between requests, in every interleaving: riders are the users with a rider row
\* and hub managers those with a hub, or their registration broke off half-way;
\* no two users have the same phone number.
EveryoneHasHisPlace ==
  Rests =>
    \A p \in Users :
      /\ p \in cutOff \/ (riders[p] # NULL <=> users[p].position = "RIDER")
      /\ p \in cutOff \/ (p \in managers /\ hubs[p] # NULL <=> users[p].position = "HUB_MANAGER")
      /\ PhoneFree(p, users[p].phone)

=============================================================================
