-------------------------- MODULE MerchantAccount --------------------------
(***************************************************************************)
(* A merchant's account: signing up, the approval by an admin, and then    *)
(* his payout methods and stores (merchant.service.ts, stores.service.ts). *)
(* At most one method and one store are the default: the method the        *)
(* merchant is paid by, the store his settings show.                       *)
(*                                                                         *)
(* None of these operations runs in a transaction.  Rows are read, changed *)
(* and saved whole by a later statement; a row that is gone by then is     *)
(* inserted again.  The default is moved by two statements: one takes the  *)
(* flag from every row that has it, one saves the row that gets it.        *)
(***************************************************************************)
EXTENDS Requests, Integers, FiniteSets

CONSTANTS
  Methods, Stores,   \* ids of payout methods and of stores
  Types,             \* the types of payout methods, among them Cash
  Cash

Items == Methods \cup Stores
Siblings(i) == IF i \in Methods THEN Methods ELSE Stores

Row ==
  [type : Types, status : {"PENDING", "VERIFIED"}, default : BOOLEAN]
    \cup [status : {"PENDING", "APPROVED"}]
    \cup [status : {"PENDING", "APPROVED", "DECLINED"}, default : BOOLEAN, synced : BOOLEAN]

AccountSteps ==
  {"activate", "merchant", "unset", "validate", "save", "choose", "sync", "remove"}

Errand ==
  [step : AccountSteps, item : Items \cup {NULL}, row : Row,
   next : {"idle", "choose", "sync", "remove", "save", "validate"}]

ASSUME AccountAssumption ==
  /\ Cash \in Types
  /\ Methods \cap Stores = {}
  /\ NULL \notin Items \cup Row
  /\ NULL \notin BOOLEAN /\ NULL \notin {"PENDING", "APPROVED"}

VARIABLES
  user,       \* the user's row: whether it is active, NULL when there is none
  merchant,   \* the status of the merchant's row, NULL when there is none
  session,    \* whether the merchant has logged in; his token lasts
  rows,       \* the tables of methods and stores, NULL where there is no row
  spent,      \* ids of removed rows, which are not given again
  broken,     \* whether a request ended in its midst, or the default was deleted
  hadStore    \* whether there has been a default store

accountVars == <<user, merchant, session, rows, spent, broken, hadStore, jobs, alone>>

AccountTypeOK ==
  /\ user \in BOOLEAN \cup {NULL}
  /\ merchant \in {"PENDING", "APPROVED", NULL}
  /\ session \in BOOLEAN
  /\ rows \in [Items -> (Row \ [status : {"PENDING", "APPROVED"}]) \cup {NULL}]
  /\ \A k \in Servers : jobs[k].step \in AccountSteps => jobs[k] \in Errand
  /\ spent \subseteq Items
  /\ broken \in BOOLEAN /\ hadStore \in BOOLEAN

AccountInit ==
  /\ user = NULL /\ merchant = NULL /\ session = FALSE
  /\ rows = [i \in Items |-> NULL]
  /\ spent = {} /\ broken = FALSE /\ hadStore = FALSE

-----------------------------------------------------------------------------
Known == {i \in Items : rows[i] # NULL}
Defaults(items) == {i \in items : rows[i] # NULL /\ rows[i].default}
OfType(t) == {m \in Methods : rows[m] # NULL /\ rows[m].type = t}

(* Signing up and the approval.                                            *)

WritesMerchant(k, step, status) ==
  Starts(k, [step |-> step, item |-> NULL, row |-> [status |-> status], next |-> "idle"])

\* The phone number must be new; the user is inserted, and then the merchant.
Signup(k) ==
  /\ user = NULL
  /\ user' = FALSE
  /\ WritesMerchant(k, "merchant", "PENDING")
  /\ UNCHANGED <<merchant, session, rows, spent, broken, hadStore>>

\* Mutant: the user is not activated.
ApproveMerchant_Inactive(k) ==
  /\ merchant = "PENDING"
  /\ WritesMerchant(k, "merchant", "APPROVED")
  /\ UNCHANGED <<user, merchant, session, rows, spent, broken, hadStore>>

ApproveMerchant(k) ==
  /\ merchant = "PENDING"
  /\ WritesMerchant(k, "activate", "APPROVED")
  /\ UNCHANGED <<user, merchant, session, rows, spent, broken, hadStore>>

ActivateUser(k) ==
  /\ At(k, "activate")
  /\ user' = TRUE
  /\ Continues(k, [jobs[k] EXCEPT !.step = "merchant"])
  /\ UNCHANGED <<merchant, session, rows, spent, broken, hadStore>>

\* The address changes; the status is saved as it was read.
UpdateMerchant(k) ==
  /\ merchant # NULL
  /\ WritesMerchant(k, "merchant", merchant)
  /\ UNCHANGED <<user, merchant, session, rows, spent, broken, hadStore>>

SaveMerchant(k) ==
  /\ At(k, "merchant")
  /\ merchant' = jobs[k].row.status
  /\ Ends(k)
  /\ UNCHANGED <<user, session, rows, spent, broken, hadStore>>

\* A merchant logs in when he is approved and his user is active.
Login ==
  /\ merchant = "APPROVED" /\ user = TRUE
  /\ session' = TRUE
  /\ UNCHANGED <<user, merchant, rows, spent, broken, hadStore, jobs, alone>>

-----------------------------------------------------------------------------
(* Payout methods.                                                         *)

Manages(k, step, i, row, next) ==
  /\ session
  /\ Starts(k, [step |-> step, item |-> i, row |-> row, next |-> next])
  /\ UNCHANGED <<user, merchant, session, rows, spent, broken, hadStore>>

New(i) == rows[i] = NULL /\ i \notin spent

\* The types the merchant is offered, and may still add.
AvailablePayoutMethods == {t \in Types : OfType(t) = {}}

AddPayoutMethod(k, m, t) ==
  /\ New(m)
  /\ t \in AvailablePayoutMethods
  /\ Manages(k, "save", m,
             [type |-> t, status |-> IF t = Cash THEN "VERIFIED" ELSE "PENDING", default |-> FALSE],
             "choose")

\* The type may be changed too, and the method stays verified.
UpdatePayoutMethod(k, m, t) ==
  rows[m] # NULL /\ Manages(k, "save", m, [rows[m] EXCEPT !.type = t], "idle")

VerifyPayoutMethod(k, m) ==
  rows[m] # NULL /\ Manages(k, "save", m, [rows[m] EXCEPT !.status = "VERIFIED"], "choose")

\* Mutant: whatever its status.
SetDefaultPayoutMethod_Any(k, m) ==
  /\ rows[m] # NULL
  /\ Manages(k, "unset", m, [rows[m] EXCEPT !.default = TRUE], "save")

SetDefaultPayoutMethod(k, m) ==
  /\ rows[m] # NULL /\ rows[m].status = "VERIFIED"
  /\ Manages(k, "unset", m, [rows[m] EXCEPT !.default = TRUE], "save")

\* A default is saved as none before it is removed.
DeletePayoutMethod(k, m) ==
  /\ rows[m] # NULL
  /\ IF rows[m].default
     THEN Manages(k, "save", m, [rows[m] EXCEPT !.default = FALSE], "remove")
     ELSE Manages(k, "remove", m, rows[m], "idle")

-----------------------------------------------------------------------------
(* Stores.                                                                 *)

\* Mutant: the default is not taken from the other stores.
CreateStore_Keeps(k, s, default) ==
  /\ New(s)
  /\ Manages(k, "validate", s,
             [status |-> "PENDING", default |-> default, synced |-> FALSE], "save")

\* The default is taken from the others before the location is validated.
CreateStore(k, s, default) ==
  /\ New(s)
  /\ Manages(k, IF default THEN "unset" ELSE "validate", s,
             [status |-> "PENDING", default |-> default, synced |-> FALSE],
             IF default THEN "validate" ELSE "save")

UpdateStore(k, s) == rows[s] # NULL /\ Manages(k, "save", s, rows[s], "idle")

\* The business name is that of the default store.
UpdateProfileDetails(k, s) ==
  s \in Defaults(Stores) /\ Manages(k, "save", s, rows[s], "idle")

SetAsDefault(k, s) ==
  /\ rows[s] # NULL
  /\ Manages(k, "unset", s, [rows[s] EXCEPT !.default = TRUE], "save")

\* "Cannot delete default store".
RemoveStore(k, s) ==
  rows[s] # NULL /\ ~rows[s].default /\ Manages(k, "remove", s, rows[s], "idle")

Reviews(k, s, status) ==
  /\ rows[s] # NULL /\ rows[s].status = "PENDING"
  /\ Manages(k, "save", s, [rows[s] EXCEPT !.status = status], "idle")

ApproveStore(k, s) == Reviews(k, s, "APPROVED")
RejectStore(k, s)  == Reviews(k, s, "DECLINED")

-----------------------------------------------------------------------------
(* The statements.                                                         *)

Errs(k) == Ends(k) /\ broken' = TRUE /\ UNCHANGED <<user, merchant, session, rows, spent, hadStore>>

UnsetDefaults(k) ==
  /\ At(k, "unset")
  /\ LET e == jobs[k]
     IN  /\ rows' = [i \in Items |-> IF i \in Defaults(Siblings(e.item))
                                     THEN [rows[i] EXCEPT !.default = FALSE] ELSE rows[i]]
         /\ Continues(k, [e EXCEPT !.step = e.next, !.next = "idle"])
  /\ UNCHANGED <<user, merchant, session, spent, broken, hadStore>>

\* The location of a new store is looked up, and may be refused.
ValidateLocation(k) ==
  /\ At(k, "validate")
  /\ Continues(k, [jobs[k] EXCEPT !.step = "save", !.next = "sync"])
  /\ UNCHANGED <<user, merchant, session, rows, spent, broken, hadStore>>

InvalidLocation(k) == At(k, "validate") /\ Errs(k)

\* A merchant has one method of a type, by a unique index.
TypeFree(m, row) == m \in Stores \/ OfType(row.type) \subseteq {m}

SaveRow(k) ==
  /\ At(k, "save")
  /\ LET e == jobs[k]
     IN  IF TypeFree(e.item, e.row)
         THEN /\ rows' = [rows EXCEPT ![e.item] = e.row]
              /\ hadStore' = (hadStore \/ (e.item \in Stores /\ e.row.default))
              /\ broken' = (broken \/ e.next = "remove")
              /\ Continues(k, IF e.next = "idle" THEN Idle
                              ELSE [e EXCEPT !.step = e.next, !.next = "idle"])
              /\ UNCHANGED <<user, merchant, session, spent>>
         ELSE Errs(k)

\* Mutant: only the first method of the merchant becomes the default.
ChooseDefault_First(k) ==
  /\ At(k, "choose")
  /\ LET e == jobs[k]
     IN  IF Known \cap Methods = {e.item} /\ e.row.status = "VERIFIED"
         THEN Continues(k, [e EXCEPT !.step = "save", !.row.default = TRUE])
         ELSE Ends(k)
  /\ UNCHANGED <<user, merchant, session, rows, spent, broken, hadStore>>

\* "If no default exists and this is verified, set as default".
ChooseDefault(k) ==
  /\ At(k, "choose")
  /\ LET e == jobs[k]
     IN  IF Defaults(Methods) = {} /\ e.row.status = "VERIFIED"
         THEN Continues(k, [e EXCEPT !.step = "save", !.row.default = TRUE])
         ELSE Ends(k)
  /\ UNCHANGED <<user, merchant, session, rows, spent, broken, hadStore>>

\* The new store is created at CarryBee too, whose calls may fail, and its row
\* is saved once more.
SyncStore(k) ==
  /\ At(k, "sync")
  /\ \/ Continues(k, [jobs[k] EXCEPT !.step = "save", !.row.synced = TRUE, !.next = "idle"])
     \/ Ends(k)
  /\ UNCHANGED <<user, merchant, session, rows, spent, broken, hadStore>>

RemoveRow(k) ==
  /\ At(k, "remove")
  /\ LET i == jobs[k].item
     IN  /\ rows' = [rows EXCEPT ![i] = NULL]
         /\ spent' = spent \cup {i}
  /\ Ends(k)
  /\ UNCHANGED <<user, merchant, session, broken, hadStore>>

\* A statement fails or the handler dies.
ClerkFails(k) == MayFail /\ jobs[k].step \in AccountSteps /\ Errs(k)

-----------------------------------------------------------------------------
AccountStep(k) ==
  \/ Signup(k) \/ ApproveMerchant(k) \/ ActivateUser(k) \/ UpdateMerchant(k) \/ SaveMerchant(k)
  \/ UnsetDefaults(k) \/ ValidateLocation(k) \/ InvalidLocation(k)
  \/ SaveRow(k) \/ ChooseDefault(k) \/ SyncStore(k) \/ RemoveRow(k)
  \/ ClerkFails(k)

MethodStep(k, m) ==
  \/ \E t \in Types : AddPayoutMethod(k, m, t) \/ UpdatePayoutMethod(k, m, t)
  \/ VerifyPayoutMethod(k, m) \/ SetDefaultPayoutMethod(k, m) \/ DeletePayoutMethod(k, m)

StoreStep(k, s) ==
  \/ \E default \in BOOLEAN : CreateStore(k, s, default)
  \/ UpdateStore(k, s) \/ UpdateProfileDetails(k, s) \/ SetAsDefault(k, s) \/ RemoveStore(k, s)
  \/ ApproveStore(k, s) \/ RejectStore(k, s)

AccountNext ==
  \/ Login
  \/ \E k \in Servers : \/ AccountStep(k)
                       \/ \E m \in Methods : MethodStep(k, m)
                       \/ \E s \in Stores : StoreStep(k, s)

AccountSpec == AccountInit /\ NoRequests /\ [][AccountNext]_accountVars

-----------------------------------------------------------------------------
(* Properties.                                                             *)

\* However requests interleave and fail, an approved merchant can log in: his user
\* has been activated before.
ApprovedIsActive == merchant = "APPROVED" => user = TRUE

\* "Cannot set pending methods as default": whatever stale rows are saved, the
\* default method is a verified one.
DefaultIsVerified == \A m \in Defaults(Methods) : rows[m].status = "VERIFIED"

\* "Only ONE default method per merchant", and one default store: served one at a
\* time, whichever statement fails.
OneDefault ==
  alone => /\ Cardinality(Defaults(Methods)) <= 1
           /\ Cardinality(Defaults(Stores)) <= 1

\* Served one at a time, with no request ending in its midst and the default method
\* not deleted: a merchant with a verified method has a default one, and one who
\* chose a default store keeps having one.
DefaultIsKept ==
  alone /\ ~broken /\ Rests =>
    /\ (\E m \in Methods : rows[m] # NULL /\ rows[m].status = "VERIFIED")
         => Defaults(Methods) # {}
    /\ hadStore => Defaults(Stores) # {}

=============================================================================
