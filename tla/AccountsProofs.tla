--------------------------- MODULE AccountsProofs ---------------------------
(* Theorems about MerchantAccount, Staff and UserSessions, for any payout  *)
(* methods, stores, people, passwords, codes, periods and any number of    *)
(* handlers.                                                               *)
EXTENDS MCAccounts, RequestsProofs

(* A merchant's account.                                                   *)

MethodRow == [type : Types, status : {"PENDING", "VERIFIED"}, default : BOOLEAN]
StoreRow ==
  [status : {"PENDING", "APPROVED", "DECLINED"}, default : BOOLEAN, synced : BOOLEAN]

\* A row that may be in the tables: a method that is the default is verified.
GoodRow(i, row) ==
  \/ i \in Methods /\ row \in MethodRow /\ (row.default => row.status = "VERIFIED")
  \/ i \in Stores /\ row \in StoreRow

RowsOK ==
  /\ rows = [i \in Items |-> rows[i]]
  /\ \A i \in Items : rows[i] = NULL \/ GoodRow(i, rows[i])

\* What a handler may have in its hands: a status APPROVED only once the user is
\* active, and rows that may be saved at any time.
ErrandOK(e) ==
  /\ e \in Errand
  /\ e.step = "unset" => e.next # "idle"
  /\ e.step \in {"activate", "merchant"} => e.row \in [status : {"PENDING", "APPROVED"}]
  /\ e.step = "merchant" /\ e.row.status = "APPROVED" => user = TRUE
  /\ e.step \notin {"activate", "merchant"} => GoodRow(e.item, e.row)

ErrandsOK == \A k \in Servers : jobs[k] = Idle \/ ErrandOK(jobs[k])

MerchantOK ==
  /\ user \in BOOLEAN \cup {NULL}
  /\ merchant \in {"PENDING", "APPROVED", NULL}
  /\ ApprovedIsActive

AccountInv == MerchantOK /\ RowsOK /\ JobsTotal /\ ErrandsOK

LEMMA AccountInvInit == AccountInit /\ NoRequests => AccountInv
PROOF
<1> SUFFICES ASSUME AccountInit, NoRequests PROVE AccountInv
  OBVIOUS
<1>1. JobsTotal /\ ErrandsOK
  BY Resting DEF ErrandsOK
<1>2. RowsOK
  BY DEF AccountInit, RowsOK
<1>3. MerchantOK
  BY AccountAssumption DEF AccountInit, MerchantOK, ApprovedIsActive
<1> QED
  BY <1>1, <1>2, <1>3 DEF AccountInv

\* A handler takes an errand, or goes on with it, and leaves the tables in order.
LEMMA Turning ==
  ASSUME AccountInv, NEW k \in Servers, NEW e,
         Starts(k, e) \/ Continues(k, e), e = Idle \/ ErrandOK(e),
         MerchantOK', RowsOK', user' = user \/ user' = TRUE \/ user = NULL
  PROVE  AccountInv'
PROOF
<1>1. /\ JobsTotal' /\ jobs'[k] = e
      /\ \A j \in Servers : j # k => jobs'[j] = jobs[j]
  BY Starting, Continuing DEF AccountInv
<1>2. ASSUME NEW d, ErrandOK(d) PROVE ErrandOK(d)'
  BY <1>2, AccountAssumption DEF ErrandOK
<1> QED
  BY <1>1, <1>2 DEF AccountInv, ErrandsOK

LEMMA Held ==
  ASSUME AccountInv, NEW k \in Servers, NEW step \in AccountSteps, At(k, step)
  PROVE  ErrandOK(jobs[k]) /\ jobs[k].step = step
BY DEF AccountInv, ErrandsOK, At, Idle, AccountSteps

\* Signing up, approval and profile.
LEMMA MerchantPreserves ==
  ASSUME AccountInv, NEW k \in Servers,
         \/ Signup(k) \/ ApproveMerchant(k) \/ ActivateUser(k) \/ UpdateMerchant(k)
         \/ SaveMerchant(k)
  PROVE  AccountInv'
PROOF
<1> DEFINE errand(step, status) ==
      [step |-> step, item |-> NULL, row |-> [status |-> status], next |-> "idle"]
<1>1. ASSUME NEW step \in {"activate", "merchant"}, NEW status \in {"PENDING", "APPROVED"}
      PROVE  /\ errand(step, status) \in Errand
             /\ errand(step, status).step = step
             /\ errand(step, status).row = [status |-> status]
  BY <1>1 DEF Errand, AccountSteps, Row
<1>2. ASSUME NEW step \in {"activate", "merchant"}, NEW status \in {"PENDING", "APPROVED"},
             step = "merchant" /\ status = "APPROVED" => user = TRUE
      PROVE  ErrandOK(errand(step, status))
  BY <1>1, <1>2 DEF ErrandOK
<1> HIDE DEF errand
<1>3. rows' = rows => RowsOK'
  BY DEF AccountInv, RowsOK
<1>5. CASE Signup(k)
  <2>1. Starts(k, errand("merchant", "PENDING"))
    BY <1>5 DEF Signup, WritesMerchant, errand
  <2>2. MerchantOK' /\ RowsOK' /\ user = NULL
    BY <1>5, <1>3, AccountAssumption DEF Signup, AccountInv, MerchantOK, ApprovedIsActive
  <2> QED
    BY <2>1, <2>2, <1>2, Turning
<1>6. CASE ApproveMerchant(k)
  <2>1. Starts(k, errand("activate", "APPROVED"))
    BY <1>6 DEF ApproveMerchant, WritesMerchant, errand
  <2>2. MerchantOK' /\ RowsOK' /\ user' = user
    BY <1>6, <1>3 DEF ApproveMerchant, AccountInv, MerchantOK, ApprovedIsActive
  <2> QED
    BY <2>1, <2>2, <1>2, Turning
<1>7. CASE UpdateMerchant(k)
  <2>1. merchant \in {"PENDING", "APPROVED"} /\ (merchant = "APPROVED" => user = TRUE)
    BY <1>7 DEF UpdateMerchant, AccountInv, MerchantOK, ApprovedIsActive
  <2>2. Starts(k, errand("merchant", merchant))
    BY <1>7 DEF UpdateMerchant, WritesMerchant, errand
  <2>3. MerchantOK' /\ RowsOK' /\ user' = user
    BY <1>7, <1>3 DEF UpdateMerchant, AccountInv, MerchantOK, ApprovedIsActive
  <2>4. ErrandOK(errand("merchant", merchant))
    BY <2>1, <1>2
  <2> QED
    BY <2>2, <2>3, <2>4, Turning
<1>8. CASE ActivateUser(k)
  <2> PICK e : e = [jobs[k] EXCEPT !.step = "merchant"]
    OBVIOUS
  <2>1. ErrandOK(jobs[k]) /\ jobs[k].step = "activate"
    BY <1>8, Held DEF ActivateUser, AccountSteps
  <2>2. e \in Errand /\ e.step = "merchant" /\ e.row = jobs[k].row
    BY <2>1 DEF ErrandOK, Errand, AccountSteps
  <2>3. Continues(k, e) /\ user' = TRUE /\ rows' = rows
    BY <1>8 DEF ActivateUser
  <2>4. MerchantOK' /\ RowsOK'
    BY <1>8, <1>3 DEF ActivateUser, AccountInv, MerchantOK, ApprovedIsActive
  <2>5. JobsTotal' /\ jobs'[k] = e /\ \A j \in Servers : j # k => jobs'[j] = jobs[j]
    BY <2>3, Continuing DEF AccountInv
  <2>6. ErrandOK(e)' /\ \A d : ErrandOK(d) => ErrandOK(d)'
    BY <2>1, <2>2, <2>3 DEF ErrandOK
  <2> QED
    BY <2>3, <2>4, <2>5, <2>6 DEF AccountInv, ErrandsOK
<1>9. CASE SaveMerchant(k)
  <2>1. ErrandOK(jobs[k]) /\ jobs[k].step = "merchant"
    BY <1>9, Held DEF SaveMerchant, AccountSteps
  <2>2. /\ jobs[k].row.status \in {"PENDING", "APPROVED"}
        /\ jobs[k].row.status = "APPROVED" => user = TRUE
    BY <2>1 DEF ErrandOK
  <2>3. MerchantOK' /\ RowsOK' /\ user' = user /\ Continues(k, Idle)
    BY <1>9, <1>3, <2>2 DEF SaveMerchant, Ends, AccountInv, MerchantOK, ApprovedIsActive
  <2> QED
    BY <2>3, Turning
<1> QED
  BY <1>5, <1>6, <1>7, <1>8, <1>9

\* A merchant's request on a method or a store, which takes a row that may be saved.
LEMMA ManagesPreserves ==
  ASSUME AccountInv, NEW k \in Servers, NEW i \in Items, NEW row,
         NEW step \in {"unset", "validate", "save", "remove"},
         NEW next \in {"idle", "choose", "remove", "save", "validate"},
         step = "unset" => next # "idle",
         Manages(k, step, i, row, next), GoodRow(i, row)
  PROVE  AccountInv'
PROOF
<1> DEFINE e == [step |-> step, item |-> i, row |-> row, next |-> next]
<1>1. row \in Row
  BY DEF GoodRow, MethodRow, StoreRow, Row
<1>2. ErrandOK(e)
  BY <1>1 DEF ErrandOK, Errand, AccountSteps
<1>3. /\ Starts(k, e)
      /\ UNCHANGED <<user, merchant, session, rows, spent, broken, hadStore>>
  BY DEF Manages
<1> HIDE DEF e
<1>4. MerchantOK' /\ RowsOK'
  BY <1>3 DEF AccountInv, MerchantOK, ApprovedIsActive, RowsOK
<1> QED
  BY <1>2, <1>3, <1>4, Turning

LEMMA RowFacts ==
  ASSUME AccountInv
  PROVE  /\ \A m \in Methods : rows[m] # NULL => rows[m] \in MethodRow /\ GoodRow(m, rows[m])
         /\ \A t \in Stores : rows[t] # NULL => rows[t] \in StoreRow /\ GoodRow(t, rows[t])
BY AccountAssumption DEF AccountInv, RowsOK, GoodRow, Items

LEMMA MethodPreserves ==
  ASSUME AccountInv, NEW k \in Servers, NEW m \in Methods, MethodStep(k, m)
  PROVE  AccountInv'
PROOF
<1> USE DEF Items
<1>1. rows[m] # NULL => rows[m] \in MethodRow /\ (rows[m].default => rows[m].status = "VERIFIED")
  BY RowFacts, AccountAssumption DEF GoodRow
<1>2. ASSUME NEW t \in Types, AddPayoutMethod(k, m, t)
      PROVE  AccountInv'
  <2> DEFINE row == [type |-> t, status |-> IF t = Cash THEN "VERIFIED" ELSE "PENDING",
                     default |-> FALSE]
  <2>1. GoodRow(m, row)
    BY DEF GoodRow, MethodRow
  <2>2. Manages(k, "save", m, row, "choose")
    BY <1>2 DEF AddPayoutMethod
  <2> HIDE DEF row
  <2> QED
    BY <2>1, <2>2, ManagesPreserves
<1>3. ASSUME NEW t \in Types, UpdatePayoutMethod(k, m, t)
      PROVE  AccountInv'
  <2> DEFINE row == [rows[m] EXCEPT !.type = t]
  <2>1. GoodRow(m, row)
    BY <1>1, <1>3 DEF UpdatePayoutMethod, GoodRow, MethodRow
  <2>2. Manages(k, "save", m, row, "idle")
    BY <1>3 DEF UpdatePayoutMethod
  <2> HIDE DEF row
  <2> QED
    BY <2>1, <2>2, ManagesPreserves
<1>4. CASE VerifyPayoutMethod(k, m)
  <2> DEFINE row == [rows[m] EXCEPT !.status = "VERIFIED"]
  <2>1. GoodRow(m, row)
    BY <1>1, <1>4 DEF VerifyPayoutMethod, GoodRow, MethodRow
  <2>2. Manages(k, "save", m, row, "choose")
    BY <1>4 DEF VerifyPayoutMethod
  <2> HIDE DEF row
  <2> QED
    BY <2>1, <2>2, ManagesPreserves
<1>5. CASE SetDefaultPayoutMethod(k, m)
  <2> DEFINE row == [rows[m] EXCEPT !.default = TRUE]
  <2>1. GoodRow(m, row)
    BY <1>1, <1>5 DEF SetDefaultPayoutMethod, GoodRow, MethodRow
  <2>2. Manages(k, "unset", m, row, "save")
    BY <1>5 DEF SetDefaultPayoutMethod
  <2> HIDE DEF row
  <2> QED
    BY <2>1, <2>2, ManagesPreserves
<1>6. CASE DeletePayoutMethod(k, m)
  <2> DEFINE row == [rows[m] EXCEPT !.default = FALSE]
  <2>1. GoodRow(m, row) /\ GoodRow(m, rows[m])
    BY <1>1, <1>6 DEF DeletePayoutMethod, GoodRow, MethodRow
  <2>2. Manages(k, "save", m, row, "remove") \/ Manages(k, "remove", m, rows[m], "idle")
    BY <1>6 DEF DeletePayoutMethod
  <2> HIDE DEF row
  <2>3. CASE Manages(k, "save", m, row, "remove")
    BY <2>1, <2>3, ManagesPreserves
  <2>4. CASE Manages(k, "remove", m, rows[m], "idle")
    BY <2>1, <2>4, ManagesPreserves
  <2> QED
    BY <2>2, <2>3, <2>4
<1> QED
  BY <1>2, <1>3, <1>4, <1>5, <1>6 DEF MethodStep

LEMMA StorePreserves ==
  ASSUME AccountInv, NEW k \in Servers, NEW t \in Stores, StoreStep(k, t)
  PROVE  AccountInv'
PROOF
<1> USE DEF Items
<1>1. rows[t] # NULL => rows[t] \in StoreRow
  BY RowFacts
<1>2. ASSUME NEW row \in StoreRow, NEW step \in {"unset", "validate", "save", "remove"},
             NEW next \in {"idle", "save", "validate"}, step = "unset" => next # "idle",
             Manages(k, step, t, row, next)
      PROVE  AccountInv'
  <2>1. GoodRow(t, row)
    BY <1>2 DEF GoodRow
  <2> QED
    BY <1>2, <2>1, ManagesPreserves
<1>3. ASSUME NEW default \in BOOLEAN, CreateStore(k, t, default)
      PROVE  AccountInv'
  <2> DEFINE row == [status |-> "PENDING", default |-> default, synced |-> FALSE]
  <2>1. row \in StoreRow
    BY DEF StoreRow
  <2>2. Manages(k, "unset", t, row, "validate") \/ Manages(k, "validate", t, row, "save")
    BY <1>3 DEF CreateStore
  <2> HIDE DEF row
  <2> QED
    BY <2>1, <2>2, <1>2
<1>4. CASE UpdateStore(k, t) \/ UpdateProfileDetails(k, t)
  <2>1. rows[t] \in StoreRow /\ Manages(k, "save", t, rows[t], "idle")
    BY <1>1, <1>4 DEF UpdateStore, UpdateProfileDetails, Defaults
  <2> QED
    BY <2>1, <1>2
<1>5. CASE SetAsDefault(k, t)
  <2> DEFINE row == [rows[t] EXCEPT !.default = TRUE]
  <2>1. row \in StoreRow /\ Manages(k, "unset", t, row, "save")
    BY <1>1, <1>5 DEF SetAsDefault, StoreRow
  <2> HIDE DEF row
  <2> QED
    BY <2>1, <1>2
<1>6. CASE RemoveStore(k, t)
  <2>1. rows[t] \in StoreRow /\ Manages(k, "remove", t, rows[t], "idle")
    BY <1>1, <1>6 DEF RemoveStore
  <2> QED
    BY <2>1, <1>2
<1>7. CASE ApproveStore(k, t) \/ RejectStore(k, t)
  <2> DEFINE row(status) == [rows[t] EXCEPT !.status = status]
  <2>1. /\ row("APPROVED") \in StoreRow /\ row("DECLINED") \in StoreRow
        /\ \/ Manages(k, "save", t, row("APPROVED"), "idle")
           \/ Manages(k, "save", t, row("DECLINED"), "idle")
    BY <1>1, <1>7 DEF ApproveStore, RejectStore, Reviews, StoreRow
  <2> HIDE DEF row
  <2> QED
    BY <2>1, <1>2
<1> QED
  BY <1>3, <1>4, <1>5, <1>6, <1>7 DEF StoreStep

\* The statements that follow.
LEMMA StatementPreserves ==
  ASSUME AccountInv, NEW k \in Servers,
         \/ UnsetDefaults(k) \/ ValidateLocation(k) \/ InvalidLocation(k)
         \/ SaveRow(k) \/ ChooseDefault(k) \/ SyncStore(k) \/ RemoveRow(k)
         \/ ClerkFails(k)
  PROVE  AccountInv'
PROOF
<1>1. user' = user /\ merchant' = merchant
  BY DEF UnsetDefaults, ValidateLocation, InvalidLocation, SaveRow, ChooseDefault, SyncStore,
         RemoveRow, ClerkFails, Errs
<1>2. MerchantOK'
  BY <1>1 DEF AccountInv, MerchantOK, ApprovedIsActive
<1>3. rows' = rows => RowsOK'
  BY DEF AccountInv, RowsOK
<1>4. ASSUME NEW step \in AccountSteps \ {"activate", "merchant"}, At(k, step)
      PROVE  /\ ErrandOK(jobs[k]) /\ jobs[k].step = step
             /\ jobs[k].item \in Items /\ GoodRow(jobs[k].item, jobs[k].row)
             /\ jobs[k].row \in Row
  <2>1. ErrandOK(jobs[k]) /\ jobs[k].step = step
    BY <1>4, Held
  <2> QED
    BY <2>1 DEF ErrandOK, Errand, GoodRow, Items
\* The next step of an errand on the same item.
<1>5. ASSUME NEW e, e \in Errand, e.step \in AccountSteps \ {"activate", "merchant", "unset"},
             GoodRow(e.item, e.row)
      PROVE  ErrandOK(e)
  BY <1>5 DEF ErrandOK
<1>6. CASE UnsetDefaults(k)
  <2> DEFINE e == [jobs[k] EXCEPT !.step = jobs[k].next, !.next = "idle"]
  <2>1. ErrandOK(jobs[k]) /\ jobs[k].step = "unset" /\ GoodRow(jobs[k].item, jobs[k].row)
    BY <1>6, <1>4 DEF UnsetDefaults, AccountSteps
  <2>2. /\ e \in Errand /\ e.step \in AccountSteps \ {"activate", "merchant", "unset"}
        /\ e.item = jobs[k].item /\ e.row = jobs[k].row
    BY <2>1 DEF ErrandOK, Errand, AccountSteps
  <2>3. Continues(k, e)
    BY <1>6 DEF UnsetDefaults
  <2> HIDE DEF e
  <2>4. ErrandOK(e)
    BY <2>1, <2>2, <1>5
  <2>5. RowsOK'
    <3>1. rows' = [i \in Items |-> IF i \in Defaults(Siblings(jobs[k].item))
                                   THEN [rows[i] EXCEPT !.default = FALSE] ELSE rows[i]]
      BY <1>6 DEF UnsetDefaults
    <3>2. ASSUME NEW i \in Items, rows[i] # NULL
          PROVE  GoodRow(i, [rows[i] EXCEPT !.default = FALSE])
      <4>1. GoodRow(i, rows[i])
        BY <3>2 DEF AccountInv, RowsOK
      <4> QED
        BY <4>1 DEF GoodRow, MethodRow, StoreRow
    <3> QED
      BY <3>1, <3>2 DEF AccountInv, RowsOK, Defaults
  <2> QED
    BY <2>3, <2>4, <2>5, <1>1, <1>2, Turning
<1>7. CASE ValidateLocation(k)
  <2> DEFINE e == [jobs[k] EXCEPT !.step = "save", !.next = "sync"]
  <2>1. ErrandOK(jobs[k]) /\ GoodRow(jobs[k].item, jobs[k].row)
    BY <1>7, <1>4 DEF ValidateLocation, AccountSteps
  <2>2. /\ e \in Errand /\ e.step = "save" /\ e.item = jobs[k].item /\ e.row = jobs[k].row
    BY <2>1 DEF ErrandOK, Errand, AccountSteps
  <2>3. Continues(k, e) /\ rows' = rows
    BY <1>7 DEF ValidateLocation
  <2> HIDE DEF e
  <2>4. ErrandOK(e)
    BY <2>1, <2>2, <1>5 DEF AccountSteps
  <2> QED
    BY <2>3, <2>4, <1>1, <1>2, <1>3, Turning
<1>8. CASE InvalidLocation(k) \/ ClerkFails(k)
  <2>1. Continues(k, Idle) /\ rows' = rows
    BY <1>8 DEF InvalidLocation, ClerkFails, Errs, Ends
  <2> QED
    BY <2>1, <1>1, <1>2, <1>3, Turning
<1>9. CASE SaveRow(k)
  <2> DEFINE e == jobs[k]
             next == [e EXCEPT !.step = e.next, !.next = "idle"]
  <2>1. ErrandOK(e) /\ e.item \in Items /\ GoodRow(e.item, e.row)
    BY <1>9, <1>4 DEF SaveRow, AccountSteps
  <2>2. CASE TypeFree(e.item, e.row)
    <3>1. /\ rows' = [rows EXCEPT ![e.item] = e.row]
          /\ Continues(k, IF e.next = "idle" THEN Idle ELSE next)
      BY <1>9, <2>2 DEF SaveRow
    <3>2. RowsOK'
      BY <2>1, <3>1 DEF AccountInv, RowsOK
    <3>3. e.next # "idle" =>
            /\ next \in Errand /\ next.step \in AccountSteps \ {"activate", "merchant", "unset"}
            /\ next.item = e.item /\ next.row = e.row
      BY <2>1 DEF ErrandOK, Errand, AccountSteps
    <3> HIDE DEF next
    <3>4. e.next # "idle" => ErrandOK(next)
      BY <2>1, <3>3, <1>5
    <3>5. CASE e.next = "idle"
      BY <3>1, <3>2, <3>5, <1>1, <1>2, Turning
    <3>6. CASE e.next # "idle"
      BY <3>1, <3>2, <3>4, <3>6, <1>1, <1>2, Turning
    <3> QED
      BY <3>5, <3>6
  <2>3. CASE ~TypeFree(e.item, e.row)
    <3>1. Continues(k, Idle) /\ rows' = rows
      BY <1>9, <2>3 DEF SaveRow, Errs, Ends
    <3> QED
      BY <3>1, <1>1, <1>2, <1>3, Turning
  <2> QED
    BY <2>2, <2>3
<1>10. CASE ChooseDefault(k)
  <2> DEFINE row == [jobs[k].row EXCEPT !.default = TRUE]
             e == [jobs[k] EXCEPT !.step = "save", !.row.default = TRUE]
  <2>1. /\ ErrandOK(jobs[k]) /\ GoodRow(jobs[k].item, jobs[k].row) /\ rows' = rows
        /\ jobs[k] \in Errand
    BY <1>10, <1>4 DEF ChooseDefault, AccountSteps, ErrandOK
  <2>2. CASE jobs[k].row.status = "VERIFIED" /\ Continues(k, e)
    <3>1. GoodRow(jobs[k].item, row) /\ row \in Row
      BY <2>1, <2>2 DEF GoodRow, MethodRow, StoreRow, Row
    <3>2. e = [jobs[k] EXCEPT !.step = "save", !.row = row]
      BY <2>1 DEF Errand
    <3> HIDE DEF row, e
    <3>3. e \in Errand /\ e.step = "save" /\ e.item = jobs[k].item /\ e.row = row
      BY <2>1, <3>1, <3>2 DEF Errand, AccountSteps
    <3>4. ErrandOK(e)
      BY <3>1, <3>3, <1>5 DEF AccountSteps
    <3> QED
      BY <2>1, <2>2, <3>4, <1>1, <1>2, <1>3, Turning
  <2>3. CASE Ends(k)
    BY <2>1, <2>3, <1>1, <1>2, <1>3, Turning DEF Ends
  <2> QED
    BY <1>10, <2>2, <2>3 DEF ChooseDefault
<1>11. CASE SyncStore(k)
  <2> DEFINE row == [jobs[k].row EXCEPT !.synced = TRUE]
             e == [jobs[k] EXCEPT !.step = "save", !.row.synced = TRUE, !.next = "idle"]
  <2>1. /\ ErrandOK(jobs[k]) /\ GoodRow(jobs[k].item, jobs[k].row) /\ rows' = rows
        /\ jobs[k] \in Errand /\ jobs[k].row \in Row
    BY <1>11, <1>4 DEF SyncStore, AccountSteps, ErrandOK
  <2>2. CASE Continues(k, e)
    <3>1. GoodRow(jobs[k].item, row) /\ row \in Row
      BY <2>1 DEF GoodRow, MethodRow, StoreRow, Row
    <3>2. e = [jobs[k] EXCEPT !.step = "save", !.row = row, !.next = "idle"]
      BY <2>1 DEF Errand
    <3> HIDE DEF row, e
    <3>3. e \in Errand /\ e.step = "save" /\ e.item = jobs[k].item /\ e.row = row
      BY <2>1, <3>1, <3>2 DEF Errand, AccountSteps
    <3>4. ErrandOK(e)
      BY <3>1, <3>3, <1>5 DEF AccountSteps
    <3> QED
      BY <2>1, <2>2, <3>4, <1>1, <1>2, <1>3, Turning
  <2>3. CASE Ends(k)
    BY <2>1, <2>3, <1>1, <1>2, <1>3, Turning DEF Ends
  <2> QED
    BY <1>11, <2>2, <2>3 DEF SyncStore
<1>12. CASE RemoveRow(k)
  <2>1. jobs[k].item \in Items
    BY <1>12, <1>4 DEF RemoveRow, AccountSteps
  <2>2. RowsOK' /\ Continues(k, Idle)
    BY <1>12, <2>1 DEF RemoveRow, Ends, AccountInv, RowsOK
  <2> QED
    BY <2>2, <1>1, <1>2, Turning
<1> QED
  BY <1>6, <1>7, <1>8, <1>9, <1>10, <1>11, <1>12

LEMMA LoginPreserves ==
  ASSUME AccountInv, Login
  PROVE  AccountInv'
PROOF
<1>1. /\ UNCHANGED <<user, merchant, rows, jobs>>
  BY DEF Login
<1> QED
  BY <1>1 DEF AccountInv, MerchantOK, ApprovedIsActive, RowsOK, GoodRow, JobsTotal, ErrandsOK, ErrandOK

LEMMA AccountInvStep == AccountInv /\ [AccountNext]_accountVars => AccountInv'
PROOF
<1> SUFFICES ASSUME AccountInv, [AccountNext]_accountVars PROVE AccountInv'
  OBVIOUS
<1>1. CASE UNCHANGED accountVars
  BY <1>1 DEF accountVars, AccountInv, MerchantOK, ApprovedIsActive, RowsOK, GoodRow, JobsTotal,
              ErrandsOK, ErrandOK
<1>2. CASE Login
  BY <1>2, LoginPreserves
<1>3. ASSUME NEW k \in Servers, AccountStep(k) PROVE AccountInv'
  BY <1>3, MerchantPreserves, StatementPreserves DEF AccountStep
<1>4. ASSUME NEW k \in Servers, NEW m \in Methods, MethodStep(k, m) PROVE AccountInv'
  BY <1>4, MethodPreserves
<1>5. ASSUME NEW k \in Servers, NEW t \in Stores, StoreStep(k, t) PROVE AccountInv'
  BY <1>5, StorePreserves
<1> QED
  BY <1>1, <1>2, <1>3, <1>4, <1>5 DEF AccountNext

\* However requests interleave and fail, a merchant whose row says APPROVED has an
\* active user: approveMerchant saves the user first, and the rows that stale
\* handlers save were approved after that.
THEOREM ApprovedCanLogIn == AccountSpec => []ApprovedIsActive
PROOF
<1>1. AccountInit /\ NoRequests => AccountInv
  BY AccountInvInit
<1>2. AccountInv /\ [AccountNext]_accountVars => AccountInv'
  BY AccountInvStep
<1>3. AccountInv => ApprovedIsActive
  BY DEF AccountInv, MerchantOK
<1> QED
  BY <1>1, <1>2, <1>3, PTL DEF AccountSpec

\* Whatever handlers read and save, in whatever order, the default payout method is
\* verified: no handler ever holds a row that is the default and is not.
THEOREM DefaultsAreVerified == AccountSpec => []DefaultIsVerified
PROOF
<1>1. AccountInit /\ NoRequests => AccountInv
  BY AccountInvInit
<1>2. AccountInv /\ [AccountNext]_accountVars => AccountInv'
  BY AccountInvStep
<1>3. AccountInv => DefaultIsVerified
  BY RowFacts, AccountAssumption DEF GoodRow, DefaultIsVerified, Defaults
<1> QED
  BY <1>1, <1>2, <1>3, PTL DEF AccountSpec

-----------------------------------------------------------------------------
(* Default methods and stores, one request at a time.                      *)

OneAtWork == \A j, k \in Servers : jobs[j] # Idle /\ jobs[k] # Idle => j = k

IsDefault(i) == rows[i] # NULL /\ rows[i].default
IsVerified(i) == rows[i] # NULL /\ rows[i].status = "VERIFIED"
HasDefault(items) == \E i \in items : IsDefault(i)

OnlyDefault == \A j \in Items : \A i \in Siblings(j) : IsDefault(i) /\ IsDefault(j) => i = j

\* A row on its way to be the default meets no other default; and where nothing broke
\* off, no row is saved or removed that takes the flag from the default, and no method
\* is verified without the search for a default that follows.
Fits(e) ==
  \/ e.step \in {"activate", "merchant"}
  \/ /\ e.step = "unset" => e.row.default /\ e.next \in {"save", "validate"}
     /\ e.step = "unset" /\ e.next = "validate" => e.item \in Stores
     /\ e.step = "save" => e.next \in {"idle", "choose", "sync", "remove"}
     /\ e.step = "validate" => e.next # "remove"
     /\ e.step \in {"validate", "sync"} \/ e.next = "sync" => e.item \in Stores
     /\ e.step = "choose" \/ e.next = "choose" => e.item \in Methods
     /\ e.step \in {"choose", "sync", "remove"} => e.next = "idle"
     /\ e.step # "unset" /\ e.row.default => \A i \in Siblings(e.item) : IsDefault(i) => i = e.item
     /\ ~broken =>
          /\ e.step # "remove" /\ e.next # "remove" /\ IsDefault(e.item) => e.row.default
          /\ e.step = "remove" => ~IsDefault(e.item)
          /\ e.step = "save" /\ e.next = "idle" /\ e.item \in Methods /\ e.row.status = "VERIFIED"
               => e.row.default \/ IsVerified(e.item)

\* There is a default where there has to be, or errand e is about to save it.
Kept(e) ==
  /\ (\E m \in Methods : IsVerified(m)) /\ ~HasDefault(Methods) =>
       /\ e.step \in {"save", "choose"} /\ e.item \in Methods
       /\ IF e.step = "save" THEN e.row.default ELSE e.row.status = "VERIFIED"
  /\ hadStore /\ ~HasDefault(Stores) =>
       e.step \in {"validate", "save"} /\ e.item \in Stores /\ e.row.default

\* Served one at a time: what is so between the statements of the one request.
DefaultsInv ==
  /\ alone \in BOOLEAN
  /\ alone => /\ OneAtWork /\ OnlyDefault
              /\ \A k \in Servers : jobs[k] = Idle \/ Fits(jobs[k])
              /\ ~broken => Kept(Idle) \/ \E k \in Servers : jobs[k] # Idle /\ Kept(jobs[k])

LEMMA DefaultsInit == AccountInit /\ NoRequests => DefaultsInv
PROOF
<1> SUFFICES ASSUME AccountInit, NoRequests PROVE DefaultsInv
  OBVIOUS
<1>1. alone \in BOOLEAN /\ \A k \in Servers : jobs[k] = Idle
  BY Resting
<1>2. \A i \in Items : rows[i] = NULL
  BY DEF AccountInit
<1>3. OnlyDefault /\ Kept(Idle)
  BY <1>2 DEF OnlyDefault, Kept, HasDefault, IsDefault, IsVerified, Siblings, Items, AccountInit
<1> QED
  BY <1>1, <1>3 DEF DefaultsInv, OneAtWork

\* A handler takes an errand, or goes on with it: the others rest.
LEMMA DefaultsTurning ==
  ASSUME AccountInv, DefaultsInv, NEW k \in Servers, NEW c, c = jobs[k], NEW e,
         Starts(k, e) \/ (Continues(k, e) /\ c # Idle),
         alone /\ OnlyDefault /\ (c = Idle \/ Fits(c)) /\ (~broken => Kept(c))
           => OnlyDefault' /\ (e = Idle \/ Fits(e)') /\ (~broken' => Kept(e)')
  PROVE  DefaultsInv'
PROOF
<1>1. /\ jobs'[k] = e /\ alone' \in BOOLEAN
      /\ \A j \in Servers \ {k} : jobs'[j] = jobs[j]
  BY Starting, StartingAlone, Continuing DEF AccountInv, DefaultsInv
<1> SUFFICES ASSUME alone'
             PROVE  /\ OneAtWork' /\ OnlyDefault'
                    /\ \A j \in Servers : jobs'[j] = Idle \/ Fits(jobs[j])'
                    /\ ~broken' => Kept(Idle)' \/ \E j \in Servers : jobs'[j] # Idle /\ Kept(jobs[j])'
  BY <1>1 DEF DefaultsInv
<1>2. alone /\ \A j \in Servers \ {k} : jobs[j] = Idle
  <2>1. CASE Starts(k, e)
    BY <2>1, StartingAlone DEF DefaultsInv
  <2>2. CASE Continues(k, e) /\ c # Idle
    BY <2>2 DEF Continues, DefaultsInv, OneAtWork
  <2> QED
    BY <2>1, <2>2
<1>3. OnlyDefault /\ (c = Idle \/ Fits(c))
  BY <1>2 DEF DefaultsInv
<1>4. ~broken => Kept(c)
  <2>1. Idle.step = "idle"
    BY DEF Idle
  <2>2. Kept(Idle) => Kept(c)
    BY <2>1 DEF Kept
  <2>3. ASSUME NEW j \in Servers, jobs[j] # Idle, Kept(jobs[j]) PROVE Kept(c)
    BY <1>2, <2>3
  <2> QED
    BY <1>2, <2>2, <2>3 DEF DefaultsInv
<1>5. OnlyDefault' /\ (e = Idle \/ Fits(e)') /\ (~broken' => Kept(e)')
  BY <1>2, <1>3, <1>4
<1>6. ASSUME NEW j \in Servers, NEW d, d = jobs'[j] PROVE d = Idle \/ (d = e /\ Fits(e)')
  BY <1>1, <1>2, <1>5, <1>6
<1>7. \A j \in Servers : jobs'[j] = Idle \/ Fits(jobs[j])'
  <2> SUFFICES ASSUME NEW j \in Servers PROVE jobs'[j] = Idle \/ Fits(jobs[j])'
    OBVIOUS
  <2> PICK d : d = jobs'[j]
    OBVIOUS
  <2>1. d = Idle \/ (d = e /\ Fits(d)')
    BY <1>6
  <2> QED
    BY <2>1
<1>8. ~broken' => Kept(Idle)' \/ \E j \in Servers : jobs'[j] # Idle /\ Kept(jobs[j])'
  <2> SUFFICES ASSUME ~broken' PROVE Kept(Idle)' \/ \E j \in Servers : jobs'[j] # Idle /\ Kept(jobs[j])'
    OBVIOUS
  <2>1. Kept(e)'
    BY <1>5
  <2>2. CASE e = Idle
    <3>1. Kept(Idle)'
      BY <2>1, <2>2
    <3> QED
      BY <3>1
  <2>3. CASE e # Idle
    <3> PICK d : d = jobs'[k]
      OBVIOUS
    <3>1. d = e /\ Kept(d)'
      BY <1>1, <2>1
    <3>2. Kept(jobs[k])'
      BY <3>1
    <3> QED
      BY <1>1, <2>3, <3>2
  <2> QED
    BY <2>2, <2>3
<1>9. OneAtWork'
  BY <1>1, <1>2 DEF OneAtWork
<1> QED
  BY <1>5, <1>7, <1>8, <1>9

\* Requests that leave the methods and stores alone.
LEMMA DefaultsMerchant ==
  ASSUME AccountInv, DefaultsInv, NEW k \in Servers,
         \/ Signup(k) \/ ApproveMerchant(k) \/ ActivateUser(k) \/ UpdateMerchant(k)
         \/ SaveMerchant(k)
  PROVE  DefaultsInv'
PROOF
<1> PICK c, e : c = jobs[k] /\ e = jobs'[k]
  OBVIOUS
<1>1. UNCHANGED <<rows, broken, hadStore>>
  BY DEF Signup, ApproveMerchant, ActivateUser, UpdateMerchant, SaveMerchant
<1>2. jobs = [j \in Servers |-> jobs[j]]
  BY DEF AccountInv, JobsTotal
<1>3. CASE Signup(k) \/ ApproveMerchant(k) \/ UpdateMerchant(k)
  <2>1. Starts(k, e) /\ e.step \in {"activate", "merchant"}
    BY <1>2, <1>3 DEF Signup, ApproveMerchant, UpdateMerchant, WritesMerchant, Starts
  <2>2. Fits(e)' /\ (Kept(c) /\ c = Idle => Kept(e)')
    BY <1>1, <2>1 DEF Fits, Kept, Idle, HasDefault, IsDefault, IsVerified
  <2>3. c = Idle
    BY <2>1 DEF Starts
  <2> QED
    BY <1>1, <2>1, <2>2, <2>3, DefaultsTurning DEF OnlyDefault, IsDefault
<1>4. CASE ActivateUser(k) \/ SaveMerchant(k)
  <2>1. c.step \in {"activate", "merchant"} /\ c # Idle /\ c \in Errand
    <3>1. ErrandOK(jobs[k]) /\ jobs[k].step \in {"activate", "merchant"}
      BY <1>4, Held DEF ActivateUser, SaveMerchant, AccountSteps
    <3> QED
      BY <3>1 DEF ErrandOK, Idle
  <2>2. Continues(k, e) /\ (e = Idle \/ e.step = "merchant")
    BY <1>2, <1>4, <2>1 DEF ActivateUser, SaveMerchant, Continues, Ends, Errand
  <2>3. (e = Idle \/ Fits(e)') /\ (Kept(c) => Kept(e)')
    BY <1>1, <2>1, <2>2 DEF Fits, Kept, HasDefault, IsDefault, IsVerified
  <2> QED
    BY <1>1, <2>1, <2>2, <2>3, DefaultsTurning DEF OnlyDefault, IsDefault
<1> QED
  BY <1>3, <1>4

\* A request on a method or a store is taken.
LEMMA DefaultsManages ==
  ASSUME AccountInv, DefaultsInv, NEW k \in Servers, NEW e, NEW i, NEW row, NEW step, NEW next,
         Manages(k, step, i, row, next),
         e = [step |-> step, item |-> i, row |-> row, next |-> next],
         OnlyDefault => Fits(e)
  PROVE  DefaultsInv'
PROOF
<1> PICK c : c = jobs[k]
  OBVIOUS
<1>1. Starts(k, e) /\ c = Idle /\ UNCHANGED <<rows, broken, hadStore>>
  BY DEF Manages, Starts
<1>2. OnlyDefault => OnlyDefault' /\ Fits(e)'
  BY <1>1 DEF OnlyDefault, Fits, IsDefault, IsVerified
<1>3. Kept(c) => Kept(e)'
  BY <1>1 DEF Kept, Idle, HasDefault, IsDefault, IsVerified
<1> QED
  BY <1>1, <1>2, <1>3, DefaultsTurning

LEMMA DefaultsItems ==
  ASSUME AccountInv, DefaultsInv, NEW k \in Servers,
         \/ \E m \in Methods : MethodStep(k, m)
         \/ \E t \in Stores : StoreStep(k, t)
  PROVE  DefaultsInv'
PROOF
\* A row of item i is saved as it is but for other columns than the flag, or is new.
<1>1. ASSUME NEW i \in Items, OnlyDefault, IsDefault(i)
      PROVE  \A j \in Siblings(i) : IsDefault(j) => j = i
  <2>1. i \in Siblings(i) /\ Siblings(i) \subseteq Items
    BY DEF Siblings, Items
  <2> QED
    BY <1>1, <2>1 DEF OnlyDefault
<1>2. ASSUME NEW m \in Methods, MethodStep(k, m)
      PROVE  DefaultsInv'
  <2>1. rows[m] # NULL => rows[m] \in MethodRow
    BY RowFacts
  <2>2. m \in Items /\ m \notin Stores
    BY AccountAssumption DEF Items
  <2>3. ASSUME NEW row, NEW next \in {"idle", "choose"}, Manages(k, "save", m, row, next),
               IsDefault(m) <=> row.default,
               next = "idle" /\ row.status = "VERIFIED" => IsVerified(m)
        PROVE  DefaultsInv'
    <3> PICK e : e = [step |-> "save", item |-> m, row |-> row, next |-> next]
      OBVIOUS
    <3>1. OnlyDefault => Fits(e)
      BY <1>1, <2>2, <2>3 DEF Fits
    <3> QED
      BY <2>3, <3>1, DefaultsManages
  <2>4. ASSUME NEW t \in Types, AddPayoutMethod(k, m, t) PROVE DefaultsInv'
    <3> PICK row : row = [type |-> t, status |-> IF t = Cash THEN "VERIFIED" ELSE "PENDING",
                          default |-> FALSE]
      OBVIOUS
    <3>1. Manages(k, "save", m, row, "choose") /\ ~IsDefault(m) /\ row.default = FALSE
      BY <2>4 DEF AddPayoutMethod, New, IsDefault
    <3> QED
      BY <2>3, <3>1
  <2>5. ASSUME NEW t \in Types, UpdatePayoutMethod(k, m, t) PROVE DefaultsInv'
    <3> PICK row : row = [rows[m] EXCEPT !.type = t]
      OBVIOUS
    <3>1. /\ Manages(k, "save", m, row, "idle") /\ rows[m] # NULL
          /\ row.default = rows[m].default /\ row.status = rows[m].status
      BY <2>1, <2>5 DEF UpdatePayoutMethod, MethodRow
    <3> QED
      BY <2>3, <3>1 DEF IsDefault, IsVerified
  <2>6. CASE VerifyPayoutMethod(k, m)
    <3> PICK row : row = [rows[m] EXCEPT !.status = "VERIFIED"]
      OBVIOUS
    <3>1. /\ Manages(k, "save", m, row, "choose") /\ rows[m] # NULL
          /\ row.default = rows[m].default
      BY <2>1, <2>6 DEF VerifyPayoutMethod, MethodRow
    <3> QED
      BY <2>3, <3>1 DEF IsDefault
  <2>7. CASE SetDefaultPayoutMethod(k, m)
    <3> PICK row : row = [rows[m] EXCEPT !.default = TRUE]
      OBVIOUS
    <3> PICK e : e = [step |-> "unset", item |-> m, row |-> row, next |-> "save"]
      OBVIOUS
    <3>1. Manages(k, "unset", m, row, "save") /\ row.default
      BY <2>1, <2>7 DEF SetDefaultPayoutMethod, MethodRow
    <3>2. Fits(e)
      BY <3>1 DEF Fits
    <3> QED
      BY <3>1, <3>2, DefaultsManages
  <2>8. CASE DeletePayoutMethod(k, m)
    <3>1. CASE rows[m].default
      <4> PICK row : row = [rows[m] EXCEPT !.default = FALSE]
        OBVIOUS
      <4> PICK e : e = [step |-> "save", item |-> m, row |-> row, next |-> "remove"]
        OBVIOUS
      <4>1. Manages(k, "save", m, row, "remove") /\ row.default = FALSE
        BY <2>1, <2>8, <3>1 DEF DeletePayoutMethod, MethodRow
      <4>2. Fits(e)
        BY <4>1 DEF Fits
      <4> QED
        BY <4>1, <4>2, DefaultsManages
    <3>2. CASE ~rows[m].default
      <4> PICK row : row = rows[m]
        OBVIOUS
      <4> PICK e : e = [step |-> "remove", item |-> m, row |-> row, next |-> "idle"]
        OBVIOUS
      <4>1. Manages(k, "remove", m, row, "idle") /\ ~row.default /\ ~IsDefault(m)
        BY <2>8, <3>2 DEF DeletePayoutMethod, IsDefault
      <4>2. Fits(e)
        BY <4>1 DEF Fits
      <4> QED
        BY <4>1, <4>2, DefaultsManages
    <3> QED
      BY <3>1, <3>2
  <2> QED
    BY <1>2, <2>4, <2>5, <2>6, <2>7, <2>8 DEF MethodStep
<1>3. ASSUME NEW t \in Stores, StoreStep(k, t)
      PROVE  DefaultsInv'
  <2>1. rows[t] # NULL => rows[t] \in StoreRow
    BY RowFacts
  <2>2. t \in Items /\ t \notin Methods
    BY AccountAssumption DEF Items
  <2>3. ASSUME NEW row, Manages(k, "save", t, row, "idle"), rows[t] # NULL,
               row.default = rows[t].default
        PROVE  DefaultsInv'
    <3> PICK e : e = [step |-> "save", item |-> t, row |-> row, next |-> "idle"]
      OBVIOUS
    <3>1. OnlyDefault => Fits(e)
      BY <1>1, <2>2, <2>3 DEF Fits, IsDefault
    <3> QED
      BY <2>3, <3>1, DefaultsManages
  <2>4. ASSUME NEW row, NEW next \in {"save", "validate"}, Manages(k, "unset", t, row, next),
               row.default
        PROVE  DefaultsInv'
    <3> PICK e : e = [step |-> "unset", item |-> t, row |-> row, next |-> next]
      OBVIOUS
    <3>1. Fits(e)
      BY <2>4 DEF Fits
    <3> QED
      BY <2>4, <3>1, DefaultsManages
  <2>5. ASSUME NEW default \in BOOLEAN, CreateStore(k, t, default) PROVE DefaultsInv'
    <3> PICK row : row = [status |-> "PENDING", default |-> default, synced |-> FALSE]
      OBVIOUS
    <3>1. CASE default
      BY <2>4, <2>5, <3>1 DEF CreateStore
    <3>2. CASE ~default
      <4> PICK e : e = [step |-> "validate", item |-> t, row |-> row, next |-> "save"]
        OBVIOUS
      <4>1. Manages(k, "validate", t, row, "save") /\ ~row.default /\ ~IsDefault(t)
        BY <2>5, <3>2 DEF CreateStore, New, IsDefault
      <4>2. Fits(e)
        BY <4>1 DEF Fits
      <4> QED
        BY <4>1, <4>2, DefaultsManages
    <3> QED
      BY <3>1, <3>2
  <2>6. CASE UpdateStore(k, t) \/ UpdateProfileDetails(k, t)
    BY <2>3, <2>6 DEF UpdateStore, UpdateProfileDetails, Defaults
  <2>7. CASE SetAsDefault(k, t)
    <3>1. [rows[t] EXCEPT !.default = TRUE].default
      BY <2>1, <2>7 DEF SetAsDefault, StoreRow
    <3> QED
      BY <2>4, <2>7, <3>1 DEF SetAsDefault
  <2>8. CASE RemoveStore(k, t)
    <3> PICK row : row = rows[t]
      OBVIOUS
    <3> PICK e : e = [step |-> "remove", item |-> t, row |-> row, next |-> "idle"]
      OBVIOUS
    <3>1. Manages(k, "remove", t, row, "idle") /\ ~row.default /\ ~IsDefault(t)
      BY <2>8 DEF RemoveStore, IsDefault
    <3>2. Fits(e)
      BY <3>1 DEF Fits
    <3> QED
      BY <3>1, <3>2, DefaultsManages
  <2>9. CASE ApproveStore(k, t) \/ RejectStore(k, t)
    <3>1. ASSUME NEW status, Reviews(k, t, status) PROVE DefaultsInv'
      <4>1. [rows[t] EXCEPT !.status = status].default = rows[t].default
        BY <2>1, <3>1 DEF Reviews, StoreRow
      <4> QED
        BY <2>3, <3>1, <4>1 DEF Reviews
    <3> QED
      BY <2>9, <3>1 DEF ApproveStore, RejectStore
  <2> QED
    BY <1>3, <2>5, <2>6, <2>7, <2>8, <2>9 DEF StoreStep
<1> QED
  BY <1>2, <1>3

\* The statements that follow.
LEMMA DefaultsStatement ==
  ASSUME AccountInv, DefaultsInv, NEW k \in Servers,
         \/ UnsetDefaults(k) \/ ValidateLocation(k) \/ InvalidLocation(k)
         \/ SaveRow(k) \/ ChooseDefault(k) \/ SyncStore(k) \/ RemoveRow(k)
         \/ ClerkFails(k)
  PROVE  DefaultsInv'
PROOF
<1> PICK c : c = jobs[k]
  OBVIOUS
<1>1. ASSUME NEW step \in AccountSteps \ {"activate", "merchant"}, At(k, step)
      PROVE  /\ c # Idle /\ c.step = step /\ c \in Errand
             /\ c.item \in Items /\ GoodRow(c.item, c.row) /\ c.row \in Row
             /\ c.row.default \in BOOLEAN
  <2>1. ErrandOK(jobs[k]) /\ jobs[k].step = step
    BY <1>1, Held
  <2> QED
    BY <2>1 DEF ErrandOK, Errand, GoodRow, Items, MethodRow, StoreRow, Idle, AccountSteps
<1>2. UNCHANGED <<rows, broken, hadStore>> =>
        /\ OnlyDefault => OnlyDefault'
        /\ \A e : (Fits(e) => Fits(e)') /\ (Kept(e) => Kept(e)')
  BY DEF OnlyDefault, Fits, Kept, HasDefault, IsDefault, IsVerified
<1>3. ASSUME Errs(k), c # Idle
      PROVE  DefaultsInv'
  <2>1. Continues(k, Idle) /\ broken' = TRUE /\ rows' = rows
    BY <1>3 DEF Errs, Ends
  <2>2. OnlyDefault => OnlyDefault'
    BY <2>1 DEF OnlyDefault, IsDefault
  <2> QED
    BY <1>3, <2>1, <2>2, DefaultsTurning
<1>4. CASE InvalidLocation(k) \/ ClerkFails(k)
  <2>1. Errs(k) /\ jobs[k].step \in AccountSteps
    BY <1>4 DEF InvalidLocation, ClerkFails, At, AccountSteps
  <2>2. c # Idle
    BY <2>1 DEF Idle, AccountSteps
  <2> QED
    BY <1>3, <2>1, <2>2
<1>5. CASE UnsetDefaults(k)
  <2>1. c # Idle /\ c.step = "unset" /\ c \in Errand /\ c.item \in Items
    BY <1>1, <1>5 DEF UnsetDefaults, AccountSteps
  <2> PICK e : e = [c EXCEPT !.step = c.next, !.next = "idle"]
    OBVIOUS
  <2>2. e.step = c.next /\ e.next = "idle" /\ e.item = c.item /\ e.row = c.row
    BY <2>1 DEF Errand
  <2>3. /\ rows' = [i \in Items |-> IF i \in Defaults(Siblings(c.item))
                                    THEN [rows[i] EXCEPT !.default = FALSE] ELSE rows[i]]
        /\ Continues(k, e) /\ UNCHANGED <<broken, hadStore>>
    BY <1>5 DEF UnsetDefaults
  <2>4. \A i \in Items : rows[i] = NULL \/ rows[i] \in MethodRow \cup StoreRow
    BY DEF AccountInv, RowsOK, GoodRow
  <2>5. ASSUME NEW i \in Items
        PROVE  /\ IsDefault(i)' => IsDefault(i) /\ i \notin Siblings(c.item)
               /\ i \notin Siblings(c.item) => rows'[i] = rows[i]
    BY <2>3, <2>4 DEF IsDefault, Defaults, MethodRow, StoreRow
  <2>6. \A i \in Items : Siblings(i) \subseteq Items
    BY DEF Siblings, Items
  <2>7. OnlyDefault => OnlyDefault'
    BY <2>5, <2>6 DEF OnlyDefault
  <2>8. ASSUME Fits(c) PROVE Fits(e)'
    <3>1. /\ e.step \in {"save", "validate"} /\ e.row.default
          /\ e.step = "validate" => e.item \in Stores
      BY <2>1, <2>2, <2>8 DEF Fits
    <3> QED
      BY <2>1, <2>2, <2>5, <2>6, <3>1 DEF Fits
  <2>9. ASSUME Kept(c), Fits(c) PROVE Kept(e)'
    <3>1. /\ e.step \in {"save", "validate"} /\ e.row.default
          /\ e.step = "validate" => e.item \in Stores
      BY <2>1, <2>2, <2>9 DEF Fits
    <3>2. CASE c.item \in Methods
      <4>1. Siblings(c.item) = Methods /\ e.step = "save"
        BY <2>2, <3>1, <3>2, AccountAssumption DEF Siblings
      <4>2. \A t \in Stores : rows'[t] = rows[t]
        BY <2>5, <4>1, AccountAssumption DEF Items
      <4>3. hadStore => HasDefault(Stores)'
        BY <3>2, <2>9, <4>2, AccountAssumption DEF Kept, HasDefault, IsDefault
      <4> QED
        BY <2>2, <2>3, <3>1, <3>2, <4>1, <4>3 DEF Kept
    <3>3. CASE c.item \in Stores
      <4>1. Siblings(c.item) = Stores
        BY <3>3, AccountAssumption DEF Siblings
      <4>2. \A m \in Methods : rows'[m] = rows[m]
        BY <2>5, <4>1, AccountAssumption DEF Items
      <4>3. (\E m \in Methods : IsVerified(m)') => HasDefault(Methods)'
        BY <2>1, <2>9, <4>2 DEF Kept, HasDefault, IsDefault, IsVerified
      <4> QED
        BY <2>2, <2>3, <3>1, <3>3, <4>3 DEF Kept
    <3> QED
      BY <2>1, <3>2, <3>3 DEF Items
  <2> QED
    BY <2>1, <2>3, <2>7, <2>8, <2>9, DefaultsTurning
<1>6. CASE ValidateLocation(k)
  <2>1. c # Idle /\ c.step = "validate" /\ c \in Errand
    BY <1>1, <1>6 DEF ValidateLocation, AccountSteps
  <2> PICK e : e = [c EXCEPT !.step = "save", !.next = "sync"]
    OBVIOUS
  <2>2. e.step = "save" /\ e.next = "sync" /\ e.item = c.item /\ e.row = c.row
    BY <2>1 DEF Errand
  <2>3. Continues(k, e) /\ UNCHANGED <<rows, broken, hadStore>>
    BY <1>6 DEF ValidateLocation
  <2>4. ASSUME Fits(c) PROVE Fits(e)
    <3>1. e.item \in Stores /\ c.step # "unset"
      BY <2>1, <2>2, <2>4 DEF Fits
    <3>2. /\ e.row.default => \A i \in Siblings(e.item) : IsDefault(i) => i = e.item
          /\ ~broken => (IsDefault(e.item) => e.row.default)
      BY <2>1, <2>2, <2>4 DEF Fits
    <3> QED
      BY <2>2, <3>1, <3>2 DEF Fits
  <2>5. Kept(c) => Kept(e)
    BY <2>1, <2>2 DEF Kept
  <2> QED
    BY <1>2, <2>1, <2>3, <2>4, <2>5, DefaultsTurning
<1>7. CASE ChooseDefault(k)
  <2>1. c # Idle /\ c.step = "choose" /\ c \in Errand /\ c.row \in Row /\ GoodRow(c.item, c.row)
    BY <1>1, <1>7 DEF ChooseDefault, AccountSteps
  <2>2. UNCHANGED <<rows, broken, hadStore>>
    BY <1>7 DEF ChooseDefault
  <2>3. CASE Ends(k) /\ ~(Defaults(Methods) = {} /\ c.row.status = "VERIFIED")
    <3>1. HasDefault(Methods) \/ c.row.status # "VERIFIED"
      BY <2>3 DEF HasDefault, IsDefault, Defaults
    <3>2. Kept(c) => Kept(Idle)
      BY <2>1, <3>1 DEF Kept
    <3> QED
      BY <1>2, <2>1, <2>2, <2>3, <3>2, DefaultsTurning DEF Ends
  <2>4. CASE /\ Defaults(Methods) = {} /\ c.row.status = "VERIFIED"
             /\ Continues(k, [c EXCEPT !.step = "save", !.row.default = TRUE])
    <3> PICK e : e = [c EXCEPT !.step = "save", !.row.default = TRUE]
      OBVIOUS
    <3>1. /\ e.step = "save" /\ e.item = c.item /\ e.next = c.next
          /\ e.row = [c.row EXCEPT !.default = TRUE]
      BY <2>1 DEF Errand
    <3>2. c.item \in Methods => e.row.default
      BY <2>1, <3>1, AccountAssumption DEF GoodRow, MethodRow
    <3>3. c.item \in Methods => Siblings(c.item) = Methods
      BY DEF Siblings
    <3>4. ~HasDefault(Methods)
      BY <2>4 DEF HasDefault, IsDefault, Defaults
    <3>5. Fits(c) => c.item \in Methods /\ c.next = "idle"
      BY <2>1 DEF Fits
    <3>6. Fits(c) => Fits(e)
      BY <3>1, <3>2, <3>3, <3>4, <3>5 DEF Fits, HasDefault
    <3>7. Fits(c) /\ Kept(c) => Kept(e)
      BY <2>1, <3>1, <3>2, <3>5 DEF Kept
    <3> QED
      BY <1>2, <2>1, <2>2, <2>4, <3>6, <3>7, DefaultsTurning
  <2> QED
    BY <1>7, <2>3, <2>4 DEF ChooseDefault
<1>8. CASE SyncStore(k)
  <2>1. c # Idle /\ c.step = "sync" /\ c \in Errand /\ c.row \in Row /\ GoodRow(c.item, c.row)
    BY <1>1, <1>8 DEF SyncStore, AccountSteps
  <2>2. UNCHANGED <<rows, broken, hadStore>>
    BY <1>8 DEF SyncStore
  <2>3. CASE Ends(k)
    <3>1. Kept(c) => Kept(Idle)
      BY <2>1 DEF Kept, Idle
    <3> QED
      BY <1>2, <2>1, <2>2, <2>3, <3>1, DefaultsTurning DEF Ends
  <2>4. CASE Continues(k, [c EXCEPT !.step = "save", !.row.synced = TRUE, !.next = "idle"])
    <3> PICK e : e = [c EXCEPT !.step = "save", !.row.synced = TRUE, !.next = "idle"]
      OBVIOUS
    <3>1. /\ e.step = "save" /\ e.item = c.item /\ e.next = "idle"
          /\ e.row = [c.row EXCEPT !.synced = TRUE]
      BY <2>1 DEF Errand
    <3>2. e.row.default = c.row.default
      BY <2>1, <3>1 DEF GoodRow, MethodRow, StoreRow
    <3>3. Fits(c) => c.item \in Stores /\ c.item \notin Methods
      BY <2>1, AccountAssumption DEF Fits
    <3>4. Fits(c) => Fits(e)
      BY <2>1, <3>1, <3>2, <3>3 DEF Fits
    <3>5. Kept(c) => Kept(e)
      BY <2>1, <3>1 DEF Kept
    <3> QED
      BY <1>2, <2>1, <2>2, <2>4, <3>4, <3>5, DefaultsTurning
  <2> QED
    BY <1>8, <2>3, <2>4 DEF SyncStore
<1>9. CASE RemoveRow(k)
  <2>1. c # Idle /\ c.step = "remove" /\ c \in Errand /\ c.item \in Items
    BY <1>1, <1>9 DEF RemoveRow, AccountSteps
  <2>2. /\ rows' = [rows EXCEPT ![c.item] = NULL] /\ Continues(k, Idle)
        /\ UNCHANGED <<broken, hadStore>>
    BY <1>9 DEF RemoveRow, Ends
  <2>3. rows'[c.item] = NULL /\ \A i \in Items \ {c.item} : rows'[i] = rows[i]
    BY <2>1, <2>2 DEF AccountInv, RowsOK
  <2>4. \A i \in Items : (IsDefault(i)' => IsDefault(i)) /\ (IsVerified(i)' => IsVerified(i))
    BY <2>3 DEF IsDefault, IsVerified
  <2>5. OnlyDefault => OnlyDefault'
    <3>1. \A i \in Items : Siblings(i) \subseteq Items
      BY DEF Siblings, Items
    <3> QED
      BY <2>4, <3>1 DEF OnlyDefault
  <2>6. ASSUME Fits(c), ~broken, Kept(c) PROVE Kept(Idle)'
    <3>1. ~IsDefault(c.item)
      BY <2>1, <2>6 DEF Fits
    <3>2. \A i \in Items : IsDefault(i) => IsDefault(i)'
      BY <2>3, <3>1 DEF IsDefault
    <3>3. /\ HasDefault(Methods) => HasDefault(Methods)'
          /\ HasDefault(Stores) => HasDefault(Stores)'
      BY <3>2 DEF HasDefault, Items
    <3> QED
      BY <2>1, <2>2, <2>4, <2>6, <3>3 DEF Kept, Items
  <2> QED
    BY <2>1, <2>2, <2>5, <2>6, DefaultsTurning
<1>10. CASE SaveRow(k) /\ ~TypeFree(c.item, c.row)
  <2>1. Errs(k) /\ c # Idle
    BY <1>1, <1>10 DEF SaveRow, AccountSteps
  <2> QED
    BY <1>3, <2>1
<1>11. CASE SaveRow(k) /\ TypeFree(c.item, c.row)
  <2>1. /\ c # Idle /\ c.step = "save" /\ c \in Errand /\ c.item \in Items
        /\ c.row \in Row /\ c.row # NULL
    BY <1>1, <1>11, AccountAssumption DEF SaveRow, AccountSteps
  <2> PICK e : e = IF c.next = "idle" THEN Idle ELSE [c EXCEPT !.step = c.next, !.next = "idle"]
    OBVIOUS
  <2>2. /\ rows' = [rows EXCEPT ![c.item] = c.row] /\ Continues(k, e)
        /\ hadStore' = (hadStore \/ (c.item \in Stores /\ c.row.default))
        /\ broken' = (broken \/ c.next = "remove")
    BY <1>11 DEF SaveRow
  <2>3. c.next # "idle" => e.step = c.next /\ e.next = "idle" /\ e.item = c.item /\ e.row = c.row
    BY <2>1 DEF Errand
  <2>4. rows'[c.item] = c.row /\ \A i \in Items \ {c.item} : rows'[i] = rows[i]
    BY <2>1, <2>2 DEF AccountInv, RowsOK
  <2>5. /\ \A i \in Items : Siblings(i) \subseteq Items /\ \A j \in Siblings(i) : i \in Siblings(j)
        /\ c.item \in Methods \/ c.item \in Stores
    BY <2>1, AccountAssumption DEF Siblings, Items
  <2>6. ASSUME OnlyDefault, Fits(c) PROVE OnlyDefault'
    <3>1. c.row.default => \A i \in Siblings(c.item) : IsDefault(i) => i = c.item
      BY <2>1, <2>6 DEF Fits
    <3>2. ASSUME NEW j \in Items, NEW i \in Siblings(j), IsDefault(i)', IsDefault(j)' PROVE i = j
      <4>1. i \in Items /\ j \in Siblings(i) /\ j \in Siblings(j)
        BY <2>5, <3>2 DEF Siblings, Items
      <4>2. CASE i # c.item /\ j # c.item
        BY <2>4, <2>6, <3>2, <4>1, <4>2 DEF OnlyDefault, IsDefault
      <4>3. CASE i = c.item
        BY <2>1, <2>4, <3>1, <3>2, <4>1, <4>3 DEF IsDefault
      <4>4. CASE j = c.item
        BY <2>1, <2>4, <3>1, <3>2, <4>1, <4>4 DEF IsDefault
      <4> QED
        BY <4>2, <4>3, <4>4
    <3> QED
      BY <3>2 DEF OnlyDefault
  <2>7. ASSUME Fits(c), e # Idle PROVE Fits(e)'
    <3>1. /\ e.step \in {"choose", "sync", "remove"} /\ e.next = "idle"
          /\ e.step = c.next /\ e.item = c.item /\ e.row = c.row
      BY <2>1, <2>3, <2>7 DEF Fits
    <3>2. e.row.default => \A i \in Siblings(e.item) : IsDefault(i)' => i = e.item
      <4>1. c.row.default => \A i \in Siblings(c.item) : IsDefault(i) => i = c.item
        BY <2>1, <2>7 DEF Fits
      <4>2. Siblings(c.item) \subseteq Items
        BY <2>1, <2>5
      <4> QED
        BY <2>4, <3>1, <4>1, <4>2 DEF IsDefault
    <3>3. (e.step = "sync" => e.item \in Stores) /\ (e.step = "choose" => e.item \in Methods)
      BY <2>1, <2>7, <3>1 DEF Fits
    <3>4. ~broken' => e.step # "remove"
      BY <2>2, <3>1
    <3> QED
      BY <2>1, <2>4, <3>1, <3>2, <3>3, <3>4 DEF Fits, IsDefault
  <2>8. ASSUME Fits(c), ~broken', ~broken => Kept(c) PROVE Kept(e)'
    <3>1. /\ Kept(c) /\ c.next \in {"idle", "choose", "sync"}
          /\ c.next = "sync" => c.item \in Stores
          /\ IsDefault(c.item) => c.row.default
          /\ c.next = "idle" /\ c.item \in Methods /\ c.row.status = "VERIFIED"
               => c.row.default \/ IsVerified(c.item)
      BY <2>1, <2>2, <2>8 DEF Fits
    <3>2. \A i \in Items : IsDefault(i) => IsDefault(i)'
      BY <2>1, <2>4, <3>1 DEF IsDefault
    <3>3. /\ HasDefault(Methods) => HasDefault(Methods)'
          /\ HasDefault(Stores) => HasDefault(Stores)'
          /\ c.item \in Methods /\ c.row.default => HasDefault(Methods)'
          /\ c.item \in Stores /\ c.row.default => HasDefault(Stores)'
      BY <2>1, <2>4, <3>2 DEF HasDefault, IsDefault, Items
    <3>4. ASSUME NEW m \in Methods, IsVerified(m)', ~HasDefault(Methods)'
          PROVE  e.step = "choose" /\ e.item \in Methods /\ e.row.status = "VERIFIED"
      <4>1. ~(\E n \in Methods : IsVerified(n))
        BY <2>1, <3>1, <3>3, <3>4 DEF Kept
      <4>2. m = c.item /\ c.row.status = "VERIFIED"
        BY <2>1, <2>4, <3>4, <4>1 DEF Items, IsVerified
      <4>3. c.next = "choose"
        BY <3>1, <3>3, <3>4, <4>1, <4>2, AccountAssumption
      <4> QED
        BY <2>3, <4>2, <4>3
    <3>5. hadStore' => HasDefault(Stores)'
      BY <2>1, <2>2, <3>1, <3>3 DEF Kept
    <3> QED
      BY <3>4, <3>5 DEF Kept
  <2> QED
    BY <2>1, <2>2, <2>6, <2>7, <2>8, DefaultsTurning
<1> QED
  BY <1>4, <1>5, <1>6, <1>7, <1>8, <1>9, <1>10, <1>11

LEMMA DefaultsStep == AccountInv /\ DefaultsInv /\ [AccountNext]_accountVars => DefaultsInv'
PROOF
<1> SUFFICES ASSUME AccountInv, DefaultsInv, [AccountNext]_accountVars PROVE DefaultsInv'
  OBVIOUS
<1>1. CASE UNCHANGED accountVars \/ Login
  <2>1. UNCHANGED <<rows, jobs, alone, broken, hadStore>>
    BY <1>1 DEF accountVars, Login
  <2>2. OnlyDefault' <=> OnlyDefault
    BY <2>1 DEF OnlyDefault, IsDefault
  <2>3. OneAtWork => OneAtWork'
    BY <2>1 DEF OneAtWork
  <2>4. \A e : (Fits(e) => Fits(e)') /\ (Kept(e) => Kept(e)')
    BY <2>1 DEF Fits, Kept, HasDefault, IsDefault, IsVerified
  <2>5. \A j \in Servers : (Fits(jobs[j]) => Fits(jobs[j])') /\ (Kept(jobs[j]) => Kept(jobs[j])')
    <3> SUFFICES ASSUME NEW j \in Servers
                 PROVE  (Fits(jobs[j]) => Fits(jobs[j])') /\ (Kept(jobs[j]) => Kept(jobs[j])')
      OBVIOUS
    <3> PICK d : d = jobs[j] /\ d = jobs'[j]
      BY <2>1
    <3> QED
      BY <2>4
  <2>6. Kept(Idle) => Kept(Idle)'
    BY <2>1 DEF Kept, HasDefault, IsDefault, IsVerified
  <2> QED
    BY <2>1, <2>2, <2>3, <2>5, <2>6 DEF DefaultsInv
<1>2. ASSUME NEW k \in Servers, AccountStep(k) PROVE DefaultsInv'
  BY <1>2, DefaultsMerchant, DefaultsStatement DEF AccountStep
<1>3. ASSUME NEW k \in Servers, NEW m \in Methods, MethodStep(k, m) PROVE DefaultsInv'
  BY <1>3, DefaultsItems
<1>4. ASSUME NEW k \in Servers, NEW t \in Stores, StoreStep(k, t) PROVE DefaultsInv'
  BY <1>4, DefaultsItems
<1> QED
  BY <1>1, <1>2, <1>3, <1>4 DEF AccountNext

LEMMA DefaultsAlways == AccountSpec => [](AccountInv /\ DefaultsInv)
PROOF
<1>1. AccountInit /\ NoRequests => AccountInv /\ DefaultsInv
  BY AccountInvInit, DefaultsInit
<1>2. AccountInv /\ DefaultsInv /\ [AccountNext]_accountVars => (AccountInv /\ DefaultsInv)'
  BY AccountInvStep, DefaultsStep
<1> QED
  BY <1>1, <1>2, PTL DEF AccountSpec

\* Served one request at a time, a merchant has at most one default payout method and
\* one default store, between any two statements and whichever of them failed: the
\* flag is taken from the other rows before it is given to one.
THEOREM OneDefaultAtMost == AccountSpec => []OneDefault
PROOF
<1>1. DefaultsInv => OneDefault
  <2> SUFFICES ASSUME DefaultsInv, alone
               PROVE  /\ Cardinality(Defaults(Methods)) <= 1
                      /\ Cardinality(Defaults(Stores)) <= 1
    BY DEF OneDefault
  <2>1. OnlyDefault
    BY DEF DefaultsInv
  <2>2. \A i, j \in Defaults(Methods) : i = j
    BY <2>1 DEF OnlyDefault, Defaults, IsDefault, Siblings, Items
  <2>3. \A i, j \in Defaults(Stores) : i = j
    BY <2>1, AccountAssumption DEF OnlyDefault, Defaults, IsDefault, Siblings, Items
  <2> QED
    BY <2>2, <2>3, AtMostOne
<1> QED
  BY <1>1, DefaultsAlways, PTL

\* Served one request at a time, and unless a request broke off or the default method
\* was deleted: between requests a merchant with a verified method has a default one,
\* and he who chose a default store has one.  Adding and verifying end in the search
\* for a default, and no request takes the flag without giving it to another row.
THEOREM DefaultsAreKept == AccountSpec => []DefaultIsKept
PROOF
<1>1. DefaultsInv => DefaultIsKept
  <2> SUFFICES ASSUME DefaultsInv, alone, ~broken, Rests
               PROVE  /\ (\E m \in Methods : rows[m] # NULL /\ rows[m].status = "VERIFIED")
                           => Defaults(Methods) # {}
                      /\ hadStore => Defaults(Stores) # {}
    BY DEF DefaultIsKept
  <2>1. Kept(Idle)
    BY DEF DefaultsInv, Rests
  <2>2. /\ (\E m \in Methods : IsVerified(m)) => HasDefault(Methods)
        /\ hadStore => HasDefault(Stores)
    BY <2>1 DEF Kept, Idle
  <2> QED
    BY <2>2 DEF HasDefault, IsDefault, IsVerified, Defaults
<1> QED
  BY <1>1, DefaultsAlways, PTL

-----------------------------------------------------------------------------
(* The staff.                                                              *)

Is(p, position) == users[p] # NULL /\ users[p].position = position

\* Users are known, riders are riders, and there is an admin.
TablesOK ==
  /\ users = [p \in People |-> users[p]] /\ riders = [p \in People |-> riders[p]]
  /\ \A p \in People : /\ users[p] \in Person \cup {NULL}
                       /\ users[p] # NULL => p \in known
                       /\ riders[p] # NULL => Is(p, "RIDER")
  /\ \E p \in People : Is(p, "ADMIN")

\* A new user has no row yet, any other row that is saved leaves its user what he
\* is, and an admin is only deleted when there is another one.
TaskFits(t) ==
  /\ t.p \in People
  /\ {"step", "p", "row", "rider", "hub"} \subseteq DOMAIN t
  /\ t.step = "user" => /\ users[t.p] = NULL /\ riders[t.p] = NULL /\ t.row \in Person
                        /\ t.rider # NULL => t.row.position = "RIDER"
  /\ t.step \in {"rider", "desk"} => Is(t.p, "RIDER")
  /\ t.step = "account" => Is(t.p, "RIDER") /\ t.row \in Person /\ t.row.position = "RIDER"
  /\ t.step = "changed" => Is(t.p, "ADMIN") /\ t.row \in Person /\ t.row.position = "ADMIN"
  /\ t.step = "delete" => Is(t.p, "ADMIN") /\ \E q \in People \ {t.p} : Is(q, "ADMIN")

TaskOK(t) == TaskFits(t) /\ (t.step = "user" => t.p \in known)

Fields(t, step, p, row, rider) ==
  /\ t.step = step /\ t.p = p /\ t.row = row /\ t.rider = rider
  /\ {"step", "p", "row", "rider", "hub"} \subseteq DOMAIN t

StaffInv ==
  /\ JobsTotal /\ alone \in BOOLEAN
  /\ alone => TablesOK /\ OneAtWork /\ \A k \in Servers : jobs[k] = Idle \/ TaskOK(jobs[k])

LEMMA StaffInvInit == StaffInit /\ NoRequests => StaffInv
PROOF
<1> SUFFICES ASSUME StaffInit, NoRequests PROVE StaffInv
  OBVIOUS
<1>1. JobsTotal /\ alone \in BOOLEAN /\ \A k \in Servers : jobs[k] = Idle
  BY Resting
<1>2. PICK first \in People, phone \in Phones :
        /\ users = [p \in People |->
                      IF p = first THEN [phone |-> phone, position |-> "ADMIN", active |-> TRUE] ELSE NULL]
        /\ known = {first}
  BY DEF StaffInit
<1>3. users[first] \in Person /\ users[first].position = "ADMIN" /\ riders = [p \in People |-> NULL]
  BY <1>2 DEF Person, Positions, StaffInit
<1>4. TablesOK
  BY <1>2, <1>3, StaffAssumption DEF TablesOK, Is
<1> QED
  BY <1>1, <1>4 DEF StaffInv, OneAtWork

\* A request is taken up; while they are served one at a time no other is at work.
LEMMA Undertaking ==
  ASSUME StaffInv, NEW k \in Servers, NEW t, Starts(k, t),
         UNCHANGED <<users, riders>>, known \subseteq known',
         alone /\ TablesOK => TaskFits(t),
         t.step = "user" => t.p \in known'
  PROVE  StaffInv'
PROOF
<1>1. /\ JobsTotal' /\ jobs'[k] = t /\ alone' \in BOOLEAN
      /\ alone' => alone /\ \A h \in Servers : jobs[h] = Idle
      /\ \A j \in Servers : j # k => jobs'[j] = jobs[j]
  BY Starting, StartingAlone DEF StaffInv
<1>2. ASSUME alone' PROVE TablesOK' /\ OneAtWork' /\ \A j \in Servers : jobs'[j] = Idle \/ TaskOK(jobs[j])'
  <2>1. alone /\ TablesOK /\ \A h \in Servers : jobs[h] = Idle
    BY <1>1, <1>2 DEF StaffInv
  <2>2. TablesOK'
    BY <2>1 DEF TablesOK, Is
  <2>3. TaskOK(t)'
    BY <2>1 DEF TaskOK, TaskFits, Is
  <2>4. \A j \in Servers : j = k \/ jobs'[j] = Idle
    BY <2>1, <1>1
  <2> QED
    BY <1>1, <2>2, <2>3, <2>4 DEF OneAtWork
<1> QED
  BY <1>1, <1>2 DEF StaffInv

\* A handler's next statement.
LEMMA Working ==
  ASSUME StaffInv, NEW k \in Servers, jobs[k] # Idle, NEW t, Continues(k, t),
         alone /\ TablesOK /\ TaskOK(jobs[k]) => TablesOK' /\ (t = Idle \/ TaskOK(t)')
  PROVE  StaffInv'
PROOF
<1>1. /\ JobsTotal' /\ jobs'[k] = t /\ alone' = alone
      /\ \A j \in Servers : j # k => jobs'[j] = jobs[j]
  BY Continuing DEF StaffInv
<1>2. ASSUME alone PROVE TablesOK' /\ OneAtWork' /\ \A j \in Servers : jobs'[j] = Idle \/ TaskOK(jobs[j])'
  <2>1. TablesOK' /\ (t = Idle \/ TaskOK(t)')
    BY <1>2 DEF StaffInv
  <2>2. \A j \in Servers : j = k \/ jobs'[j] = Idle
    BY <1>1, <1>2 DEF StaffInv, OneAtWork
  <2> QED
    BY <1>1, <2>1, <2>2 DEF OneAtWork
<1> QED
  BY <1>1, <1>2 DEF StaffInv

LEMMA AdminPreserves ==
  ASSUME StaffInv, NEW k \in Servers, NEW p \in People, AdminStep(k, p)
  PROVE  StaffInv'
PROOF
<1>1. CASE RemoveAdmin(k, p)
  <2>1. /\ Is(p, "ADMIN") /\ p \in Holding("ADMIN") /\ Cardinality(Holding("ADMIN")) > 1
        /\ Starts(k, TaskOn("delete", p)) /\ UNCHANGED staff
    BY <1>1 DEF RemoveAdmin, Undertakes, Holding, Users, Is
  <2>2. Holding("ADMIN") # {p}
    BY <2>1, FS_Singleton, SMT
  <2>3. PICK q \in Holding("ADMIN") : q # p
    BY <2>1, <2>2
  <2>4. q \in People \ {p} /\ Is(q, "ADMIN")
    BY <2>3 DEF Holding, Users, Is
  <2>5. TaskFits(TaskOn("delete", p))
    BY <2>1, <2>4 DEF TaskFits, TaskOn
  <2> QED
    BY <2>1, <2>5, Undertaking DEF staff, TaskOn
<1>2. ASSUME NEW phone \in Phones, CreateAdmin(k, p, phone)
      PROVE  StaffInv'
  <2> DEFINE t == [TaskOn("user", p) EXCEPT
                     !.row = [phone |-> phone, position |-> "ADMIN", active |-> TRUE]]
  <2>1. /\ Starts(k, t) /\ p \notin known /\ known' = known \cup {p}
        /\ UNCHANGED <<users, riders>>
    BY <1>2 DEF CreateAdmin, Registers, TaskOn
  <2>2. TablesOK => users[p] = NULL /\ riders[p] = NULL
    BY <2>1 DEF TablesOK, Is
  <2> DEFINE row == [phone |-> phone, position |-> "ADMIN", active |-> TRUE]
  <2>3. Fields(t, "user", p, row, NULL) /\ row \in Person
    BY DEF TaskOn, Fields, Person, Positions
  <2>4. row.position = "ADMIN"
    OBVIOUS
  <2> HIDE DEF t, row
  <2>5. TablesOK => TaskFits(t)
    BY <2>2, <2>3, <2>4 DEF TaskFits, Fields
  <2> QED
    BY <2>1, <2>3, <2>5, Undertaking DEF Fields
<1>3. ASSUME NEW phone \in Phones, NEW active \in BOOLEAN, NEW password \in BOOLEAN,
             ChangeAdmin(k, p, phone, active, password)
      PROVE  StaffInv'
  <2> DEFINE row == [users[p] EXCEPT !.phone = phone, !.active = active]
             t == [TaskOn("changed", p) EXCEPT !.row = row, !.password = password]
  <2>1. Starts(k, t) /\ UNCHANGED staff /\ Is(p, "ADMIN")
    BY <1>3 DEF ChangeAdmin, Undertakes, Holding, Users, Is
  <2>2. TablesOK => row \in Person /\ row.position = "ADMIN"
    BY <2>1 DEF TablesOK, Is, Person
  <2> HIDE DEF row
  <2>4. Fields(t, "changed", p, row, NULL)
    BY DEF TaskOn, Fields
  <2> HIDE DEF t
  <2>3. TablesOK => TaskFits(t)
    BY <2>1, <2>2, <2>4 DEF TaskFits, Fields
  <2> HIDE DEF t
  <2> QED
    BY <2>1, <2>3, <2>4, Undertaking DEF staff, Fields
<1> QED
  BY <1>1, <1>2, <1>3 DEF AdminStep

LEMMA RiderPreserves ==
  ASSUME StaffInv, NEW k \in Servers, NEW p \in People, RiderStep(k, p)
  PROVE  StaffInv'
PROOF
<1>1. ASSUME NEW active \in BOOLEAN, SetRiderActive(k, p, active)
      PROVE  StaffInv'
  <2> DEFINE row == [users[p] EXCEPT !.active = active]
             rider == [riders[p] EXCEPT !.active = active]
             t == [TaskOn("account", p) EXCEPT !.row = row, !.rider = rider]
  <2>1. Starts(k, t) /\ UNCHANGED staff /\ riders[p] # NULL
    BY <1>1 DEF SetRiderActive, Undertakes
  <2>2. TablesOK => Is(p, "RIDER") /\ row \in Person /\ row.position = "RIDER"
    BY <2>1 DEF TablesOK, Is, Person
  <2> HIDE DEF row, rider
  <2>4. Fields(t, "account", p, row, rider)
    BY DEF TaskOn, Fields
  <2> HIDE DEF t
  <2>3. TablesOK => TaskFits(t)
    BY <2>2, <2>4 DEF TaskFits, Fields
  <2> HIDE DEF t
  <2> QED
    BY <2>1, <2>3, <2>4, Undertaking DEF staff, Fields
<1>2. ASSUME NEW phone \in Phones, NEW card \in Cards, CreateRider(k, p, phone, card)
      PROVE  StaffInv'
  <2> DEFINE t == [TaskOn("user", p) EXCEPT
                     !.rider = [card |-> card, active |-> TRUE],
                     !.row = [phone |-> phone, position |-> "RIDER", active |-> TRUE]]
  <2>1. /\ Starts(k, t) /\ p \notin known /\ known' = known \cup {p}
        /\ UNCHANGED <<users, riders>>
    BY <1>2 DEF CreateRider, Registers, TaskOn
  <2>2. TablesOK => users[p] = NULL /\ riders[p] = NULL
    BY <2>1 DEF TablesOK, Is
  <2> DEFINE row == [phone |-> phone, position |-> "RIDER", active |-> TRUE]
  <2>3. Fields(t, "user", p, row, [card |-> card, active |-> TRUE]) /\ row \in Person
    BY DEF TaskOn, Fields, Person, Positions
  <2>4. row.position = "RIDER"
    OBVIOUS
  <2> HIDE DEF t, row
  <2>5. TablesOK => TaskFits(t)
    BY <2>2, <2>3, <2>4 DEF TaskFits, Fields
  <2> QED
    BY <2>1, <2>3, <2>5, Undertaking DEF Fields
<1>3. ASSUME NEW phone \in Phones, NEW rider \in Rider, UpdateRider(k, p, phone, rider)
      PROVE  StaffInv'
  <2> DEFINE row == [users[p] EXCEPT !.phone = phone]
             desk == [TaskOn("desk", p) EXCEPT !.rider = rider]
             renamed == [TaskOn("account", p) EXCEPT !.row = row, !.rider = rider]
  <2>1. (Starts(k, desk) \/ Starts(k, renamed)) /\ UNCHANGED staff /\ riders[p] # NULL
    BY <1>3 DEF UpdateRider, Undertakes
  <2>2. TablesOK => Is(p, "RIDER") /\ row \in Person /\ row.position = "RIDER"
    BY <2>1 DEF TablesOK, Is, Person
  <2> HIDE DEF row
  <2>6. /\ Fields(desk, "desk", p, NULL, rider)
        /\ Fields(renamed, "account", p, row, rider)
    BY DEF TaskOn, Fields
  <2> HIDE DEF desk, renamed
  <2>3. TablesOK => TaskFits(desk) /\ TaskFits(renamed)
    BY <2>2, <2>6 DEF TaskFits, Fields
  <2>4. CASE Starts(k, desk)
    BY <2>1, <2>3, <2>4, <2>6, Undertaking DEF staff, Fields
  <2>5. CASE Starts(k, renamed)
    BY <2>1, <2>3, <2>5, <2>6, Undertaking DEF staff, Fields
  <2> QED
    BY <2>1, <2>4, <2>5
<1> QED
  BY <1>1, <1>2, <1>3 DEF RiderStep

LEMMA HubPreserves ==
  ASSUME StaffInv, NEW k \in Servers, NEW p \in People, HubStep(k, p)
  PROVE  StaffInv'
PROOF
<1>1. ASSUME NEW phone \in Phones, NEW code \in HubCodes, CreateHub(k, p, phone, code)
      PROVE  StaffInv'
  <2> DEFINE t == [TaskOn("user", p) EXCEPT
                     !.hub = [code |-> code, manager |-> p],
                     !.row = [phone |-> phone, position |-> "HUB_MANAGER", active |-> TRUE]]
  <2>1. /\ Starts(k, t) /\ p \notin known /\ known' = known \cup {p}
        /\ UNCHANGED <<users, riders>>
    BY <1>1 DEF CreateHub, Registers, TaskOn
  <2>2. TablesOK => users[p] = NULL /\ riders[p] = NULL
    BY <2>1 DEF TablesOK, Is
  <2> DEFINE row == [phone |-> phone, position |-> "HUB_MANAGER", active |-> TRUE]
  <2>3. Fields(t, "user", p, row, NULL) /\ row \in Person
    BY DEF TaskOn, Fields, Person, Positions
  <2>4. row.position = "HUB_MANAGER"
    OBVIOUS
  <2> HIDE DEF t, row
  <2>5. TablesOK => TaskFits(t)
    BY <2>2, <2>3, <2>4 DEF TaskFits, Fields
  <2> QED
    BY <2>1, <2>3, <2>5, Undertaking DEF Fields
<1>3. ASSUME NEW manager \in People, UpdateHub(k, p, manager)
      PROVE  StaffInv'
  <2> PICK t : t = [TaskOn("hub row", p) EXCEPT !.hub = [hubs[p] EXCEPT !.manager = manager]]
    OBVIOUS
  <2>1. Fields(t, "hub row", p, NULL, NULL)
    BY DEF TaskOn, Fields
  <2>2. Starts(k, t) /\ UNCHANGED <<users, riders, known>>
    BY <1>3 DEF UpdateHub, Undertakes, staff
  <2>3. TaskFits(t)
    BY <2>1 DEF TaskFits, Fields
  <2> QED
    BY <2>1, <2>2, <2>3, Undertaking DEF Fields
<1>4. CASE RemoveHub(k, p)
  <2> PICK t : t = TaskOn("close", p)
    OBVIOUS
  <2>1. Fields(t, "close", p, NULL, NULL)
    BY DEF TaskOn, Fields
  <2>2. Starts(k, t) /\ UNCHANGED <<users, riders, known>>
    BY <1>4 DEF RemoveHub, Undertakes, staff
  <2>3. TaskFits(t)
    BY <2>1 DEF TaskFits, Fields
  <2> QED
    BY <2>1, <2>2, <2>3, Undertaking DEF Fields
<1> QED
  BY <1>1, <1>3, <1>4 DEF HubStep

LEMMA TaskPreserves ==
  ASSUME StaffInv, NEW k \in Servers, TaskStep(k)
  PROVE  StaffInv'
PROOF
<1> PICK task : task = jobs[k]
  OBVIOUS
<1>1. ASSUME UNCHANGED <<users, riders, known>> PROVE TablesOK => TablesOK'
  BY <1>1 DEF TablesOK, Is
<1>2. jobs[k].step \in StaffSteps => jobs[k] # Idle
  <2>1. Idle.step = "idle"
    BY DEF Idle
  <2>2. "idle" \notin StaffSteps
    BY DEF StaffSteps
  <2> QED
    BY <2>1, <2>2
<1>3. CASE InsertUser(k)
  <2>1. /\ task.step = "user" /\ jobs[k] # Idle
        /\ users' = [users EXCEPT ![task.p] = task.row] /\ riders' = riders /\ known' = known
    BY <1>3, <1>2 DEF InsertUser, Runs, At, StaffSteps
  <2>2. PICK t : /\ Continues(k, t)
                 /\ \/ t = [task EXCEPT !.step = "rider"] /\ task.rider # NULL
                    \/ t = [task EXCEPT !.step = "hub"]
                    \/ t = Idle
    BY <1>3 DEF InsertUser, Ends
  <2>3. ASSUME TablesOK, TaskOK(task) PROVE TablesOK' /\ (t = Idle \/ TaskOK(t)')
    <3>1. /\ task.p \in People /\ users[task.p] = NULL /\ riders[task.p] = NULL
          /\ task.row \in Person /\ task.p \in known /\ task.row # NULL
          /\ users'[task.p] = task.row /\ \A q \in People \ {task.p} : users'[q] = users[q]
      BY <2>1, <2>3, StaffAssumption DEF TaskOK, TaskFits, TablesOK
    <3>2. TablesOK'
      BY <2>1, <2>3, <3>1 DEF TablesOK, Is
    <3>3. CASE t # Idle
      <4>1. /\ t.p = task.p /\ t.rider = task.rider /\ t.step \in {"rider", "hub"}
            /\ t.step = "rider" => task.rider # NULL
            /\ {"step", "p", "row", "rider", "hub"} \subseteq DOMAIN t
        BY <2>2, <2>3, <3>3 DEF TaskOK, TaskFits
      <4> QED
        BY <4>1, <3>1, <3>2, <2>1, <2>3 DEF TaskOK, TaskFits, Is
    <3> QED
      BY <3>2, <3>3
  <2> QED
    BY <2>1, <2>2, <2>3, Working
<1>4. ASSUME Ends(k), jobs[k] # Idle, TablesOK => TablesOK'
      PROVE  StaffInv'
  BY <1>4, Working DEF Ends
<1>5. CASE InsertRider(k) \/ SaveRider(k)
  <2>1. /\ task.step \in {"rider", "desk"} /\ jobs[k] # Idle /\ Continues(k, Idle)
        /\ riders' = [riders EXCEPT ![task.p] = task.rider] /\ users' = users /\ known' = known
    BY <1>5, <1>2 DEF InsertRider, SaveRider, Runs, At, StaffSteps, Ends
  <2>2. TablesOK /\ TaskOK(task) => TablesOK'
    BY <2>1 DEF TablesOK, TaskOK, TaskFits, Is
  <2> QED
    BY <2>1, <2>2, Working
<1>6. CASE InsertManager(k) \/ SaveHub(k) \/ DeleteHub(k) \/ TaskFails(k)
  <2>1. jobs[k] # Idle /\ Ends(k) /\ UNCHANGED <<users, riders, known>>
    BY <1>6, <1>2 DEF InsertManager, SaveHub, DeleteHub, TaskFails, Runs, At, StaffSteps
  <2> QED
    BY <2>1, <1>1, <1>4
<1>7. CASE InsertHub(k)
  <2> PICK t : t = [task EXCEPT !.step = "manager"]
    OBVIOUS
  <2>1. /\ jobs[k] # Idle /\ Continues(k, t) /\ UNCHANGED <<users, riders, known>>
    BY <1>7, <1>2 DEF InsertHub, Runs, At, StaffSteps
  <2>2. TaskOK(task) => TaskOK(t)'
    BY <2>1 DEF TaskOK, TaskFits
  <2> QED
    BY <2>1, <2>2, <1>1, Working
<1>8. CASE DeleteAdmin(k)
  <2>1. /\ task.step = "delete" /\ jobs[k] # Idle /\ Continues(k, Idle)
        /\ users' = [users EXCEPT ![task.p] = NULL] /\ riders' = riders /\ known' = known
    BY <1>8, <1>2 DEF DeleteAdmin, Runs, At, StaffSteps, Ends
  <2>2. ASSUME TablesOK, TaskOK(task) PROVE TablesOK'
    <3>1. Is(task.p, "ADMIN") /\ task.p \in People
      BY <2>1, <2>2 DEF TaskOK, TaskFits
    <3>2. PICK q \in People \ {task.p} : Is(q, "ADMIN")
      BY <2>1, <2>2 DEF TaskOK, TaskFits
    <3>3. riders[task.p] = NULL
      BY <2>2, <3>1 DEF TablesOK, Is
    <3>4. /\ users' = [p \in People |-> users'[p]] /\ users'[task.p] = NULL
          /\ \A p \in People \ {task.p} : users'[p] = users[p]
      BY <2>1, <2>2, <3>1 DEF TablesOK
    <3>5. Is(q, "ADMIN")'
      BY <3>2, <3>4 DEF Is
    <3> QED
      BY <2>1, <2>2, <3>3, <3>4, <3>5 DEF TablesOK, Is
  <2> QED
    BY <2>1, <2>2, Working
<1>9. CASE SaveChangedAdmin(k) \/ SaveRidersUser(k)
  <2>1. /\ task.step \in {"changed", "account"} /\ jobs[k] # Idle
        /\ users' = [users EXCEPT ![task.p] = task.row] /\ riders' = riders /\ known' = known
    BY <1>9, <1>2 DEF SaveChangedAdmin, SaveRidersUser, Runs, At, StaffSteps
  <2>2. PICK t : /\ Continues(k, t)
                 /\ t = Idle \/ (t = [task EXCEPT !.step = "desk"] /\ task.step = "account")
    BY <1>9 DEF SaveChangedAdmin, SaveRidersUser, Ends, Runs, At
  <2>3. ASSUME TablesOK, TaskOK(task) PROVE TablesOK' /\ (t = Idle \/ TaskOK(t)')
    <3>1. /\ task.p \in People /\ task.row \in Person /\ task.row # NULL
          /\ users[task.p] # NULL /\ users[task.p].position = task.row.position
          /\ task.step = "account" => task.row.position = "RIDER"
      BY <2>1, <2>3, StaffAssumption DEF TaskOK, TaskFits, Is
    <3>2. /\ users' = [p \in People |-> users'[p]] /\ users'[task.p] = task.row
          /\ \A p \in People \ {task.p} : users'[p] = users[p]
      BY <2>1, <2>3, <3>1 DEF TablesOK
    <3>3. \A p \in People : \A position : Is(p, position) => Is(p, position)'
      BY <3>1, <3>2 DEF Is
    <3>4. TablesOK'
      BY <2>1, <2>3, <3>1, <3>2, <3>3 DEF TablesOK
    <3>5. CASE t # Idle
      <4>1. t.step = "desk" /\ t.p = task.p /\ {"step", "p", "row", "rider", "hub"} \subseteq DOMAIN t
        BY <2>2, <2>3, <3>5 DEF TaskOK, TaskFits
      <4>2. Is(task.p, "RIDER")'
        BY <2>2, <3>1, <3>2, <3>5 DEF Is
      <4>3. TaskOK(t)'
        BY <4>1, <4>2, <3>1 DEF TaskOK, TaskFits
      <4> QED
        BY <4>3, <3>4
    <3> QED
      BY <3>4, <3>5
  <2> QED
    BY <2>1, <2>2, <2>3, Working
<1> QED
  BY <1>3, <1>5, <1>6, <1>7, <1>8, <1>9 DEF TaskStep

LEMMA StaffInvStep == StaffInv /\ [StaffNext]_staffVars => StaffInv'
PROOF
<1> SUFFICES ASSUME StaffInv, [StaffNext]_staffVars PROVE StaffInv'
  OBVIOUS
<1>1. CASE UNCHANGED staffVars
  BY <1>1 DEF staffVars, staff, StaffInv, JobsTotal, TablesOK, OneAtWork, TaskOK, TaskFits, Is
<1>2. ASSUME NEW k \in Servers, NEW p \in People, AdminStep(k, p) \/ RiderStep(k, p) \/ HubStep(k, p)
      PROVE  StaffInv'
  BY <1>2, AdminPreserves, RiderPreserves, HubPreserves
<1>3. ASSUME NEW k \in Servers, TaskStep(k) PROVE StaffInv'
  BY <1>3, TaskPreserves
<1> QED
  BY <1>1, <1>2, <1>3 DEF StaffNext

\* "Prevent deleting the last admin" (admin.service.ts), as far as it is true: while
\* requests are served one at a time there is an admin, whichever of them fails.  The
\* one whom removeAdmin counted besides is still there when the row is deleted, and
\* no other request makes an admin something else.
THEOREM AdminsRemain == StaffSpec => []AnAdminRemains
PROOF
<1>1. StaffInit /\ NoRequests => StaffInv
  BY StaffInvInit
<1>2. StaffInv /\ [StaffNext]_staffVars => StaffInv'
  BY StaffInvStep
<1>3. StaffInv => AnAdminRemains
  BY DEF StaffInv, TablesOK, AnAdminRemains, Holding, Users, Is
<1> QED
  BY <1>1, <1>2, <1>3, PTL DEF StaffSpec

-----------------------------------------------------------------------------
(* Everyone's place, in every interleaving.                                *)

StaffRows ==
  /\ users \in [People -> Person \cup {NULL}]
  /\ riders \in [People -> Rider \cup {NULL}]
  /\ hubs \in [People -> Hub \cup {NULL}]
  /\ managers \subseteq known /\ cutOff \subseteq known /\ known \subseteq People

\* What a task takes its user for.
KindOf(t) ==
  IF t.step = "user" THEN t.row.position
  ELSE IF t.step \in {"changed", "delete"} THEN "ADMIN"
  ELSE IF t.step \in {"rider", "account", "desk"} THEN "RIDER" ELSE "HUB_MANAGER"

\* An id is given once, and he who gets it stays what he was registered as, also when
\* his row is deleted and a stale handler inserts it again.
RowsOfKind(kind) ==
  \A p \in People : /\ users[p] # NULL => users[p].position = kind[p]
                    /\ riders[p] # NULL => kind[p] = "RIDER"
                    /\ hubs[p] # NULL \/ p \in managers => kind[p] = "HUB_MANAGER"
TasksOfKind(kind) == \A k \in Servers : jobs[k] # Idle => kind[jobs[k].p] = KindOf(jobs[k])
KindsFit(kind) == kind \in [People -> Positions] /\ RowsOfKind(kind) /\ TasksOfKind(kind)

\* What task t will write is complete, and the rows it has found are still there.
TaskStands(t) ==
  /\ t \in Task /\ t.p \in known
  /\ t.step \in {"user", "account", "changed"} => t.row \in Person
  /\ t.step \in {"account", "changed"} => t.row.position = KindOf(t)
  /\ t.step \in {"rider", "account", "desk"} => t.rider \in Rider /\ users[t.p] # NULL
  /\ t.step \in {"account", "desk"} => riders[t.p] # NULL
  /\ t.step \in {"hub", "hub row"} => t.hub \in Hub
  /\ t.step = "user" => /\ t.rider # NULL <=> t.row.position = "RIDER"
                        /\ t.hub # NULL <=> t.row.position = "HUB_MANAGER"

IsRegistering(t, p) == t.step \in {"rider", "hub", "manager"} /\ t.p = p

\* A user has the other rows of his position, or will have them.
Settled(p) ==
  /\ users[p].position = "RIDER" => riders[p] # NULL
  /\ users[p].position = "HUB_MANAGER" => p \in managers
RowsStand ==
  \A p \in People :
    /\ riders[p] # NULL => users[p] # NULL
    /\ p \in managers => hubs[p] # NULL
    /\ users[p] # NULL \/ riders[p] # NULL \/ hubs[p] # NULL => p \in known
Everyone ==
  \A p \in People : users[p] # NULL =>
    p \in cutOff \/ Settled(p) \/ \E k \in Servers : IsRegistering(jobs[k], p)

PhonesDiffer == \A p, q \in Users : users[p].phone = users[q].phone => p = q

PlaceInv ==
  /\ StaffRows /\ JobsTotal /\ RowsStand /\ Everyone /\ PhonesDiffer
  /\ \A k \in Servers : jobs[k] = Idle \/ TaskStands(jobs[k])
  /\ \E kind : KindsFit(kind)

LEMMA PlaceInit == StaffInit /\ NoRequests => PlaceInv
PROOF
<1> SUFFICES ASSUME StaffInit, NoRequests PROVE PlaceInv
  OBVIOUS
<1>1. JobsTotal /\ \A k \in Servers : jobs[k] = Idle
  BY Resting
<1> PICK first \in People, phone \in Phones :
        /\ users = [p \in People |->
                      IF p = first THEN [phone |-> phone, position |-> "ADMIN", active |-> TRUE] ELSE NULL]
        /\ known = {first}
  BY DEF StaffInit
<1>2. /\ riders = [p \in People |-> NULL] /\ hubs = [p \in People |-> NULL]
      /\ managers = {} /\ cutOff = {}
  BY DEF StaffInit
<1>3. users[first] \in Person /\ users[first].position = "ADMIN"
  BY DEF Person, Positions
<1>4. \A p \in People \ {first} : users[p] = NULL
  OBVIOUS
<1>5. StaffRows
  BY <1>2, <1>3 DEF StaffRows
<1>6. RowsStand /\ Everyone
  BY <1>2, <1>3, <1>4 DEF RowsStand, Everyone, Settled
<1>7. PhonesDiffer
  BY <1>4 DEF PhonesDiffer, Users
<1>8. KindsFit([p \in People |-> "ADMIN"])
  BY <1>1, <1>2, <1>3, <1>4 DEF KindsFit, RowsOfKind, TasksOfKind, Positions
<1> QED
  BY <1>1, <1>5, <1>6, <1>7, <1>8 DEF PlaceInv

\* A handler goes from task c to task t, and the rows keep what the others rely on.
LEMMA PlaceTurning ==
  ASSUME PlaceInv, NEW k \in Servers, NEW c, c = jobs[k], NEW t,
         Starts(k, t) \/ Continues(k, t),
         NEW kind, KindsFit(kind),
         NEW kind2, kind2 \in [People -> Positions], \A p \in known : kind2[p] = kind[p],
         known \subseteq known',
         \A p \in People : /\ riders[p] # NULL => riders'[p] # NULL
                           /\ users[p] # NULL /\ kind[p] = "RIDER" => users'[p] # NULL
         , StaffRows', RowsStand', PhonesDiffer', RowsOfKind(kind2)',
         \A p \in People : users'[p] # NULL =>
            \/ p \in cutOff' \/ Settled(p)' \/ IsRegistering(t, p)
            \/ users[p] # NULL /\ (Settled(p) => Settled(p)') /\ cutOff \subseteq cutOff' /\ ~IsRegistering(c, p),
         t = Idle \/ (TaskStands(t)' /\ kind2[t.p] = KindOf(t))
  PROVE  PlaceInv'
PROOF
<1>1. JobsTotal' /\ jobs'[k] = t /\ \A j \in Servers \ {k} : jobs'[j] = jobs[j]
  BY Starting, Continuing DEF PlaceInv
<1>2. ASSUME NEW j \in Servers, NEW d, d = jobs'[j]
      PROVE  d = Idle \/ (TaskStands(d)' /\ kind2[d.p] = KindOf(d))
  <2>1. CASE j = k
    BY <1>1, <1>2, <2>1
  <2>2. CASE j # k
    <3>1. d = jobs[j] /\ (d = Idle \/ (TaskStands(d) /\ kind[d.p] = KindOf(d)))
      BY <1>1, <1>2, <2>2 DEF PlaceInv, KindsFit, TasksOfKind
    <3>2. ASSUME TaskStands(d), kind[d.p] = KindOf(d) PROVE TaskStands(d)'
      <4>1. d.p \in known /\ d.p \in People
        BY <3>2 DEF TaskStands, PlaceInv, StaffRows
      <4>2. d.step \in {"rider", "account", "desk"} => kind[d.p] = "RIDER"
        BY <3>2 DEF KindOf
      <4> QED
        BY <3>2, <4>1, <4>2 DEF TaskStands
    <3>3. TaskStands(d) => d.p \in known
      BY DEF TaskStands
    <3> QED
      BY <3>1, <3>2, <3>3
  <2> QED
    BY <2>1, <2>2
<1>3. \A j \in Servers : jobs'[j] = Idle \/ TaskStands(jobs[j])'
  <2> SUFFICES ASSUME NEW j \in Servers PROVE jobs'[j] = Idle \/ TaskStands(jobs[j])'
    OBVIOUS
  <2> PICK d : d = jobs'[j]
    OBVIOUS
  <2>1. d = Idle \/ TaskStands(d)'
    BY <1>2
  <2> QED
    BY <2>1
<1>4. TasksOfKind(kind2)'
  <2> SUFFICES ASSUME NEW j \in Servers, jobs'[j] # Idle PROVE kind2[jobs'[j].p] = KindOf(jobs[j])'
    BY DEF TasksOfKind
  <2> PICK d : d = jobs'[j]
    OBVIOUS
  <2>1. kind2[d.p] = KindOf(d)
    BY <1>2
  <2> QED
    BY <2>1 DEF KindOf
<1>5. KindsFit(kind2)'
  BY <1>4 DEF KindsFit
<1>6. Everyone'
  <2> SUFFICES ASSUME NEW p \in People, users'[p] # NULL
               PROVE  p \in cutOff' \/ Settled(p)' \/ \E j \in Servers : IsRegistering(jobs'[j], p)
    BY DEF Everyone, IsRegistering
  <2>1. CASE IsRegistering(t, p)
    BY <1>1, <2>1
  <2>2. CASE users[p] # NULL /\ (Settled(p) => Settled(p)') /\ cutOff \subseteq cutOff' /\ ~IsRegistering(c, p)
    <3>1. p \in cutOff \/ Settled(p) \/ \E j \in Servers : IsRegistering(jobs[j], p)
      BY <2>2 DEF PlaceInv, Everyone
    <3>2. ASSUME NEW j \in Servers, IsRegistering(jobs[j], p) PROVE IsRegistering(jobs'[j], p)
      <4>1. j # k
        BY <2>2, <3>2
      <4> QED
        BY <1>1, <3>2, <4>1
    <3> QED
      BY <2>2, <3>1, <3>2
  <2> QED
    BY <2>1, <2>2
<1> QED
  BY <1>1, <1>3, <1>5, <1>6 DEF PlaceInv

\* A request is taken: so far no row has changed.
LEMMA PlaceUndertaking ==
  ASSUME PlaceInv, NEW k \in Servers, NEW t, Undertakes(k, t), TaskStands(t),
         \A kind : KindsFit(kind) => kind[t.p] = KindOf(t)
  PROVE  PlaceInv'
PROOF
<1>1. Starts(k, t) /\ jobs[k] = Idle /\ UNCHANGED <<users, riders, hubs, managers, known, cutOff>>
  BY DEF Undertakes, staff, Starts
<1> PICK c : c = jobs[k]
  OBVIOUS
<1>2. \A p : ~IsRegistering(c, p)
  BY <1>1 DEF IsRegistering, Idle
<1>3. PICK kind : KindsFit(kind)
  BY DEF PlaceInv
<1>4. kind[t.p] = KindOf(t) /\ kind \in [People -> Positions] /\ RowsOfKind(kind)
  BY <1>3 DEF KindsFit
<1>5. RowsOfKind(kind)' /\ TaskStands(t)'
  BY <1>1, <1>4 DEF RowsOfKind, TaskStands
<1>6. StaffRows' /\ RowsStand' /\ PhonesDiffer'
  BY <1>1 DEF PlaceInv, StaffRows, RowsStand, PhonesDiffer, Users
<1>7. \A p \in People : (Settled(p) => Settled(p)')
  BY <1>1 DEF Settled
<1> QED
  BY <1>1, <1>2, <1>3, <1>4, <1>5, <1>6, <1>7, PlaceTurning

\* A registration gives an id that no row and no request has.
LEMMA PlaceRegisters ==
  ASSUME PlaceInv, NEW k \in Servers, NEW t, Starts(k, t), t \in Task, t.step = "user",
         t.row \in Person,
         t.rider # NULL <=> t.row.position = "RIDER",
         t.hub # NULL <=> t.row.position = "HUB_MANAGER",
         t.p \notin known, known' = known \cup {t.p},
         UNCHANGED <<users, riders, hubs, managers, cutOff>>
  PROVE  PlaceInv'
PROOF
<1> PICK c : c = jobs[k]
  OBVIOUS
<1>1. (\A p : ~IsRegistering(c, p)) /\ t.p \in People /\ t.row.position \in Positions
  BY DEF IsRegistering, Idle, Starts, Task, Person
<1>2. PICK kind : KindsFit(kind)
  BY DEF PlaceInv
<1>3. PICK kind2 : /\ kind2 \in [People -> Positions] /\ kind2[t.p] = t.row.position
                   /\ \A p \in People \ {t.p} : kind2[p] = kind[p]
  <2> DEFINE new == [kind EXCEPT ![t.p] = t.row.position]
  <2>1. /\ new \in [People -> Positions] /\ new[t.p] = t.row.position
        /\ \A p \in People \ {t.p} : new[p] = kind[p]
    BY <1>1, <1>2 DEF KindsFit
  <2> QED
    BY <2>1
<1>4. users[t.p] = NULL /\ riders[t.p] = NULL /\ hubs[t.p] = NULL /\ t.p \notin managers
  BY <1>1 DEF PlaceInv, RowsStand
<1>5. RowsOfKind(kind2)'
  <2>1. \A p \in People : /\ users[p] # NULL => users[p].position = kind[p]
                          /\ riders[p] # NULL => kind[p] = "RIDER"
                          /\ hubs[p] # NULL \/ p \in managers => kind[p] = "HUB_MANAGER"
    BY <1>2 DEF KindsFit, RowsOfKind
  <2>2. ASSUME NEW p \in People
        PROVE  /\ users[p] # NULL => users[p].position = kind2[p]
               /\ riders[p] # NULL => kind2[p] = "RIDER"
               /\ hubs[p] # NULL \/ p \in managers => kind2[p] = "HUB_MANAGER"
    BY <1>3, <1>4, <2>1
  <2> QED
    BY <2>2 DEF RowsOfKind
<1>6. TaskStands(t)'
  BY DEF TaskStands
<1>7. StaffRows' /\ RowsStand' /\ PhonesDiffer'
  BY <1>1 DEF PlaceInv, StaffRows, RowsStand, PhonesDiffer, Users
<1>8. \A p \in People : users'[p] # NULL =>
         /\ users[p] # NULL /\ (Settled(p) => Settled(p)')
         /\ cutOff \subseteq cutOff' /\ ~IsRegistering(c, p)
  BY <1>1 DEF Settled
<1>9. /\ known \subseteq known'
      /\ \A p \in People : /\ riders[p] # NULL => riders'[p] # NULL
                           /\ users[p] # NULL /\ kind[p] = "RIDER" => users'[p] # NULL
  OBVIOUS
<1>10. (\A p \in known : kind2[p] = kind[p]) /\ kind2[t.p] = KindOf(t)
  BY <1>3 DEF KindOf, PlaceInv, StaffRows
<1> QED
  BY <1>2, <1>3, <1>5, <1>6, <1>7, <1>8, <1>9, <1>10, PlaceTurning

LEMMA PlaceRequests ==
  ASSUME PlaceInv, NEW k \in Servers, NEW p \in People,
         AdminStep(k, p) \/ RiderStep(k, p) \/ HubStep(k, p)
  PROVE  PlaceInv'
PROOF
<1>1. /\ users[p] # NULL => users[p] \in Person /\ p \in known
      /\ riders[p] # NULL => riders[p] \in Rider /\ users[p] # NULL
      /\ hubs[p] # NULL => hubs[p] \in Hub /\ p \in known
  BY DEF PlaceInv, StaffRows, RowsStand
<1>2. ASSUME NEW kind, KindsFit(kind)
      PROVE  /\ users[p] # NULL => users[p].position = kind[p]
             /\ riders[p] # NULL => kind[p] = "RIDER"
             /\ hubs[p] # NULL => kind[p] = "HUB_MANAGER"
  BY <1>2 DEF KindsFit, RowsOfKind
\* What a request takes of an admin, a rider or a hub.
<1>3. ASSUME NEW t, t \in Task, t.p = p, Undertakes(k, t),
             \/ /\ users[p] # NULL /\ users[p].position = "ADMIN"
                /\ t.step = "delete" \/ (t.step = "changed" /\ t.row \in Person /\ t.row.position = "ADMIN")
             \/ /\ riders[p] # NULL /\ t.rider \in Rider
                /\ t.step = "desk" \/ (t.step = "account" /\ t.row \in Person /\ t.row.position = "RIDER")
             \/ /\ hubs[p] # NULL
                /\ t.step = "close" \/ (t.step = "hub row" /\ t.hub \in Hub)
      PROVE  PlaceInv'
  <2>1. TaskStands(t)
    BY <1>1, <1>3 DEF TaskStands, KindOf
  <2>2. \A kind : KindsFit(kind) => kind[t.p] = KindOf(t)
    BY <1>2, <1>3 DEF KindOf
  <2> QED
    BY <1>3, <2>1, <2>2, PlaceUndertaking
<1>4. riders[p] # NULL => users[p].position = "RIDER"
  BY <1>1, <1>2 DEF PlaceInv
<1>5. NULL \notin Person /\ NULL \notin Rider /\ NULL \notin Hub
  BY StaffAssumption
<1>6. CASE RemoveAdmin(k, p)
  <2> PICK t : t = TaskOn("delete", p)
    OBVIOUS
  <2>1. t \in Task /\ t.p = p /\ t.step = "delete"
    BY DEF TaskOn, Task, StaffSteps
  <2>2. Undertakes(k, t) /\ users[p] # NULL /\ users[p].position = "ADMIN"
    BY <1>6 DEF RemoveAdmin, Holding, Users
  <2> QED
    BY <1>3, <2>1, <2>2
<1>7. ASSUME NEW phone \in Phones, NEW active \in BOOLEAN, NEW password \in BOOLEAN,
             ChangeAdmin(k, p, phone, active, password)
      PROVE  PlaceInv'
  <2> PICK row : row = [users[p] EXCEPT !.phone = phone, !.active = active]
    OBVIOUS
  <2>1. users[p] # NULL /\ users[p].position = "ADMIN" /\ users[p] \in Person
    BY <1>1, <1>7 DEF ChangeAdmin, Holding, Users
  <2>2. row \in Person /\ row.position = "ADMIN"
    BY <2>1 DEF Person
  <2> PICK t : t = [TaskOn("changed", p) EXCEPT !.row = row, !.password = password]
    OBVIOUS
  <2>3. t \in Task /\ t.p = p /\ t.step = "changed" /\ t.row = row
    BY <2>2 DEF TaskOn, Task, StaffSteps
  <2>4. Undertakes(k, t)
    BY <1>7 DEF ChangeAdmin
  <2> QED
    BY <1>3, <2>1, <2>2, <2>3, <2>4
<1>8. ASSUME NEW phone \in Phones, CreateAdmin(k, p, phone)
      PROVE  PlaceInv'
  <2> PICK row : row = [phone |-> phone, position |-> "ADMIN", active |-> TRUE]
    OBVIOUS
  <2> PICK t : t = [TaskOn("user", p) EXCEPT !.row = row]
    OBVIOUS
  <2>1. row \in Person /\ row.position = "ADMIN"
    BY DEF Person, Positions
  <2>2. t \in Task /\ t.p = p /\ t.step = "user" /\ t.row = row /\ t.rider = NULL /\ t.hub = NULL
    BY <2>1 DEF TaskOn, Task, StaffSteps
  <2>3. /\ Starts(k, t) /\ p \notin known /\ known' = known \cup {p}
        /\ UNCHANGED <<users, riders, hubs, managers, cutOff>>
    BY <1>8 DEF CreateAdmin, Registers, TaskOn
  <2> QED
    BY <2>1, <2>2, <2>3, PlaceRegisters
<1>9. ASSUME NEW phone \in Phones, NEW card \in Cards, CreateRider(k, p, phone, card)
      PROVE  PlaceInv'
  <2> PICK row, rider : /\ row = [phone |-> phone, position |-> "RIDER", active |-> TRUE]
                        /\ rider = [card |-> card, active |-> TRUE]
    OBVIOUS
  <2> PICK t : t = [TaskOn("user", p) EXCEPT !.rider = rider, !.row = row]
    OBVIOUS
  <2>1. row \in Person /\ row.position = "RIDER" /\ rider \in Rider
    BY DEF Person, Positions, Rider
  <2>2. t \in Task /\ t.p = p /\ t.step = "user" /\ t.row = row /\ t.rider = rider /\ t.hub = NULL
    BY <2>1 DEF TaskOn, Task, StaffSteps
  <2>3. /\ Starts(k, t) /\ p \notin known /\ known' = known \cup {p}
        /\ UNCHANGED <<users, riders, hubs, managers, cutOff>>
    BY <1>9 DEF CreateRider, Registers, TaskOn
  <2> QED
    BY <1>5, <2>1, <2>2, <2>3, PlaceRegisters
<1>10. ASSUME NEW phone \in Phones, NEW code \in HubCodes, CreateHub(k, p, phone, code)
       PROVE  PlaceInv'
  <2> PICK row, hub : /\ row = [phone |-> phone, position |-> "HUB_MANAGER", active |-> TRUE]
                      /\ hub = [code |-> code, manager |-> p]
    OBVIOUS
  <2> PICK t : t = [TaskOn("user", p) EXCEPT !.hub = hub, !.row = row]
    OBVIOUS
  <2>1. row \in Person /\ row.position = "HUB_MANAGER" /\ hub \in Hub
    BY DEF Person, Positions, Hub
  <2>2. t \in Task /\ t.p = p /\ t.step = "user" /\ t.row = row /\ t.rider = NULL /\ t.hub = hub
    BY <2>1 DEF TaskOn, Task, StaffSteps
  <2>3. /\ Starts(k, t) /\ p \notin known /\ known' = known \cup {p}
        /\ UNCHANGED <<users, riders, hubs, managers, cutOff>>
    BY <1>10 DEF CreateHub, Registers, TaskOn
  <2> QED
    BY <1>5, <2>1, <2>2, <2>3, PlaceRegisters
<1>11. ASSUME NEW active \in BOOLEAN, SetRiderActive(k, p, active)
       PROVE  PlaceInv'
  <2> PICK row, rider : /\ row = [users[p] EXCEPT !.active = active]
                        /\ rider = [riders[p] EXCEPT !.active = active]
    OBVIOUS
  <2> PICK t : t = [TaskOn("account", p) EXCEPT !.row = row, !.rider = rider]
    OBVIOUS
  <2>1. riders[p] # NULL /\ Undertakes(k, t)
    BY <1>11 DEF SetRiderActive
  <2>2. row \in Person /\ row.position = "RIDER" /\ rider \in Rider
    BY <1>1, <1>4, <2>1 DEF Person, Rider
  <2>3. t \in Task /\ t.p = p /\ t.step = "account" /\ t.row = row /\ t.rider = rider
    BY <2>2 DEF TaskOn, Task, StaffSteps
  <2> QED
    BY <1>3, <2>1, <2>2, <2>3
<1>12. ASSUME NEW phone \in Phones, NEW rider \in Rider, UpdateRider(k, p, phone, rider)
       PROVE  PlaceInv'
  <2> PICK row : row = [users[p] EXCEPT !.phone = phone]
    OBVIOUS
  <2> PICK desk, renamed : /\ desk = [TaskOn("desk", p) EXCEPT !.rider = rider]
                           /\ renamed = [TaskOn("account", p) EXCEPT !.row = row, !.rider = rider]
    OBVIOUS
  <2>1. riders[p] # NULL /\ (Undertakes(k, desk) \/ Undertakes(k, renamed))
    BY <1>12 DEF UpdateRider
  <2>2. row \in Person /\ row.position = "RIDER"
    BY <1>1, <1>4, <2>1 DEF Person
  <2>3. /\ desk \in Task /\ desk.p = p /\ desk.step = "desk" /\ desk.rider = rider
        /\ renamed \in Task /\ renamed.p = p /\ renamed.step = "account"
        /\ renamed.row = row /\ renamed.rider = rider
    BY <2>2, <1>12 DEF TaskOn, Task, StaffSteps
  <2> QED
    BY <1>3, <1>12, <2>1, <2>2, <2>3
<1>13. ASSUME NEW manager \in People, UpdateHub(k, p, manager)
       PROVE  PlaceInv'
  <2> PICK hub : hub = [hubs[p] EXCEPT !.manager = manager]
    OBVIOUS
  <2> PICK t : t = [TaskOn("hub row", p) EXCEPT !.hub = hub]
    OBVIOUS
  <2>1. hubs[p] # NULL /\ Undertakes(k, t)
    BY <1>13 DEF UpdateHub
  <2>2. hub \in Hub
    BY <1>1, <2>1 DEF Hub
  <2>3. t \in Task /\ t.p = p /\ t.step = "hub row" /\ t.hub = hub
    BY <2>2 DEF TaskOn, Task, StaffSteps
  <2> QED
    BY <1>3, <2>1, <2>2, <2>3
<1>14. CASE RemoveHub(k, p)
  <2> PICK t : t = TaskOn("close", p)
    OBVIOUS
  <2>1. t \in Task /\ t.p = p /\ t.step = "close"
    BY DEF TaskOn, Task, StaffSteps
  <2>2. Undertakes(k, t) /\ hubs[p] # NULL
    BY <1>14 DEF RemoveHub
  <2> QED
    BY <1>3, <2>1, <2>2
<1> QED
  BY <1>6, <1>7, <1>8, <1>9, <1>10, <1>11, <1>12, <1>13, <1>14 DEF AdminStep, RiderStep, HubStep

\* The statements that write users, or nothing.
LEMMA PlaceUsers ==
  ASSUME PlaceInv, NEW k \in Servers, NEW c, c = jobs[k], TaskStands(c), NEW t,
         Continues(k, t), UNCHANGED <<riders, hubs, managers, known, cutOff>>,
         c.step \in {"user", "account", "changed"},
         PhoneFree(c.p, c.row.phone), users' = [users EXCEPT ![c.p] = c.row],
         \/ t = Idle /\ c.step # "account" /\ c.row.position = "ADMIN"
         \/ /\ t \in Task /\ t.p = c.p /\ t.rider = c.rider /\ t.hub = c.hub
            /\ \/ c.step = "user" /\ t.step = "rider" /\ c.rider # NULL
               \/ c.step = "user" /\ t.step = "hub" /\ c.rider = NULL /\ c.hub # NULL
               \/ c.step = "account" /\ t.step = "desk"
  PROVE  PlaceInv'
PROOF
<1>1. PICK kind : KindsFit(kind)
  BY DEF PlaceInv
<1>2. kind \in [People -> Positions] /\ RowsOfKind(kind) /\ kind[c.p] = KindOf(c)
  BY <1>1 DEF KindsFit, TasksOfKind, Idle
<1>3. c.p \in People /\ c.p \in known /\ c \in Task /\ c.row \in Person /\ c.row.position = kind[c.p]
  BY <1>2 DEF TaskStands, PlaceInv, StaffRows, KindOf
<1>4. users'[c.p] = c.row /\ \A q \in People \ {c.p} : users'[q] = users[q]
  BY <1>3 DEF PlaceInv, StaffRows
<1>5. c.row # NULL /\ NULL \notin Person
  BY <1>3, StaffAssumption
<1>6. StaffRows'
  BY <1>3, <1>4 DEF PlaceInv, StaffRows
<1>7. RowsStand'
  BY <1>3, <1>4, <1>5 DEF PlaceInv, RowsStand
<1>8. RowsOfKind(kind)'
  <2>1. \A p \in People : /\ users[p] # NULL => users[p].position = kind[p]
                          /\ riders[p] # NULL => kind[p] = "RIDER"
                          /\ hubs[p] # NULL \/ p \in managers => kind[p] = "HUB_MANAGER"
    BY <1>2 DEF RowsOfKind
  <2> QED
    BY <1>3, <1>4, <2>1 DEF RowsOfKind
<1>9. PhonesDiffer'
  <2> SUFFICES ASSUME NEW p \in Users', NEW q \in Users', users'[p].phone = users'[q].phone
               PROVE  p = q
    BY DEF PhonesDiffer
  <2>1. /\ p = c.p \/ (p \in Users /\ users'[p] = users[p])
        /\ q = c.p \/ (q \in Users /\ users'[q] = users[q])
        /\ p \in People /\ q \in People
    BY <1>4 DEF Users
  <2>2. \A r \in Users \ {c.p} : users[r].phone # c.row.phone
    BY DEF PhoneFree
  <2> QED
    BY <1>4, <2>1, <2>2 DEF PlaceInv, PhonesDiffer
<1>10. \A p \in People : /\ riders[p] # NULL => riders'[p] # NULL
                         /\ users[p] # NULL /\ kind[p] = "RIDER" => users'[p] # NULL
  BY <1>4, <1>5
<1>11. t = Idle \/ (TaskStands(t)' /\ kind[t.p] = KindOf(t))
  <2>1. CASE t = Idle
    BY <2>1
  <2>2. CASE t.step = "rider" /\ c.rider # NULL /\ t # Idle
    <3>1. t.rider \in Rider /\ kind[c.p] = "RIDER"
      BY <1>3, <2>2 DEF Task, TaskStands, KindOf, Idle
    <3> QED
      BY <1>3, <1>4, <1>5, <2>2, <3>1 DEF TaskStands, KindOf
  <2>3. CASE t.step = "hub" /\ c.hub # NULL /\ t # Idle
    <3>1. t.hub \in Hub /\ kind[c.p] = "HUB_MANAGER"
      BY <1>3, <2>3 DEF Task, TaskStands, KindOf, Idle
    <3> QED
      BY <1>3, <2>3, <3>1 DEF TaskStands, KindOf
  <2>4. CASE t.step = "desk" /\ c.step = "account" /\ t # Idle
    <3>1. t.rider \in Rider /\ kind[c.p] = "RIDER" /\ riders[t.p] # NULL
      BY <1>2, <1>3, <2>4 DEF Task, TaskStands, KindOf, Idle
    <3> QED
      BY <1>3, <1>4, <1>5, <2>4, <3>1 DEF TaskStands, KindOf
  <2> QED
    BY <2>1, <2>2, <2>3, <2>4 DEF Idle
<1>12. ASSUME NEW p \in People, users'[p] # NULL
       PROVE  \/ p \in cutOff' \/ Settled(p)' \/ IsRegistering(t, p)
              \/ /\ users[p] # NULL /\ (Settled(p) => Settled(p)') /\ cutOff \subseteq cutOff'
                 /\ ~IsRegistering(c, p)
  <2>1. ~IsRegistering(c, p)
    BY DEF IsRegistering
  <2>2. CASE p # c.p
    BY <1>4, <1>12, <2>1, <2>2 DEF Settled
  <2>3. CASE p = c.p /\ c.step = "account"
    BY <1>3, <1>4, <2>3 DEF TaskStands, Settled, KindOf
  <2>4. CASE p = c.p /\ c.row.position = "ADMIN"
    BY <1>4, <2>4 DEF Settled
  <2>5. CASE p = c.p /\ t # Idle /\ c.step = "user"
    BY <2>5 DEF IsRegistering
  <2> QED
    BY <2>2, <2>3, <2>4, <2>5 DEF Idle
<1> QED
  BY <1>1, <1>2, <1>6, <1>7, <1>8, <1>9, <1>10, <1>11, <1>12, PlaceTurning

LEMMA IdleIsNoTask == Idle.step \notin StaffSteps
BY DEF Idle, StaffSteps

LEMMA PlaceTasks ==
  ASSUME PlaceInv, NEW k \in Servers, TaskStep(k)
  PROVE  PlaceInv'
PROOF
<1> PICK c : c = jobs[k]
  OBVIOUS
<1>1. c.step \in StaffSteps
  BY DEF TaskStep, InsertUser, InsertRider, InsertHub, InsertManager, DeleteAdmin, SaveChangedAdmin,
         SaveRidersUser, SaveRider, SaveHub, DeleteHub, TaskFails, Runs, At, StaffSteps
<1>2. TaskStands(c) /\ c # Idle /\ c \in Task /\ c.p \in known /\ c.p \in People
  <2>1. c # Idle
    BY <1>1, IdleIsNoTask
  <2>2. TaskStands(c)
    BY <2>1 DEF PlaceInv
  <2> QED
    BY <2>1, <2>2 DEF TaskStands, Task
<1>3. PICK kind : KindsFit(kind)
  BY DEF PlaceInv
<1>4. kind \in [People -> Positions] /\ RowsOfKind(kind) /\ kind[c.p] = KindOf(c)
  BY <1>2, <1>3 DEF KindsFit, TasksOfKind
<1>5. \A p \in People : /\ users[p] # NULL => users[p].position = kind[p]
                        /\ riders[p] # NULL => kind[p] = "RIDER"
                        /\ hubs[p] # NULL \/ p \in managers => kind[p] = "HUB_MANAGER"
  BY <1>4 DEF RowsOfKind
<1>6. NULL \notin Person /\ NULL \notin Rider /\ NULL \notin Hub
  BY StaffAssumption
<1>7. ASSUME NEW p PROVE ~IsRegistering(Idle, p)
  BY DEF IsRegistering, Idle
<1>8. CASE InsertUser(k)
  <2>1. /\ c.step = "user" /\ PhoneFree(c.p, c.row.phone) /\ users' = [users EXCEPT ![c.p] = c.row]
        /\ UNCHANGED <<riders, hubs, managers, known, cutOff>>
    BY <1>8 DEF InsertUser, Runs, At, Refused
  <2>2. CASE c.rider # NULL
    <3> PICK t : t = [c EXCEPT !.step = "rider"]
      OBVIOUS
    <3>1. c.hub = NULL
      BY <1>2, <2>1, <2>2 DEF TaskStands
    <3> Continues(k, t)
      BY <1>8, <2>2, <3>1 DEF InsertUser
    <3>2. t \in Task /\ t.p = c.p /\ t.rider = c.rider /\ t.hub = c.hub /\ t.step = "rider"
      BY <1>2 DEF Task, StaffSteps
    <3> QED
      BY <1>2, <2>1, <2>2, <3>1, <3>2, PlaceUsers
  <2>3. CASE c.rider = NULL /\ c.hub # NULL
    <3> PICK t : t = [c EXCEPT !.step = "hub"]
      OBVIOUS
    <3>1. Continues(k, t)
      BY <1>8, <2>3 DEF InsertUser
    <3>2. t \in Task /\ t.p = c.p /\ t.rider = c.rider /\ t.hub = c.hub /\ t.step = "hub"
      BY <1>2 DEF Task, StaffSteps
    <3> QED
      BY <1>2, <2>1, <2>3, <3>1, <3>2, PlaceUsers
  <2>4. CASE c.rider = NULL /\ c.hub = NULL
    <3>1. Continues(k, Idle)
      BY <1>8, <2>4 DEF InsertUser, Ends
    <3>2. c.row.position = "ADMIN"
      BY <1>2, <2>1, <2>4 DEF TaskStands, Person, Positions
    <3> QED
      BY <1>2, <2>1, <3>1, <3>2, PlaceUsers
  <2> QED
    BY <2>2, <2>3, <2>4
<1>9. CASE SaveChangedAdmin(k)
  <2>1. /\ c.step = "changed" /\ PhoneFree(c.p, c.row.phone) /\ users' = [users EXCEPT ![c.p] = c.row]
        /\ UNCHANGED <<riders, hubs, managers, known, cutOff>> /\ Continues(k, Idle)
    BY <1>9 DEF SaveChangedAdmin, Runs, At, Refused, Ends
  <2>2. c.row.position = "ADMIN"
    BY <1>2, <2>1 DEF TaskStands, KindOf
  <2> QED
    BY <1>2, <2>1, <2>2, PlaceUsers
<1>10. CASE SaveRidersUser(k)
  <2> PICK t : t = [c EXCEPT !.step = "desk"]
    OBVIOUS
  <2>1. /\ c.step = "account" /\ PhoneFree(c.p, c.row.phone) /\ users' = [users EXCEPT ![c.p] = c.row]
        /\ UNCHANGED <<riders, hubs, managers, known, cutOff>> /\ Continues(k, t)
    BY <1>10 DEF SaveRidersUser, Runs, At, Refused
  <2>2. t \in Task /\ t.p = c.p /\ t.rider = c.rider /\ t.hub = c.hub /\ t.step = "desk"
    BY <1>2 DEF Task, StaffSteps
  <2> QED
    BY <1>2, <2>1, <2>2, PlaceUsers
<1>11. CASE InsertRider(k) \/ SaveRider(k)
  <2>1. /\ c.step \in {"rider", "desk"} /\ riders' = [riders EXCEPT ![c.p] = c.rider]
        /\ UNCHANGED <<users, hubs, managers, known, cutOff>> /\ Continues(k, Idle)
    BY <1>11 DEF InsertRider, SaveRider, Runs, At, Ends
  <2>2. c.rider \in Rider /\ users[c.p] # NULL /\ kind[c.p] = "RIDER"
    BY <1>2, <1>4, <2>1 DEF TaskStands, KindOf
  <2>3. riders'[c.p] = c.rider /\ \A q \in People \ {c.p} : riders'[q] = riders[q]
    BY <1>2, <2>1 DEF PlaceInv, StaffRows
  <2>4. StaffRows' /\ RowsStand' /\ PhonesDiffer'
    <3>1. StaffRows'
      BY <1>2, <1>6, <2>1, <2>2, <2>3 DEF PlaceInv, StaffRows
    <3>2. RowsStand'
      BY <1>2, <1>6, <2>1, <2>2, <2>3 DEF PlaceInv, StaffRows, RowsStand
    <3>3. PhonesDiffer'
      BY <1>2, <1>6, <2>1, <2>2, <2>3 DEF PlaceInv, PhonesDiffer, Users
    <3> QED
      BY <3>1, <3>2, <3>3
  <2>5. RowsOfKind(kind)'
    BY <1>5, <2>1, <2>2, <2>3 DEF RowsOfKind
  <2>6. \A p \in People : riders[p] # NULL => riders'[p] # NULL
    BY <1>6, <2>2, <2>3
  <2>7. ASSUME NEW p \in People PROVE Settled(p)' \/ ((Settled(p) => Settled(p)') /\ ~IsRegistering(c, p))
    <3>1. CASE p = c.p
      BY <1>5, <1>6, <2>1, <2>2, <2>3, <3>1 DEF Settled
    <3>2. CASE p # c.p
      BY <2>1, <2>6, <3>2 DEF Settled, IsRegistering
    <3> QED
      BY <3>1, <3>2
  <2> QED
    BY <1>3, <1>4, <2>1, <2>4, <2>5, <2>6, <2>7, PlaceTurning
<1>12. CASE InsertHub(k)
  <2> PICK t : t = [c EXCEPT !.step = "manager"]
    OBVIOUS
  <2>1. /\ c.step = "hub" /\ hubs' = [hubs EXCEPT ![c.p] = c.hub]
        /\ UNCHANGED <<users, riders, managers, known, cutOff>> /\ Continues(k, t)
    BY <1>12 DEF InsertHub, Runs, At
  <2>2. t \in Task /\ t.p = c.p /\ t.step = "manager"
    BY <1>2 DEF Task, StaffSteps
  <2>3. c.hub \in Hub /\ kind[c.p] = "HUB_MANAGER"
    BY <1>2, <1>4, <2>1 DEF TaskStands, KindOf
  <2>4. hubs'[c.p] = c.hub /\ \A q \in People \ {c.p} : hubs'[q] = hubs[q]
    BY <1>2, <2>1 DEF PlaceInv, StaffRows
  <2>5. StaffRows' /\ RowsStand' /\ PhonesDiffer'
    <3>1. StaffRows'
      BY <1>2, <1>6, <2>1, <2>3, <2>4 DEF PlaceInv, StaffRows
    <3>2. RowsStand'
      BY <1>2, <1>6, <2>1, <2>3, <2>4 DEF PlaceInv, StaffRows, RowsStand
    <3>3. PhonesDiffer'
      BY <1>2, <1>6, <2>1, <2>3, <2>4 DEF PlaceInv, PhonesDiffer, Users
    <3> QED
      BY <3>1, <3>2, <3>3
  <2>6. RowsOfKind(kind)'
    BY <1>5, <2>1, <2>3, <2>4 DEF RowsOfKind
  <2>7. TaskStands(t)' /\ kind[t.p] = KindOf(t)
    BY <1>2, <2>1, <2>2, <2>3 DEF TaskStands, KindOf
  <2>8. ASSUME NEW p \in People
        PROVE  IsRegistering(t, p) \/ ((Settled(p) => Settled(p)') /\ ~IsRegistering(c, p))
    BY <2>1, <2>2 DEF IsRegistering, Settled
  <2>9. \A p \in People : users[p] = users'[p] /\ riders[p] = riders'[p]
    BY <2>1
  <2> QED
    BY <1>3, <1>4, <2>1, <2>5, <2>6, <2>7, <2>8, <2>9, PlaceTurning
<1>13. CASE SaveHub(k)
  <2>1. /\ c.step = "hub row" /\ hubs' = [hubs EXCEPT ![c.p] = c.hub]
        /\ UNCHANGED <<users, riders, managers, known, cutOff>> /\ Continues(k, Idle)
    BY <1>13 DEF SaveHub, Runs, At, Ends
  <2>2. c.hub \in Hub /\ kind[c.p] = "HUB_MANAGER"
    BY <1>2, <1>4, <2>1 DEF TaskStands, KindOf
  <2>3. hubs'[c.p] = c.hub /\ \A q \in People \ {c.p} : hubs'[q] = hubs[q]
    BY <1>2, <2>1 DEF PlaceInv, StaffRows
  <2>4. StaffRows' /\ RowsStand' /\ PhonesDiffer'
    <3>1. StaffRows'
      BY <1>2, <1>6, <2>1, <2>2, <2>3 DEF PlaceInv, StaffRows
    <3>2. RowsStand'
      BY <1>2, <1>6, <2>1, <2>2, <2>3 DEF PlaceInv, StaffRows, RowsStand
    <3>3. PhonesDiffer'
      BY <1>2, <1>6, <2>1, <2>2, <2>3 DEF PlaceInv, PhonesDiffer, Users
    <3> QED
      BY <3>1, <3>2, <3>3
  <2>5. RowsOfKind(kind)'
    BY <1>5, <2>1, <2>2, <2>3 DEF RowsOfKind
  <2>6. ASSUME NEW p \in People PROVE (Settled(p) => Settled(p)') /\ ~IsRegistering(c, p)
    BY <2>1 DEF IsRegistering, Settled
  <2>7. \A p \in People : users[p] = users'[p] /\ riders[p] = riders'[p]
    BY <2>1
  <2> QED
    BY <1>3, <1>4, <2>1, <2>4, <2>5, <2>6, <2>7, PlaceTurning
<1>14. CASE DeleteHub(k)
  <2>1. /\ c.step = "close" /\ c.p \notin managers /\ hubs' = [hubs EXCEPT ![c.p] = NULL]
        /\ UNCHANGED <<users, riders, managers, known, cutOff>> /\ Continues(k, Idle)
    BY <1>14 DEF DeleteHub, Runs, Refused, At, Ends
  <2>2. hubs'[c.p] = NULL /\ \A q \in People \ {c.p} : hubs'[q] = hubs[q]
    BY <1>2, <2>1 DEF PlaceInv, StaffRows
  <2>3. StaffRows' /\ RowsStand' /\ PhonesDiffer'
    <3>1. StaffRows'
      BY <1>2, <1>6, <2>1, <2>2 DEF PlaceInv, StaffRows
    <3>2. RowsStand'
      BY <1>2, <1>6, <2>1, <2>2 DEF PlaceInv, StaffRows, RowsStand
    <3>3. PhonesDiffer'
      BY <1>2, <1>6, <2>1, <2>2 DEF PlaceInv, PhonesDiffer, Users
    <3> QED
      BY <3>1, <3>2, <3>3
  <2>4. RowsOfKind(kind)'
    BY <1>5, <2>1, <2>2 DEF RowsOfKind
  <2>5. ASSUME NEW p \in People PROVE (Settled(p) => Settled(p)') /\ ~IsRegistering(c, p)
    BY <2>1 DEF IsRegistering, Settled
  <2>6. \A p \in People : users[p] = users'[p] /\ riders[p] = riders'[p]
    BY <2>1
  <2> QED
    BY <1>3, <1>4, <2>1, <2>3, <2>4, <2>5, <2>6, PlaceTurning
<1>15. CASE InsertManager(k)
  <2>1. /\ c.step = "manager" /\ hubs[c.p] # NULL /\ managers' = managers \cup {c.p}
        /\ UNCHANGED <<users, riders, hubs, known, cutOff>> /\ Continues(k, Idle)
    BY <1>15 DEF InsertManager, Runs, Refused, At, Ends
  <2>2. kind[c.p] = "HUB_MANAGER"
    BY <1>4, <2>1 DEF KindOf
  <2>3. StaffRows' /\ RowsStand' /\ PhonesDiffer'
    <3>1. StaffRows'
      BY <1>2, <2>1 DEF PlaceInv, StaffRows
    <3>2. RowsStand'
      BY <1>2, <2>1 DEF PlaceInv, StaffRows, RowsStand
    <3>3. PhonesDiffer'
      BY <1>2, <2>1 DEF PlaceInv, PhonesDiffer, Users
    <3> QED
      BY <3>1, <3>2, <3>3
  <2>4. RowsOfKind(kind)'
    BY <1>5, <2>1, <2>2 DEF RowsOfKind
  <2>5. ASSUME NEW p \in People, users'[p] # NULL
        PROVE Settled(p)' \/ ((Settled(p) => Settled(p)') /\ ~IsRegistering(c, p))
    <3>1. CASE p = c.p
      BY <1>5, <2>1, <2>2, <2>5, <3>1 DEF Settled
    <3>2. CASE p # c.p
      BY <2>1, <3>2 DEF Settled, IsRegistering
    <3> QED
      BY <3>1, <3>2
  <2>6. \A p \in People : users[p] = users'[p] /\ riders[p] = riders'[p]
    BY <2>1
  <2> QED
    BY <1>3, <1>4, <2>1, <2>3, <2>4, <2>5, <2>6, PlaceTurning
<1>16. CASE DeleteAdmin(k)
  <2>1. /\ c.step = "delete" /\ users' = [users EXCEPT ![c.p] = NULL]
        /\ UNCHANGED <<riders, hubs, managers, known, cutOff>> /\ Continues(k, Idle)
    BY <1>16 DEF DeleteAdmin, Runs, At, Ends
  <2>2. kind[c.p] = "ADMIN" /\ riders[c.p] = NULL
    BY <1>2, <1>4, <1>5, <2>1 DEF KindOf
  <2>3. users'[c.p] = NULL /\ \A q \in People \ {c.p} : users'[q] = users[q]
    BY <1>2, <2>1 DEF PlaceInv, StaffRows
  <2>4. StaffRows' /\ RowsStand' /\ PhonesDiffer'
    <3>1. StaffRows'
      BY <1>2, <1>6, <2>1, <2>2, <2>3 DEF PlaceInv, StaffRows
    <3>2. RowsStand'
      BY <1>2, <1>6, <2>1, <2>2, <2>3 DEF PlaceInv, StaffRows, RowsStand
    <3>3. PhonesDiffer'
      BY <1>2, <1>6, <2>1, <2>2, <2>3 DEF PlaceInv, PhonesDiffer, Users
    <3> QED
      BY <3>1, <3>2, <3>3
  <2>5. RowsOfKind(kind)'
    BY <1>5, <2>1, <2>3 DEF RowsOfKind
  <2>6. ASSUME NEW p \in People, users'[p] # NULL
        PROVE  users[p] # NULL /\ (Settled(p) => Settled(p)') /\ ~IsRegistering(c, p)
    BY <2>1, <2>3, <2>6 DEF IsRegistering, Settled
  <2>7. \A p \in People : /\ riders[p] = riders'[p]
                          /\ users[p] # NULL /\ kind[p] = "RIDER" => users'[p] # NULL
    BY <2>1, <2>2, <2>3
  <2> QED
    BY <1>3, <1>4, <2>1, <2>4, <2>5, <2>6, <2>7, PlaceTurning
<1>17. CASE TaskFails(k)
  <2>1. /\ UNCHANGED <<users, riders, hubs, managers, known>> /\ Continues(k, Idle)
        /\ cutOff' = IF c.step \in {"rider", "hub", "manager"} THEN cutOff \cup {c.p} ELSE cutOff
    BY <1>17 DEF TaskFails, Ends
  <2>2. StaffRows' /\ RowsStand' /\ PhonesDiffer'
    <3>1. StaffRows'
      BY <1>2, <2>1 DEF PlaceInv, StaffRows
    <3>2. RowsStand'
      BY <1>2, <2>1 DEF PlaceInv, StaffRows, RowsStand
    <3>3. PhonesDiffer'
      BY <1>2, <2>1 DEF PlaceInv, PhonesDiffer, Users
    <3> QED
      BY <3>1, <3>2, <3>3
  <2>3. RowsOfKind(kind)'
    BY <1>5, <2>1 DEF RowsOfKind
  <2>4. ASSUME NEW p \in People
        PROVE  p \in cutOff' \/ ((Settled(p) => Settled(p)') /\ ~IsRegistering(c, p))
    BY <2>1 DEF IsRegistering, Settled
  <2>5. \A p \in People : users[p] = users'[p] /\ riders[p] = riders'[p]
    BY <2>1
  <2>6. cutOff \subseteq cutOff'
    BY <2>1
  <2> QED
    BY <1>3, <1>4, <2>1, <2>2, <2>3, <2>4, <2>5, <2>6, PlaceTurning
<1> QED
  BY <1>8, <1>9, <1>10, <1>11, <1>12, <1>13, <1>14, <1>15, <1>16, <1>17 DEF TaskStep

LEMMA PlaceStep == PlaceInv /\ [StaffNext]_staffVars => PlaceInv'
PROOF
<1> SUFFICES ASSUME PlaceInv, [StaffNext]_staffVars PROVE PlaceInv'
  OBVIOUS
<1>1. CASE UNCHANGED staffVars
  <2>1. UNCHANGED <<users, riders, hubs, managers, known, cutOff, jobs>>
    BY <1>1 DEF staffVars, staff
  <2>2. StaffRows' /\ JobsTotal' /\ RowsStand' /\ PhonesDiffer'
    BY <2>1 DEF PlaceInv, StaffRows, JobsTotal, RowsStand, PhonesDiffer, Users
  <2>3. Everyone'
    BY <2>1 DEF PlaceInv, Everyone, Settled, IsRegistering
  <2>4. \A k \in Servers : jobs'[k] = Idle \/ TaskStands(jobs[k])'
    BY <2>1 DEF PlaceInv, TaskStands
  <2>5. ASSUME NEW kind, KindsFit(kind) PROVE KindsFit(kind)'
    BY <2>1, <2>5 DEF KindsFit, RowsOfKind, TasksOfKind, KindOf
  <2> QED
    BY <2>2, <2>3, <2>4, <2>5 DEF PlaceInv
<1>2. ASSUME NEW k \in Servers, NEW p \in People,
             AdminStep(k, p) \/ RiderStep(k, p) \/ HubStep(k, p)
      PROVE  PlaceInv'
  BY <1>2, PlaceRequests
<1>3. ASSUME NEW k \in Servers, TaskStep(k) PROVE PlaceInv'
  BY <1>3, PlaceTasks
<1> QED
  BY <1>1, <1>2, <1>3 DEF StaffNext

LEMMA PlaceAlways == StaffSpec => []PlaceInv
PROOF
<1> QED
  BY PlaceInit, PlaceStep, PTL DEF StaffSpec

\* Rows and requests of the staff are well-typed: no handler writes a row it does not
\* have, and ids of rows have been given.
THEOREM StaffTypeCorrect == StaffSpec => []StaffTypeOK
PROOF
<1>1. PlaceInv => StaffTypeOK
  <2> SUFFICES ASSUME PlaceInv PROVE StaffTypeOK
    OBVIOUS
  <2>1. ASSUME NEW k \in Servers, jobs[k].step \in StaffSteps PROVE jobs[k] \in Task
    <3>1. jobs[k] # Idle
      BY <2>1, IdleIsNoTask
    <3>2. TaskStands(jobs[k])
      BY <3>1 DEF PlaceInv
    <3> QED
      BY <3>2 DEF TaskStands
  <2> QED
    BY <2>1 DEF PlaceInv, StaffRows, StaffTypeOK
<1> QED
  BY <1>1, PlaceAlways, PTL

\* However registrations, updates and removals interleave and fail: between requests a
\* user is a rider if and only if he has a rider row, and a hub manager if and only if
\* he has a hub and is tied to it, unless his registration broke off half-way; and no
\* two users have the same phone number.
THEOREM EveryoneIsPlaced == StaffSpec => []EveryoneHasHisPlace
PROOF
<1>1. PlaceInv => EveryoneHasHisPlace
  <2> SUFFICES ASSUME PlaceInv, Rests, NEW p \in Users
               PROVE  /\ p \in cutOff \/ (riders[p] # NULL <=> users[p].position = "RIDER")
                      /\ p \in cutOff \/ (p \in managers /\ hubs[p] # NULL <=> users[p].position = "HUB_MANAGER")
                      /\ PhoneFree(p, users[p].phone)
    BY DEF EveryoneHasHisPlace
  <2>1. p \in People /\ users[p] # NULL
    BY DEF Users
  <2>2. p \in cutOff \/ Settled(p)
    BY <2>1 DEF PlaceInv, Everyone, Rests, IsRegistering, Idle
  <2>3. PICK kind : RowsOfKind(kind)
    BY DEF PlaceInv, KindsFit
  <2>4. /\ users[p].position = kind[p]
        /\ riders[p] # NULL => kind[p] = "RIDER"
        /\ hubs[p] # NULL => kind[p] = "HUB_MANAGER"
        /\ p \in managers => hubs[p] # NULL
    BY <2>1, <2>3 DEF RowsOfKind, PlaceInv, RowsStand
  <2>5. PhoneFree(p, users[p].phone)
    BY <2>1 DEF PlaceInv, PhonesDiffer, PhoneFree, Users
  <2> QED
    BY <2>2, <2>4, <2>5 DEF Settled
<1> QED
  BY <1>1, PlaceAlways, PTL

-----------------------------------------------------------------------------
(* A user's account.                                                       *)

\* What a handler at its step has in its hands.
CallOK(call) ==
  /\ call \in Call
  /\ call.old \in held \cup {NoToken}
  /\ call.step = "token" => call.token \in Seconds
  /\ call.step = "forget" => call.old \in held
  /\ call.step \in {"password", "reset"} => call.password \in Passwords
  /\ call.step \in {"code", "reset"} => call.code \in sent
  /\ call.step \in {"columns", "row"} =>
       call.row \in User /\ call.row.code \in sent \cup {NULL}
  /\ call.step = "row" => role # "ADMIN"

CallsOK == \A k \in Servers : jobs[k] = Idle \/ CallOK(jobs[k])

UserOK ==
  /\ role \in Roles
  /\ account \in User
  /\ account.code \in sent \cup {NULL}
  /\ now \in Seconds

GivenOK ==
  /\ held \subseteq Seconds /\ replaced \subseteq held /\ loggedOut \subseteq held
  /\ used \subseteq sent /\ sent \subseteq Codes
  /\ newest \in Passwords

SessionTypeInv == UserOK /\ GivenOK /\ CallsOK /\ JobsTotal /\ alone \in BOOLEAN

\* One request at a time: only one handler is busy, and a row that it will save
\* is the one in the table but for what it edits.
SessionSerial ==
  alone =>
    /\ \A j, k \in Servers : jobs[j] # Idle /\ jobs[k] # Idle => j = k
    /\ \A k \in Servers : At(k, "row") =>
         /\ jobs[k].row.password = account.password
         /\ jobs[k].row.code = account.code
         /\ jobs[k].row.token = account.token

\* A code on its way into the row is no other request's, and not used yet.
CodesFresh ==
  role = "ADMIN" \/ alone =>
    \A k \in Servers : At(k, "code") =>
      /\ jobs[k].code \notin used /\ jobs[k].code # account.code
      /\ \A j \in Servers : At(j, "reset") \/ (At(j, "code") /\ j # k) => jobs[j].code # jobs[k].code

SessionInv == SessionTypeInv /\ SessionSerial /\ CodesFresh /\ NothingComesBack

-----------------------------------------------------------------------------
(* A request starts, and ends.                                            *)

\* A request that neither makes a code nor brings a stale row into the account
\* preserves the invariant when it starts.
LEMMA Calling ==
  ASSUME SessionInv, NEW k \in Servers, NEW call, Calls(k, call), CallOK(call),
         call.step # "code",
         call.step = "reset" => call.code = account.code,
         call.step = "row" =>
           /\ call.row.password = account.password
           /\ call.row.code = account.code
           /\ call.row.token = account.token
  PROVE  SessionInv'
PROOF
<1>1. Starts(k, call) /\ UNCHANGED <<role, account, now, given>>
  BY DEF Calls
<1>2. /\ JobsTotal' /\ jobs[k] = Idle /\ jobs'[k] = call
      /\ \A j \in Servers : j # k => jobs'[j] = jobs[j]
  BY <1>1, Starting DEF SessionInv, SessionTypeInv
<1>3. /\ alone' \in BOOLEAN
      /\ alone' => alone /\ \A h \in Servers : jobs[h] = Idle
  BY <1>1, StartingAlone DEF SessionInv, SessionTypeInv
<1>4. UserOK' /\ GivenOK'
  BY <1>1 DEF SessionInv, SessionTypeInv, UserOK, GivenOK, given
<1>5. CallsOK'
  <2>1. ASSUME NEW c, CallOK(c) PROVE CallOK(c)'
    BY <2>1, <1>1 DEF CallOK, given
  <2> QED
    BY <2>1, <1>2 DEF SessionInv, SessionTypeInv, CallsOK
<1>6. SessionSerial'
  BY <1>1, <1>2, <1>3 DEF SessionInv, SessionSerial, At, Idle
<1>7. CodesFresh'
  <2> SUFFICES ASSUME role = "ADMIN" \/ alone, NEW h \in Servers, At(h, "code")'
               PROVE /\ jobs'[h].code \notin used /\ jobs'[h].code # account.code
                     /\ \A j \in Servers :
                          At(j, "reset")' \/ (At(j, "code")' /\ j # h) => jobs'[j].code # jobs'[h].code
    BY <1>1, <1>3 DEF CodesFresh, given
  <2>1. h # k /\ jobs'[h] = jobs[h] /\ At(h, "code")
    BY <1>2 DEF At
  <2> QED
    BY <2>1, <1>2 DEF SessionInv, CodesFresh, At
<1>8. NothingComesBack'
  BY <1>1, <1>3 DEF SessionInv, NothingComesBack, given
<1> QED
  BY <1>2, <1>3, <1>4, <1>5, <1>6, <1>7, <1>8 DEF SessionInv, SessionTypeInv

\* A statement that ends a request preserves the invariant when what it writes
\* does: it takes nothing from what was given out, and uses no code but its own.
LEMMA Ending ==
  ASSUME SessionInv, NEW k \in Servers, Ends(k), jobs[k] # Idle, role' = role,
         UserOK', GivenOK', NothingComesBack', held \subseteq held', sent' = sent,
         \/ used' = used
         \/ At(k, "reset") /\ used' = used \cup {jobs[k].code},
         role = "ADMIN" \/ alone =>
           \/ account'.code \in {account.code, NULL}
           \/ At(k, "code") /\ account'.code = jobs[k].code
  PROVE  SessionInv'
PROOF
<1>1. /\ JobsTotal' /\ jobs'[k] = Idle /\ alone' = alone
      /\ \A j \in Servers : j # k => jobs'[j] = jobs[j]
  BY Continuing DEF SessionInv, SessionTypeInv, Ends
<1>2. CallsOK'
  <2>1. ASSUME NEW c, CallOK(c) PROVE CallOK(c)'
    BY <2>1 DEF CallOK
  <2> QED
    BY <2>1, <1>1 DEF SessionInv, SessionTypeInv, CallsOK
<1>3. SessionSerial'
  BY <1>1 DEF SessionInv, SessionSerial, At, Idle
<1>4. CodesFresh'
  <2> SUFFICES ASSUME role = "ADMIN" \/ alone, NEW h \in Servers, At(h, "code")'
               PROVE /\ jobs'[h].code \notin used' /\ jobs'[h].code # account'.code
                     /\ \A j \in Servers :
                          At(j, "reset")' \/ (At(j, "code")' /\ j # h) => jobs'[j].code # jobs'[h].code
    BY <1>1 DEF CodesFresh
  <2>1. h # k /\ jobs'[h] = jobs[h] /\ At(h, "code")
    BY <1>1 DEF At, Idle
  <2>2. /\ jobs[h].code \notin used /\ jobs[h].code # account.code
        /\ \A j \in Servers :
             At(j, "reset") \/ (At(j, "code") /\ j # h) => jobs[j].code # jobs[h].code
    BY <2>1 DEF SessionInv, CodesFresh
  <2>3. jobs[h].code # NULL
    <3>1. CallOK(jobs[h])
      BY <2>1 DEF SessionInv, SessionTypeInv, CallsOK, At, Idle
    <3> QED
      BY <3>1, <2>1, SessionAssumption DEF CallOK, At, SessionInv, SessionTypeInv, GivenOK
  <2>4. jobs[h].code \notin used' /\ jobs[h].code # account'.code
    BY <2>1, <2>2, <2>3
  <2> QED
    BY <2>1, <2>2, <2>4, <1>1 DEF At, Idle
<1> QED
  BY <1>1, <1>2, <1>3, <1>4 DEF SessionInv, SessionTypeInv

-----------------------------------------------------------------------------
(* Requests start.                                                         *)

LEMMA NewCallType == NewCall \in Call /\ NewCall.step = "mint" /\ NewCall.old = NoToken
BY SessionAssumption DEF NewCall, Call, SessionSteps

\* A new code is in no row and in no request.
LEMMA ForgotPreserves ==
  ASSUME SessionInv, NEW k \in Servers, NEW c \in Codes, ForgotPassword(k, c)
  PROVE  SessionInv'
PROOF
<1> PICK call : call = [NewCall EXCEPT !.step = "code", !.code = c, !.until = now + CodeLife]
  OBVIOUS
<1>1. /\ Starts(k, call) /\ c \notin sent /\ sent' = sent \cup {c}
      /\ UNCHANGED <<role, account, now, held, replaced, loggedOut, used, newest>>
  BY DEF ForgotPassword
<1>2. call \in Call /\ call.step = "code" /\ call.code = c /\ call.old = NoToken
  <2>1. now + CodeLife \in 0 .. MaxTime + CodeLife
    BY SessionAssumption DEF Seconds, SessionInv, SessionTypeInv, UserOK
  <2> QED
    BY <2>1, NewCallType DEF Call, SessionSteps
<1>3. /\ JobsTotal' /\ jobs[k] = Idle /\ jobs'[k] = call
      /\ \A j \in Servers : j # k => jobs'[j] = jobs[j]
  BY <1>1, Starting DEF SessionInv, SessionTypeInv
<1>4. /\ alone' \in BOOLEAN
      /\ alone' => alone /\ \A h \in Servers : jobs[h] = Idle
  BY <1>1, StartingAlone DEF SessionInv, SessionTypeInv
<1>5. UserOK' /\ GivenOK'
  BY <1>1 DEF SessionInv, SessionTypeInv, UserOK, GivenOK
<1>6. CallsOK'
  <2>1. ASSUME NEW d, CallOK(d) PROVE CallOK(d)'
    BY <2>1, <1>1 DEF CallOK
  <2>2. CallOK(call)'
    BY <1>1, <1>2 DEF CallOK
  <2> QED
    BY <2>1, <2>2, <1>3 DEF SessionInv, SessionTypeInv, CallsOK
<1>7. SessionSerial'
  BY <1>1, <1>2, <1>3, <1>4 DEF SessionInv, SessionSerial, At, Idle
<1>8. CodesFresh'
  <2>1. c \notin used /\ c # account.code
    BY <1>1, SessionAssumption DEF SessionInv, SessionTypeInv, UserOK, GivenOK
  <2>2. \A j \in Servers : At(j, "reset") \/ At(j, "code") => jobs[j].code # c
    BY <1>1 DEF SessionInv, SessionTypeInv, CallsOK, CallOK, At, Idle
  <2> SUFFICES ASSUME role = "ADMIN" \/ alone, NEW h \in Servers, At(h, "code")'
               PROVE /\ jobs'[h].code \notin used /\ jobs'[h].code # account.code
                     /\ \A j \in Servers :
                          At(j, "reset")' \/ (At(j, "code")' /\ j # h) => jobs'[j].code # jobs'[h].code
    BY <1>1, <1>4 DEF CodesFresh
  <2>3. CASE h = k
    <3>1. jobs'[h].code = c /\ ~ At(k, "reset")'
      BY <2>3, <1>2, <1>3 DEF At
    <3>2. ASSUME NEW j \in Servers, At(j, "reset")' \/ (At(j, "code")' /\ j # h)
          PROVE  jobs'[j].code # c
      BY <2>3, <2>2, <3>1, <3>2, <1>3 DEF At
    <3> QED
      BY <2>1, <3>1, <3>2 DEF At
  <2>4. CASE h # k
    <3>1. jobs'[h] = jobs[h] /\ At(h, "code")
      BY <2>4, <1>3 DEF At
    <3>2. /\ jobs[h].code \notin used /\ jobs[h].code # account.code /\ jobs[h].code # c
          /\ \A j \in Servers :
               At(j, "reset") \/ (At(j, "code") /\ j # h) => jobs[j].code # jobs[h].code
      BY <3>1, <2>2 DEF SessionInv, CodesFresh
    <3>3. ASSUME NEW j \in Servers, At(j, "reset")' \/ (At(j, "code")' /\ j # h)
          PROVE  jobs'[j].code # jobs[h].code
      <4>1. CASE j = k
        BY <4>1, <3>2, <1>2, <1>3
      <4>2. CASE j # k
        BY <4>2, <3>3, <3>2, <1>3 DEF At
      <4> QED
        BY <4>1, <4>2
    <3> QED
      BY <3>1, <3>2, <3>3
  <2> QED
    BY <2>3, <2>4
<1>9. NothingComesBack'
  BY <1>1, <1>4 DEF SessionInv, NothingComesBack
<1> QED
  BY <1>3, <1>4, <1>5, <1>6, <1>7, <1>8, <1>9 DEF SessionInv, SessionTypeInv

LEMMA AuthPreserves ==
  ASSUME SessionInv, NEW k \in Servers, AuthStep(k)
  PROVE  SessionInv'
PROOF
<1> USE NewCallType
<1>1. CASE \E pw \in Passwords : LogIn(k, pw)
  <2>1. Calls(k, NewCall)
    BY <1>1 DEF LogIn
  <2>2. CallOK(NewCall)
    BY DEF CallOK
  <2> QED
    BY <2>1, <2>2, Calling
<1>2. ASSUME NEW t \in Seconds, Refresh(k, t) \/ Logout(k, t)
      PROVE  SessionInv'
  <2> DEFINE refresh == [NewCall EXCEPT !.old = t]
             logout == [NewCall EXCEPT !.step = "forget", !.old = t]
  <2>1. t \in held
    BY <1>2 DEF Refresh, Logout, Verified
  <2>2. CallOK(refresh) /\ refresh.step = "mint" /\ CallOK(logout) /\ logout.step = "forget"
    BY <2>1 DEF CallOK, Call, SessionSteps
  <2>3. Calls(k, refresh) \/ Calls(k, logout)
    BY <1>2 DEF Refresh, Logout
  <2> HIDE DEF refresh, logout
  <2> QED
    BY <2>2, <2>3, Calling
<1>3. ASSUME NEW old \in Passwords, NEW new \in Passwords, ChangePassword(k, old, new)
      PROVE  SessionInv'
  <2> DEFINE call == [NewCall EXCEPT !.step = "password", !.password = new]
  <2>1. CallOK(call) /\ call.step = "password"
    BY DEF CallOK, Call, SessionSteps
  <2>2. Calls(k, call)
    BY <1>3 DEF ChangePassword
  <2> HIDE DEF call
  <2> QED
    BY <2>1, <2>2, Calling
<1>4. ASSUME NEW c \in Codes, NEW new \in Passwords, ResetPassword(k, c, new)
      PROVE  SessionInv'
  <2> DEFINE call == [NewCall EXCEPT !.step = "reset", !.code = c, !.password = new]
  <2>1. c \in sent /\ c = account.code
    BY <1>4, SessionAssumption DEF ResetPassword, SessionInv, SessionTypeInv, UserOK
  <2>2. CallOK(call) /\ call.step = "reset" /\ call.code = c
    BY <2>1 DEF CallOK, Call, SessionSteps
  <2>3. Calls(k, call)
    BY <1>4 DEF ResetPassword
  <2> HIDE DEF call
  <2> QED
    BY <2>1, <2>2, <2>3, Calling
<1>5. ASSUME NEW c \in Codes, ForgotPassword(k, c)
      PROVE  SessionInv'
  BY <1>5, ForgotPreserves
<1> QED
  BY <1>1, <1>2, <1>3, <1>4, <1>5 DEF AuthStep

LEMMA EditPreserves ==
  ASSUME SessionInv, NEW k \in Servers, EditStep(k)
  PROVE  SessionInv'
PROOF
<1> USE NewCallType
<1> PICK active \in BOOLEAN :
      EditUser(k, active) \/ \E password \in Passwords \cup {NULL} : EditAdmin(k, active, password)
  BY DEF EditStep
<1> DEFINE row == [account EXCEPT !.active = active]
<1>1. /\ row \in User /\ row.code \in sent \cup {NULL}
      /\ row.password = account.password /\ row.code = account.code /\ row.token = account.token
  BY DEF SessionInv, SessionTypeInv, UserOK, User
<1> HIDE DEF row
<1>2. CASE EditUser(k, active)
  <2> DEFINE call == [NewCall EXCEPT !.step = "row", !.row = row]
  <2>1. CallOK(call) /\ call.step = "row" /\ call.row = row
    BY <1>1, <1>2 DEF CallOK, Call, SessionSteps, EditUser
  <2>2. Calls(k, call)
    BY <1>2 DEF EditUser, row
  <2> HIDE DEF call
  <2> QED
    BY <1>1, <2>1, <2>2, Calling
<1>3. ASSUME NEW password \in Passwords \cup {NULL}, EditAdmin(k, active, password)
      PROVE  SessionInv'
  <2> DEFINE call == [NewCall EXCEPT !.step = "columns", !.password = password, !.row = row]
  <2>1. CallOK(call) /\ call.step = "columns"
    BY <1>1 DEF CallOK, Call, SessionSteps
  <2>2. Calls(k, call)
    BY <1>3 DEF EditAdmin, row
  <2> HIDE DEF call
  <2> QED
    BY <2>1, <2>2, Calling
<1> QED
  BY <1>2, <1>3

-----------------------------------------------------------------------------
(* Requests go on and end.                                                 *)

\* What the handler at a step of a request has in its hands.
LEMMA Busy ==
  ASSUME SessionInv, NEW k \in Servers, NEW step \in SessionSteps, At(k, step)
  PROVE  CallOK(jobs[k]) /\ jobs[k] # Idle /\ jobs[k].step = step
BY DEF SessionInv, SessionTypeInv, CallsOK, At, Idle, SessionSteps

LEMMA GeneratePreserves ==
  ASSUME SessionInv, NEW k \in Servers, GenerateTokens(k)
  PROVE  SessionInv'
PROOF
<1> DEFINE call == [jobs[k] EXCEPT !.step = "token", !.token = now]
<1>1. CallOK(jobs[k]) /\ jobs[k] # Idle /\ jobs[k].step = "mint"
  BY Busy DEF GenerateTokens, SessionSteps
<1>2. CallOK(call) /\ call.step = "token"
  BY <1>1 DEF CallOK, Call, SessionSteps, SessionInv, SessionTypeInv, UserOK
<1>3. Continues(k, call) /\ UNCHANGED <<role, account, now, given>>
  BY DEF GenerateTokens
<1> HIDE DEF call
<1>4. /\ JobsTotal' /\ jobs'[k] = call /\ alone' = alone
      /\ \A j \in Servers : j # k => jobs'[j] = jobs[j]
  BY <1>3, Continuing DEF SessionInv, SessionTypeInv
<1>5. UserOK' /\ GivenOK'
  BY <1>3 DEF SessionInv, SessionTypeInv, UserOK, GivenOK, given
<1>6. CallsOK'
  <2>1. ASSUME NEW c, CallOK(c) PROVE CallOK(c)'
    BY <2>1, <1>3 DEF CallOK, given
  <2> QED
    BY <2>1, <1>2, <1>4 DEF SessionInv, SessionTypeInv, CallsOK
<1>7. SessionSerial'
  BY <1>1, <1>2, <1>3, <1>4 DEF SessionInv, SessionSerial, At, Idle
<1>8. CodesFresh'
  BY <1>1, <1>2, <1>3, <1>4 DEF SessionInv, CodesFresh, At, given
<1>9. NothingComesBack'
  BY <1>3, <1>4 DEF SessionInv, NothingComesBack, given
<1> QED
  BY <1>4, <1>5, <1>6, <1>7, <1>8, <1>9 DEF SessionInv, SessionTypeInv

LEMMA UpdatePreserves ==
  ASSUME SessionInv, NEW k \in Servers, UpdateStep(k)
  PROVE  SessionInv'
PROOF
<1>1. CASE GenerateTokens(k)
  BY <1>1, GeneratePreserves
<1>2. CASE UpdateRefreshToken(k)
  <2>1. CallOK(jobs[k]) /\ jobs[k] # Idle /\ jobs[k].step = "token"
    BY <1>2, Busy DEF UpdateRefreshToken, SessionSteps
  <2>2. jobs[k].token \in Seconds /\ jobs[k].old \in held \cup {NoToken}
    BY <2>1 DEF CallOK
  <2>3. UserOK' /\ GivenOK' /\ held \subseteq held'
    BY <1>2, <2>2 DEF UpdateRefreshToken, SessionInv, SessionTypeInv, UserOK, GivenOK, User
  <2>4. NothingComesBack' /\ account'.code = account.code
    BY <1>2, <2>2 DEF UpdateRefreshToken, SessionInv, SessionTypeInv, UserOK, User, NothingComesBack, Ends, Continues
  <2> QED
    BY <1>2, <2>1, <2>3, <2>4, Ending DEF UpdateRefreshToken
<1>3. CASE ForgetRefreshToken(k)
  <2>1. CallOK(jobs[k]) /\ jobs[k] # Idle /\ jobs[k].old \in held
    BY <1>3, Busy DEF ForgetRefreshToken, SessionSteps, CallOK
  <2>2. UserOK' /\ GivenOK' /\ NothingComesBack'
    BY <1>3, <2>1 DEF ForgetRefreshToken, SessionInv, SessionTypeInv, UserOK, GivenOK, NothingComesBack, Ends, Continues
  <2> QED
    BY <1>3, <2>1, <2>2, Ending DEF ForgetRefreshToken
<1>4. CASE UpdatePassword(k)
  <2>1. jobs[k] # Idle /\ jobs[k].password \in Passwords
    BY <1>4, Busy DEF UpdatePassword, SessionSteps, CallOK
  <2>2. UserOK' /\ GivenOK' /\ NothingComesBack' /\ account'.code = account.code
    BY <1>4, <2>1 DEF UpdatePassword, SessionInv, SessionTypeInv, UserOK, GivenOK, User, NothingComesBack, Ends, Continues
  <2> QED
    BY <1>4, <2>1, <2>2, Ending DEF UpdatePassword
<1>5. CASE UpdateOtp(k)
  <2>1. jobs[k] # Idle /\ jobs[k] \in Call /\ jobs[k].code \in sent
    BY <1>5, Busy DEF UpdateOtp, SessionSteps, CallOK
  <2>2. UserOK' /\ GivenOK' /\ account'.code = jobs[k].code
    BY <1>5, <2>1 DEF UpdateOtp, SessionInv, SessionTypeInv, UserOK, GivenOK, User, Call, given
  <2>3. NothingComesBack'
    BY <1>5, <2>1
       DEF UpdateOtp, SessionInv, SessionTypeInv, UserOK, User, CodesFresh, NothingComesBack, Ends, Continues, given
  <2> QED
    BY <1>5, <2>1, <2>2, <2>3, Ending DEF UpdateOtp, given
<1>6. CASE UpdatePasswordAndClearOtp(k)
  <2>1. jobs[k] # Idle /\ jobs[k].password \in Passwords /\ jobs[k].code \in sent
    BY <1>6, Busy DEF UpdatePasswordAndClearOtp, SessionSteps, CallOK
  <2>2. UserOK' /\ GivenOK' /\ account'.code = NULL
    <3>1. 0 \in 0 .. MaxTime + CodeLife
      BY SessionAssumption
    <3> QED
      BY <1>6, <2>1, <3>1 DEF UpdatePasswordAndClearOtp, SessionInv, SessionTypeInv, UserOK, GivenOK, User
  <2>3. NULL \notin used'
    BY <1>6, <2>1, SessionAssumption DEF UpdatePasswordAndClearOtp, SessionInv, SessionTypeInv, GivenOK
  <2>4. NothingComesBack'
    BY <1>6, <2>1, <2>3
       DEF UpdatePasswordAndClearOtp, SessionInv, SessionTypeInv, UserOK, User, NothingComesBack, Ends, Continues
  <2> QED
    BY <1>6, <2>1, <2>2, <2>4, Ending DEF UpdatePasswordAndClearOtp
<1>7. CASE SaveUser(k)
  <2>1. /\ jobs[k] # Idle /\ jobs[k].row \in User /\ role # "ADMIN"
        /\ jobs[k].row.code \in sent \cup {NULL}
    BY <1>7, Busy DEF SaveUser, SessionSteps, CallOK
  <2>2. UserOK' /\ GivenOK'
    BY <1>7, <2>1 DEF SaveUser, SessionInv, SessionTypeInv, UserOK, GivenOK, given
  <2>3. alone => /\ account'.password = account.password /\ account'.code = account.code
                 /\ account'.token = account.token
    BY <1>7 DEF SaveUser, SessionInv, SessionSerial
  <2>4. NothingComesBack'
    BY <1>7, <2>1, <2>3 DEF SaveUser, SessionInv, NothingComesBack, Ends, Continues, given
  <2> QED
    BY <1>7, <2>1, <2>2, <2>3, <2>4, Ending DEF SaveUser, given
<1>8. CASE SaveAdmin(k)
  <2>1. jobs[k] # Idle /\ jobs[k] \in Call /\ jobs[k].row \in User
    BY <1>8, Busy DEF SaveAdmin, SessionSteps, CallOK
  <2>2. UserOK' /\ GivenOK' /\ NothingComesBack' /\ account'.code = account.code
    BY <1>8, <2>1 DEF SaveAdmin, SessionInv, SessionTypeInv, UserOK, GivenOK, User, Call, NothingComesBack, Ends, Continues
  <2> QED
    BY <1>8, <2>1, <2>2, Ending DEF SaveAdmin
<1>9. CASE CallFails(k)
  <2>1. jobs[k] # Idle
    BY <1>9 DEF CallFails, SessionSteps, Idle
  <2>2. UserOK' /\ GivenOK' /\ NothingComesBack'
    BY <1>9 DEF CallFails, SessionInv, SessionTypeInv, UserOK, GivenOK, NothingComesBack, given, Ends, Continues
  <2> QED
    BY <1>9, <2>1, <2>2, Ending DEF CallFails, given
<1> QED
  BY <1>1, <1>2, <1>3, <1>4, <1>5, <1>6, <1>7, <1>8, <1>9 DEF UpdateStep

-----------------------------------------------------------------------------
(* The theorems.                                                           *)

LEMMA SessionInvInit == SessionInit /\ NoRequests => SessionInv
PROOF
<1> SUFFICES ASSUME SessionInit, NoRequests PROVE SessionInv
  OBVIOUS
<1>1. JobsTotal /\ (\A k \in Servers : jobs[k] = Idle) /\ alone \in BOOLEAN
  BY Resting
<1>2. 0 \in 0 .. MaxTime + CodeLife /\ 1 \in Seconds
  BY SessionAssumption DEF Seconds
<1>3. /\ UserOK /\ GivenOK
      /\ account.code = NULL /\ account.token = NoToken /\ account.password = newest
  BY <1>2 DEF SessionInit, UserOK, GivenOK, User
<1> QED
  BY <1>1, <1>3
     DEF SessionInit, SessionInv, SessionTypeInv, CallsOK, SessionSerial, CodesFresh, NothingComesBack, At, Idle

LEMMA SessionInvStep == SessionInv /\ [SessionNext]_sessionVars => SessionInv'
PROOF
<1> SUFFICES ASSUME SessionInv, [SessionNext]_sessionVars PROVE SessionInv'
  OBVIOUS
<1>1. CASE \E k \in Servers : AuthStep(k) \/ EditStep(k) \/ UpdateStep(k)
  BY <1>1, AuthPreserves, EditPreserves, UpdatePreserves
<1>2. CASE SecondPasses
  <2>1. /\ now' \in Seconds
        /\ UNCHANGED <<role, account, held, replaced, loggedOut, sent, used, newest, jobs, alone>>
    BY <1>2, SessionAssumption DEF SecondPasses, given, Seconds, SessionInv, SessionTypeInv, UserOK
  <2>2. SessionTypeInv'
    <3>1. ASSUME NEW c, CallOK(c) PROVE CallOK(c)'
      BY <2>1, <3>1 DEF CallOK
    <3> QED
      BY <2>1, <3>1 DEF SessionInv, SessionTypeInv, UserOK, GivenOK, CallsOK, JobsTotal
  <2> QED
    BY <2>1, <2>2 DEF SessionInv, SessionSerial, CodesFresh, NothingComesBack, At
<1>3. CASE UNCHANGED sessionVars
  <2>1. SessionTypeInv'
    <3>1. ASSUME NEW c, CallOK(c) PROVE CallOK(c)'
      BY <1>3, <3>1 DEF sessionVars, CallOK
    <3> QED
      BY <1>3, <3>1 DEF sessionVars, SessionInv, SessionTypeInv, UserOK, GivenOK, CallsOK, JobsTotal
  <2> QED
    BY <1>3, <2>1 DEF sessionVars, SessionInv, SessionSerial, CodesFresh, NothingComesBack, At
<1> QED
  BY <1>1, <1>2, <1>3 DEF SessionNext

LEMMA SessionInvAlways == SessionSpec => []SessionInv
BY SessionInvInit, SessionInvStep, PTL DEF SessionSpec

\* The row of the user, the tokens and codes that were given out, and what the
\* handlers have in their hands keep their types, and what was replaced,
\* logged out with or used is among what was given out.
THEOREM SessionTypeCorrect == SessionSpec => []SessionTypeOK
PROOF
<1>1. SessionInv => SessionTypeOK
  BY DEF SessionInv, SessionTypeInv, UserOK, GivenOK, CallsOK, CallOK, SessionTypeOK, Idle, SessionSteps
<1> QED
  BY <1>1, SessionInvAlways, PTL

\* However the requests on an admin's account overlap, and for other users when
\* they are served one at a time, no replaced password, used code or exchanged
\* refresh token gets back into the row (auth.service.ts, users.service.ts).
THEOREM NothingReturns == SessionSpec => []NothingComesBack
PROOF
<1>1. SessionInv => NothingComesBack
  BY DEF SessionInv
<1> QED
  BY <1>1, SessionInvAlways, PTL

-----------------------------------------------------------------------------
(* The three on their small instances' specification: only one of them runs. *)

AccountRows ==
  /\ session \in BOOLEAN /\ broken \in BOOLEAN /\ hadStore \in BOOLEAN
  /\ spent \subseteq Items

AccountTables ==
  /\ user \in BOOLEAN \cup {NULL} /\ merchant \in {"PENDING", "APPROVED", NULL}
  /\ RowsOK /\ AccountRows

LEMMA AccountRowsStep == AccountInv /\ AccountRows /\ [AccountNext]_accountVars => AccountRows'
PROOF
<1> SUFFICES ASSUME AccountInv, AccountRows, [AccountNext]_accountVars PROVE AccountRows'
  OBVIOUS
<1>1. CASE UNCHANGED accountVars \/ Login
  BY <1>1 DEF accountVars, Login, AccountRows
<1>2. ASSUME NEW k \in Servers, AccountStep(k) PROVE AccountRows'
  <2>1. CASE \/ Signup(k) \/ ApproveMerchant(k) \/ ActivateUser(k) \/ UpdateMerchant(k)
             \/ SaveMerchant(k) \/ UnsetDefaults(k) \/ ValidateLocation(k) \/ ChooseDefault(k)
             \/ SyncStore(k)
    BY <2>1 DEF AccountRows, Signup, ApproveMerchant, ActivateUser, UpdateMerchant, SaveMerchant,
                UnsetDefaults, ValidateLocation, ChooseDefault, SyncStore
  <2>2. CASE InvalidLocation(k) \/ ClerkFails(k)
    BY <2>2 DEF AccountRows, InvalidLocation, ClerkFails, Errs
  <2>3. CASE SaveRow(k)
    BY <2>3 DEF AccountRows, SaveRow, Errs
  <2>4. CASE RemoveRow(k)
    <3>1. ErrandOK(jobs[k]) /\ jobs[k].step = "remove"
      BY <2>4, Held DEF RemoveRow, AccountSteps
    <3>2. jobs[k].item \in Items
      BY <3>1 DEF ErrandOK, GoodRow, Items
    <3> QED
      BY <2>4, <3>2 DEF AccountRows, RemoveRow
  <2> QED
    BY <1>2, <2>1, <2>2, <2>3, <2>4 DEF AccountStep
<1>3. ASSUME NEW k \in Servers, NEW m \in Methods, MethodStep(k, m) PROVE AccountRows'
  BY <1>3 DEF AccountRows, MethodStep, AddPayoutMethod, UpdatePayoutMethod, VerifyPayoutMethod,
              SetDefaultPayoutMethod, DeletePayoutMethod, Manages
<1>4. ASSUME NEW k \in Servers, NEW s \in Stores, StoreStep(k, s) PROVE AccountRows'
  BY <1>4 DEF AccountRows, StoreStep, CreateStore, UpdateStore, UpdateProfileDetails, SetAsDefault,
              RemoveStore, ApproveStore, RejectStore, Reviews, Manages
<1> QED
  BY <1>1, <1>2, <1>3, <1>4 DEF AccountNext

\* What is so when the requests are those of one component, and of no other.
LEMMA AccountTyped ==
  /\ AccountInv /\ AccountRows => AccountTables /\ AccountTypeOK
  /\ AccountTables /\ (\A k \in Servers : jobs[k].step \notin AccountSteps) => AccountTypeOK
PROOF
<1>1. ASSUME RowsOK
      PROVE  rows \in [Items -> (Row \ [status : {"PENDING", "APPROVED"}]) \cup {NULL}]
  <2>1. MethodRow \cup StoreRow \subseteq Row \ [status : {"PENDING", "APPROVED"}]
    <3>1. ASSUME NEW row \in MethodRow \cup StoreRow, row \in [status : {"PENDING", "APPROVED"}]
          PROVE  FALSE
      <4>1. "default" \in DOMAIN row
        BY DEF MethodRow, StoreRow
      <4>2. DOMAIN row = {"status"}
        BY <3>1
      <4> QED
        BY <4>1, <4>2
    <3> QED
      BY <3>1 DEF MethodRow, StoreRow, Row
  <2> QED
    BY <1>1, <2>1 DEF RowsOK, GoodRow
<1>2. ASSUME AccountInv, NEW k \in Servers, jobs[k].step \in AccountSteps PROVE jobs[k] \in Errand
  <2>1. jobs[k] # Idle
    BY <1>2 DEF Idle, AccountSteps
  <2> QED
    BY <1>2, <2>1 DEF AccountInv, ErrandsOK, ErrandOK
<1> QED
  BY <1>1, <1>2 DEF AccountInv, MerchantOK, AccountTables, AccountRows, AccountTypeOK

\* Rows and requests of a merchant's account are well-typed: methods have a type,
\* stores whether they are synchronised, and neither has the other's status.
THEOREM AccountTypeCorrect == AccountSpec => []AccountTypeOK
PROOF
<1>1. AccountInit /\ NoRequests => AccountInv /\ AccountRows
  BY AccountInvInit DEF AccountInit, AccountRows
<1>2. AccountInv /\ AccountRows /\ [AccountNext]_accountVars => (AccountInv /\ AccountRows)'
  BY AccountInvStep, AccountRowsStep
<1> QED
  BY <1>1, <1>2, AccountTyped, PTL DEF AccountSpec

\* Of the requests of one component no other is one.
LEMMA StepsApart ==
  /\ AccountSteps \cap StaffSteps = {} /\ AccountSteps \cap SessionSteps = {}
  /\ StaffSteps \cap SessionSteps = {}
  /\ Idle.step \notin AccountSteps \cup StaffSteps \cup SessionSteps
BY DEF AccountSteps, StaffSteps, SessionSteps, Idle

\* The tables that nobody explores stay as they began; those that are explored have
\* their component's invariant.
Explored ==
  \/ explored = "merchants" /\ AccountInv /\ AccountRows /\ UserOK /\ GivenOK /\ StaffRows
  \/ explored = "sessions" /\ SessionInv /\ AccountTables /\ StaffRows
  \/ explored = "staff" /\ PlaceInv /\ AccountTables /\ UserOK /\ GivenOK

LEMMA ExploredInit == Init => Explored
PROOF
<1> SUFFICES ASSUME Init PROVE Explored
  OBVIOUS
<1>1. AccountInv /\ SessionInv /\ PlaceInv
  BY AccountInvInit, SessionInvInit, PlaceInit DEF Init
<1>2. AccountRows
  BY DEF Init, AccountInit, AccountRows
<1>3. AccountTables
  BY <1>1, <1>2 DEF AccountInv, MerchantOK, AccountTables
<1>4. UserOK /\ GivenOK /\ StaffRows
  BY <1>1 DEF SessionInv, SessionTypeInv, PlaceInv
<1> QED
  BY <1>1, <1>2, <1>3, <1>4 DEF Init, Explored

LEMMA ExploredStep == Explored /\ [Next]_vars => Explored'
PROOF
<1> SUFFICES ASSUME Explored, [Next]_vars PROVE Explored'
  OBVIOUS
<1>1. explored' = explored
  BY DEF Next, vars
<1>2. /\ UNCHANGED merchants /\ AccountTables => AccountTables'
      /\ UNCHANGED sessions /\ UserOK /\ GivenOK => UserOK' /\ GivenOK'
      /\ UNCHANGED staff /\ StaffRows => StaffRows'
  BY DEF merchants, sessions, staff, given, AccountTables, AccountRows, RowsOK, GoodRow, UserOK,
         GivenOK, StaffRows
<1>3. CASE explored = "merchants"
  <2>1. [AccountNext]_accountVars /\ UNCHANGED <<sessions, staff>>
    BY <1>3 DEF Next, vars, accountVars, merchants
  <2>2. AccountInv' /\ AccountRows'
    BY <1>3, <2>1, AccountInvStep, AccountRowsStep DEF Explored
  <2> QED
    BY <1>1, <1>2, <1>3, <2>1, <2>2 DEF Explored
<1>4. CASE explored = "sessions"
  <2>1. [SessionNext]_sessionVars /\ UNCHANGED <<merchants, staff>>
    BY <1>4 DEF Next, vars, sessionVars, sessions, given
  <2>2. SessionInv'
    BY <1>4, <2>1, SessionInvStep DEF Explored
  <2> QED
    BY <1>1, <1>2, <1>4, <2>1, <2>2 DEF Explored
<1>5. CASE explored = "staff"
  <2>1. [StaffNext]_staffVars /\ UNCHANGED <<merchants, sessions>>
    BY <1>5 DEF Next, vars, staffVars
  <2>2. PlaceInv'
    BY <1>5, <2>1, PlaceStep DEF Explored
  <2> QED
    BY <1>1, <1>2, <1>5, <2>1, <2>2 DEF Explored
<1> QED
  BY <1>3, <1>4, <1>5 DEF Explored

\* Whichever component runs, for any number of handlers and rows, tables and requests
\* in progress are well-typed: no request writes a column of one table, or a status of
\* one kind of row, into another.
THEOREM AccountsTypeCorrect == Spec => []TypesOK
PROOF
<1>1. Explored => TypesOK
  <2> SUFFICES ASSUME Explored PROVE TypesOK
    OBVIOUS
  <2>1. UserOK /\ GivenOK /\ StaffRows
    BY DEF Explored, SessionInv, SessionTypeInv, PlaceInv
  <2>2. CASE explored = "merchants"
    <3>1. \A k \in Servers : jobs[k].step \in AccountSteps \/ jobs[k] = Idle
      BY <2>2 DEF Explored, AccountInv, ErrandsOK, ErrandOK, Errand
    <3>2. \A k \in Servers : jobs[k].step \notin SessionSteps /\ jobs[k].step \notin StaffSteps
      BY <3>1, StepsApart
    <3>3. SessionTypeOK /\ StaffTypeOK
      BY <2>1, <3>2 DEF UserOK, GivenOK, SessionTypeOK, StaffRows, StaffTypeOK
    <3> QED
      BY <2>2, <3>3, AccountTyped DEF Explored, TypesOK
  <2>3. CASE explored = "sessions"
    <3>1. \A k \in Servers : (jobs[k].step \in SessionSteps /\ jobs[k] \in Call) \/ jobs[k] = Idle
      BY <2>3 DEF Explored, SessionInv, SessionTypeInv, CallsOK, CallOK, Call
    <3>2. \A k \in Servers : jobs[k].step \notin AccountSteps /\ jobs[k].step \notin StaffSteps
      BY <3>1, StepsApart
    <3>3. \A k \in Servers : jobs[k].step \in SessionSteps => jobs[k] \in Call
      BY <3>1, StepsApart
    <3>4. SessionTypeOK /\ StaffTypeOK
      BY <2>1, <3>2, <3>3 DEF UserOK, GivenOK, SessionTypeOK, StaffRows, StaffTypeOK
    <3> QED
      BY <2>3, <3>2, <3>4, AccountTyped DEF Explored, TypesOK
  <2>4. CASE explored = "staff"
    <3>1. \A k \in Servers : (jobs[k].step \in StaffSteps /\ jobs[k] \in Task) \/ jobs[k] = Idle
      BY <2>4 DEF Explored, PlaceInv, TaskStands, Task
    <3>2. \A k \in Servers : jobs[k].step \notin AccountSteps /\ jobs[k].step \notin SessionSteps
      BY <3>1, StepsApart
    <3>3. \A k \in Servers : jobs[k].step \in StaffSteps => jobs[k] \in Task
      BY <3>1, StepsApart
    <3>4. SessionTypeOK /\ StaffTypeOK
      BY <2>1, <3>2, <3>3 DEF UserOK, GivenOK, SessionTypeOK, StaffRows, StaffTypeOK
    <3> QED
      BY <2>4, <3>2, <3>4, AccountTyped DEF Explored, TypesOK
  <2> QED
    BY <2>2, <2>3, <2>4 DEF Explored
<1> QED
  BY <1>1, ExploredInit, ExploredStep, PTL DEF Spec

=============================================================================
