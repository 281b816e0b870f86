--------------------------- MODULE HubCashProofs ---------------------------
(* Theorems about HubTransferRecords and RiderSettlement, for any records, *)
(* riders, deliveries and amounts.                                         *)
EXTENDS HubTransferRecords, SumsProofs

(* Transfer records, with any number of handlers.                          *)

\* A row is approved only by the statement that shows its amount.
TransferInv == TransferTypeOK /\ ApprovedAsShown

LEMMA TransferInvInit == TransferInit => TransferInv
BY NullIsNoTransfer
   DEF TransferInit, TransferInv, TransferTypeOK, ApprovedAsShown, Transfer, TransferRecordStatus

\* What a handler takes from a pending record keeps the type.
LEMMA HandlesPreserves ==
  ASSUME TransferInv, NEW h \in Desks, NEW t \in Transfers, NEW papers \in Papers,
         Handles(h, t, papers)
  PROVE  TransferInv'
BY DEF Handles, TransferInv, TransferTypeOK, ApprovedAsShown

LEMMA SavesPreserves ==
  ASSUME TransferInv, NEW h \in Desks, NEW t \in Transfers, NEW row \in Transfer,
         Saves(h, t, row)
  PROVE  TransferInv'
PROOF
<1>1. [step |-> "save", transfer |-> t, row |-> row] \in Papers
  BY DEF Papers
<1> QED
  BY <1>1, HandlesPreserves DEF Saves

LEMMA DeskPreserves ==
  ASSUME TransferInv, NEW h \in Desks, DeskStep(h)
  PROVE  TransferInv'
PROOF
<1>1. ASSUME NEW t \in Transfers, NEW amount \in Amounts, CreateTransferRecord(h, t, amount)
      PROVE  TransferInv'
  BY <1>1, NullIsNoTransfer
     DEF CreateTransferRecord, TransferInv, TransferTypeOK, ApprovedAsShown, Transfer,
         TransferRecordStatus
<1>2. ASSUME NEW t \in Transfers, NEW amount \in Amounts, UpdateTransferRecord(h, t, amount)
      PROVE  TransferInv'
  <2>1. [transfers[t] EXCEPT !.amount = amount] \in Transfer
    BY <1>2 DEF UpdateTransferRecord, Saves, Handles, IsPending, TransferInv, TransferTypeOK, Transfer
  <2> QED
    BY <1>2, <2>1, SavesPreserves DEF UpdateTransferRecord
<1>3. ASSUME NEW t \in Transfers, ApproveTransferRecord(h, t) \/ RejectTransferRecord(h, t)
      PROVE  TransferInv'
  <2>1. /\ [transfers[t] EXCEPT !.status = "APPROVED"] \in Transfer
        /\ [transfers[t] EXCEPT !.status = "REJECTED"] \in Transfer
    BY <1>3 DEF ApproveTransferRecord, RejectTransferRecord, Saves, Handles, IsPending,
                TransferInv, TransferTypeOK, Transfer, TransferRecordStatus
  <2> QED
    BY <1>3, <2>1, SavesPreserves DEF ApproveTransferRecord, RejectTransferRecord
<1>4. ASSUME NEW t \in Transfers, DeleteTransferRecord(h, t)
      PROVE  TransferInv'
  <2>1. [step |-> "remove", transfer |-> t] \in Papers
    BY DEF Papers
  <2> QED
    BY <1>4, <2>1, HandlesPreserves DEF DeleteTransferRecord
<1>5. CASE SaveTransfer(h)
  <2>1. desk[h].transfer \in Transfers /\ desk[h].row \in Transfer
    BY <1>5 DEF SaveTransfer, TransferInv, TransferTypeOK, Papers
  <2>2. TransferTypeOK'
    BY <1>5, <2>1 DEF SaveTransfer, TransferInv, TransferTypeOK, Transfer
  <2>3. ApprovedAsShown'
    BY <1>5, <2>1 DEF SaveTransfer, TransferInv, TransferTypeOK, ApprovedAsShown
  <2> QED
    BY <2>2, <2>3 DEF TransferInv
<1>6. CASE RemoveTransfer(h)
  <2>1. desk[h].transfer \in Transfers
    BY <1>6 DEF RemoveTransfer, TransferInv, TransferTypeOK, Papers
  <2> QED
    BY <1>6, <2>1 DEF RemoveTransfer, TransferInv, TransferTypeOK, ApprovedAsShown
<1>7. CASE DeskFails(h)
  BY <1>7 DEF DeskFails, TransferInv, TransferTypeOK, ApprovedAsShown
<1> QED
  BY <1>1, <1>2, <1>3, <1>4, <1>5, <1>6, <1>7 DEF DeskStep, ManagerStep, AdminStep

LEMMA TransferInvStep ==
  TransferInv /\ [CashNext]_<<settlementVars, transferVars>> => TransferInv'
PROOF
<1> SUFFICES ASSUME TransferInv, [CashNext]_<<settlementVars, transferVars>>
             PROVE  TransferInv'
  OBVIOUS
<1>1. CASE UNCHANGED transferVars
  BY <1>1 DEF transferVars, TransferInv, TransferTypeOK, ApprovedAsShown
<1>2. CASE \E h \in Desks : DeskStep(h)
  BY <1>2, DeskPreserves
<1> QED
  BY <1>1, <1>2 DEF CashNext

\* However many managers and admins change, delete, approve and reject records at
\* the same time, an approved record has the amount that the approving request
\* read (hubs.service.ts, admin.service.ts).
THEOREM ApprovedAreShown == CashSpec => []ApprovedAsShown
PROOF
<1>1. TransferInv => ApprovedAsShown
  BY DEF TransferInv
<1> QED
  BY <1>1, TransferInvInit, TransferInvStep, PTL DEF CashSpec, CashInit

-----------------------------------------------------------------------------
(* Settlements, when requests are served one at a time.                    *)

\* No settlement of d's rider has d.
Unsettled(d) == \A s \in Of(RiderOf[d]) : d \notin s.deliveries

Rows ==
  /\ done \in [Deliveries -> Time \cup {NULL}]
  /\ clock \in Time
  /\ \A s \in settlements : s.at \in Time /\ s.at < clock

\* What the one handler has read is still so: when it looks for deliveries, the
\* last settlement is the last one, and when it records, it has every delivery that
\* no settlement has.
Read(e) ==
  /\ e.step = "delivered" => e.delivery \in Deliveries /\ e.at = clock
  /\ e.step = "deliveries" =>
       \/ Of(e.rider) = {} /\ e.since = 0
       \/ \E s \in Of(e.rider) : IsLast(s) /\ s.at = e.since
  /\ e.step = "record" =>
       \A d \in Deliveries :
         RiderOf[d] = e.rider /\ done[d] # NULL /\ Unsettled(d) => d \in e.deliveries

OneTill == \E h : Tills = {h}

TillsTotal == till = [h \in Tills |-> till[h]]

SettledInv ==
  /\ Rows /\ NothingSkipped /\ TillsTotal
  /\ \A h \in Tills : till[h] = NULL \/ Read(till[h])

\* A handler that answers, or reads, changes no table.
LEMMA TakingPreserves ==
  ASSUME OneTill, SettledInv, NEW h \in Tills, NEW e,
         Takes(h, e), UNCHANGED <<done, settlements, clock>>, e = NULL \/ Read(e)
  PROVE  SettledInv'
PROOF
<1>1. TillsTotal' /\ till'[h] = e /\ Tills = {h}
  BY DEF Takes, OneTill, SettledInv, TillsTotal
<1>2. Rows' /\ NothingSkipped'
  BY DEF SettledInv, Rows, NothingSkipped, Of
<1>3. Read(e) => Read(e)'
  BY DEF Read, Of, IsLast, Unsettled
<1> QED
  BY <1>1, <1>2, <1>3 DEF SettledInv

\* A settlement that has every delivery no settlement had leaves none behind.
LEMMA InsertPreserves ==
  ASSUME OneTill, SettledInv, NEW h \in Tills, InsertSettlement(h)
  PROVE  SettledInv'
PROOF
<1>1. till[h] # NULL /\ till[h].step = "record" /\ Answers(h) /\ done' = done
  BY DEF InsertSettlement, Turns
<1>2. CASE ~ManagerInToken
  BY <1>1, <1>2, TakingPreserves DEF InsertSettlement, Answers
<1>3. CASE ManagerInToken
  <2> PICK s : /\ settlements' = settlements \cup {s}
               /\ s.rider = till[h].rider /\ s.at = clock /\ s.deliveries = till[h].deliveries
    <3> DEFINE e == till[h]
               o == Outcome(Sum(e.deliveries), e.previous, e.cash)
               new == [rider |-> e.rider, at |-> clock, deliveries |-> e.deliveries,
                       cash |-> e.cash, previous |-> e.previous,
                       due |-> o.due, status |-> o.status]
    <3>1. settlements' = settlements \cup {new}
      BY <1>3 DEF InsertSettlement
    <3>2. /\ new.rider = till[h].rider /\ new.at = clock
          /\ new.deliveries = till[h].deliveries
      OBVIOUS
    <3> HIDE DEF new
    <3> QED
      BY <3>1, <3>2
  <2>1. clock' = clock + 1 /\ clock' \in Time /\ clock \in Time
    BY <1>3, CashAssumption DEF InsertSettlement, TimePasses, SettledInv, Rows, Time
  <2>2. Rows'
    BY <2>1, <1>1 DEF SettledInv, Rows, Time
  <2>3. NothingSkipped'
    <3> SUFFICES ASSUME NEW d \in Deliveries, done[d] # NULL, Unsettled(d)',
                        NEW t \in Of(RiderOf[d])'
                 PROVE  done[d] >= t.at
      BY <1>1 DEF NothingSkipped, Unsettled, Of
    <3>1. Unsettled(d)
      BY DEF Unsettled, Of
    <3>2. CASE t = s
      <4>1. RiderOf[d] = till[h].rider /\ d \notin till[h].deliveries
        BY <3>2 DEF Unsettled, Of
      <4> QED
        BY <4>1, <3>1, <1>1 DEF SettledInv, Read
    <3>3. CASE t # s
      BY <3>1, <3>3 DEF SettledInv, NothingSkipped, Unsettled, Of
    <3> QED
      BY <3>2, <3>3
  <2>4. TillsTotal' /\ till'[h] = NULL /\ Tills = {h}
    BY <1>1 DEF Answers, Takes, OneTill, SettledInv, TillsTotal
  <2> QED
    BY <2>2, <2>3, <2>4 DEF SettledInv
<1> QED
  BY <1>2, <1>3

LEMMA TillPreserves ==
  ASSUME OneTill, SettledInv, NEW h \in Tills, TillStep(h)
  PROVE  SettledInv'
PROOF
<1>1. ASSUME NEW d \in Deliveries, Delivers(h, d)
      PROVE  SettledInv'
  <2>1. Read([step |-> "delivered", delivery |-> d, at |-> clock])
    BY DEF Read
  <2> QED
    BY <1>1, <2>1, TakingPreserves DEF Delivers
<1>2. ASSUME NEW d \in Deliveries, ReopensDelivery(h, d)
      PROVE  SettledInv'
  <2>1. Tills = {h} /\ till'[h] = NULL
    BY <1>2 DEF ReopensDelivery, OneTill
  <2>2. Rows' /\ NothingSkipped'
    BY <1>2 DEF ReopensDelivery, SettledInv, Rows, NothingSkipped, Of
  <2> QED
    BY <1>2, <2>1, <2>2 DEF ReopensDelivery, SettledInv, TillsTotal
<1>3. ASSUME NEW r \in Riders, NEW cash \in Cash, RecordSettlement(h, r, cash)
      PROVE  SettledInv'
  <2>1. Read([step |-> "last", rider |-> r, cash |-> cash])
    BY DEF Read
  <2> QED
    BY <1>3, <2>1, TakingPreserves DEF RecordSettlement
<1>4. CASE SaveDelivered(h)
  <2>1. till[h].delivery \in Deliveries /\ till[h].at = clock
    BY <1>4 DEF SaveDelivered, Turns, SettledInv, Read
  <2>2. clock' = clock + 1 /\ clock' \in Time /\ clock \in Time
    BY <1>4, CashAssumption DEF SaveDelivered, TimePasses, SettledInv, Rows, Time
  <2>3. Rows'
    BY <1>4, <2>1, <2>2 DEF SaveDelivered, SettledInv, Rows, Time
  <2>4. NothingSkipped'
    <3> SUFFICES ASSUME NEW d \in Deliveries, done'[d] # NULL, Unsettled(d),
                        NEW t \in Of(RiderOf[d])
                 PROVE  done'[d] >= t.at
      BY <1>4 DEF SaveDelivered, NothingSkipped, Unsettled, Of
    <3>1. CASE d = till[h].delivery
      <4>1. done'[d] = clock
        BY <1>4, <2>1, <3>1 DEF SaveDelivered, SettledInv, Rows
      <4> QED
        BY <4>1, <2>2 DEF SettledInv, Rows, Of, Time
    <3>2. CASE d # till[h].delivery
      BY <1>4, <3>2 DEF SaveDelivered, SettledInv, Rows, NothingSkipped, Unsettled, Of
    <3> QED
      BY <3>1, <3>2
  <2>5. TillsTotal' /\ till'[h] = NULL /\ Tills = {h}
    BY <1>4 DEF SaveDelivered, Answers, Takes, OneTill, SettledInv, TillsTotal
  <2> QED
    BY <2>3, <2>4, <2>5 DEF SettledInv
<1>5. CASE ReadLast(h)
  <2> DEFINE e(since, previous) ==
        [step |-> "deliveries", rider |-> till[h].rider, cash |-> till[h].cash,
         since |-> since, previous |-> previous]
  <2>1. UNCHANGED <<done, settlements, clock>>
    BY <1>5 DEF ReadLast
  <2>2. CASE Of(till[h].rider) = {} /\ Takes(h, e(0, 0))
    <3>1. Read(e(0, 0))
      BY <2>2 DEF Read
    <3> HIDE DEF e
    <3> QED
      BY <2>1, <2>2, <3>1, TakingPreserves
  <2>3. ASSUME NEW s \in Of(till[h].rider), IsLast(s), Takes(h, e(s.at, s.due))
        PROVE  SettledInv'
    <3>1. Read(e(s.at, s.due))
      BY <2>3 DEF Read
    <3> HIDE DEF e
    <3> QED
      BY <2>1, <2>3, <3>1, TakingPreserves
  <2> QED
    BY <1>5, <2>2, <2>3 DEF ReadLast
<1>6. CASE ReadDeliveries(h)
  <2> DEFINE found == {d \in Deliveries :
                         /\ RiderOf[d] = till[h].rider
                         /\ done[d] # NULL /\ done[d] >= till[h].since}
             e == [step |-> "record", rider |-> till[h].rider, cash |-> till[h].cash,
                   previous |-> till[h].previous, deliveries |-> found]
  <2>1. Takes(h, e) /\ UNCHANGED <<done, settlements, clock>>
    BY <1>6 DEF ReadDeliveries
  <2>2. \/ Of(till[h].rider) = {} /\ till[h].since = 0
        \/ \E s \in Of(till[h].rider) : IsLast(s) /\ s.at = till[h].since
    BY <1>6 DEF ReadDeliveries, Turns, SettledInv, Read
  <2>3. ASSUME NEW d \in Deliveries, RiderOf[d] = till[h].rider, done[d] # NULL, Unsettled(d)
        PROVE  done[d] >= till[h].since
    <3>1. done[d] \in Time
      BY <2>3 DEF SettledInv, Rows
    <3> QED
      BY <2>2, <2>3, <3>1 DEF SettledInv, NothingSkipped, Unsettled, Time
  <2>4. Read(e)
    BY <2>3 DEF Read
  <2> HIDE DEF e
  <2> QED
    BY <2>1, <2>4, TakingPreserves
<1>7. CASE InsertSettlement(h)
  BY <1>7, InsertPreserves
<1>8. CASE TillFails(h)
  BY <1>8, TakingPreserves DEF TillFails, Answers
<1> QED
  BY <1>1, <1>2, <1>3, <1>4, <1>5, <1>6, <1>7, <1>8 DEF TillStep

LEMMA SettledInvInit == SettlementInit /\ MaxClock > 0 => SettledInv
BY CashAssumption
   DEF SettlementInit, SettledInv, Rows, NothingSkipped, TillsTotal, Time, Of

LEMMA SettledInvStep ==
  ASSUME OneTill
  PROVE  SettledInv /\ [CashNext]_<<settlementVars, transferVars>> => SettledInv'
PROOF
<1> SUFFICES ASSUME SettledInv, [CashNext]_<<settlementVars, transferVars>>
             PROVE  SettledInv'
  OBVIOUS
<1>1. CASE UNCHANGED settlementVars
  <2>1. \A e : Read(e) => Read(e)'
    BY <1>1 DEF settlementVars, Read, Of, IsLast, Unsettled
  <2> QED
    BY <1>1, <2>1 DEF settlementVars, SettledInv, Rows, NothingSkipped, Of, TillsTotal
<1>2. CASE SettlementNext
  BY <1>2, TillPreserves DEF SettlementNext
<1> QED
  BY <1>1, <1>2 DEF CashNext

\* When requests are served one at a time, a delivery that no settlement of its
\* rider has is found by the next one, for any deliveries, however often they are
\* opened and completed again, and with a failure between any two statements
\* (recordSettlement in hubs.service.ts).
THEOREM NoneSkipped ==
  ASSUME OneTill, MaxClock > 0
  PROVE  CashSpec => []NothingSkipped
PROOF
<1>1. SettledInv => NothingSkipped
  BY DEF SettledInv
<1> QED
  BY <1>1, SettledInvInit, SettledInvStep, PTL DEF CashSpec, CashInit

-----------------------------------------------------------------------------
(* What riders owe, when requests are served one at a time.                *)

\* What a settlement adds to it.
Adds(t) == Sum(t.deliveries) - t.cash + Excess(t)

Adding == [t \in Settlement |-> Adds(t)]

\* What the rider r owed after his last settlement.
Owes(r, x) ==
  \/ Of(r) = {} /\ x = 0
  \/ \E s \in Of(r) : IsLast(s) /\ x = s.due

\* A request for a settlement carries what is still owed.
Carries(e) ==
  /\ e.step \in {"last", "deliveries", "record"} => e.rider \in Riders /\ e.cash \in Nat
  /\ e.step \in {"deliveries", "record"} => e.previous \in Nat /\ Owes(e.rider, e.previous)
  /\ e.step = "record" => e.deliveries \subseteq Deliveries

Ledger ==
  /\ settlements \subseteq Settlement /\ IsFiniteSet(settlements)
  /\ \A s \in settlements : IsLast(s) => s.due = SumOver(Adding, Of(s.rider))

DebtInv ==
  /\ SettledInv /\ Ledger
  /\ \A h \in Tills : till[h] = NULL \/ Carries(till[h])

LEMMA SumIsNumber == \A S \in SUBSET Deliveries : Sum(S) \in Int
PROOF
<1> SUFFICES ASSUME NEW S \in SUBSET Deliveries PROVE Sum(S) \in Int
  OBVIOUS
<1>1. IsFiniteSet(S) /\ \A d \in S : Collected[d] \in Int
  BY CashAssumption, FS_Subset
<1>2. Sum(S) = SumOver(Collected, S)
  BY DEF Sum, SumOver
<1> QED
  BY <1>1, <1>2, SumSplits

LEMMA AddsIsNumber == \A t \in Settlement : Adding[t] = Adds(t) /\ Adds(t) \in Int
PROOF
<1> SUFFICES ASSUME NEW t \in Settlement PROVE Adds(t) \in Int
  BY DEF Adding
<1>1. t.deliveries \subseteq Deliveries /\ t.cash \in Nat /\ t.previous \in Nat
  BY DEF Settlement
<1>2. Sum(t.deliveries) \in Int
  BY <1>1, SumIsNumber
<1> QED
  BY <1>1, <1>2 DEF Adds, Excess

LEMMA AddsUp ==
  ASSUME NEW S \in SUBSET Settlement, IsFiniteSet(S)
  PROVE  MapThenSumSet(LAMBDA t : Sum(t.deliveries) - t.cash + Excess(t), S) = SumOver(Adding, S)
PROOF
<1> DEFINE step(g, s) == IF s = {} THEN 0 ELSE Adds(FirstOf(s)) + g[s \ {FirstOf(s)}]
<1>1. \A g, s : s \in SUBSET S => step(g, s) = SumStep(Adding, g, s)
  BY FirstIsIn, AddsIsNumber DEF SumStep
<1> PICK k : Sums(Adding, k, S) /\ SumOver(Adding, S) = k[S]
  BY SumIsDefined
<1>2. k = [s \in SUBSET S |-> step(k, s)]
  <2>1. k = [s \in SUBSET S |-> SumStep(Adding, k, s)]
    BY DEF Sums
  <2> HIDE DEF step
  <2> QED
    BY <1>1, <2>1
<1>3. \E g : g = [s \in SUBSET S |-> step(g, s)]
  BY <1>2
<1>4. \E g : /\ g = [s \in SUBSET S |-> step(g, s)]
             /\ MapThenSumSet(LAMBDA t : Sum(t.deliveries) - t.cash + Excess(t), S) = g[S]
  BY <1>3 DEF MapThenSumSet, MapThenFoldSet, FirstOf, Adds
<1>5. ASSUME NEW g, g = [s \in SUBSET S |-> step(g, s)]
      PROVE  g[S] = SumOver(Adding, S)
  <2> HIDE DEF step
  <2>1. Sums(Adding, g, S)
    BY <1>1, <1>5 DEF Sums
  <2> QED
    BY <2>1, SumsAgree
<1> QED
  BY <1>4, <1>5

LEMMA NothingSettledOwes ==
  ASSUME UNCHANGED settlements
  PROVE  /\ Ledger => Ledger'
         /\ \A e : Carries(e) => Carries(e)'
BY DEF Ledger, Carries, Owes, Of, IsLast

\* The row that is inserted: what was owed, what was collected since, less the cash.
LEMMA NewSettlement ==
  ASSUME OneTill, DebtInv, NEW h \in Tills, Turns(h, "record"), InsertSettlement(h), ManagerInToken
  PROVE  \E s \in Settlement :
           /\ settlements' = settlements \cup {s}
           /\ s.rider = till[h].rider /\ s.at = clock
           /\ s.due = till[h].previous + Adds(s)
PROOF
<1> PICK e : e = till[h]
  OBVIOUS
<1> PICK sum : sum = Sum(e.deliveries)
  OBVIOUS
<1> PICK due, status : /\ due = Outcome(sum, e.previous, e.cash).due
                       /\ status = Outcome(sum, e.previous, e.cash).status
  OBVIOUS
<1> PICK s : s = [rider |-> e.rider, at |-> clock, deliveries |-> e.deliveries,
                  cash |-> e.cash, previous |-> e.previous, due |-> due, status |-> status]
  OBVIOUS
<1>1. /\ e.rider \in Riders /\ e.cash \in Nat /\ e.previous \in Nat
      /\ e.deliveries \subseteq Deliveries
  BY DEF DebtInv, Carries, Turns
<1>2. sum \in Int
  BY <1>1, SumIsNumber
<1>3. /\ due = IF sum + e.previous > e.cash THEN sum + e.previous - e.cash ELSE 0
      /\ due \in Nat /\ status \in SettlementStatus
  BY <1>1, <1>2 DEF Outcome, SettlementStatus
<1>4. s \in Settlement
  BY <1>1, <1>3 DEF Settlement, DebtInv, SettledInv, Rows
<1>5. settlements' = settlements \cup {s}
  BY DEF InsertSettlement
<1>6. Adds(s) = sum - e.cash + (IF e.cash > sum + e.previous THEN e.cash - sum - e.previous ELSE 0)
  BY DEF Adds, Excess
<1>7. due = e.previous + Adds(s)
  BY <1>1, <1>2, <1>3, <1>6
<1> QED
  BY <1>4, <1>5, <1>7

LEMMA InsertCarries ==
  ASSUME OneTill, DebtInv, NEW h \in Tills, InsertSettlement(h), ManagerInToken
  PROVE  Ledger'
PROOF
<1>1. Turns(h, "record")
  BY DEF InsertSettlement
<1> PICK s \in Settlement :
      /\ settlements' = settlements \cup {s}
      /\ s.rider = till[h].rider /\ s.at = clock
      /\ s.due = till[h].previous + Adds(s)
  BY <1>1, NewSettlement
<1> PICK r, x : r = till[h].rider /\ x = till[h].previous
  OBVIOUS
<1>2. /\ settlements \subseteq Settlement /\ IsFiniteSet(settlements) /\ clock \in Time
      /\ \A t \in settlements : t.at \in Time /\ t.at < clock
      /\ x \in Nat /\ Owes(r, x)
  BY <1>1 DEF DebtInv, Ledger, SettledInv, Rows, Turns, Carries
<1>3. s \notin settlements /\ \A t \in settlements : ~ (s.at <= t.at)
  BY <1>2 DEF Time
<1>4. settlements' \subseteq Settlement /\ IsFiniteSet(settlements')
  BY <1>2, FS_AddElement
<1>5. Of(r)' = Of(r) \cup {s} /\ \A q : q # r => Of(q)' = Of(q)
  BY DEF Of
<1>6. IsFiniteSet(Of(r)) /\ Of(r) \subseteq Settlement /\ s \notin Of(r)
  BY <1>2, <1>3, FS_Subset DEF Of
<1>7. SumOver(Adding, Of(r)) = x
  <2>1. CASE Of(r) = {} /\ x = 0
    BY <2>1, SumOfNone
  <2>2. ASSUME NEW t \in Of(r), IsLast(t), x = t.due
        PROVE  SumOver(Adding, Of(r)) = x
    BY <2>2 DEF DebtInv, Ledger, Of
  <2> QED
    BY <1>2, <2>1, <2>2 DEF Owes
<1>8. SumOver(Adding, Of(r)') = s.due
  <2>1. \A t \in Of(r) \cup {s} : Adding[t] \in Int
    BY <1>6, AddsIsNumber
  <2>2. SumOver(Adding, Of(r) \cup {s}) = SumOver(Adding, Of(r)) + Adding[s]
    BY <1>6, <2>1, SumGrows
  <2> QED
    BY <1>5, <1>7, <2>2, AddsIsNumber
<1>9. ASSUME NEW t \in settlements', IsLast(t)'
      PROVE  t.due = SumOver(Adding, Of(t.rider)')
  <2>1. CASE t.rider = r
    <3>1. s \in Of(t.rider)'
      BY <1>5, <2>1
    <3>2. s.at <= t.at
      BY <1>9, <3>1 DEF IsLast
    <3>3. t = s
      BY <1>3, <3>2
    <3> QED
      BY <1>8, <2>1, <3>3
  <2>2. CASE t.rider # r
    <3>1. t \in settlements /\ Of(t.rider)' = Of(t.rider)
      BY <1>5, <2>2
    <3>2. IsLast(t)
      BY <1>9, <3>1 DEF IsLast
    <3> QED
      BY <3>1, <3>2 DEF DebtInv, Ledger
  <2> QED
    BY <2>1, <2>2
<1> QED
  BY <1>4, <1>9 DEF Ledger, Of

LEMMA TillCarries ==
  ASSUME OneTill, DebtInv, NEW h \in Tills, TillStep(h)
  PROVE  DebtInv'
PROOF
<1>1. SettledInv' /\ Tills = {h} /\ till = [g \in Tills |-> till[g]]
  BY TillPreserves DEF DebtInv, OneTill, SettledInv, TillsTotal
<1>2. ASSUME NEW e, Takes(h, e), UNCHANGED settlements, e = NULL \/ Carries(e)
      PROVE  DebtInv'
  <2>1. till'[h] = e
    BY <1>1, <1>2 DEF Takes
  <2> QED
    BY <1>1, <1>2, <2>1, NothingSettledOwes DEF DebtInv
<1>3. ASSUME NEW d \in Deliveries, Delivers(h, d)
      PROVE  DebtInv'
  BY <1>2, <1>3 DEF Delivers, Carries
<1>4. ASSUME NEW d \in Deliveries, ReopensDelivery(h, d)
      PROVE  DebtInv'
  BY <1>1, <1>4, NothingSettledOwes DEF ReopensDelivery, DebtInv
<1>5. ASSUME NEW r \in Riders, NEW cash \in Cash, RecordSettlement(h, r, cash)
      PROVE  DebtInv'
  <2>1. Carries([step |-> "last", rider |-> r, cash |-> cash])
    BY CashAssumption DEF Carries
  <2> QED
    BY <1>2, <1>5, <2>1 DEF RecordSettlement
<1>6. CASE SaveDelivered(h) \/ TillFails(h)
  BY <1>2, <1>6 DEF SaveDelivered, TillFails, Answers
<1>7. CASE ReadLast(h)
  <2>1. till[h].rider \in Riders /\ till[h].cash \in Nat
    BY <1>7 DEF ReadLast, Turns, DebtInv, Carries
  <2>2. ASSUME NEW since, NEW x \in Nat, Owes(till[h].rider, x)
        PROVE  Carries([step |-> "deliveries", rider |-> till[h].rider, cash |-> till[h].cash,
                        since |-> since, previous |-> x])
    BY <2>1, <2>2 DEF Carries
  <2>3. CASE /\ Of(till[h].rider) = {}
             /\ Takes(h, [step |-> "deliveries", rider |-> till[h].rider, cash |-> till[h].cash,
                          since |-> 0, previous |-> 0])
    <3>1. Owes(till[h].rider, 0)
      BY <2>3 DEF Owes
    <3> QED
      BY <1>2, <1>7, <2>2, <2>3, <3>1 DEF ReadLast
  <2>4. ASSUME NEW s \in Of(till[h].rider), IsLast(s),
               Takes(h, [step |-> "deliveries", rider |-> till[h].rider, cash |-> till[h].cash,
                         since |-> s.at, previous |-> s.due])
        PROVE  DebtInv'
    <3>1. Owes(till[h].rider, s.due)
      BY <2>4 DEF Owes
    <3>2. s.due \in Nat
      BY DEF Of, DebtInv, Ledger, Settlement
    <3> QED
      BY <1>2, <1>7, <2>2, <2>4, <3>1, <3>2 DEF ReadLast
  <2> QED
    BY <1>7, <2>3, <2>4 DEF ReadLast
<1>8. CASE ReadDeliveries(h)
  <2> PICK found : found = {d \in Deliveries :
                              /\ RiderOf[d] = till[h].rider
                              /\ done[d] # NULL /\ done[d] >= till[h].since}
    OBVIOUS
  <2>1. found \subseteq Deliveries
    OBVIOUS
  <2>2. PICK e : /\ Takes(h, e) /\ e.step = "record" /\ e.rider = till[h].rider
                 /\ e.cash = till[h].cash /\ e.previous = till[h].previous /\ e.deliveries = found
    <3> DEFINE e == [step |-> "record", rider |-> till[h].rider, cash |-> till[h].cash,
                     previous |-> till[h].previous, deliveries |-> found]
    <3>1. Takes(h, e)
      BY <1>8 DEF ReadDeliveries
    <3>2. /\ e.step = "record" /\ e.rider = till[h].rider
          /\ e.cash = till[h].cash /\ e.previous = till[h].previous /\ e.deliveries = found
      OBVIOUS
    <3> HIDE DEF e
    <3> QED
      BY <3>1, <3>2
  <2>3. Carries(till[h]) /\ till[h].step = "deliveries"
    BY <1>8 DEF ReadDeliveries, Turns, DebtInv
  <2>4. Carries(e)
    BY <2>1, <2>2, <2>3 DEF Carries
  <2> QED
    BY <1>2, <1>8, <2>2, <2>4 DEF ReadDeliveries
<1>9. CASE InsertSettlement(h)
  <2>1. Answers(h)
    BY <1>9 DEF InsertSettlement
  <2>2. CASE ~ManagerInToken
    BY <1>2, <1>9, <2>1, <2>2 DEF InsertSettlement, Answers
  <2>3. CASE ManagerInToken
    <3>1. Ledger'
      BY <1>9, <2>3, InsertCarries
    <3>2. till'[h] = NULL
      BY <1>1, <2>1 DEF Answers, Takes
    <3> QED
      BY <1>1, <3>1, <3>2 DEF DebtInv
  <2> QED
    BY <2>2, <2>3
<1> QED
  BY <1>3, <1>4, <1>5, <1>6, <1>7, <1>8, <1>9 DEF TillStep

\* After his last settlement a rider owes all that his settlements say he collected,
\* less what he handed over and was not in excess: with requests served one at a time,
\* for any deliveries, amounts and cash, with a failure between any two statements
\* (recordSettlement in hubs.service.ts).
THEOREM DebtsAreCarried ==
  ASSUME OneTill, MaxClock > 0
  PROVE  CashSpec => []DebtIsCarried
PROOF
<1>1. CashInit => DebtInv
  BY SettledInvInit, FS_EmptySet DEF CashInit, SettlementInit, DebtInv, Ledger
<1>2. DebtInv /\ [CashNext]_<<settlementVars, transferVars>> => DebtInv'
  <2> SUFFICES ASSUME DebtInv, [CashNext]_<<settlementVars, transferVars>> PROVE DebtInv'
    OBVIOUS
  <2>1. CASE UNCHANGED settlementVars
    <3>1. SettledInv'
      BY SettledInvStep DEF DebtInv
    <3> QED
      BY <2>1, <3>1, NothingSettledOwes DEF settlementVars, DebtInv
  <2>2. CASE SettlementNext
    BY <2>2, TillCarries DEF SettlementNext
  <2> QED
    BY <2>1, <2>2 DEF CashNext
<1>3. DebtInv => DebtIsCarried
  <2> SUFFICES ASSUME DebtInv, NEW s \in settlements, IsLast(s)
               PROVE  s.due = MapThenSumSet(LAMBDA t : Sum(t.deliveries) - t.cash + Excess(t),
                                            Of(s.rider))
    BY DEF DebtIsCarried
  <2>1. Of(s.rider) \in SUBSET Settlement /\ IsFiniteSet(Of(s.rider))
    BY FS_Subset DEF Of, DebtInv, Ledger
  <2>2. s.due = SumOver(Adding, Of(s.rider))
    BY DEF DebtInv, Ledger
  <2> QED
    BY <2>1, <2>2, AddsUp
<1> QED
  BY <1>1, <1>2, <1>3, PTL DEF CashSpec

-----------------------------------------------------------------------------
(* Well-typed tables and errands, with any number of handlers.             *)

LEMMA TillTyped ==
  ASSUME SettlementTypeOK, NEW h \in Tills, TillStep(h)
  PROVE  SettlementTypeOK'
PROOF
<1>1. ASSUME NEW e \in Errand \cup {NULL}, Takes(h, e), UNCHANGED <<done, settlements, clock>>
      PROVE  SettlementTypeOK'
  BY <1>1 DEF Takes, SettlementTypeOK
<1>2. ASSUME NEW d \in Deliveries, Delivers(h, d)
      PROVE  SettlementTypeOK'
  <2>1. [step |-> "delivered", delivery |-> d, at |-> clock] \in Errand
    BY DEF Errand, SettlementTypeOK
  <2> QED
    BY <1>1, <1>2, <2>1 DEF Delivers
<1>3. ASSUME NEW d \in Deliveries, ReopensDelivery(h, d)
      PROVE  SettlementTypeOK'
  BY <1>3 DEF ReopensDelivery, SettlementTypeOK
<1>4. ASSUME NEW r \in Riders, NEW cash \in Cash, RecordSettlement(h, r, cash)
      PROVE  SettlementTypeOK'
  <2>1. [step |-> "last", rider |-> r, cash |-> cash] \in Errand
    BY CashAssumption DEF Errand
  <2> QED
    BY <1>1, <1>4, <2>1 DEF RecordSettlement
<1>5. TimePasses => clock' \in Time
  BY CashAssumption DEF TimePasses, SettlementTypeOK, Time
<1>6. CASE SaveDelivered(h)
  <2>1. till[h].delivery \in Deliveries /\ till[h].at \in Time
    BY <1>6 DEF SaveDelivered, Turns, SettlementTypeOK, Errand
  <2> QED
    BY <1>5, <1>6, <2>1 DEF SaveDelivered, Answers, Takes, SettlementTypeOK
<1>7. CASE ReadLast(h)
  <2> PICK r, cash : r = till[h].rider /\ cash = till[h].cash
    OBVIOUS
  <2>1. r \in Riders /\ cash \in Nat
    BY <1>7 DEF ReadLast, Turns, SettlementTypeOK, Errand
  <2>2. \A since \in Time, x \in Nat :
          [step |-> "deliveries", rider |-> r, cash |-> cash, since |-> since, previous |-> x] \in Errand
    BY <2>1 DEF Errand
  <2>3. 0 \in Time /\ \A s \in Of(r) : s.at \in Time /\ s.due \in Nat
    BY CashAssumption DEF Of, SettlementTypeOK, Settlement, Time
  <2>4. PICK since \in Time, x \in Nat :
          Takes(h, [step |-> "deliveries", rider |-> r, cash |-> cash, since |-> since, previous |-> x])
    BY <1>7, <2>3 DEF ReadLast
  <2> QED
    BY <1>1, <1>7, <2>2, <2>4 DEF ReadLast
<1>8. CASE ReadDeliveries(h)
  <2> PICK found : found = {d \in Deliveries :
                              /\ RiderOf[d] = till[h].rider
                              /\ done[d] # NULL /\ done[d] >= till[h].since}
    OBVIOUS
  <2>1. till[h].rider \in Riders /\ till[h].cash \in Nat /\ till[h].previous \in Nat
    BY <1>8 DEF ReadDeliveries, Turns, SettlementTypeOK, Errand
  <2>2. [step |-> "record", rider |-> till[h].rider, cash |-> till[h].cash,
         previous |-> till[h].previous, deliveries |-> found] \in Errand
    BY <2>1 DEF Errand
  <2> QED
    BY <1>1, <1>8, <2>2 DEF ReadDeliveries
<1>9. CASE InsertSettlement(h)
  <2> PICK e : e = till[h]
    OBVIOUS
  <2>1. /\ e.rider \in Riders /\ e.cash \in Nat /\ e.previous \in Nat
        /\ e.deliveries \subseteq Deliveries
    BY <1>9 DEF InsertSettlement, Turns, SettlementTypeOK, Errand
  <2>2. Sum(e.deliveries) \in Int
    BY <2>1, SumIsNumber
  <2> PICK o : o = Outcome(Sum(e.deliveries), e.previous, e.cash)
    OBVIOUS
  <2>3. o.due \in Nat /\ o.status \in SettlementStatus
    BY <2>1, <2>2 DEF Outcome, SettlementStatus
  <2>4. [rider |-> e.rider, at |-> clock, deliveries |-> e.deliveries, cash |-> e.cash,
         previous |-> e.previous, due |-> o.due, status |-> o.status] \in Settlement
    BY <2>1, <2>3 DEF Settlement, SettlementTypeOK
  <2>5. settlements' \subseteq Settlement /\ clock' \in Time
    BY <1>5, <1>9, <2>4 DEF InsertSettlement, SettlementTypeOK
  <2> QED
    BY <1>9, <2>5 DEF InsertSettlement, Answers, Takes, SettlementTypeOK
<1>10. CASE TillFails(h)
  BY <1>1, <1>10 DEF TillFails, Answers
<1> QED
  BY <1>2, <1>3, <1>4, <1>6, <1>7, <1>8, <1>9, <1>10 DEF TillStep

\* Settlements, transfer records and all that handlers have in their hands are
\* well-typed, whatever handlers interleave: what a rider owes is never negative, and
\* a settlement counts only deliveries.
THEOREM CashTypeCorrect ==
  ASSUME MaxClock > 0
  PROVE  CashSpec => [](SettlementTypeOK /\ TransferTypeOK)
PROOF
<1>1. CashInit => SettlementTypeOK
  BY CashAssumption DEF CashInit, SettlementInit, SettlementTypeOK, Time
<1>2. SettlementTypeOK /\ [CashNext]_<<settlementVars, transferVars>> => SettlementTypeOK'
  BY TillTyped DEF CashNext, SettlementNext, settlementVars, SettlementTypeOK
<1>3. TransferInv => TransferTypeOK
  BY DEF TransferInv
<1> QED
  BY <1>1, <1>2, <1>3, TransferInvInit, TransferInvStep, PTL DEF CashSpec, CashInit

=============================================================================
