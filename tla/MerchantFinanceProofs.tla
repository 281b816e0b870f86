----------------------- MODULE MerchantFinanceProofs -----------------------
(***************************************************************************)
(* What holds of invoices, balances and what is shown of them for any      *)
(* parcels, invoices, handlers and amounts.                                *)
(*                                                                         *)
(* Of MerchantInvoice: types, links only to invoices that counted the      *)
(* parcel, payment only by such an invoice, however stale the rows that    *)
(* handlers save; and, when requests are served one at a time, no parcel   *)
(* is billed twice and no invoice paid twice.  Of MerchantFinance: the     *)
(* invoice service within it behaves as MerchantInvoice says, its calls    *)
(* conserve what a merchant has, and, one request at a time, the balances  *)
(* agree with the invoices and with the ledger.                            *)
(***************************************************************************)
EXTENDS InvoiceViews, SumsProofs

\* What is true of a parcel's row, in the table or in the hands of a handler,
\* when the invoices are invs and those in done were paid.
Counts(invs, i, p) == invs[i] # NULL /\ p \in invs[i].items

RowOK(p, row, invs, done) ==
  /\ \A i \in Invoices : row.invoice = i => Counts(invs, i, p)
  /\ row.paid => \E i \in done : Counts(invs, i, p)

RequestOK(req, invs, done) ==
  /\ req.step \in {"find", "pay", "status", "finance"} => invs[req.invoice] # NULL
  /\ req.step = "pay" => \A p \in req.parcels : Counts(invs, req.invoice, p)
  /\ req.step = "parcel" => RowOK(req.parcel, req.row, invs, done)

RowsOK == \A p \in Parcels : RowOK(p, parcels[p], invoices, settled)
RequestsOK ==
  \A h \in Handlers : inflight[h] # NULL => RequestOK(inflight[h], invoices, settled)

Inv == TypeOK /\ RowsOK /\ RequestsOK

\* Invoices are never deleted, their items never change, payment is never
\* forgotten: what is true of a row stays true of it.
Grows(invs, next, done, later) ==
  /\ done \subseteq later /\ done \subseteq Invoices
  /\ \A i \in Invoices : invs[i] # NULL =>
       next[i] # NULL /\ next[i].items = invs[i].items

LEMMA RowStaysOK ==
  ASSUME NEW p, NEW row, NEW invs, NEW next, NEW done, NEW later,
         Grows(invs, next, done, later), RowOK(p, row, invs, done)
  PROVE  RowOK(p, row, next, later)
BY DEF Grows, RowOK, Counts

LEMMA RequestStaysOK ==
  ASSUME NEW req \in Request, NEW invs, NEW next, NEW done, NEW later,
         Grows(invs, next, done, later), RequestOK(req, invs, done)
  PROVE  RequestOK(req, next, later)
<1>1. CASE req.step = "parcel"
  BY <1>1, RowStaysOK DEF RequestOK
<1>2. CASE req.step = "pay"
  <2>1. req.invoice \in Invoices
    BY <1>2 DEF Request
  <2> QED
    BY <1>2, <2>1 DEF RequestOK, Grows, Counts
<1>3. CASE req.step \in {"find", "status", "finance"}
  <2>1. req.invoice \in Invoices
    BY <1>3 DEF Request
  <2> QED
    BY <1>3, <2>1 DEF RequestOK, Grows
<1> QED
  BY <1>1, <1>2, <1>3 DEF RequestOK

\* A step that grows the invoices and leaves rows and a request that are right
\* preserves the invariant.
LEMMA StepKeepsInv ==
  ASSUME Inv, Grows(invoices, invoices', settled, settled'), TypeOK',
         NEW h \in Handlers, NEW req \in Request \cup {NULL},
         inflight' = [inflight EXCEPT ![h] = req],
         \A p \in Parcels : \/ RowOK(p, parcels'[p], invoices, settled)
                            \/ RowOK(p, parcels'[p], invoices', settled'),
         req # NULL => RequestOK(req, invoices', settled')
  PROVE  Inv'
<1>1. RowsOK'
  BY RowStaysOK DEF RowsOK
<1>2. ASSUME NEW g \in Handlers, inflight'[g] # NULL
      PROVE  RequestOK(inflight'[g], invoices', settled')
  <2>1. CASE g = h
    BY <1>2, <2>1 DEF Inv, TypeOK
  <2>2. CASE g # h
    <3>1. inflight'[g] = inflight[g] /\ inflight[g] \in Request
      BY <1>2, <2>2 DEF Inv, TypeOK
    <3>2. RequestOK(inflight[g], invoices, settled)
      BY <1>2, <3>1 DEF Inv, RequestsOK
    <3> QED
      BY <3>1, <3>2, RequestStaysOK
  <2> QED
    BY <2>1, <2>2
<1> QED
  BY <1>1, <1>2 DEF Inv, RequestsOK

\* A handler that reads and goes on, or stops, changes its own request only.
LEMMA ReadKeepsInv ==
  ASSUME Inv, NEW h \in Handlers, NEW req \in Request \cup {NULL},
         inflight' = [inflight EXCEPT ![h] = req],
         UNCHANGED <<parcels, invoices, month, settled, again>>,
         req # NULL => RequestOK(req, invoices, settled)
  PROVE  Inv'
<1>1. TypeOK'
  BY DEF Inv, TypeOK
<1>2. Grows(invoices, invoices', settled, settled')
  BY DEF Inv, TypeOK, Grows
<1>3. \A p \in Parcels : RowOK(p, parcels'[p], invoices, settled)
  BY DEF Inv, RowsOK
<1>4. req # NULL => RequestOK(req, invoices', settled')
  OBVIOUS
<1> HIDE DEF Inv
<1> QED
  BY <1>1, <1>2, <1>3, <1>4, StepKeepsInv

-----------------------------------------------------------------------------
LEMMA BeginKeepsInv ==
  ASSUME Inv, NEW h \in Handlers, AdminStep(h) \/ OtherStep(h)
  PROVE  Inv'
<1>1. ASSUME NEW req \in Request, Begins(h, req), RequestOK(req, invoices, settled)
      PROVE  Inv'
  BY <1>1, ReadKeepsInv DEF Begins
<1>2. ASSUME NEW S \in SUBSET Parcels, GenerateInvoice(h, S)
      PROVE  Inv'
  <2> DEFINE req == [step |-> "create", parcels |-> S]
  <2>1. req \in Request
    BY <1>2 DEF GenerateInvoice, Request
  <2>2. RequestOK(req, invoices, settled)
    BY DEF RequestOK
  <2> QED
    BY <1>1, <1>2, <2>1, <2>2 DEF GenerateInvoice
<1>3. ASSUME NEW i \in Invoices, MarkInvoiceAsPaid(h, i)
      PROVE  Inv'
  <2> DEFINE req == [step |-> "find", invoice |-> i]
  <2>1. req \in Request
    BY DEF Request
  <2>2. RequestOK(req, invoices, settled)
    BY <1>3 DEF RequestOK, MarkInvoiceAsPaid, Exists
  <2> QED
    BY <1>1, <1>3, <2>1, <2>2 DEF MarkInvoiceAsPaid
<1>4. ASSUME NEW i \in Invoices, NEW to \in Patches, UpdateInvoiceStatus(h, i, to)
      PROVE  Inv'
  <2> DEFINE req == [step |-> "status", invoice |-> i, from |-> invoices[i].status, to |-> to]
  <2>1. invoices[i] \in Invoice /\ invoices[i].status \in InvoiceStatus
    BY <1>4 DEF Inv, TypeOK, UpdateInvoiceStatus, Exists, Invoice
  <2>2. req \in Request
    BY <2>1, ConstantsAssumption DEF Request
  <2>3. RequestOK(req, invoices, settled)
    BY <1>4 DEF RequestOK, UpdateInvoiceStatus, Exists
  <2> QED
    BY <1>1, <1>4, <2>2, <2>3 DEF UpdateInvoiceStatus
<1>5. ASSUME NEW p \in Parcels, Delivers(h, p)
      PROVE  Inv'
  <2> DEFINE row == [parcels[p] EXCEPT !.delivered = TRUE, !.paid = FALSE]
             req == [step |-> "parcel", parcel |-> p, row |-> row]
  <2>1. row \in Parcel /\ row.invoice = parcels[p].invoice /\ row.paid = FALSE
    BY DEF Inv, TypeOK, Parcel
  <2>2. req \in Request
    BY <2>1 DEF Request
  <2>3. RequestOK(req, invoices, settled)
    BY <2>1 DEF Inv, RowsOK, RowOK, RequestOK
  <2> QED
    BY <1>1, <1>5, <2>2, <2>3 DEF Delivers
<1>6. ASSUME NEW p \in Parcels, ReadsParcel(h, p)
      PROVE  Inv'
  <2> DEFINE req == [step |-> "parcel", parcel |-> p, row |-> parcels[p]]
  <2>1. req \in Request
    BY DEF Request, Inv, TypeOK
  <2>2. RequestOK(req, invoices, settled)
    BY DEF Inv, RowsOK, RequestOK
  <2> QED
    BY <1>1, <1>6, <2>1, <2>2 DEF ReadsParcel
<1> QED
  BY <1>2, <1>3, <1>4, <1>5, <1>6 DEF AdminStep, OtherStep

LEMMA NumberType == TypeOK => NextNumber \in Number
<1> SUFFICES ASSUME TypeOK PROVE NextNumber \in Number
  OBVIOUS
<1> DEFINE same == {i \in Invoices : Exists(i) /\ invoices[i].no = Literal(month)}
<1>1. Cardinality(same) \in Nat
  BY ConstantsAssumption, FS_Subset, FS_CardinalityType
<1> QED
  BY <1>1 DEF NextNumber, CountOf, Number, TypeOK

\* The row that the transaction inserts.
LEMMA NewInvoice ==
  ASSUME TypeOK, NEW S \in (SUBSET Parcels) \ {{}}
  PROVE  [no |-> NextNumber, merchant |-> MerchantOf[CHOOSE p \in S : TRUE],
          status |-> "UNPAID", items |-> S] \in Invoice
<1>1. (CHOOSE p \in S : TRUE) \in Parcels
  OBVIOUS
<1>2. MerchantOf[CHOOSE p \in S : TRUE] \in Merchants
  BY <1>1, ConstantsAssumption
<1>3. NextNumber \in Number
  BY NumberType
<1> QED
  BY <1>2, <1>3 DEF Invoice, InvoiceStatus

LEMMA CreateKeepsInv ==
  ASSUME Inv, NEW h \in Handlers, CreateInvoice(h)
  PROVE  Inv'
<1> DEFINE S == inflight[h].parcels
<1>1. S \in (SUBSET Parcels) \ {{}}
  BY DEF CreateInvoice, At, Inv, TypeOK, Request
<1>2. UNCHANGED <<month, settled, again>>
  BY DEF CreateInvoice
<1>3. ASSUME NEW i \in Invoices, InsertInvoice(h, i)
      PROVE  Inv'
  <2> DEFINE new == [no |-> NextNumber, merchant |-> MerchantOf[CHOOSE p \in S : TRUE],
                     status |-> "UNPAID", items |-> S]
             req == [step |-> "finance", invoice |-> i, move |-> "invoiced"]
  <2>1. /\ invoices[i] = NULL
        /\ invoices' = [invoices EXCEPT ![i] = new]
        /\ parcels' = Linked(S, i)
        /\ inflight' = [inflight EXCEPT ![h] = req]
    BY <1>3 DEF InsertInvoice, CallsFinance, Goes, Exists
  <2>2. new \in Invoice
    BY <1>1, NewInvoice DEF Inv
  <2>3. new # NULL /\ new.items = S
    BY <2>2, NullIsNothing
  <2>4. req \in Request /\ RequestOK(req, invoices', settled')
    <3>1. invoices'[i] # NULL
      BY <2>1, <2>3 DEF Inv, TypeOK
    <3> QED
      BY <3>1 DEF Request, Moves, RequestOK
  <2>5. parcels' \in [Parcels -> Parcel]
    BY <2>1 DEF Linked, Inv, TypeOK, Parcel, FinancialStatus
  <2> HIDE DEF new
  <2>6. TypeOK'
    BY <1>2, <2>1, <2>2, <2>4, <2>5 DEF Inv, TypeOK
  <2>7. Grows(invoices, invoices', settled, settled')
    BY <1>2, <2>1, <2>2, <2>3 DEF Inv, TypeOK, Grows
  <2>8. ASSUME NEW p \in Parcels
        PROVE  \/ RowOK(p, parcels'[p], invoices, settled)
               \/ RowOK(p, parcels'[p], invoices', settled')
    <3>1. RowOK(p, parcels[p], invoices, settled)
      BY DEF Inv, RowsOK
    <3>2. CASE p \in S
      <4>1. parcels'[p].invoice = i /\ parcels'[p].paid = parcels[p].paid
        BY <2>1, <3>2 DEF Linked, Inv, TypeOK, Parcel
      <4>2. Counts(invoices', i, p)
        BY <2>1, <2>3, <3>2 DEF Counts, Inv, TypeOK
      <4>3. RowOK(p, parcels[p], invoices', settled')
        BY <2>7, <3>1, RowStaysOK
      <4> QED
        BY <4>1, <4>2, <4>3 DEF RowOK
    <3>3. CASE p \notin S
      <4>1. parcels'[p] = parcels[p]
        BY <2>1, <3>3 DEF Linked
      <4> QED
        BY <3>1, <4>1
    <3> QED
      BY <3>2, <3>3
  <2> HIDE DEF req
  <2> QED
    BY <2>1, <2>4, <2>6, <2>7, <2>8, StepKeepsInv
<1>4. ASSUME Responds(h), UNCHANGED <<parcels, invoices>>
      PROVE  Inv'
  BY <1>2, <1>4, ReadKeepsInv DEF Responds, Goes
<1> QED
  BY <1>3, <1>4 DEF CreateInvoice

\* Only the status of an invoice changes.
LEMMA StatusGrows ==
  ASSUME TypeOK, NEW i \in Invoices, invoices[i] # NULL, NEW status \in InvoiceStatus,
         invoices' = [invoices EXCEPT ![i].status = status],
         settled \subseteq settled'
  PROVE  /\ invoices' \in [Invoices -> Invoice \cup {NULL}]
         /\ Grows(invoices, invoices', settled, settled')
<1> DEFINE new == [invoices[i] EXCEPT !.status = status]
<1>1. invoices[i] \in Invoice
  BY DEF TypeOK
<1>2. new \in Invoice /\ new.items = invoices[i].items
  BY <1>1 DEF Invoice
<1>3. invoices' = [invoices EXCEPT ![i] = new]
  BY DEF TypeOK
<1> HIDE DEF new
<1>4. new # NULL
  BY <1>2, NullIsNothing
<1> QED
  BY <1>2, <1>3, <1>4 DEF TypeOK, Grows

LEMMA StatusKeepsRest ==
  ASSUME TypeOK, NEW i \in Invoices, invoices[i] # NULL, NEW status \in InvoiceStatus,
         invoices' = [invoices EXCEPT ![i].status = status]
  PROVE  \A j \in Invoices : /\ invoices'[j] # NULL <=> invoices[j] # NULL
                             /\ invoices[j] # NULL => invoices'[j].merchant = invoices[j].merchant
<1> PICK new : new = [invoices[i] EXCEPT !.status = status]
  OBVIOUS
<1>1. invoices[i] \in Invoice
  BY DEF TypeOK
<1>2. new \in Invoice /\ new.merchant = invoices[i].merchant
  BY <1>1 DEF Invoice
<1>3. new # NULL
  BY <1>2, NullIsNothing
<1>4. invoices'[i] = new /\ \A j \in Invoices \ {i} : invoices'[j] = invoices[j]
  BY DEF TypeOK
<1> QED
  BY <1>2, <1>3, <1>4

LEMMA PayKeepsInv ==
  ASSUME Inv, NEW h \in Handlers, PayInvoice(h)
  PROVE  Inv'
<1> DEFINE i == inflight[h].invoice
           S == inflight[h].parcels
           req == [step |-> "finance", invoice |-> i, move |-> "payment"]
<1>1. i \in Invoices /\ S \subseteq Parcels
  BY DEF PayInvoice, At, Inv, TypeOK, Request
<1>2. invoices[i] # NULL /\ \A p \in S : Counts(invoices, i, p)
  BY DEF PayInvoice, At, Inv, RequestsOK, RequestOK
<1>3. /\ invoices' = [invoices EXCEPT ![i].status = "PAID"]
      /\ settled' = settled \cup {i}
      /\ again' = again \cup (settled \cap {i})
      /\ parcels' = Paid(S)
      /\ inflight' = [inflight EXCEPT ![h] = req]
      /\ month' = month
  BY DEF PayInvoice, CallsFinance, Goes
<1>4. /\ invoices' \in [Invoices -> Invoice \cup {NULL}]
      /\ Grows(invoices, invoices', settled, settled')
  BY <1>1, <1>2, <1>3, StatusGrows DEF InvoiceStatus, Inv
<1>5. req \in Request /\ RequestOK(req, invoices', settled')
  <2>1. invoices'[i] # NULL
    BY <1>1, <1>2, <1>4 DEF Grows
  <2> QED
    BY <1>1, <2>1 DEF Request, Moves, RequestOK
<1>6. parcels' \in [Parcels -> Parcel]
  BY <1>3 DEF Paid, Inv, TypeOK, Parcel, FinancialStatus
<1> HIDE DEF req
<1>7. TypeOK'
  BY <1>1, <1>3, <1>4, <1>5, <1>6 DEF Inv, TypeOK
<1>8. ASSUME NEW p \in Parcels
      PROVE  \/ RowOK(p, parcels'[p], invoices, settled)
             \/ RowOK(p, parcels'[p], invoices', settled')
  <2>1. RowOK(p, parcels[p], invoices, settled)
    BY DEF Inv, RowsOK
  <2>2. CASE p \in S
    <3>1. parcels'[p].invoice = parcels[p].invoice
      BY <1>3, <2>2 DEF Paid, Inv, TypeOK, Parcel
    <3>2. Counts(invoices', i, p)
      BY <1>1, <1>2, <1>4, <2>2 DEF Counts, Grows
    <3>3. RowOK(p, parcels[p], invoices', settled')
      BY <1>4, <2>1, RowStaysOK
    <3> QED
      BY <1>3, <3>1, <3>2, <3>3 DEF RowOK
  <2>3. CASE p \notin S
    <3>1. parcels'[p] = parcels[p]
      BY <1>3, <2>3 DEF Paid
    <3> QED
      BY <2>1, <3>1
  <2> QED
    BY <2>2, <2>3
<1> HIDE DEF i, S
<1> QED
  BY <1>3, <1>4, <1>5, <1>7, <1>8, StepKeepsInv

LEMMA SaveStatusKeepsInv ==
  ASSUME Inv, NEW h \in Handlers, SaveStatus(h)
  PROVE  Inv'
<1> DEFINE i == inflight[h].invoice
           to == inflight[h].to
<1>1. i \in Invoices /\ to \in InvoiceStatus /\ invoices[i] # NULL
  BY DEF SaveStatus, At, Inv, TypeOK, RequestsOK, RequestOK, Request
<1>2. /\ invoices' = [invoices EXCEPT ![i].status = to]
      /\ UNCHANGED <<parcels, month, settled, again>>
  BY DEF SaveStatus
<1>3. PICK req \in Request \cup {NULL} :
        /\ inflight' = [inflight EXCEPT ![h] = req]
        /\ req # NULL => req.step = "finance" /\ req.invoice = i
  <2>1. \/ CallsFinance(h, i, "processing")
        \/ CallsFinance(h, i, "back")
        \/ Responds(h)
    BY DEF SaveStatus
  <2>2. ASSUME NEW move \in Moves, CallsFinance(h, i, move)
        PROVE  \E req \in Request \cup {NULL} :
                 /\ inflight' = [inflight EXCEPT ![h] = req]
                 /\ req # NULL => req.step = "finance" /\ req.invoice = i
    <3> DEFINE req == [step |-> "finance", invoice |-> i, move |-> move]
    <3>1. req \in Request /\ req.step = "finance" /\ req.invoice = i
      BY <1>1 DEF Request
    <3>2. inflight' = [inflight EXCEPT ![h] = req]
      BY <2>2 DEF CallsFinance, Goes
    <3> HIDE DEF req
    <3> QED
      BY <3>1, <3>2
  <2> HIDE DEF i
  <2> QED
    BY <2>1, <2>2 DEF Responds, Goes, Moves
<1>4. /\ invoices' \in [Invoices -> Invoice \cup {NULL}]
      /\ Grows(invoices, invoices', settled, settled')
  BY <1>1, <1>2, StatusGrows DEF Inv
<1>5. TypeOK'
  BY <1>2, <1>3, <1>4 DEF Inv, TypeOK
<1>6. req # NULL => RequestOK(req, invoices', settled')
  BY <1>1, <1>3, <1>4 DEF RequestOK, Grows
<1>7. \A p \in Parcels : RowOK(p, parcels'[p], invoices, settled)
  BY <1>2 DEF Inv, RowsOK
<1> QED
  BY <1>3, <1>4, <1>5, <1>6, <1>7, StepKeepsInv

LEMMA ContinueKeepsInv ==
  ASSUME Inv, NEW h \in Handlers, Continue(h)
  PROVE  Inv'
<1>1. CASE CreateInvoice(h)
  BY <1>1, CreateKeepsInv
<1>2. CASE FindParcels(h)
  <2> DEFINE i   == inflight[h].invoice
             S   == {p \in Parcels : parcels[p].invoice = i}
             req == [step |-> "pay", invoice |-> i, parcels |-> S]
  <2>1. i \in Invoices /\ invoices[i] # NULL
    BY <1>2 DEF FindParcels, At, Inv, TypeOK, RequestsOK, RequestOK, Request
  <2>2. req \in Request
    BY <2>1 DEF Request
  <2>3. \A p \in S : Counts(invoices, i, p)
    BY <2>1 DEF Inv, RowsOK, RowOK
  <2>4. RequestOK(req, invoices, settled)
    BY <2>1, <2>3 DEF RequestOK
  <2>5. /\ inflight' = [inflight EXCEPT ![h] = req]
        /\ UNCHANGED <<parcels, invoices, month, settled, again>>
    BY <1>2 DEF FindParcels, Goes
  <2> HIDE DEF req
  <2> QED
    BY <2>2, <2>4, <2>5, ReadKeepsInv
<1>3. CASE PayInvoice(h)
  BY <1>3, PayKeepsInv
<1>4. CASE SaveStatus(h)
  BY <1>4, SaveStatusKeepsInv
<1>5. CASE FinanceCall(h)
  BY <1>5, ReadKeepsInv DEF FinanceCall, Responds, Goes
<1>6. CASE SaveParcel(h)
  <2> DEFINE p   == inflight[h].parcel
             row == inflight[h].row
  <2>1. p \in Parcels /\ row \in Parcel /\ RowOK(p, row, invoices, settled)
    BY <1>6 DEF SaveParcel, At, Inv, TypeOK, RequestsOK, RequestOK, Request
  <2>2. /\ parcels' = [parcels EXCEPT ![p] = row]
        /\ inflight' = [inflight EXCEPT ![h] = NULL]
        /\ UNCHANGED <<invoices, month, settled, again>>
    BY <1>6 DEF SaveParcel, Responds, Goes
  <2> HIDE DEF p, row
  <2>3. TypeOK'
    BY <2>1, <2>2 DEF Inv, TypeOK
  <2>4. Grows(invoices, invoices', settled, settled')
    BY <2>2 DEF Inv, TypeOK, Grows
  <2>5. \A q \in Parcels : RowOK(q, parcels'[q], invoices, settled)
    BY <2>1, <2>2 DEF Inv, TypeOK, RowsOK
  <2> QED
    BY <2>2, <2>3, <2>4, <2>5, StepKeepsInv
<1> QED
  BY <1>1, <1>2, <1>3, <1>4, <1>5, <1>6 DEF Continue

LEMMA InitInv == Init => Inv
<1> SUFFICES ASSUME Init PROVE Inv
  OBVIOUS
<1>1. NewParcel \in Parcel /\ NewParcel.invoice = NULL /\ NewParcel.paid = FALSE
  BY DEF NewParcel, Parcel, FinancialStatus
<1>2. TypeOK
  BY <1>1, ConstantsAssumption DEF Init, TypeOK, Months
<1>3. RowsOK
  BY <1>1, NullIsNothing DEF Init, RowsOK, RowOK
<1> QED
  BY <1>2, <1>3 DEF Init, Inv, RequestsOK

LEMMA NextKeepsInv == Inv /\ [Next]_vars => Inv'
<1> SUFFICES ASSUME Inv, [Next]_vars PROVE Inv'
  OBVIOUS
<1>1. ASSUME NEW h \in Handlers, AdminStep(h) \/ OtherStep(h)
      PROVE  Inv'
  BY <1>1, BeginKeepsInv
<1>2. ASSUME NEW h \in Handlers, Continue(h)
      PROVE  Inv'
  BY <1>2, ContinueKeepsInv
<1>3. ASSUME NEW h \in Handlers, Abandon(h)
      PROVE  Inv'
  BY <1>3, ReadKeepsInv DEF Abandon, Responds, Goes
<1>4. CASE MonthPasses
  BY <1>4, ConstantsAssumption
  DEF MonthPasses, Inv, TypeOK, RowsOK, RequestsOK, Months
<1>5. CASE UNCHANGED vars
  BY <1>5 DEF vars, Inv, TypeOK, RowsOK, RequestsOK
<1> QED
  BY <1>1, <1>2, <1>3, <1>4, <1>5 DEF Next

-----------------------------------------------------------------------------
\* The tables and the requests in progress are well-typed, whatever handlers
\* interleave.
THEOREM TypeCorrect == Spec => []TypeOK
<1>1. Inv => TypeOK
  BY DEF Inv
<1> QED
  BY <1>1, InitInv, NextKeepsInv, PTL DEF Spec

\* A parcel is linked only to an invoice whose amount counted it, for any
\* number of handlers and any stale save of a parcel.
THEOREM LinkedAreBilled == Spec => []LinkedWasBilled
<1>1. Inv => LinkedWasBilled
  BY DEF Inv, RowsOK, RowOK, Counts, LinkedWasBilled, Bills, Exists
<1> QED
  BY <1>1, InitInv, NextKeepsInv, PTL DEF Spec

\* A parcel is marked paid to the merchant only by an invoice that counted it
\* and was paid, for any number of handlers and any stale save of a parcel.
THEOREM PaidAreBilled == Spec => []PaidWasBilled
<1>1. Inv => PaidWasBilled
  BY DEF Inv, RowsOK, RowOK, Counts, PaidWasBilled, Bills, Exists
<1> QED
  BY <1>1, InitInv, NextKeepsInv, PTL DEF Spec

-----------------------------------------------------------------------------
(* Requests one at a time.                                                 *)

OneHandler == \A g, h \in Handlers : g = h

BilledIsLinked ==
  \A p \in Parcels, i \in Invoices : Bills(i, p) => parcels[p].invoice = i

\* What a handler read of the parcels is still so.
Fresh(req) ==
  /\ req.step = "create" => \A p \in req.parcels : parcels[p].invoice = NULL
  /\ req.step = "parcel" => req.row.invoice = parcels[req.parcel].invoice

RequestsFresh == \A h \in Handlers : inflight[h] # NULL => Fresh(inflight[h])

Serial == Inv /\ BilledIsLinked /\ RequestsFresh

\* A statement that ends its handler's reading leaves nothing to go stale.
LEMMA OthersIdle ==
  ASSUME OneHandler, Inv, NEW h \in Handlers, NEW req,
         inflight' = [inflight EXCEPT ![h] = req],
         req # NULL => req.step \notin {"create", "parcel"}
  PROVE  RequestsFresh'
<1>1. \A g \in Handlers : inflight'[g] = req
  BY DEF OneHandler, Inv, TypeOK
<1> QED
  BY <1>1 DEF RequestsFresh, Fresh

LEMMA BeginSerial ==
  ASSUME OneHandler, Serial, NEW h \in Handlers, AdminStep(h) \/ OtherStep(h)
  PROVE  BilledIsLinked' /\ RequestsFresh'
<1>1. ASSUME NEW req, Begins(h, req), Fresh(req)
      PROVE  BilledIsLinked' /\ RequestsFresh'
  <2>1. UNCHANGED <<parcels, invoices>> /\ inflight' = [inflight EXCEPT ![h] = req]
    BY <1>1 DEF Begins
  <2>2. \A g \in Handlers : inflight'[g] = req
    BY <2>1 DEF OneHandler, Serial, Inv, TypeOK
  <2>3. RequestsFresh'
    BY <1>1, <2>1, <2>2 DEF RequestsFresh, Fresh
  <2>4. BilledIsLinked'
    BY <2>1 DEF Serial, BilledIsLinked, Bills, Exists
  <2> QED
    BY <2>3, <2>4
<1>2. ASSUME NEW S \in SUBSET Parcels, GenerateInvoice(h, S)
      PROVE  BilledIsLinked' /\ RequestsFresh'
  BY <1>1, <1>2 DEF GenerateInvoice, Billable, Fresh
<1>3. ASSUME NEW i \in Invoices, MarkInvoiceAsPaid(h, i)
      PROVE  BilledIsLinked' /\ RequestsFresh'
  BY <1>1, <1>3 DEF MarkInvoiceAsPaid, Fresh
<1>4. ASSUME NEW i \in Invoices, NEW to \in Patches, UpdateInvoiceStatus(h, i, to)
      PROVE  BilledIsLinked' /\ RequestsFresh'
  BY <1>1, <1>4 DEF UpdateInvoiceStatus, Fresh
<1>5. ASSUME NEW p \in Parcels, Delivers(h, p)
      PROVE  BilledIsLinked' /\ RequestsFresh'
  <2> DEFINE row == [parcels[p] EXCEPT !.delivered = TRUE, !.paid = FALSE]
  <2>1. row.invoice = parcels[p].invoice
    BY DEF Serial, Inv, TypeOK, Parcel
  <2> QED
    BY <1>1, <1>5, <2>1 DEF Delivers, Fresh
<1>6. ASSUME NEW p \in Parcels, ReadsParcel(h, p)
      PROVE  BilledIsLinked' /\ RequestsFresh'
  BY <1>1, <1>6 DEF ReadsParcel, Fresh
<1> QED
  BY <1>2, <1>3, <1>4, <1>5, <1>6 DEF AdminStep, OtherStep

LEMMA CreateSerial ==
  ASSUME OneHandler, Serial, NEW h \in Handlers, CreateInvoice(h)
  PROVE  BilledIsLinked' /\ RequestsFresh'
<1> DEFINE S == inflight[h].parcels
<1>1. S \subseteq Parcels
  BY DEF CreateInvoice, At, Serial, Inv, TypeOK, Request
<1>2. \A p \in S : parcels[p].invoice = NULL
  BY DEF CreateInvoice, At, Serial, RequestsFresh, Fresh
<1>3. ASSUME NEW i \in Invoices, InsertInvoice(h, i)
      PROVE  BilledIsLinked' /\ RequestsFresh'
  <2>1. /\ parcels' = Linked(S, i)
        /\ \A j \in Invoices : j # i => invoices'[j] = invoices[j]
        /\ invoices'[i].items = S
    BY <1>3 DEF InsertInvoice, Serial, Inv, TypeOK
  <2>2. ASSUME NEW p \in Parcels, NEW j \in Invoices, Bills(j, p)'
        PROVE  parcels'[p].invoice = j
    <3>1. CASE j = i
      <4>1. p \in S
        BY <2>1, <2>2, <3>1 DEF Bills
      <4> QED
        BY <2>1, <3>1, <4>1 DEF Linked, Serial, Inv, TypeOK, Parcel
    <3>2. CASE j # i
      <4>1. parcels[p].invoice = j
        BY <2>1, <2>2, <3>2 DEF Bills, Exists, Serial, BilledIsLinked
      <4>2. p \notin S
        BY <1>2, <4>1, NullIsNothing
      <4> QED
        BY <2>1, <4>1, <4>2 DEF Linked
    <3> QED
      BY <3>1, <3>2
  <2>3. RequestsFresh'
    BY <1>3, OthersIdle DEF InsertInvoice, CallsFinance, Goes, Serial
  <2> QED
    BY <2>2, <2>3 DEF BilledIsLinked
<1>4. ASSUME Responds(h), UNCHANGED <<parcels, invoices>>
      PROVE  BilledIsLinked' /\ RequestsFresh'
  BY <1>4, OthersIdle DEF Responds, Goes, Serial, BilledIsLinked, Bills, Exists
<1> QED
  BY <1>3, <1>4 DEF CreateInvoice

\* A statement that neither bills nor links anything.
LEMMA LinksStay ==
  ASSUME OneHandler, Serial, NEW h \in Handlers, NEW req,
         inflight' = [inflight EXCEPT ![h] = req],
         req # NULL => req.step \notin {"create", "parcel"},
         \A p \in Parcels : parcels'[p].invoice = parcels[p].invoice,
         \A i \in Invoices :
           Exists(i)' => Exists(i) /\ invoices'[i].items = invoices[i].items
  PROVE  BilledIsLinked' /\ RequestsFresh'
<1>1. RequestsFresh'
  BY OthersIdle DEF Serial
<1>2. BilledIsLinked'
  BY DEF Serial, BilledIsLinked, Bills
<1> QED
  BY <1>1, <1>2

LEMMA ContinueSerial ==
  ASSUME OneHandler, Serial, NEW h \in Handlers, Continue(h)
  PROVE  BilledIsLinked' /\ RequestsFresh'
<1>0. \A i \in Invoices, status \in InvoiceStatus :
        invoices[i] # NULL /\ invoices' = [invoices EXCEPT ![i].status = status] =>
          \A j \in Invoices :
            Exists(j)' => Exists(j) /\ invoices'[j].items = invoices[j].items
  BY DEF Exists, Serial, Inv, TypeOK, Invoice
<1>1. CASE CreateInvoice(h)
  BY <1>1, CreateSerial
<1>2. CASE FindParcels(h)
  BY <1>2, LinksStay DEF FindParcels, Goes, Exists
<1>3. CASE PayInvoice(h)
  <2> DEFINE i == inflight[h].invoice
  <2>1. i \in Invoices /\ invoices[i] # NULL
    BY <1>3 DEF PayInvoice, At, Serial, Inv, TypeOK, RequestsOK, RequestOK, Request
  <2>2. invoices' = [invoices EXCEPT ![i].status = "PAID"]
    BY <1>3 DEF PayInvoice
  <2>3. \A p \in Parcels : parcels'[p].invoice = parcels[p].invoice
    BY <1>3 DEF PayInvoice, Paid, Serial, Inv, TypeOK, Parcel
  <2>4. \A j \in Invoices : Exists(j)' => Exists(j) /\ invoices'[j].items = invoices[j].items
    BY <1>0, <2>1, <2>2 DEF InvoiceStatus
  <2> QED
    BY <1>3, <2>3, <2>4, LinksStay DEF PayInvoice, CallsFinance, Goes
<1>4. CASE SaveStatus(h)
  <2> DEFINE i == inflight[h].invoice
             to == inflight[h].to
  <2>1. i \in Invoices /\ invoices[i] # NULL /\ to \in InvoiceStatus
    BY <1>4 DEF SaveStatus, At, Serial, Inv, TypeOK, RequestsOK, RequestOK, Request
  <2>2. invoices' = [invoices EXCEPT ![i].status = to] /\ parcels' = parcels
    BY <1>4 DEF SaveStatus
  <2>3. \A j \in Invoices : Exists(j)' => Exists(j) /\ invoices'[j].items = invoices[j].items
    BY <1>0, <2>1, <2>2
  <2>4. \/ CallsFinance(h, i, "processing")
        \/ CallsFinance(h, i, "back")
        \/ Responds(h)
    BY <1>4 DEF SaveStatus
  <2> HIDE DEF i, to
  <2> QED
    BY <2>2, <2>3, <2>4, LinksStay DEF CallsFinance, Responds, Goes
<1>5. CASE FinanceCall(h)
  BY <1>5, LinksStay DEF FinanceCall, Responds, Goes, Exists
<1>6. CASE SaveParcel(h)
  <2> DEFINE p   == inflight[h].parcel
             row == inflight[h].row
  <2>1. p \in Parcels /\ row.invoice = parcels[p].invoice
    BY <1>6 DEF SaveParcel, At, Serial, Inv, TypeOK, RequestsFresh, Fresh, Request
  <2>2. parcels' = [parcels EXCEPT ![p] = row]
    BY <1>6 DEF SaveParcel
  <2>3. \A q \in Parcels : parcels'[q].invoice = parcels[q].invoice
    BY <2>1, <2>2 DEF Serial, Inv, TypeOK
  <2> QED
    BY <1>6, <2>3, LinksStay DEF SaveParcel, Responds, Goes, Exists
<1> QED
  BY <1>1, <1>2, <1>3, <1>4, <1>5, <1>6 DEF Continue

LEMMA NextSerial == OneHandler => (Serial /\ [Next]_vars => Serial')
<1> SUFFICES ASSUME OneHandler, Serial, [Next]_vars PROVE Serial'
  OBVIOUS
<1>1. Inv'
  BY NextKeepsInv DEF Serial
<1>2. ASSUME NEW h \in Handlers, AdminStep(h) \/ OtherStep(h)
      PROVE  Serial'
  BY <1>1, <1>2, BeginSerial DEF Serial
<1>3. ASSUME NEW h \in Handlers, Continue(h)
      PROVE  Serial'
  BY <1>1, <1>3, ContinueSerial DEF Serial
<1>4. ASSUME NEW h \in Handlers, Abandon(h)
      PROVE  Serial'
  BY <1>1, <1>4, LinksStay DEF Abandon, Responds, Goes, Exists, Serial
<1>5. CASE MonthPasses
  BY <1>1, <1>5
  DEF MonthPasses, Serial, BilledIsLinked, Bills, Exists, RequestsFresh, Fresh
<1>6. CASE UNCHANGED vars
  BY <1>1, <1>6 DEF vars, Serial, BilledIsLinked, Bills, Exists, RequestsFresh, Fresh
<1> QED
  BY <1>2, <1>3, <1>4, <1>5, <1>6 DEF Next

\* "Parcels can only be invoiced once": true as long as requests are served
\* one at a time, with other services' saves among them, a crash between any
\* two statements, and any number of months.
THEOREM OneBill == OneHandler => (Spec => []BilledOnce)
<1> SUFFICES ASSUME OneHandler PROVE Spec => []BilledOnce
  OBVIOUS
<1>1. Init => Serial
  BY InitInv DEF Init, Serial, BilledIsLinked, Bills, Exists, RequestsFresh
<1>2. Serial /\ [Next]_vars => Serial'
  BY NextSerial
<1>3. Serial => BilledOnce
  BY DEF Serial, BilledIsLinked, BilledOnce
<1> QED
  BY <1>1, <1>2, <1>3, PTL DEF Spec

-----------------------------------------------------------------------------
(* Payment, requests one at a time.                                        *)

SettledArePaid == \A i \in settled : Exists(i) /\ invoices[i].status = "PAID"

\* What the link of a row, which Serial ties to the invoice that counted the
\* parcel, says of its financial_status.
StatusBy(link, done) ==
  IF link = NULL THEN "PENDING" ELSE IF link \in done THEN "PAID" ELSE "INVOICED"

LinkTells == \A p \in Parcels : parcels[p].financial = StatusBy(parcels[p].invoice, settled)

\* The invoice a handler works on has not been paid since, and the rows it
\* holds are those of the table.
Current(req, rows, done) ==
  /\ req.step \in {"find", "pay", "status"} => req.invoice \notin done
  /\ req.step = "pay" =>
       \A p \in Parcels : p \in req.parcels <=> rows[p].invoice = req.invoice
  /\ req.step = "parcel" => req.row.financial = rows[req.parcel].financial

RequestsCurrent ==
  \A h \in Handlers : inflight[h] # NULL => Current(inflight[h], parcels, settled)

Books == PaidOnce /\ SettledArePaid /\ LinkTells /\ RequestsCurrent

LEMMA OnlyRequest ==
  ASSUME OneHandler, Inv, NEW h \in Handlers, NEW req,
         inflight' = [inflight EXCEPT ![h] = req],
         req # NULL => Current(req, parcels', settled')
  PROVE  RequestsCurrent'
<1>1. \A g \in Handlers : inflight'[g] = req
  BY DEF OneHandler, Inv, TypeOK
<1> QED
  BY <1>1 DEF RequestsCurrent

\* A step that writes neither table.
LEMMA ReadKeepsBooks ==
  ASSUME OneHandler, Inv, Books, NEW h \in Handlers, NEW req,
         inflight' = [inflight EXCEPT ![h] = req],
         UNCHANGED <<parcels, invoices, settled, again>>,
         req # NULL => Current(req, parcels, settled)
  PROVE  Books'
<1>1. RequestsCurrent'
  BY OnlyRequest
<1>2. PaidOnce' /\ SettledArePaid' /\ LinkTells'
  BY DEF Books, PaidOnce, SettledArePaid, LinkTells, StatusBy, Exists
<1> QED
  BY <1>1, <1>2 DEF Books

LEMMA BeginKeepsBooks ==
  ASSUME OneHandler, Inv, Books, NEW h \in Handlers, AdminStep(h) \/ OtherStep(h)
  PROVE  Books'
<1>1. ASSUME NEW req, Begins(h, req), Current(req, parcels, settled)
      PROVE  Books'
  BY <1>1, ReadKeepsBooks DEF Begins
<1>2. ASSUME NEW S \in SUBSET Parcels, GenerateInvoice(h, S)
      PROVE  Books'
  BY <1>1, <1>2 DEF GenerateInvoice, Current
<1>3. \A i \in Invoices : invoices[i].status # "PAID" => i \notin settled
  BY DEF Books, SettledArePaid
<1>4. ASSUME NEW i \in Invoices, MarkInvoiceAsPaid(h, i)
      PROVE  Books'
  BY <1>1, <1>3, <1>4 DEF MarkInvoiceAsPaid, Current
<1>5. ASSUME NEW i \in Invoices, NEW to \in Patches, UpdateInvoiceStatus(h, i, to)
      PROVE  Books'
  BY <1>1, <1>3, <1>5 DEF UpdateInvoiceStatus, Current
<1>6. ASSUME NEW p \in Parcels, Delivers(h, p)
      PROVE  Books'
  <2>1. [parcels[p] EXCEPT !.delivered = TRUE, !.paid = FALSE].financial = parcels[p].financial
    BY DEF Inv, TypeOK, Parcel
  <2> QED
    BY <1>1, <1>6, <2>1 DEF Delivers, Current
<1>7. ASSUME NEW p \in Parcels, ReadsParcel(h, p)
      PROVE  Books'
  BY <1>1, <1>7 DEF ReadsParcel, Current
<1> QED
  BY <1>2, <1>4, <1>5, <1>6, <1>7 DEF AdminStep, OtherStep

LEMMA CreateKeepsBooks ==
  ASSUME OneHandler, Serial, Books, NEW h \in Handlers, CreateInvoice(h)
  PROVE  Books'
<1> DEFINE S == inflight[h].parcels
<1>1. UNCHANGED <<settled, again>> /\ Inv
  BY DEF CreateInvoice, Serial
<1>2. ASSUME NEW i \in Invoices, InsertInvoice(h, i)
      PROVE  Books'
  <2>1. /\ ~Exists(i)
        /\ \A j \in Invoices : j # i => invoices'[j] = invoices[j]
        /\ parcels' = Linked(S, i)
    BY <1>2 DEF InsertInvoice, Serial, Inv, TypeOK
  <2>2. i \notin settled
    BY <2>1 DEF Books, SettledArePaid
  <2>3. SettledArePaid'
    BY <1>1, <2>1, <2>2 DEF Books, SettledArePaid, Exists, Inv, TypeOK
  <2>4. ASSUME NEW p \in Parcels
        PROVE  parcels'[p].financial = StatusBy(parcels'[p].invoice, settled')
    <3>1. CASE p \in S
      <4>1. parcels'[p].invoice = i /\ parcels'[p].financial = "INVOICED"
        BY <1>1, <2>1, <3>1 DEF Linked, Inv, TypeOK, Parcel
      <4> QED
        BY <1>1, <2>2, <4>1, NullIsNothing DEF StatusBy
    <3>2. CASE p \notin S
      BY <1>1, <2>1, <3>2 DEF Linked, Books, LinkTells
    <3> QED
      BY <3>1, <3>2
  <2>5. RequestsCurrent'
    BY <1>1, <1>2, OnlyRequest DEF InsertInvoice, CallsFinance, Goes, Current
  <2> QED
    BY <1>1, <2>3, <2>4, <2>5 DEF Books, LinkTells, PaidOnce
<1>3. ASSUME Responds(h), UNCHANGED <<parcels, invoices>>
      PROVE  Books'
  BY <1>1, <1>3, ReadKeepsBooks DEF Responds, Goes
<1> QED
  BY <1>2, <1>3 DEF CreateInvoice

LEMMA PayKeepsBooks ==
  ASSUME OneHandler, Serial, Books, NEW h \in Handlers, PayInvoice(h)
  PROVE  Books'
<1> DEFINE i == inflight[h].invoice
           S == inflight[h].parcels
<1>1. /\ Inv
      /\ i \in Invoices /\ i \notin settled
      /\ invoices[i] # NULL /\ invoices[i] \in Invoice
      /\ \A p \in Parcels : p \in S <=> parcels[p].invoice = i
  <2>1. Inv
    BY DEF Serial
  <2>2. i \in Invoices /\ invoices[i] # NULL
    BY <2>1 DEF PayInvoice, At, Inv, TypeOK, RequestsOK, RequestOK, Request
  <2>3. i \notin settled /\ \A p \in Parcels : p \in S <=> parcels[p].invoice = i
    BY DEF PayInvoice, At, Books, RequestsCurrent, Current
  <2> QED
    BY <2>1, <2>2, <2>3 DEF Inv, TypeOK
<1>2. /\ invoices' = [invoices EXCEPT ![i].status = "PAID"]
      /\ settled' = settled \cup {i}
      /\ again' = again \cup (settled \cap {i})
      /\ parcels' = Paid(S)
  BY DEF PayInvoice
<1>3. RequestsCurrent'
  BY <1>1, OnlyRequest DEF PayInvoice, CallsFinance, Goes, Current
<1> HIDE DEF i, S
<1>4. PaidOnce'
  BY <1>1, <1>2 DEF Books, PaidOnce
<1>5. SettledArePaid'
  <2>1. invoices'[i] # NULL /\ invoices'[i].status = "PAID"
    <3>1. invoices'[i] = [invoices[i] EXCEPT !.status = "PAID"]
      BY <1>1, <1>2 DEF Inv, TypeOK
    <3>2. [invoices[i] EXCEPT !.status = "PAID"] \in Invoice
      BY <1>1 DEF Invoice, InvoiceStatus
    <3>3. invoices'[i].status = "PAID"
      BY <1>1, <3>1 DEF Invoice
    <3> QED
      BY <3>1, <3>2, <3>3, NullIsNothing
  <2> QED
    BY <1>1, <1>2, <2>1 DEF Books, SettledArePaid, Exists, Inv, TypeOK
<1>6. ASSUME NEW p \in Parcels
      PROVE  parcels'[p].financial = StatusBy(parcels'[p].invoice, settled')
  <2>1. CASE p \in S
    <3>1. parcels'[p].invoice = i /\ parcels'[p].financial = "PAID"
      BY <1>1, <1>2, <2>1 DEF Paid, Inv, TypeOK, Parcel
    <3> QED
      BY <1>1, <1>2, <3>1, NullIsNothing DEF StatusBy
  <2>2. CASE p \notin S
    <3>1. parcels'[p] = parcels[p] /\ parcels[p].invoice # i
      BY <1>1, <1>2, <2>2 DEF Paid
    <3>2. parcels[p].financial = StatusBy(parcels[p].invoice, settled)
      BY DEF Books, LinkTells
    <3> QED
      BY <1>2, <3>1, <3>2 DEF StatusBy
  <2> QED
    BY <2>1, <2>2
<1> QED
  BY <1>3, <1>4, <1>5, <1>6 DEF Books, LinkTells

LEMMA ContinueKeepsBooks ==
  ASSUME OneHandler, Serial, Books, NEW h \in Handlers, Continue(h)
  PROVE  Books'
<1>0. Inv
  BY DEF Serial
<1>1. CASE CreateInvoice(h)
  BY <1>1, CreateKeepsBooks
<1>2. CASE FindParcels(h)
  <2> DEFINE i   == inflight[h].invoice
             req == [step |-> "pay", invoice |-> i,
                     parcels |-> {p \in Parcels : parcels[p].invoice = i}]
  <2>1. i \notin settled
    BY <1>2 DEF FindParcels, At, Books, RequestsCurrent, Current
  <2>2. Current(req, parcels, settled)
    BY <2>1 DEF Current
  <2>3. /\ inflight' = [inflight EXCEPT ![h] = req]
        /\ UNCHANGED <<parcels, invoices, settled, again>>
    BY <1>2 DEF FindParcels, Goes
  <2> HIDE DEF req
  <2> QED
    BY <1>0, <2>2, <2>3, ReadKeepsBooks
<1>3. CASE PayInvoice(h)
  BY <1>3, PayKeepsBooks
<1>4. CASE SaveStatus(h)
  <2> DEFINE i  == inflight[h].invoice
             to == inflight[h].to
  <2>1. i \notin settled
    BY <1>4 DEF SaveStatus, At, Books, RequestsCurrent, Current
  <2>2. /\ invoices' = [invoices EXCEPT ![i].status = to]
        /\ UNCHANGED <<parcels, settled, again>>
    BY <1>4 DEF SaveStatus
  <2>3. \/ CallsFinance(h, i, "processing")
        \/ CallsFinance(h, i, "back")
        \/ Responds(h)
    BY <1>4 DEF SaveStatus
  <2> HIDE DEF i, to
  <2>4. RequestsCurrent'
    BY <1>0, <2>3, OnlyRequest DEF CallsFinance, Responds, Goes, Current
  <2>5. SettledArePaid'
    BY <1>0, <2>1, <2>2 DEF Books, SettledArePaid, Exists, Inv, TypeOK
  <2>6. PaidOnce' /\ LinkTells'
    BY <2>2 DEF Books, PaidOnce, LinkTells
  <2> QED
    BY <2>4, <2>5, <2>6 DEF Books
<1>5. CASE FinanceCall(h)
  BY <1>0, <1>5, ReadKeepsBooks DEF FinanceCall, Responds, Goes
<1>6. CASE SaveParcel(h)
  <2> DEFINE p   == inflight[h].parcel
             row == inflight[h].row
  <2>1. /\ p \in Parcels
        /\ row.invoice = parcels[p].invoice
        /\ row.financial = parcels[p].financial
    <3>1. p \in Parcels
      BY <1>0, <1>6 DEF SaveParcel, At, Inv, TypeOK, Request
    <3> QED
      BY <1>6, <3>1
      DEF SaveParcel, At, Serial, RequestsFresh, Fresh, Books, RequestsCurrent, Current
  <2>2. /\ parcels' = [parcels EXCEPT ![p] = row]
        /\ UNCHANGED <<invoices, settled, again>>
    BY <1>6 DEF SaveParcel
  <2>3. RequestsCurrent'
    BY <1>0, <1>6, OnlyRequest DEF SaveParcel, Responds, Goes
  <2>4. LinkTells'
    BY <1>0, <2>1, <2>2 DEF Books, LinkTells, Inv, TypeOK
  <2>5. PaidOnce' /\ SettledArePaid'
    BY <2>2 DEF Books, PaidOnce, SettledArePaid, Exists
  <2> QED
    BY <2>3, <2>4, <2>5 DEF Books
<1> QED
  BY <1>1, <1>2, <1>3, <1>4, <1>5, <1>6 DEF Continue

SerialBooks == Serial /\ Books

LEMMA InitSerialBooks == Init => SerialBooks
<1> SUFFICES ASSUME Init PROVE SerialBooks
  OBVIOUS
<1>1. Serial
  BY InitInv DEF Init, Serial, BilledIsLinked, Bills, Exists, RequestsFresh
<1>2. Books
  BY DEF Init, NewParcel, Books, PaidOnce, SettledArePaid, LinkTells, StatusBy, RequestsCurrent
<1> QED
  BY <1>1, <1>2 DEF SerialBooks

LEMMA NextSerialBooks == OneHandler => (SerialBooks /\ [Next]_vars => SerialBooks')
<1> SUFFICES ASSUME OneHandler, SerialBooks, [Next]_vars PROVE SerialBooks'
  OBVIOUS
<1>1. Serial' /\ Inv
  BY NextSerial DEF SerialBooks, Serial
<1>2. ASSUME NEW h \in Handlers, AdminStep(h) \/ OtherStep(h)
      PROVE  Books'
  BY <1>1, <1>2, BeginKeepsBooks DEF SerialBooks
<1>3. ASSUME NEW h \in Handlers, Continue(h)
      PROVE  Books'
  BY <1>3, ContinueKeepsBooks DEF SerialBooks
<1>4. ASSUME NEW h \in Handlers, Abandon(h)
      PROVE  Books'
  BY <1>1, <1>4, ReadKeepsBooks DEF Abandon, Responds, Goes, SerialBooks
<1>5. ASSUME UNCHANGED <<parcels, invoices, settled, again, inflight>>
      PROVE  Books'
  BY <1>5
  DEF SerialBooks, Books, PaidOnce, SettledArePaid, Exists, LinkTells, StatusBy,
      RequestsCurrent, Current
<1>6. CASE MonthPasses
  BY <1>1, <1>5, <1>6 DEF MonthPasses, SerialBooks
<1>7. CASE UNCHANGED vars
  BY <1>1, <1>5, <1>7 DEF vars, SerialBooks
<1> QED
  BY <1>1, <1>2, <1>3, <1>4, <1>6, <1>7 DEF Next, SerialBooks

\* "Invoice is already paid": no invoice is paid twice as long as requests are
\* served one at a time, whatever admins set its status to in between.
THEOREM OnePayment == OneHandler => (Spec => []PaidOnce)
<1> SUFFICES ASSUME OneHandler PROVE Spec => []PaidOnce
  OBVIOUS
<1>1. SerialBooks /\ [Next]_vars => SerialBooks'
  BY NextSerialBooks
<1>2. SerialBooks => PaidOnce
  BY DEF SerialBooks, Books
<1> QED
  BY <1>1, <1>2, InitSerialBooks, PTL DEF Spec

\* The financial_status of a parcel says what became of the invoice that
\* counted it, served one at a time, although two tables are written.
THEOREM StatusFollows == OneHandler => (Spec => []FinancialStatusFollows)
<1> SUFFICES ASSUME OneHandler PROVE Spec => []FinancialStatusFollows
  OBVIOUS
<1>1. SerialBooks /\ [Next]_vars => SerialBooks'
  BY NextSerialBooks
<1>2. SerialBooks => FinancialStatusFollows
  <2> DEFINE byPaid(p) == \E i \in settled : Bills(i, p)
             byOpen(p) == \E i \in Invoices \ settled : Bills(i, p)
  <2> SUFFICES ASSUME SerialBooks, NEW p \in Parcels
               PROVE  parcels[p].financial =
                        CASE byPaid(p) -> "PAID"
                          [] byOpen(p) -> "INVOICED"
                          [] OTHER -> "PENDING"
    BY DEF FinancialStatusFollows
  <2>1. \A i \in Invoices : Bills(i, p) <=> parcels[p].invoice = i
    BY DEF SerialBooks, Serial, BilledIsLinked, Inv, RowsOK, RowOK, Counts, Bills, Exists
  <2>2. parcels[p].financial = StatusBy(parcels[p].invoice, settled)
    BY DEF SerialBooks, Books, LinkTells
  <2>3. settled \subseteq Invoices /\ parcels[p].invoice \in Invoices \cup {NULL}
    BY DEF SerialBooks, Serial, Inv, TypeOK, Parcel
  <2>4. byPaid(p) <=> parcels[p].invoice \in settled
    BY <2>1, <2>3
  <2>5. byOpen(p) <=> parcels[p].invoice \in Invoices \ settled
    BY <2>1, <2>3
  <2>6. NULL \notin settled
    BY <2>3, NullIsNothing
  <2> HIDE DEF byPaid, byOpen
  <2> QED
    BY <2>2, <2>3, <2>4, <2>5, <2>6, NullIsNothing DEF StatusBy
<1> QED
  BY <1>1, <1>2, InitSerialBooks, PTL DEF Spec

-----------------------------------------------------------------------------
(* The invoice service within the composition.                             *)

LEMMA BillingIsInvoicing == [BillingNext]_billingVars => [Next]_vars
PROOF
<1> SUFFICES ASSUME [BillingNext]_billingVars PROVE [Next]_vars
  OBVIOUS
<1>1. CASE UNCHANGED billingVars
  BY <1>1 DEF billingVars
<1>2. CASE MonthPasses
  BY <1>2 DEF Next
<1>3. ASSUME NEW h \in Handlers, NEW S \in SUBSET Parcels, QuotesInvoice(h, S)
      PROVE  Next
  BY <1>3 DEF QuotesInvoice, AdminStep, Next
<1>4. ASSUME NEW h \in Handlers, BooksInvoice(h)
      PROVE  Next
  BY <1>4 DEF BooksInvoice, Continue, Next
<1>5. ASSUME NEW h \in Handlers, InvoiceStep(h)
      PROVE  Next
  BY <1>5 DEF InvoiceStep, AdminStep, Continue, Next
<1>6. ASSUME NEW h \in Handlers, CallFindsNothing(h) \/ CallSaves(h)
      PROVE  Next
  BY <1>6 DEF CallFindsNothing, CallSaves, Continue, Next
<1>7. ASSUME NEW h \in Handlers, InvoiceFails(h)
      PROVE  Next
  BY <1>7 DEF InvoiceFails, Next
<1>8. ASSUME NEW h \in Handlers, CallReads(h) \/ SyncSaves(h) \/ SaveFinance(h) \/ SaveAdjustment(h) \/ AdminFails(h)
      PROVE  UNCHANGED vars
  BY <1>8 DEF CallReads, SyncSaves, SaveFinance, SaveAdjustment, AdminFails
<1>9. ASSUME NEW h \in Handlers, FinanceStep(h)
      PROVE  UNCHANGED vars
  BY <1>9 DEF FinanceStep, OpenFinance, AdjustBalance, HoldBalance, ReleaseHold, AdminReads, SyncCounts
<1> QED
  BY <1>1, <1>2, <1>3, <1>4, <1>5, <1>6, <1>7, <1>8, <1>9 DEF BillingNext

\* Whatever merchant-finance.service.ts does in between, merchant-invoice.service.ts
\* takes only the steps of its own specification, so that everything proved of
\* MerchantInvoice holds in the composition too.
THEOREM BillingImplementsInvoicing == BillingSpec => Spec
PROOF
<1>1. [BillingNext]_billingVars => [Next]_vars
  BY BillingIsInvoicing
<1> QED
  BY <1>1, PTL DEF BillingSpec, BillingInit, Spec

-----------------------------------------------------------------------------
(* Conservation.                                                           *)

\* A row that may be saved for merchant m.
RowFits(m, f, done) == f \in Finance /\ (m \in done \/ Total(f) = 0)

\* What a handler will save, when the rows are fin and those in done were
\* recomputed: a balanced row, or one column of a row that is there.
DeskOK(d, fin, done) ==
  d.merchant \in Merchants =>
    /\ d.kind = "row" => RowFits(d.merchant, d.row, done)
    /\ d.kind = "current" => fin[d.merchant] # NULL /\ d.row.current \in Int
    /\ d.kind = "counted" => d.row \in Finance

FinanceOK ==
  /\ finance = [m \in Merchants |-> finance[m]]
  /\ \A m \in Merchants : finance[m] = NULL \/ RowFits(m, finance[m], synced)

DesksOK ==
  /\ desk = [h \in Handlers |-> desk[h]]
  /\ \A h \in Handlers : desk[h] = NULL \/ DeskOK(desk[h], finance, synced)

QuotesOK == payable \in [Invoices -> Int] /\ quoted \in [Handlers -> Int]

BillingInv == TypeOK /\ FinanceOK /\ DesksOK /\ QuotesOK

\* Rows are never deleted and a recomputed row remains one: what may be saved may be
\* saved later.
LEMMA DeskStaysOK ==
  ASSUME NEW d, NEW fin, NEW later, NEW done, NEW then, done \subseteq then,
         \A m \in Merchants : fin[m] # NULL => later[m] # NULL,
         DeskOK(d, fin, done)
  PROVE  DeskOK(d, later, then)
BY DEF DeskOK, RowFits

\* What parcels come to is the sum of what each comes to.
LEMMA PayableIsSum ==
  ASSUME NEW S \in SUBSET Parcels, NEW done, NEW f,
         \A p \in S : f[p] = (IF p \in done THEN Cod[p] ELSE 0) - Charge[p]
  PROVE  Payable(S, done) = SumOver(f, S)
PROOF
<1> DEFINE value(p) == (IF p \in done THEN Cod[p] ELSE 0) - Charge[p]
           step(g, s) == IF s = {} THEN 0 ELSE value(FirstOf(s)) + g[s \ {FirstOf(s)}]
<1>1. IsFiniteSet(S)
  BY FS_Subset, AmountsAssumption
<1>2. \A g, s : s \in SUBSET S => step(g, s) = SumStep(f, g, s)
  BY FirstIsIn DEF SumStep
<1> PICK k : Sums(f, k, S) /\ SumOver(f, S) = k[S]
  BY <1>1, SumIsDefined
<1>3. k = [s \in SUBSET S |-> step(k, s)]
  <2>1. k = [s \in SUBSET S |-> SumStep(f, k, s)]
    BY DEF Sums
  <2> HIDE DEF step
  <2> QED
    BY <1>2, <2>1
<1>4. \E g : g = [s \in SUBSET S |-> step(g, s)]
  BY <1>3
<1>5. \E g : g = [s \in SUBSET S |-> step(g, s)] /\ Payable(S, done) = g[S]
  BY <1>4 DEF Payable, MapThenSumSet, MapThenFoldSet, FirstOf
<1> PICK g : g = [s \in SUBSET S |-> step(g, s)] /\ Payable(S, done) = g[S]
  BY <1>5
<1> HIDE DEF step
<1>6. Sums(f, g, S)
  BY <1>2 DEF Sums
<1> QED
  BY <1>1, <1>6, SumsAgree

LEMMA TotalsAreNumbers == \A S \in SUBSET Parcels : InvoiceTotal(S) \in Int
PROOF
<1> SUFFICES ASSUME NEW S \in SUBSET Parcels PROVE InvoiceTotal(S) \in Int
  OBVIOUS
<1> PICK done : done = {p \in Parcels : parcels[p].delivered}
  OBVIOUS
<1> PICK f : f = [p \in S |-> (IF p \in done THEN Cod[p] ELSE 0) - Charge[p]]
  OBVIOUS
<1>1. IsFiniteSet(S) /\ \A p \in S : f[p] \in Int
  BY FS_Subset, AmountsAssumption
<1>2. SumOver(f, S) \in Int
  BY <1>1, SumSplits
<1> QED
  BY <1>2, PayableIsSum DEF InvoiceTotal

\* Each call takes from one balance what it adds to another.
LEMMA MovesConserve ==
  ASSUME NEW f \in Finance, NEW move \in Moves, NEW a \in Int
  PROVE  Moved(f, move, a) \in Finance /\ Total(Moved(f, move, a)) = Total(f)
PROOF
<1>0. f.pending \in Int /\ f.invoiced \in Int /\ f.processing \in Int /\ f.withdrawn \in Int
  BY DEF Finance
<1>1. CASE move = "invoiced"
  <2> PICK x, y : x = f.pending - a /\ y = f.invoiced + a
    OBVIOUS
  <2> DEFINE g == [f EXCEPT !.pending = x, !.invoiced = y]
  <2>1. Moved(f, move, a) = g
    BY <1>1 DEF Moved, Invoiced
  <2>2. x \in Int /\ y \in Int
    BY <1>0
  <2>3. g \in Finance
    BY <2>2 DEF Finance
  <2>4. Total(g) = Total(f)
    BY <1>0, <2>2 DEF Finance, Total
  <2> QED
    BY <2>1, <2>3, <2>4
<1>2. CASE move = "processing"
  <2> PICK x, y : x = f.invoiced - a /\ y = f.processing + a
    OBVIOUS
  <2> DEFINE g == [f EXCEPT !.invoiced = x, !.processing = y]
  <2>1. Moved(f, move, a) = g
    BY <1>2 DEF Moved, Processing
  <2>2. x \in Int /\ y \in Int
    BY <1>0
  <2>3. g \in Finance
    BY <2>2 DEF Finance
  <2>4. Total(g) = Total(f)
    BY <1>0, <2>2 DEF Finance, Total
  <2> QED
    BY <2>1, <2>3, <2>4
<1>3. CASE move = "back"
  <2> PICK x, y : x = f.processing - a /\ y = f.invoiced + a
    OBVIOUS
  <2> DEFINE g == [f EXCEPT !.processing = x, !.invoiced = y]
  <2>1. Moved(f, move, a) = g
    BY <1>3 DEF Moved, Back
  <2>2. x \in Int /\ y \in Int
    BY <1>0
  <2>3. g \in Finance
    BY <2>2 DEF Finance
  <2>4. Total(g) = Total(f)
    BY <1>0, <2>2 DEF Finance, Total
  <2> QED
    BY <2>1, <2>3, <2>4
<1>4. CASE move = "payment"
  <2> PICK first : first = Least(a, f.processing)
    OBVIOUS
  <2> PICK x, y, z :
        x = f.processing - first /\ y = f.invoiced - (a - first) /\ z = f.withdrawn + a
    OBVIOUS
  <2> DEFINE g == [f EXCEPT !.processing = x, !.invoiced = y, !.withdrawn = z]
  <2>1. Moved(f, move, a) = g
    BY <1>4 DEF Moved, Withdrawn
  <2>2. first \in Int /\ x \in Int /\ y \in Int /\ z \in Int
    BY <1>0 DEF Least
  <2>3. g \in Finance
    BY <2>2 DEF Finance
  <2>4. Total(g) = Total(f)
    BY <1>0, <2>2 DEF Finance, Total
  <2> QED
    BY <2>1, <2>3, <2>4
<1> QED
  BY <1>1, <1>2, <1>3, <1>4 DEF Moves

LEMMA BillingInvInit == Init /\ FinanceInit => BillingInv
PROOF
<1>1. Init => TypeOK
  BY InitInv DEF Inv
<1> QED
  BY <1>1 DEF FinanceInit, BillingInv, FinanceOK, DesksOK, QuotesOK

\* A row that fits is saved.
LEMMA RowSaved ==
  ASSUME FinanceOK, NEW m, NEW f, finance' = [finance EXCEPT ![m] = f],
         synced \subseteq synced', m \in Merchants => RowFits(m, f, synced')
  PROVE  FinanceOK' /\ \A n \in Merchants : finance[n] # NULL => finance'[n] # NULL
PROOF
<1>1. \A n \in Merchants : RowFits(n, finance[n], synced) => RowFits(n, finance[n], synced')
  BY DEF RowFits
<1>2. m \in Merchants => f # NULL
  BY NullIsNoFinance DEF RowFits
<1> QED
  BY <1>1, <1>2 DEF FinanceOK

\* A handler takes a row or lets go of it.
LEMMA DeskTaken ==
  ASSUME BillingInv, NEW h \in Handlers, NEW d, desk' = [desk EXCEPT ![h] = d],
         synced \subseteq synced', FinanceOK', QuotesOK', TypeOK',
         \A n \in Merchants : finance[n] # NULL => finance'[n] # NULL,
         d = NULL \/ DeskOK(d, finance', synced')
  PROVE  BillingInv'
PROOF
<1>1. \A k \in Handlers : desk[k] = NULL \/ DeskOK(desk[k], finance', synced')
  BY DeskStaysOK DEF BillingInv, DesksOK
<1>2. DesksOK'
  BY <1>1 DEF BillingInv, DesksOK
<1> QED
  BY <1>2 DEF BillingInv

LEMMA Unmoved ==
  ASSUME BillingInv, UNCHANGED <<finance, synced>>
  PROVE  FinanceOK' /\ \A n \in Merchants : finance[n] # NULL => finance'[n] # NULL
BY DEF BillingInv, FinanceOK

\* What the invoice service does with its amounts and calls.
LEMMA InvoicingPreserves ==
  ASSUME BillingInv, TypeOK', NEW h \in Handlers,
         \/ \E S \in SUBSET Parcels : QuotesInvoice(h, S)
         \/ BooksInvoice(h) \/ InvoiceStep(h) \/ CallFindsNothing(h) \/ InvoiceFails(h)
  PROVE  BillingInv'
PROOF
<1>1. UNCHANGED <<finance, synced>>
  BY DEF QuotesInvoice, BooksInvoice, InvoiceStep, financeVars, CallFindsNothing, InvoiceFails
<1>2. QuotesOK'
  <2>1. CASE \E S \in SUBSET Parcels : QuotesInvoice(h, S)
    BY <2>1, TotalsAreNumbers DEF QuotesInvoice, BillingInv, QuotesOK
  <2>2. CASE BooksInvoice(h)
    BY <2>2 DEF BooksInvoice, BillingInv, QuotesOK
  <2>3. CASE InvoiceStep(h) \/ CallFindsNothing(h) \/ InvoiceFails(h)
    BY <2>3 DEF InvoiceStep, financeVars, CallFindsNothing, InvoiceFails, BillingInv, QuotesOK
  <2> QED
    BY <2>1, <2>2, <2>3
<1>3. desk' = desk \/ desk' = [desk EXCEPT ![h] = NULL]
  BY DEF QuotesInvoice, BooksInvoice, InvoiceStep, financeVars, CallFindsNothing, InvoiceFails
<1>4. DesksOK'
  BY <1>1, <1>3 DEF BillingInv, DesksOK
<1> QED
  BY <1>1, <1>2, <1>4, Unmoved DEF BillingInv

LEMMA CallPreserves ==
  ASSUME BillingInv, TypeOK', NEW h \in Handlers, CallReads(h) \/ CallSaves(h)
  PROVE  BillingInv'
PROOF
<1>1. CASE CallReads(h)
  <2> PICK m, a, move, by :
        /\ m = Caller(h) /\ a = payable[inflight[h].invoice] /\ move = inflight[h].move
        /\ by = IF move = "payment" THEN -a ELSE 0
    OBVIOUS
  <2> PICK f : f = Moved(finance[m], move, a)
    OBVIOUS
  <2> PICK d : d = [kind |-> "row", merchant |-> m, row |-> f, by |-> by]
    OBVIOUS
  <2>1. /\ desk' = [desk EXCEPT ![h] = d] /\ finance[m] # NULL
        /\ UNCHANGED <<finance, payable, quoted, synced>>
    BY <1>1 DEF CallReads, Takes
  <2>2. move \in Moves /\ a \in Int
    <3>1. inflight[h] \in Request /\ inflight[h].step = "finance"
      BY <1>1 DEF CallReads, At, BillingInv, TypeOK
    <3>2. inflight[h].invoice \in Invoices /\ inflight[h].move \in Moves
      BY <3>1 DEF Request
    <3> QED
      BY <3>2 DEF BillingInv, QuotesOK
  <2>3. m \in Merchants => RowFits(m, f, synced)
    BY <2>1, <2>2, MovesConserve DEF BillingInv, FinanceOK, RowFits
  <2>4. DeskOK(d, finance', synced')
    BY <2>1, <2>3 DEF DeskOK
  <2>5. QuotesOK'
    BY <2>1 DEF BillingInv, QuotesOK
  <2> QED
    BY <2>1, <2>4, <2>5, Unmoved, DeskTaken
<1>2. CASE CallSaves(h)
  <2>1. /\ finance' = [finance EXCEPT ![desk[h].merchant] = desk[h].row]
        /\ desk[h] # NULL /\ desk[h].kind = "row" /\ desk' = [desk EXCEPT ![h] = NULL]
        /\ UNCHANGED <<payable, quoted, synced>>
    BY <1>2 DEF CallSaves
  <2>2. desk[h].merchant \in Merchants => RowFits(desk[h].merchant, desk[h].row, synced')
    BY <2>1 DEF BillingInv, DesksOK, DeskOK
  <2>3. FinanceOK' /\ \A n \in Merchants : finance[n] # NULL => finance'[n] # NULL
    BY <2>1, <2>2, RowSaved DEF BillingInv
  <2>4. QuotesOK'
    BY <2>1 DEF BillingInv, QuotesOK
  <2> QED
    BY <2>1, <2>3, <2>4, DeskTaken
<1> QED
  BY <1>1, <1>2

\* What admins ask for: a row is opened, or read with what is to become of it.
LEMMA AdminPreserves ==
  ASSUME BillingInv, TypeOK', NEW h \in Handlers, FinanceStep(h)
  PROVE  BillingInv'
PROOF
<1> PICK m \in Merchants :
      \/ OpenFinance(h, m)
      \/ \E a \in Amounts : \/ AdjustBalance(h, m, a) \/ AdjustBalance(h, m, -a)
                            \/ HoldBalance(h, m, a) \/ ReleaseHold(h, m, a)
      \/ SyncCounts(h, m)
  BY DEF FinanceStep
<1>1. QuotesOK'
  BY DEF OpenFinance, AdjustBalance, HoldBalance, ReleaseHold, AdminReads, SyncCounts,
         BillingInv, QuotesOK
<1>2. CASE OpenFinance(h, m)
  <2>1. NewFinance \in Finance /\ Total(NewFinance) = 0
    BY DEF NewFinance, Finance, Total
  <2>2. finance' = [finance EXCEPT ![m] = NewFinance] /\ UNCHANGED <<desk, synced>>
    BY <1>2 DEF OpenFinance
  <2>3. FinanceOK' /\ \A n \in Merchants : finance[n] # NULL => finance'[n] # NULL
    BY <2>1, <2>2, RowSaved DEF RowFits, BillingInv
  <2>4. DesksOK'
    BY <2>2, <2>3, DeskStaysOK DEF BillingInv, DesksOK
  <2> QED
    BY <1>1, <2>3, <2>4 DEF BillingInv
<1>3. ASSUME NEW kind, NEW f, NEW by, Takes(h, kind, m, f, by), UNCHANGED <<finance, synced>>,
             /\ kind = "row" => RowFits(m, f, synced)
             /\ kind = "current" => finance[m] # NULL /\ f.current \in Int
             /\ kind = "counted" => f \in Finance
      PROVE  BillingInv'
  <2> PICK d : d = [kind |-> kind, merchant |-> m, row |-> f, by |-> by]
    OBVIOUS
  <2>1. desk' = [desk EXCEPT ![h] = d] /\ DeskOK(d, finance', synced')
    BY <1>3 DEF Takes, DeskOK
  <2> QED
    BY <1>1, <1>3, <2>1, Unmoved, DeskTaken
<1>4. ASSUME NEW a \in Int, AdjustBalance(h, m, a) PROVE BillingInv'
  <2> PICK c : c = finance[m].current + a
    OBVIOUS
  <2> PICK f : f = [finance[m] EXCEPT !.current = c]
    OBVIOUS
  <2>1. /\ Takes(h, "current", m, f, a) /\ UNCHANGED <<finance, synced>> /\ finance[m] # NULL
    BY <1>4 DEF AdjustBalance, AdminReads
  <2>2. finance[m] \in Finance
    BY <2>1 DEF BillingInv, FinanceOK, RowFits
  <2>3. f.current = c /\ c \in Int
    BY <2>2 DEF Finance
  <2> QED
    BY <2>1, <2>3, <1>3
<1>5. ASSUME NEW a \in Int, NEW x, x = finance[m].held + a,
             NEW f, f = [finance[m] EXCEPT !.held = x],
             AdminReads(h, m), Takes(h, "row", m, f, 0)
      PROVE  BillingInv'
  <2>1. finance[m] # NULL /\ UNCHANGED <<finance, synced>>
    BY <1>5 DEF AdminReads
  <2>2. finance[m] \in Finance /\ (m \in synced \/ Total(finance[m]) = 0)
    BY <2>1 DEF BillingInv, FinanceOK, RowFits
  <2>3. x \in Int
    BY <1>5, <2>2 DEF Finance
  <2>4. f \in Finance /\ Total(f) = Total(finance[m])
    BY <1>5, <2>2, <2>3 DEF Finance, Total
  <2>5. RowFits(m, f, synced)
    BY <2>2, <2>4 DEF RowFits
  <2> QED
    BY <1>5, <2>1, <2>5, <1>3
<1>6. ASSUME NEW a \in Amounts, HoldBalance(h, m, a) \/ ReleaseHold(h, m, a)
      PROVE  BillingInv'
  <2>1. a \in Int /\ -a \in Int
    BY AmountsAssumption
  <2>2. CASE HoldBalance(h, m, a)
    <3> PICK x, f : x = finance[m].held + a /\ f = [finance[m] EXCEPT !.held = x]
      OBVIOUS
    <3>1. AdminReads(h, m) /\ Takes(h, "row", m, f, 0)
      BY <2>2 DEF HoldBalance
    <3> QED
      BY <2>1, <3>1, <1>5
  <2>3. CASE ReleaseHold(h, m, a)
    <3> PICK x, f : x = finance[m].held + (-a) /\ f = [finance[m] EXCEPT !.held = x]
      OBVIOUS
    <3>1. AdminReads(h, m) /\ finance[m] # NULL
      BY <2>3 DEF ReleaseHold, AdminReads
    <3>2. finance[m].held \in Int
      BY <3>1 DEF BillingInv, FinanceOK, RowFits, Finance
    <3>3. x = finance[m].held - a
      BY <2>1, <3>2
    <3>4. Takes(h, "row", m, f, 0)
      BY <2>3, <3>3 DEF ReleaseHold
    <3> QED
      BY <2>1, <3>1, <3>4, <1>5
  <2> QED
    BY <1>6, <2>2, <2>3
<1>7. CASE SyncCounts(h, m)
  <2> PICK paid : paid = {p \in Delivered(m) : parcels[p].paid}
    OBVIOUS
  <2> PICK open : open = {p \in Delivered(m) \ paid : parcels[p].invoice # NULL}
    OBVIOUS
  <2> PICK x, y, z :
        /\ x = InvoiceTotal(paid) /\ y = InvoiceTotal(open)
        /\ z = InvoiceTotal(Delivered(m) \ (paid \cup open))
    OBVIOUS
  <2> PICK f : f = [NewFinance EXCEPT !.withdrawn = x, !.invoiced = y, !.pending = z]
    OBVIOUS
  <2>1. x \in Int /\ y \in Int /\ z \in Int
    <3>1. Delivered(m) \subseteq Parcels
      BY DEF Delivered
    <3>2. paid \subseteq Parcels /\ open \subseteq Parcels /\ Delivered(m) \ (paid \cup open) \subseteq Parcels
      BY <3>1
    <3> QED
      BY <3>2, TotalsAreNumbers
  <2>2. f \in Finance
    <3>1. NewFinance \in Finance
      BY DEF NewFinance, Finance
    <3> QED
      BY <2>1, <3>1 DEF Finance
  <2>3. Takes(h, "counted", m, f, 0) /\ UNCHANGED <<finance, synced>>
    BY <1>7 DEF SyncCounts
  <2> QED
    BY <2>2, <2>3, <1>3
<1> QED
  <2>1. \A a \in Amounts : a \in Int /\ -a \in Int
    BY AmountsAssumption
  <2> QED
    BY <2>1, <1>2, <1>4, <1>6, <1>7

\* What admins' requests save.
LEMMA SavePreserves ==
  ASSUME BillingInv, TypeOK', NEW h \in Handlers,
         SyncSaves(h) \/ SaveFinance(h) \/ SaveAdjustment(h) \/ AdminFails(h)
  PROVE  BillingInv'
PROOF
<1> PICK d : d = desk[h]
  OBVIOUS
<1>1. /\ desk' = [desk EXCEPT ![h] = NULL] /\ d # NULL /\ synced \subseteq synced'
      /\ UNCHANGED <<payable, quoted>>
  BY DEF SyncSaves, SaveFinance, SaveAdjustment, AdminFails
<1>2. QuotesOK' /\ DeskOK(d, finance, synced)
  BY <1>1 DEF BillingInv, QuotesOK, DesksOK
<1>3. ASSUME NEW m, NEW f, finance' = [finance EXCEPT ![m] = f], m \in Merchants => RowFits(m, f, synced')
      PROVE  BillingInv'
  <2>1. FinanceOK' /\ \A n \in Merchants : finance[n] # NULL => finance'[n] # NULL
    BY <1>1, <1>3, RowSaved DEF BillingInv
  <2> QED
    BY <1>1, <1>2, <2>1, DeskTaken
<1>4. CASE SyncSaves(h)
  <2> PICK m, old : /\ m = d.merchant
                    /\ old = IF finance[m] = NULL THEN NewFinance ELSE finance[m]
    OBVIOUS
  <2> PICK f : f = [d.row EXCEPT !.current = old.current, !.held = old.held,
                                 !.processing = old.processing]
    OBVIOUS
  <2>1. finance' = [finance EXCEPT ![m] = f] /\ m \in synced' /\ d.kind = "counted"
    BY <1>4 DEF SyncSaves
  <2>2. m \in Merchants => f \in Finance
    <3> SUFFICES ASSUME m \in Merchants PROVE f \in Finance
      OBVIOUS
    <3>1. d.row \in Finance
      BY <1>2, <2>1 DEF DeskOK
    <3>2. old \in Finance
      BY DEF BillingInv, FinanceOK, RowFits, NewFinance, Finance
    <3>3. old.current \in Int /\ old.held \in Int /\ old.processing \in Int
      BY <3>2 DEF Finance
    <3> QED
      BY <3>1, <3>3 DEF Finance
  <2> QED
    BY <2>1, <2>2, <1>3 DEF RowFits
<1>5. CASE SaveFinance(h)
  <2>1. /\ finance' = [finance EXCEPT ![d.merchant] = d.row] /\ d.kind = "row" /\ synced' = synced
    BY <1>5 DEF SaveFinance
  <2>2. d.merchant \in Merchants => RowFits(d.merchant, d.row, synced')
    BY <1>2, <2>1 DEF DeskOK
  <2> QED
    BY <2>1, <2>2, <1>3
<1>6. CASE SaveAdjustment(h)
  <2> PICK m, c : m = d.merchant /\ c = d.row.current
    OBVIOUS
  <2> PICK f : f = [finance[m] EXCEPT !.current = c]
    OBVIOUS
  <2>1. /\ finance' = [finance EXCEPT ![m] = f] /\ d.kind = "current" /\ synced' = synced
    BY <1>6 DEF SaveAdjustment
  <2>2. m \in Merchants => RowFits(m, f, synced')
    <3> SUFFICES ASSUME m \in Merchants PROVE RowFits(m, f, synced')
      OBVIOUS
    <3>1. finance[m] # NULL /\ c \in Int
      BY <1>2, <2>1 DEF DeskOK
    <3>2. finance[m] \in Finance /\ (m \in synced \/ Total(finance[m]) = 0)
      BY <3>1 DEF BillingInv, FinanceOK, RowFits
    <3>3. f \in Finance /\ Total(f) = Total(finance[m])
      BY <3>1, <3>2 DEF Finance, Total
    <3> QED
      BY <2>1, <3>2, <3>3 DEF RowFits
  <2> QED
    BY <2>1, <2>2, <1>3
<1>7. CASE AdminFails(h)
  <2>1. UNCHANGED <<finance, synced>>
    BY <1>7 DEF AdminFails
  <2> QED
    BY <1>1, <1>2, <2>1, Unmoved, DeskTaken
<1> QED
  BY <1>4, <1>5, <1>6, <1>7

LEMMA BillingInvStep == BillingInv /\ TypeOK' /\ [BillingNext]_billingVars => BillingInv'
PROOF
<1> SUFFICES ASSUME BillingInv, TypeOK', [BillingNext]_billingVars PROVE BillingInv'
  OBVIOUS
<1>1. CASE UNCHANGED financeVars
  BY <1>1 DEF financeVars, BillingInv, FinanceOK, DesksOK, QuotesOK
<1>2. CASE UNCHANGED billingVars
  BY <1>1, <1>2 DEF billingVars
<1>3. ASSUME NEW h \in Handlers,
             \/ \E S \in SUBSET Parcels : QuotesInvoice(h, S)
             \/ BooksInvoice(h) \/ InvoiceStep(h) \/ CallFindsNothing(h) \/ InvoiceFails(h)
             \/ CallReads(h) \/ CallSaves(h)
      PROVE  BillingInv'
  BY <1>3, InvoicingPreserves, CallPreserves
<1>4. ASSUME NEW h \in Handlers,
             \/ FinanceStep(h)
             \/ SyncSaves(h) \/ SaveFinance(h) \/ SaveAdjustment(h) \/ AdminFails(h)
      PROVE  BillingInv'
  BY <1>4, AdminPreserves, SavePreserves
<1> QED
  BY <1>1, <1>2, <1>3, <1>4 DEF BillingNext

\* The calls only move money between the balances of a merchant: for any number of
\* handlers that overwrite each other's rows, any amounts and any failures, the
\* balances of a row that was never recomputed add up to nothing.
THEOREM CallsConserve == BillingSpec => []Conserved
PROOF
<1>1. Init /\ FinanceInit => BillingInv
  BY BillingInvInit
<1>2. BillingInv /\ TypeOK' /\ [BillingNext]_billingVars => BillingInv'
  BY BillingInvStep
<1>3. BillingInv => Conserved
  BY DEF BillingInv, FinanceOK, RowFits, Conserved
<1>4. BillingSpec => []TypeOK
  BY BillingImplementsInvoicing, TypeCorrect, PTL
<1> QED
  BY <1>1, <1>2, <1>3, <1>4, PTL DEF BillingSpec, BillingInit

-----------------------------------------------------------------------------
(* Types of the balances, and of what is being made of them.               *)

Amounted ==
  /\ desk \in [Handlers -> Desk \cup {NULL}]
  /\ net \in [Merchants -> Int]
  /\ missed \subseteq Merchants
  /\ synced \subseteq Merchants

\* The merchant that a call is for is the invoice's, and the invoice is there.
LEMMA CallerIsMerchant ==
  ASSUME Inv, NEW h \in Handlers, At(h, "finance")
  PROVE  Caller(h) \in Merchants
PROOF
<1>1. inflight[h] \in Request /\ inflight[h].step = "finance"
  BY DEF At, Inv, TypeOK
<1>2. inflight[h].invoice \in Invoices /\ invoices[inflight[h].invoice] # NULL
  BY <1>1, NullIsNothing DEF Request, Inv, RequestsOK, RequestOK
<1>3. invoices[inflight[h].invoice] \in Invoice
  BY <1>2 DEF Inv, TypeOK
<1> QED
  BY <1>3 DEF Caller, Invoice

\* What a handler takes into its hands has its type.
LEMMA TakenIsAmounted ==
  ASSUME Amounted, NEW h \in Handlers,
         NEW kind \in {"row", "current", "counted"}, NEW m \in Merchants,
         NEW row \in Finance, NEW by \in Int, Takes(h, kind, m, row, by),
         UNCHANGED <<net, missed, synced>>
  PROVE  Amounted'
PROOF
<1> PICK d : d = [kind |-> kind, merchant |-> m, row |-> row, by |-> by]
  OBVIOUS
<1>1. d \in Desk
  BY DEF Desk
<1>2. desk' = [desk EXCEPT ![h] = d]
  BY DEF Takes
<1> QED
  BY <1>1, <1>2 DEF Amounted

LEMMA AmountedStep ==
  Inv /\ BillingInv /\ Amounted /\ [BillingNext]_billingVars => Amounted'
PROOF
<1> SUFFICES ASSUME Inv, BillingInv, Amounted, [BillingNext]_billingVars PROVE Amounted'
  OBVIOUS
<1>1. CASE UNCHANGED financeVars
  BY <1>1 DEF financeVars, Amounted
<1>2. CASE UNCHANGED billingVars
  BY <1>1, <1>2 DEF billingVars
<1>3. ASSUME NEW h \in Handlers,
             \/ \E S \in SUBSET Parcels : QuotesInvoice(h, S)
             \/ BooksInvoice(h) \/ InvoiceStep(h) \/ AdminFails(h)
      PROVE  Amounted'
  <2>1. (desk' = desk \/ desk' = [desk EXCEPT ![h] = NULL]) /\ UNCHANGED <<net, missed, synced>>
    BY <1>3 DEF QuotesInvoice, BooksInvoice, InvoiceStep, financeVars, AdminFails
  <2> QED
    BY <2>1 DEF Amounted
<1>4. ASSUME NEW h \in Handlers, CallFindsNothing(h) \/ InvoiceFails(h) PROVE Amounted'
  <2>1. /\ desk' = desk \/ desk' = [desk EXCEPT ![h] = NULL]
        /\ UNCHANGED <<net, synced>>
        /\ missed' = missed \/ (At(h, "finance") /\ missed' = missed \cup {Caller(h)})
    BY <1>4 DEF CallFindsNothing, FinanceCall, InvoiceFails
  <2> QED
    BY <2>1, CallerIsMerchant DEF Amounted
<1>5. ASSUME NEW h \in Handlers, CallReads(h) PROVE Amounted'
  <2> PICK m, a, move, by :
        /\ m = Caller(h) /\ a = payable[inflight[h].invoice] /\ move = inflight[h].move
        /\ by = IF move = "payment" THEN -a ELSE 0
    OBVIOUS
  <2>1. inflight[h] \in Request /\ inflight[h].step = "finance" /\ m \in Merchants
    BY <1>5, CallerIsMerchant DEF CallReads, At, Inv, TypeOK
  <2>2. move \in Moves /\ a \in Int /\ by \in Int
    BY <2>1 DEF Request, BillingInv, QuotesOK
  <2>3. Moved(finance[m], move, a) \in Finance
    BY <1>5, <2>1, <2>2, MovesConserve DEF CallReads, BillingInv, FinanceOK, RowFits
  <2>4. /\ Takes(h, "row", m, Moved(finance[m], move, a), by)
        /\ UNCHANGED <<net, missed, synced>>
    BY <1>5 DEF CallReads
  <2> QED
    BY <2>1, <2>2, <2>3, <2>4, TakenIsAmounted
<1>6. ASSUME NEW h \in Handlers, FinanceStep(h) PROVE Amounted'
  <2> PICK m \in Merchants :
        \/ OpenFinance(h, m)
        \/ \E a \in Amounts : \/ AdjustBalance(h, m, a) \/ AdjustBalance(h, m, -a)
                              \/ HoldBalance(h, m, a) \/ ReleaseHold(h, m, a)
        \/ SyncCounts(h, m)
    BY <1>6 DEF FinanceStep
  <2>1. CASE OpenFinance(h, m)
    BY <2>1 DEF OpenFinance, Amounted
  <2>2. ASSUME NEW a \in Amounts,
               \/ AdjustBalance(h, m, a) \/ AdjustBalance(h, m, -a)
               \/ HoldBalance(h, m, a) \/ ReleaseHold(h, m, a)
        PROVE  Amounted'
    <3>1. a \in Int /\ -a \in Int
      BY AmountsAssumption
    <3>2. finance[m] # NULL /\ UNCHANGED <<net, missed, synced>>
      BY <2>2 DEF AdjustBalance, HoldBalance, ReleaseHold, AdminReads
    <3>3. finance[m] \in Finance
      BY <3>2 DEF BillingInv, FinanceOK, RowFits
    <3> PICK f : f = finance[m]
      OBVIOUS
    <3>4. CASE AdjustBalance(h, m, a) \/ AdjustBalance(h, m, -a)
      <4> PICK b \in Int : AdjustBalance(h, m, b)
        BY <3>1, <3>4
      <4> PICK c : c = f.current + b
        OBVIOUS
      <4>1. [f EXCEPT !.current = c] \in Finance
        BY <3>3 DEF Finance
      <4>2. Takes(h, "current", m, [f EXCEPT !.current = c], b)
        BY DEF AdjustBalance
      <4> QED
        BY <3>2, <4>1, <4>2, TakenIsAmounted
    <3>5. ASSUME NEW c \in Int, Takes(h, "row", m, [f EXCEPT !.held = c], 0) PROVE Amounted'
      <4>1. [f EXCEPT !.held = c] \in Finance
        BY <3>3 DEF Finance
      <4> QED
        BY <3>2, <3>5, <4>1, TakenIsAmounted
    <3>6. f.held + a \in Int /\ f.held - a \in Int
      BY <3>1, <3>3 DEF Finance
    <3>7. CASE HoldBalance(h, m, a)
      BY <3>5, <3>6, <3>7 DEF HoldBalance
    <3>8. CASE ReleaseHold(h, m, a)
      BY <3>5, <3>6, <3>8 DEF ReleaseHold
    <3> QED
      BY <2>2, <3>4, <3>7, <3>8
  <2>3. CASE SyncCounts(h, m)
    <3> PICK paid : paid = {p \in Delivered(m) : parcels[p].paid}
      OBVIOUS
    <3> PICK open : open = {p \in Delivered(m) \ paid : parcels[p].invoice # NULL}
      OBVIOUS
    <3> PICK x, y, z :
          /\ x = InvoiceTotal(paid) /\ y = InvoiceTotal(open)
          /\ z = InvoiceTotal(Delivered(m) \ (paid \cup open))
      OBVIOUS
    <3> PICK f : f = [NewFinance EXCEPT !.withdrawn = x, !.invoiced = y, !.pending = z]
      OBVIOUS
    <3>1. paid \subseteq Parcels /\ open \subseteq Parcels /\ Delivered(m) \subseteq Parcels
      BY DEF Delivered
    <3>2. x \in Int /\ y \in Int /\ z \in Int
      BY <3>1, TotalsAreNumbers
    <3>3. NewFinance \in Finance
      BY DEF NewFinance, Finance
    <3>4. f \in Finance
      BY <3>2, <3>3 DEF Finance
    <3>5. Takes(h, "counted", m, f, 0) /\ UNCHANGED <<net, missed, synced>>
      BY <2>3 DEF SyncCounts
    <3> QED
      BY <3>4, <3>5, TakenIsAmounted
  <2> QED
    BY <2>1, <2>2, <2>3
<1>7. ASSUME NEW h \in Handlers, CallSaves(h) \/ SyncSaves(h) \/ SaveFinance(h) \/ SaveAdjustment(h)
      PROVE  Amounted'
  <2>1. desk[h] # NULL /\ desk' = [desk EXCEPT ![h] = NULL] /\ missed' = missed
    BY <1>7 DEF CallSaves, SyncSaves, SaveFinance, SaveAdjustment, vars
  <2>2. desk[h].merchant \in Merchants /\ desk[h].by \in Int
    BY <2>1 DEF Amounted, Desk
  <2>3. /\ net' = net \/ net' = [net EXCEPT ![desk[h].merchant] = @ + desk[h].by]
        /\ synced' = synced \/ synced' = synced \cup {desk[h].merchant}
    BY <1>7 DEF CallSaves, SyncSaves, SaveFinance, SaveAdjustment
  <2> QED
    BY <2>1, <2>2, <2>3 DEF Amounted
<1> QED
  BY <1>1, <1>2, <1>3, <1>4, <1>5, <1>6, <1>7 DEF BillingNext

\* The balances, amounts and ledger of merchants, and what handlers hold of them, have
\* their types: a call is always for an invoice that exists, of a merchant that does.
THEOREM FinanceTypeCorrect == BillingSpec => []FinanceTypeOK
PROOF
<1>1. BillingInit => BillingInv /\ Amounted
  BY BillingInvInit DEF BillingInit, FinanceInit, Amounted
<1>2. BillingInv /\ TypeOK' /\ [BillingNext]_billingVars => BillingInv'
  BY BillingInvStep
<1>3. Inv /\ BillingInv /\ Amounted /\ [BillingNext]_billingVars => Amounted'
  BY AmountedStep
<1>4. BillingInv /\ Amounted => FinanceTypeOK
  BY DEF BillingInv, FinanceOK, RowFits, QuotesOK, Amounted, FinanceTypeOK
<1>5. BillingSpec => []Inv
  <2>1. Inv /\ [Next]_vars => Inv'
    BY NextKeepsInv
  <2> QED
    BY <2>1, InitInv, BillingImplementsInvoicing, PTL DEF Spec
<1>6. Inv => TypeOK
  BY DEF Inv
<1> QED
  BY <1>1, <1>2, <1>3, <1>4, <1>5, <1>6, PTL DEF BillingSpec
-----------------------------------------------------------------------------
(* Agreement with the invoices and with the ledger, one request at a time. *)

\* What a row says that the merchant is owed, and what he has and was paid.
OwedBy(f) == IF f = NULL THEN 0 ELSE f.invoiced + f.processing
KeptBy(f) == IF f = NULL THEN 0 ELSE f.current - f.withdrawn

\* What a call does to what the merchant is owed.
OwedMove(move, a) == IF move = "invoiced" THEN a ELSE IF move = "payment" THEN -a ELSE 0

\* What the call that is still to be saved does to it.
Calling(req, invs, m) ==
  req # NULL /\ req.step = "finance" /\ invs[req.invoice].merchant = m

Moving(req, invs, pay, m) ==
  IF Calling(req, invs, m) THEN OwedMove(req.move, pay[req.invoice]) ELSE 0

OpenOf(invs, paid, m) == {i \in Invoices \ paid : invs[i] # NULL /\ invs[i].merchant = m}

\* With the call that is under way, what a merchant is owed is what his open invoices
\* come to.
BackedBy(req, invs, paid, pay, f, m) ==
  OwedBy(f) + Moving(req, invs, pay, m) = SumOver(pay, OpenOf(invs, paid, m))

Backed ==
  \A h \in Handlers, m \in Merchants \ (missed \cup synced) :
    BackedBy(inflight[h], invoices, settled, payable, finance[m], m)

Ledger ==
  /\ net \in [Merchants -> Int]
  /\ \A m \in Merchants \ synced : net[m] = KeptBy(finance[m])

\* What a handler will save differs from the rows fin by its call, or by the
\* adjustment that it made, and by nothing else.
DeskTells(req, invs, pay, d, fin) ==
  /\ d.merchant \in Merchants
  /\ req # NULL => d.kind = "row" /\ Calling(req, invs, d.merchant)
  /\ d.kind \in {"row", "current"} => fin[d.merchant] # NULL /\ d.by \in Int
  /\ d.kind = "row" =>
       /\ OwedBy(d.row) = OwedBy(fin[d.merchant]) + Moving(req, invs, pay, d.merchant)
       /\ KeptBy(d.row) = KeptBy(fin[d.merchant]) + d.by
       /\ req = NULL => d.by = 0
  /\ d.kind = "current" => d.row.current = fin[d.merchant].current + d.by

DesksTell ==
  \A h \in Handlers :
    desk[h] # NULL => DeskTells(inflight[h], invoices, payable, desk[h], finance)

Agreement == Backed /\ Ledger /\ DesksTell

\* All that is known of the composition by now.
Audited == BillingInv /\ SerialBooks /\ Agreement

LEMMA RowsAreNumbers ==
  ASSUME NEW f, f = NULL \/ f \in Finance
  PROVE  OwedBy(f) \in Int /\ KeptBy(f) \in Int
BY NullIsNoFinance DEF OwedBy, KeptBy, Finance

\* A call changes what is owed, and what was paid, by the invoice's amount or not at all.
LEMMA MovesAddUp ==
  ASSUME NEW f \in Finance, NEW move \in Moves, NEW a \in Int
  PROVE  /\ OwedBy(Moved(f, move, a)) = OwedBy(f) + OwedMove(move, a)
         /\ KeptBy(Moved(f, move, a)) = KeptBy(f) + (IF move = "payment" THEN -a ELSE 0)
PROOF
<1>0. /\ f.pending \in Int /\ f.invoiced \in Int /\ f.processing \in Int /\ f.withdrawn \in Int
      /\ f.current \in Int /\ f # NULL /\ Moved(f, move, a) # NULL
  <2>1. f # NULL /\ Moved(f, move, a) # NULL
    BY MovesConserve, NullIsNoFinance
  <2> QED
    BY <2>1 DEF Finance
<1>1. CASE move = "invoiced"
  <2> PICK x, y : x = f.pending - a /\ y = f.invoiced + a
    OBVIOUS
  <2>1. Moved(f, move, a) = [f EXCEPT !.pending = x, !.invoiced = y]
    BY <1>1 DEF Moved, Invoiced
  <2>2. /\ Moved(f, move, a).invoiced = y /\ Moved(f, move, a).processing = f.processing
        /\ Moved(f, move, a).current = f.current /\ Moved(f, move, a).withdrawn = f.withdrawn
    BY <2>1 DEF Finance
  <2> QED
    BY <1>0, <1>1, <2>2 DEF OwedBy, KeptBy, OwedMove
<1>2. CASE move = "processing"
  <2> PICK x, y : x = f.invoiced - a /\ y = f.processing + a
    OBVIOUS
  <2>1. Moved(f, move, a) = [f EXCEPT !.invoiced = x, !.processing = y]
    BY <1>2 DEF Moved, Processing
  <2>2. /\ Moved(f, move, a).invoiced = x /\ Moved(f, move, a).processing = y
        /\ Moved(f, move, a).current = f.current /\ Moved(f, move, a).withdrawn = f.withdrawn
    BY <2>1 DEF Finance
  <2> QED
    BY <1>0, <1>2, <2>2 DEF OwedBy, KeptBy, OwedMove
<1>3. CASE move = "back"
  <2> PICK x, y : x = f.processing - a /\ y = f.invoiced + a
    OBVIOUS
  <2>1. Moved(f, move, a) = [f EXCEPT !.processing = x, !.invoiced = y]
    BY <1>3 DEF Moved, Back
  <2>2. /\ Moved(f, move, a).processing = x /\ Moved(f, move, a).invoiced = y
        /\ Moved(f, move, a).current = f.current /\ Moved(f, move, a).withdrawn = f.withdrawn
    BY <2>1 DEF Finance
  <2> QED
    BY <1>0, <1>3, <2>2 DEF OwedBy, KeptBy, OwedMove
<1>4. CASE move = "payment"
  <2> PICK first : first = Least(a, f.processing)
    OBVIOUS
  <2> PICK x, y, z :
        x = f.processing - first /\ y = f.invoiced - (a - first) /\ z = f.withdrawn + a
    OBVIOUS
  <2>1. Moved(f, move, a) = [f EXCEPT !.processing = x, !.invoiced = y, !.withdrawn = z]
    BY <1>4 DEF Moved, Withdrawn
  <2>2. first \in Int
    BY <1>0 DEF Least
  <2>3. /\ Moved(f, move, a).processing = x /\ Moved(f, move, a).invoiced = y
        /\ Moved(f, move, a).current = f.current /\ Moved(f, move, a).withdrawn = z
    BY <2>1 DEF Finance
  <2> QED
    BY <1>0, <1>4, <2>2, <2>3 DEF OwedBy, KeptBy, OwedMove
<1> QED
  BY <1>1, <1>2, <1>3, <1>4 DEF Moves

LEMMA StepBacked ==
  ASSUME OneHandler, Backed, NEW h \in Handlers, missed \subseteq missed', synced \subseteq synced',
         \A m \in Merchants \ (missed' \cup synced') :
           BackedBy(inflight[h], invoices, settled, payable, finance[m], m)
             => BackedBy(inflight'[h], invoices', settled', payable', finance'[m], m)
  PROVE  Backed'
BY DEF OneHandler, Backed

LEMMA StepTells ==
  ASSUME OneHandler, NEW h \in Handlers,
         desk'[h] = NULL \/ DeskTells(inflight'[h], invoices', payable', desk'[h], finance')
  PROVE  DesksTell'
BY DEF OneHandler, DesksTell

\* Steps without a call before or after them.
Silent(req) == req = NULL \/ req.step # "finance"

LEMMA SilentStep ==
  ASSUME OneHandler, Audited, NEW h \in Handlers, desk'[h] = NULL,
         Silent(inflight[h]), Silent(inflight'[h]),
         UNCHANGED <<invoices, settled, finance, payable, net, missed, synced>>
  PROVE  Agreement'
PROOF
<1>1. \A invs, m : ~Calling(inflight[h], invs, m) /\ ~Calling(inflight'[h], invs, m)
  BY DEF Silent, Calling
<1>2. Backed'
  <2>1. \A m \in Merchants :
           BackedBy(inflight[h], invoices, settled, payable, finance[m], m)
             => BackedBy(inflight'[h], invoices', settled', payable', finance'[m], m)
    BY <1>1 DEF BackedBy, Moving
  <2> QED
    BY <2>1, StepBacked DEF Audited, Agreement
<1>3. Ledger'
  BY DEF Audited, Agreement, Ledger
<1> QED
  BY <1>2, <1>3, StepTells DEF Agreement

\* The transaction that bills parcels adds the invoice to those that are open, and
\* leaves its amount to the call.
LEMMA CreateAgrees ==
  ASSUME OneHandler, Audited, NEW h \in Handlers, desk[h] = NULL, BooksInvoice(h)
  PROVE  Agreement'
PROOF
<1>1. /\ TypeOK /\ SettledArePaid /\ payable \in [Invoices -> Int] /\ quoted[h] \in Int
      /\ Agreement /\ CreateInvoice(h)
  BY DEF Audited, SerialBooks, Books, BillingInv, QuotesOK, BooksInvoice
<1>2. /\ UNCHANGED <<settled, finance, net, desk, missed, synced>>
      /\ payable' = [j \in Invoices |->
                       IF ~Exists(j) /\ invoices'[j] # NULL THEN quoted[h] ELSE payable[j]]
  BY DEF BooksInvoice, CreateInvoice
<1>3. Silent(inflight[h])
  BY DEF BooksInvoice, CreateInvoice, At, Silent
<1>4. ASSUME NEW i \in Invoices, InsertInvoice(h, i)
      PROVE  Agreement'
  <2> PICK a, new : a = quoted[h] /\ invoices' = [invoices EXCEPT ![i] = new]
    BY <1>4 DEF InsertInvoice
  <2>1. /\ invoices[i] = NULL /\ i \notin settled
        /\ \A j \in Invoices \ {i} : invoices'[j] = invoices[j] /\ payable'[j] = payable[j]
        /\ payable'[i] \in Int
        /\ inflight'[h] = [step |-> "finance", invoice |-> i, move |-> "invoiced"]
    BY <1>1, <1>2, <1>4 DEF InsertInvoice, CallsFinance, Goes, Exists, SettledArePaid, TypeOK
  <2>2. invoices'[i] # NULL /\ payable'[i] = a
    <3> PICK row : row = [no |-> NextNumber,
                          merchant |-> MerchantOf[CHOOSE p \in inflight[h].parcels : TRUE],
                          status |-> "UNPAID", items |-> inflight[h].parcels]
      OBVIOUS
    <3>1. inflight[h].parcels \in (SUBSET Parcels) \ {{}}
      BY <1>1 DEF CreateInvoice, At, TypeOK, Request
    <3>2. row \in Invoice
      BY <1>1, <3>1, NewInvoice
    <3>3. invoices'[i] = row
      BY <1>1, <1>4 DEF InsertInvoice, TypeOK
    <3> QED
      BY <1>2, <2>1, <3>2, <3>3, NullIsNothing DEF Exists
  <2>3. ASSUME NEW m \in Merchants, BackedBy(inflight[h], invoices, settled, payable, finance[m], m)
        PROVE  BackedBy(inflight'[h], invoices', settled', payable', finance'[m], m)
    <3> PICK S : S = OpenOf(invoices, settled, m)
      OBVIOUS
    <3>1. S \subseteq Invoices /\ i \notin S /\ IsFiniteSet(S)
      BY <2>1, ConstantsAssumption, FS_Subset DEF OpenOf
    <3>2. OwedBy(finance[m]) = SumOver(payable, S)
      <4>1. OwedBy(finance[m]) \in Int
        BY RowsAreNumbers DEF Audited, BillingInv, FinanceOK, RowFits
      <4> QED
        BY <1>3, <2>3, <4>1 DEF BackedBy, Moving, Calling, Silent
    <3>3. SumOver(payable', S) = SumOver(payable, S) /\ SumOver(payable', S) \in Int
      <4>1. \A j \in S : payable'[j] = payable[j] /\ payable'[j] \in Int
        BY <1>1, <2>1, <3>1
      <4> PICK f, e : f = payable' /\ e = payable
        OBVIOUS
      <4> QED
        BY <3>1, <4>1, SumsAlike, SumSplits
    <3>4. CASE invoices'[i].merchant = m
      <4>1. OpenOf(invoices', settled', m) = S \cup {i}
        BY <1>2, <2>1, <2>2, <3>4 DEF OpenOf
      <4>2. SumOver(payable', S \cup {i}) = SumOver(payable', S) + payable'[i]
        <5>1. \A j \in S \cup {i} : payable'[j] \in Int
          BY <1>1, <2>1, <3>1
        <5> PICK f : f = payable'
          OBVIOUS
        <5> QED
          BY <3>1, <5>1, SumGrows
      <4>3. Moving(inflight'[h], invoices', payable', m) = payable'[i]
        <5>1. Calling(inflight'[h], invoices', m)
          <6> PICK req : req = [step |-> "finance", invoice |-> i, move |-> "invoiced"]
            OBVIOUS
          <6>1. req \in Request
            BY DEF Request, Moves
          <6> QED
            BY <2>1, <3>4, <6>1, NullIsNothing DEF Calling
        <5> QED
          BY <2>1, <5>1 DEF Moving, OwedMove
      <4> QED
        BY <1>2, <3>2, <3>3, <4>1, <4>2, <4>3 DEF BackedBy
    <3>5. CASE invoices'[i].merchant # m
      <4>1. OpenOf(invoices', settled', m) = S
        BY <1>2, <2>1, <2>2, <3>5 DEF OpenOf
      <4>2. Moving(inflight'[h], invoices', payable', m) = 0
        BY <2>1, <3>5 DEF Moving, Calling
      <4> QED
        BY <1>2, <3>2, <3>3, <4>1, <4>2 DEF BackedBy
    <3> QED
      BY <3>4, <3>5
  <2>4. Backed'
    BY <1>1, <1>2, <2>3, StepBacked DEF Agreement
  <2>5. Ledger' /\ DesksTell'
    BY <1>1, <1>2, StepTells DEF Agreement, Ledger
  <2> QED
    BY <2>4, <2>5 DEF Agreement
<1>5. ASSUME Responds(h), UNCHANGED <<parcels, invoices>>
      PROVE  Agreement'
  <2>1. payable' = payable /\ inflight'[h] = NULL
    BY <1>1, <1>2, <1>5 DEF Exists, Responds, Goes, TypeOK
  <2> QED
    BY <1>2, <1>3, <1>5, <2>1, SilentStep DEF Silent
<1> QED
  BY <1>4, <1>5 DEF BooksInvoice, CreateInvoice

\* Payment takes the invoice from those that are open, and leaves its amount to the call.
LEMMA PayAgrees ==
  ASSUME OneHandler, Audited, NEW h \in Handlers, desk[h] = NULL, PayInvoice(h),
         UNCHANGED financeVars
  PROVE  Agreement'
PROOF
<1> PICK i : i = inflight[h].invoice
  OBVIOUS
<1>1. TypeOK /\ payable \in [Invoices -> Int] /\ Agreement
  BY DEF Audited, BillingInv, QuotesOK
<1>2. i \in Invoices /\ i \notin settled /\ invoices[i] # NULL
  <2>1. i \in Invoices
    BY <1>1 DEF PayInvoice, At, TypeOK, Request
  <2>2. i \notin settled
    BY DEF PayInvoice, At, Audited, SerialBooks, Books, RequestsCurrent, Current
  <2>3. invoices[i] # NULL
    BY DEF PayInvoice, At, Audited, SerialBooks, Serial, Inv, RequestsOK, RequestOK
  <2> QED
    BY <2>1, <2>2, <2>3
<1>3. /\ invoices' = [invoices EXCEPT ![i].status = "PAID"] /\ settled' = settled \cup {i}
      /\ inflight'[h] = [step |-> "finance", invoice |-> i, move |-> "payment"]
  BY <1>1 DEF PayInvoice, CallsFinance, Goes, TypeOK
<1>4. \A j \in Invoices : /\ invoices'[j] # NULL <=> invoices[j] # NULL
                          /\ invoices[j] # NULL => invoices'[j].merchant = invoices[j].merchant
  BY <1>1, <1>2, <1>3, StatusKeepsRest DEF InvoiceStatus
<1>5. UNCHANGED <<finance, payable, net, missed, synced, desk>>
  BY DEF financeVars
<1>6. ASSUME NEW m \in Merchants, BackedBy(inflight[h], invoices, settled, payable, finance[m], m)
      PROVE  BackedBy(inflight'[h], invoices', settled', payable', finance'[m], m)
  <2> PICK S : S = OpenOf(invoices, settled, m)
    OBVIOUS
  <2>1. S \subseteq Invoices /\ IsFiniteSet(S) /\ \A j \in S : payable[j] \in Int
    BY <1>1, ConstantsAssumption, FS_Subset DEF OpenOf
  <2>2. OwedBy(finance[m]) \in Int
    BY RowsAreNumbers DEF Audited, BillingInv, FinanceOK, RowFits
  <2>3. OwedBy(finance[m]) = SumOver(payable, S)
    BY <1>6, <2>2 DEF BackedBy, Moving, Calling, PayInvoice, At
  <2>4. CASE invoices[i].merchant = m
    <3>1. OpenOf(invoices', settled', m) = S \ {i} /\ i \in S
      BY <1>2, <1>3, <1>4, <2>4 DEF OpenOf
    <3>2. SumOver(payable, S) = payable[i] + SumOver(payable, S \ {i})
      BY <2>1, <3>1, SumSplits
    <3>3. SumOver(payable, S \ {i}) \in Int
      <4>1. IsFiniteSet(S \ {i}) /\ \A j \in S \ {i} : payable[j] \in Int
        BY <2>1, FS_RemoveElement
      <4> QED
        BY <4>1, SumSplits
    <3>4. Moving(inflight'[h], invoices', payable', m) = -payable[i]
      <4> PICK req : req = [step |-> "finance", invoice |-> i, move |-> "payment"]
        OBVIOUS
      <4>1. req \in Request
        BY <1>2 DEF Request, Moves
      <4>2. Calling(inflight'[h], invoices', m)
        BY <1>2, <1>3, <1>4, <2>4, <4>1, NullIsNothing DEF Calling
      <4> QED
        BY <1>3, <1>5, <4>2 DEF Moving, OwedMove
    <3> QED
      BY <1>1, <1>2, <1>5, <2>3, <3>1, <3>2, <3>3, <3>4 DEF BackedBy
  <2>5. CASE invoices[i].merchant # m
    <3>1. OpenOf(invoices', settled', m) = S
      BY <1>2, <1>3, <1>4, <2>5 DEF OpenOf
    <3>2. Moving(inflight'[h], invoices', payable', m) = 0
      BY <1>2, <1>3, <1>4, <2>5 DEF Moving, Calling
    <3> QED
      BY <1>5, <2>2, <2>3, <3>1, <3>2 DEF BackedBy
  <2> QED
    BY <2>4, <2>5
<1>7. Backed'
  BY <1>1, <1>5, <1>6, StepBacked DEF Agreement
<1> QED
  BY <1>1, <1>5, <1>7, StepTells DEF Agreement, Ledger

\* The other steps of the invoice service: no invoice is opened or closed.
LEMMA InvoiceStepAgrees ==
  ASSUME OneHandler, Audited, NEW h \in Handlers, desk[h] = NULL, InvoiceStep(h)
  PROVE  Agreement'
PROOF
<1>1. TypeOK /\ UNCHANGED <<finance, payable, net, missed, synced, desk>> /\ UNCHANGED financeVars
  BY DEF Audited, BillingInv, InvoiceStep, financeVars
<1>2. ASSUME NEW req, Begins(h, req), req.step # "finance"
      PROVE  Agreement'
  <2>1. inflight[h] = NULL /\ inflight'[h] = req /\ UNCHANGED <<invoices, settled>>
    BY <1>1, <1>2 DEF Begins, TypeOK
  <2> QED
    BY <1>1, <1>2, <2>1, SilentStep DEF Silent
<1>3. CASE \E i \in Invoices :
             MarkInvoiceAsPaid(h, i) \/ \E to \in Patches : UpdateInvoiceStatus(h, i, to)
  BY <1>2, <1>3 DEF MarkInvoiceAsPaid, UpdateInvoiceStatus
<1>4. CASE OtherStep(h)
  BY <1>2, <1>4 DEF OtherStep, Delivers, ReadsParcel
<1>5. CASE FindParcels(h) \/ SaveParcel(h)
  <2>1. /\ Silent(inflight[h]) /\ Silent(inflight'[h]) /\ UNCHANGED <<invoices, settled>>
    BY <1>1, <1>5 DEF FindParcels, SaveParcel, At, Goes, Responds, TypeOK, Silent
  <2> QED
    BY <1>1, <2>1, SilentStep
<1>6. CASE PayInvoice(h)
  BY <1>1, <1>6, PayAgrees
<1>7. CASE SaveStatus(h)
  <2> PICK i, to : i = inflight[h].invoice /\ to = inflight[h].to
    OBVIOUS
  <2>1. i \in Invoices /\ to \in InvoiceStatus
    BY <1>1, <1>7 DEF SaveStatus, At, TypeOK, Request
  <2>2. invoices[i] # NULL
    BY <1>7 DEF SaveStatus, At, Audited, SerialBooks, Serial, Inv, RequestsOK, RequestOK
  <2>3. invoices' = [invoices EXCEPT ![i].status = to] /\ settled' = settled
    BY <1>7 DEF SaveStatus
  <2>4. \A j \in Invoices : /\ invoices'[j] # NULL <=> invoices[j] # NULL
                            /\ invoices[j] # NULL => invoices'[j].merchant = invoices[j].merchant
    BY <1>1, <2>1, <2>2, <2>3, StatusKeepsRest
  <2>5. inflight'[h] = NULL \/ inflight'[h].move \in {"processing", "back"}
    BY <1>1, <1>7 DEF SaveStatus, CallsFinance, Responds, Goes, TypeOK
  <2>6. ASSUME NEW m \in Merchants,
               BackedBy(inflight[h], invoices, settled, payable, finance[m], m)
        PROVE  BackedBy(inflight'[h], invoices', settled', payable', finance'[m], m)
    <3>1. OpenOf(invoices', settled', m) = OpenOf(invoices, settled, m)
      BY <2>3, <2>4 DEF OpenOf
    <3>2. Moving(inflight[h], invoices, payable, m) = 0
      BY <1>7 DEF SaveStatus, At, Moving, Calling
    <3>3. Moving(inflight'[h], invoices', payable', m) = 0
      BY <2>5 DEF Moving, Calling, OwedMove
    <3> QED
      BY <1>1, <2>6, <3>1, <3>2, <3>3 DEF BackedBy
  <2>7. Backed'
    BY <1>1, <2>6, StepBacked DEF Audited, Agreement
  <2> QED
    BY <1>1, <2>7, StepTells DEF Audited, Agreement, Ledger
<1> QED
  BY <1>3, <1>4, <1>5, <1>6, <1>7 DEF InvoiceStep

\* A generation, and a failure, of the invoice service.
LEMMA QuoteAgrees ==
  ASSUME OneHandler, Audited, NEW h \in Handlers, desk[h] = NULL,
         NEW S \in SUBSET Parcels, QuotesInvoice(h, S)
  PROVE  Agreement'
PROOF
<1>1. TypeOK
  BY DEF Audited, BillingInv
<1>2. /\ inflight[h] = NULL /\ inflight'[h].step = "create"
      /\ UNCHANGED <<invoices, settled, finance, payable, net, desk, missed, synced>>
  BY <1>1 DEF QuotesInvoice, GenerateInvoice, Begins, TypeOK
<1> QED
  BY <1>2, SilentStep DEF Silent

LEMMA FailureAgrees ==
  ASSUME OneHandler, Audited, NEW h \in Handlers, InvoiceFails(h)
  PROVE  Agreement'
PROOF
<1>1. TypeOK /\ Agreement /\ FinanceOK /\ desk = [g \in Handlers |-> desk[g]]
  BY DEF Audited, BillingInv, DesksOK
<1>2. /\ inflight'[h] = NULL /\ desk'[h] = NULL /\ inflight[h] # NULL
      /\ UNCHANGED <<invoices, settled, finance, payable, net, synced>>
      /\ missed' = IF At(h, "finance") THEN missed \cup {Caller(h)} ELSE missed
  BY <1>1 DEF InvoiceFails, Abandon, Responds, Goes, TypeOK
<1>3. ASSUME NEW m \in Merchants \ missed',
             BackedBy(inflight[h], invoices, settled, payable, finance[m], m)
      PROVE  BackedBy(inflight'[h], invoices', settled', payable', finance'[m], m)
  <2>1. ~Calling(inflight[h], invoices, m) /\ ~Calling(inflight'[h], invoices', m)
    BY <1>2, <1>3 DEF Calling, At, Caller
  <2> QED
    BY <1>2, <1>3, <2>1 DEF BackedBy, Moving
<1>4. Backed'
  BY <1>1, <1>2, <1>3, StepBacked DEF Agreement
<1> QED
  BY <1>1, <1>2, <1>4, StepTells DEF Agreement, Ledger

(* The calls, and what admins do.                                          *)

\* A row is saved: what is owed changes by the call that ends, what is kept by the
\* entry in the ledger.
LEMMA RowSettles ==
  ASSUME OneHandler, Audited, NEW h \in Handlers, desk'[h] = NULL,
         NEW m \in Merchants, NEW f, finance' = [finance EXCEPT ![m] = f],
         NEW by \in Int, net' = [net EXCEPT ![m] = @ + by],
         UNCHANGED <<invoices, settled, payable, missed>>, synced \subseteq synced',
         \A n \in Merchants \ {m} :
           Moving(inflight'[h], invoices, payable, n) = Moving(inflight[h], invoices, payable, n),
         m \notin synced' =>
           /\ OwedBy(f) + Moving(inflight'[h], invoices, payable, m)
                = OwedBy(finance[m]) + Moving(inflight[h], invoices, payable, m)
           /\ KeptBy(f) = KeptBy(finance[m]) + by
  PROVE  Agreement'
PROOF
<1>1. Agreement /\ finance = [n \in Merchants |-> finance[n]]
  BY DEF Audited, BillingInv, FinanceOK
<1>2. finance'[m] = f /\ \A n \in Merchants \ {m} : finance'[n] = finance[n]
  BY <1>1
<1>3. ASSUME NEW n \in Merchants \ (missed' \cup synced'),
             BackedBy(inflight[h], invoices, settled, payable, finance[n], n)
      PROVE  BackedBy(inflight'[h], invoices', settled', payable', finance'[n], n)
  <2>1. CASE n = m
    BY <1>2, <1>3, <2>1 DEF BackedBy
  <2>2. CASE n # m
    <3>1. Moving(inflight'[h], invoices, payable, n) = Moving(inflight[h], invoices, payable, n)
      BY <2>2
    <3>2. finance'[n] = finance[n]
      BY <1>2, <2>2
    <3> QED
      BY <1>3, <3>1, <3>2 DEF BackedBy
  <2> QED
    BY <2>1, <2>2
<1>4. Backed'
  BY <1>1, <1>3, StepBacked DEF Agreement
<1>5. Ledger'
  <2>1. net \in [Merchants -> Int] /\ \A n \in Merchants \ synced : net[n] = KeptBy(finance[n])
    BY <1>1 DEF Agreement, Ledger
  <2>2. net' \in [Merchants -> Int]
    BY <2>1
  <2>3. ASSUME NEW n \in Merchants \ synced'
        PROVE  net'[n] = KeptBy(finance'[n])
    <3>1. CASE n = m
      BY <1>2, <2>1, <2>3, <3>1
    <3>2. CASE n # m
      BY <1>2, <2>1, <2>3, <3>2
    <3> QED
      BY <3>1, <3>2
  <2> QED
    BY <2>2, <2>3 DEF Ledger
<1> QED
  BY <1>4, <1>5, StepTells DEF Agreement

\* A row is taken, and nothing saved.
LEMMA TakingTells ==
  ASSUME OneHandler, Audited, NEW h \in Handlers,
         NEW kind, NEW m, NEW row, NEW by, Takes(h, kind, m, row, by),
         UNCHANGED <<vars, finance, payable, quoted, net, missed, synced>>,
         DeskTells(inflight[h], invoices, payable,
                   [kind |-> kind, merchant |-> m, row |-> row, by |-> by], finance)
  PROVE  Agreement'
PROOF
<1>1. Agreement /\ desk = [g \in Handlers |-> desk[g]]
  BY DEF Audited, BillingInv, DesksOK
<1>2. desk'[h] = [kind |-> kind, merchant |-> m, row |-> row, by |-> by]
  BY <1>1 DEF Takes
<1>3. UNCHANGED <<invoices, settled, inflight, finance, payable, net, missed, synced>>
  BY DEF vars
<1>4. DesksTell'
  BY <1>2, <1>3, StepTells
<1>5. Backed' /\ Ledger'
  BY <1>1, <1>3 DEF Agreement, Backed, Ledger
<1> QED
  BY <1>4, <1>5 DEF Agreement

LEMMA CallAgrees ==
  ASSUME OneHandler, Audited, NEW h \in Handlers,
         CallReads(h) \/ CallFindsNothing(h) \/ CallSaves(h)
  PROVE  Agreement'
PROOF
<1>1. TypeOK /\ FinanceOK /\ QuotesOK /\ Agreement /\ desk = [g \in Handlers |-> desk[g]]
  BY DEF Audited, BillingInv, DesksOK
<1>2. At(h, "finance")
  BY DEF CallReads, CallFindsNothing, CallSaves, FinanceCall
<1> PICK i, move : i = inflight[h].invoice /\ move = inflight[h].move
  OBVIOUS
<1> PICK m : m = invoices[i].merchant
  OBVIOUS
<1>3. i \in Invoices /\ move \in Moves /\ payable[i] \in Int
  BY <1>1, <1>2 DEF At, TypeOK, Request, QuotesOK
<1>4. /\ Calling(inflight[h], invoices, m)
      /\ Moving(inflight[h], invoices, payable, m) = OwedMove(move, payable[i])
      /\ \A n \in Merchants \ {m} : Moving(inflight[h], invoices, payable, n) = 0
  BY <1>2 DEF At, Calling, Moving
<1>5. CASE CallReads(h)
  <2> PICK f, by : /\ f = Moved(finance[m], move, payable[i])
                   /\ by = IF move = "payment" THEN -payable[i] ELSE 0
    OBVIOUS
  <2>1. finance[m] # NULL /\ Takes(h, "row", m, f, by)
    BY <1>5 DEF CallReads, Caller
  <2>2. m \in Merchants
    <3>1. invoices[i] # NULL
      BY <1>2 DEF At, Audited, SerialBooks, Serial, Inv, RequestsOK, RequestOK
    <3> QED
      BY <1>1, <1>3, <3>1 DEF TypeOK, Invoice
  <2>3. by \in Int
    BY <1>3
  <2>4. finance[m] \in Finance
    BY <1>1, <2>1, <2>2 DEF FinanceOK, RowFits
  <2>5. OwedBy(f) = OwedBy(finance[m]) + OwedMove(move, payable[i]) /\ KeptBy(f) = KeptBy(finance[m]) + by
    BY <1>3, <2>4, MovesAddUp
  <2>6. DeskTells(inflight[h], invoices, payable,
                  [kind |-> "row", merchant |-> m, row |-> f, by |-> by], finance)
    BY <1>2, <1>4, <2>1, <2>2, <2>3, <2>5 DEF DeskTells, At
  <2> QED
    BY <1>5, <2>1, <2>6, TakingTells DEF CallReads
<1>6. CASE CallFindsNothing(h)
  <2>1. /\ inflight'[h] = NULL /\ desk'[h] = NULL
        /\ missed' = missed \cup {m}
        /\ UNCHANGED <<invoices, settled, finance, payable, net, synced>>
    BY <1>1, <1>6 DEF CallFindsNothing, FinanceCall, Responds, Goes, TypeOK, Caller
  <2>2. ASSUME NEW n \in Merchants \ missed',
               BackedBy(inflight[h], invoices, settled, payable, finance[n], n)
        PROVE  BackedBy(inflight'[h], invoices', settled', payable', finance'[n], n)
    <3>1. Moving(inflight[h], invoices, payable, n) = 0 /\ Moving(inflight'[h], invoices', payable', n) = 0
      BY <1>4, <2>1, <2>2 DEF Moving, Calling
    <3> QED
      BY <2>1, <2>2, <3>1 DEF BackedBy
  <2>3. Backed'
    BY <1>1, <2>1, <2>2, StepBacked DEF Agreement
  <2> QED
    BY <1>1, <2>1, <2>3, StepTells DEF Agreement, Ledger
<1>7. CASE CallSaves(h)
  <2> PICK d : d = desk[h]
    OBVIOUS
  <2>1. /\ desk[h] # NULL /\ d.kind = "row" /\ desk'[h] = NULL /\ inflight'[h] = NULL
        /\ finance' = [finance EXCEPT ![d.merchant] = d.row]
        /\ net' = [net EXCEPT ![d.merchant] = @ + d.by]
        /\ UNCHANGED <<invoices, settled, payable, missed, synced>>
    BY <1>1, <1>7 DEF CallSaves, FinanceCall, Responds, Goes, TypeOK
  <2>2. DeskTells(inflight[h], invoices, payable, d, finance)
    BY <1>1, <2>1 DEF Agreement, DesksTell
  <2>3. d.merchant = m /\ m \in Merchants /\ d.by \in Int
    BY <1>2, <2>1, <2>2 DEF DeskTells, Calling, At
  <2>4. /\ OwedBy(d.row) = OwedBy(finance[m]) + Moving(inflight[h], invoices, payable, m)
        /\ KeptBy(d.row) = KeptBy(finance[m]) + d.by
    BY <2>1, <2>2, <2>3 DEF DeskTells
  <2>5. \A n : Moving(inflight'[h], invoices, payable, n) = 0
    BY <2>1 DEF Moving, Calling
  <2>6. OwedBy(d.row) \in Int
    <3>1. OwedBy(finance[m]) \in Int
      BY <1>1, <2>3, RowsAreNumbers DEF FinanceOK, RowFits
    <3>2. OwedMove(move, payable[i]) \in Int
      BY <1>3 DEF OwedMove
    <3> QED
      BY <1>4, <2>4, <3>1, <3>2
  <2>7. /\ OwedBy(d.row) + Moving(inflight'[h], invoices, payable, m)
             = OwedBy(finance[m]) + Moving(inflight[h], invoices, payable, m)
        /\ \A n \in Merchants \ {m} :
             Moving(inflight'[h], invoices, payable, n) = Moving(inflight[h], invoices, payable, n)
    BY <1>4, <2>4, <2>5, <2>6
  <2> QED
    BY <2>1, <2>3, <2>4, <2>7, RowSettles
<1> QED
  BY <1>5, <1>6, <1>7

LEMMA AdminAgrees ==
  ASSUME OneHandler, Audited, NEW h \in Handlers, FinanceStep(h)
  PROVE  Agreement'
PROOF
<1>1. FinanceOK /\ Agreement /\ desk = [g \in Handlers |-> desk[g]]
  BY DEF Audited, BillingInv, DesksOK
<1>2. inflight[h] = NULL /\ desk[h] = NULL
  BY DEF FinanceStep, OpenFinance, AdjustBalance, HoldBalance, ReleaseHold, AdminReads,
         SyncCounts, Idle
<1>3. \A invs, m : Moving(inflight[h], invs, payable, m) = 0
  BY <1>2 DEF Moving, Calling
<1>4. ASSUME NEW m \in Merchants, OpenFinance(h, m)
      PROVE  Agreement'
  <2>1. /\ finance[m] = NULL
        /\ UNCHANGED <<invoices, settled, inflight, payable, desk, net, missed, synced>>
    BY <1>4 DEF OpenFinance, vars
  <2>2. OwedBy(NewFinance) = 0 /\ KeptBy(NewFinance) = 0
    <3>1. NewFinance \in Finance
      BY DEF NewFinance, Finance
    <3> QED
      BY <3>1, NullIsNoFinance DEF OwedBy, KeptBy, NewFinance
  <2>3. PICK f : finance' = [finance EXCEPT ![m] = f] /\ OwedBy(f) = 0 /\ KeptBy(f) = 0
    BY <1>4, <2>2 DEF OpenFinance
  <2>4. net' = [net EXCEPT ![m] = @ + 0] /\ 0 \in Int
    BY <1>1, <2>1 DEF Agreement, Ledger
  <2>5. OwedBy(finance[m]) = 0 /\ KeptBy(finance[m]) = 0
    BY <2>1 DEF OwedBy, KeptBy
  <2>6. /\ \A n \in Merchants \ {m} :
             Moving(inflight'[h], invoices, payable, n) = Moving(inflight[h], invoices, payable, n)
        /\ OwedBy(f) + Moving(inflight'[h], invoices, payable, m)
             = OwedBy(finance[m]) + Moving(inflight[h], invoices, payable, m)
        /\ KeptBy(f) = KeptBy(finance[m]) + 0
    BY <1>3, <2>1, <2>3, <2>5
  <2>7. desk'[h] = NULL /\ synced \subseteq synced' /\ UNCHANGED <<invoices, settled, payable, missed>>
    BY <1>2, <2>1
  <2> QED
    BY <2>3, <2>4, <2>6, <2>7, RowSettles
<1>5. ASSUME NEW m \in Merchants, AdminReads(h, m)
      PROVE  /\ finance[m] \in Finance /\ finance[m] # NULL
             /\ UNCHANGED <<vars, finance, payable, quoted, net, missed, synced>>
  BY <1>1, <1>5 DEF AdminReads, FinanceOK, RowFits
<1>6. ASSUME NEW m \in Merchants, NEW by \in Int, AdjustBalance(h, m, by)
      PROVE  Agreement'
  <2> PICK x : x = finance[m].current + by
    OBVIOUS
  <2> PICK f : f = [finance[m] EXCEPT !.current = x]
    OBVIOUS
  <2>1. AdminReads(h, m) /\ Takes(h, "current", m, f, by)
    BY <1>6 DEF AdjustBalance
  <2>2. f.current = x
    BY <1>5, <2>1 DEF Finance
  <2>3. DeskTells(inflight[h], invoices, payable,
                  [kind |-> "current", merchant |-> m, row |-> f, by |-> by], finance)
    BY <1>2, <1>5, <2>1, <2>2 DEF DeskTells
  <2> QED
    BY <1>5, <2>1, <2>3, TakingTells
<1>7. ASSUME NEW m \in Merchants, NEW x \in Int,
             AdminReads(h, m), Takes(h, "row", m, [finance[m] EXCEPT !.held = x], 0)
      PROVE  Agreement'
  <2> PICK f : f = [finance[m] EXCEPT !.held = x]
    OBVIOUS
  <2>1. /\ f.invoiced = finance[m].invoiced /\ f.processing = finance[m].processing
        /\ f.current = finance[m].current /\ f.withdrawn = finance[m].withdrawn
        /\ finance[m].invoiced \in Int /\ finance[m].processing \in Int
        /\ finance[m].current \in Int /\ finance[m].withdrawn \in Int
    BY <1>5, <1>7 DEF Finance
  <2>2. f # NULL
    <3>1. f \in Finance
      BY <1>5, <1>7 DEF Finance
    <3> QED
      BY <3>1, NullIsNoFinance
  <2>3. OwedBy(f) = OwedBy(finance[m]) + 0 /\ KeptBy(f) = KeptBy(finance[m]) + 0
    BY <1>5, <1>7, <2>1, <2>2 DEF OwedBy, KeptBy
  <2>4. DeskTells(inflight[h], invoices, payable,
                  [kind |-> "row", merchant |-> m, row |-> f, by |-> 0], finance)
    BY <1>2, <1>3, <1>5, <1>7, <2>3 DEF DeskTells
  <2> QED
    BY <1>5, <1>7, <2>4, TakingTells
<1>8. ASSUME NEW m \in Merchants, NEW a \in Int, HoldBalance(h, m, a) \/ ReleaseHold(h, m, a)
      PROVE  Agreement'
  <2>1. AdminReads(h, m)
    BY <1>8 DEF HoldBalance, ReleaseHold
  <2>2. finance[m].held \in Int
    BY <1>5, <2>1 DEF Finance
  <2> PICK x : x = IF HoldBalance(h, m, a) THEN finance[m].held + a ELSE finance[m].held - a
    OBVIOUS
  <2>3. x \in Int
    BY <2>2
  <2>4. Takes(h, "row", m, [finance[m] EXCEPT !.held = x], 0)
    BY <1>8 DEF HoldBalance, ReleaseHold
  <2> QED
    BY <1>7, <2>1, <2>3, <2>4
<1>9. ASSUME NEW m \in Merchants, SyncCounts(h, m)
      PROVE  Agreement'
  <2>1. PICK f : Takes(h, "counted", m, f, 0)
    BY <1>9 DEF SyncCounts
  <2>2. DeskTells(inflight[h], invoices, payable,
                  [kind |-> "counted", merchant |-> m, row |-> f, by |-> 0], finance)
    BY <1>2 DEF DeskTells
  <2> QED
    BY <1>9, <2>1, <2>2, TakingTells DEF SyncCounts
<1>10. \A a \in Amounts : a \in Int /\ -a \in Int
  BY AmountsAssumption
<1> QED
  BY <1>4, <1>6, <1>8, <1>9, <1>10 DEF FinanceStep

LEMMA SaveAgrees ==
  ASSUME OneHandler, Audited, NEW h \in Handlers,
         SyncSaves(h) \/ SaveFinance(h) \/ SaveAdjustment(h) \/ AdminFails(h)
  PROVE  Agreement'
PROOF
<1> PICK d : d = desk[h]
  OBVIOUS
<1>1. /\ FinanceOK /\ Agreement /\ desk[h] # NULL
      /\ DeskTells(inflight[h], invoices, payable, d, finance)
      /\ desk' = [g \in Handlers |-> desk'[g]] /\ desk'[h] = NULL
      /\ UNCHANGED <<invoices, settled, inflight, payable, missed>>
  BY DEF Audited, BillingInv, DesksOK, Agreement, DesksTell, SyncSaves, SaveFinance,
         SaveAdjustment, AdminFails, vars
<1>2. d.merchant \in Merchants
  BY <1>1 DEF DeskTells
<1>3. net \in [Merchants -> Int]
  BY <1>1 DEF Agreement, Ledger
<1>4. \A n : Moving(inflight'[h], invoices, payable, n) = Moving(inflight[h], invoices, payable, n)
  BY <1>1
<1>5. CASE SyncSaves(h)
  <2>1. PICK f : finance' = [finance EXCEPT ![d.merchant] = f]
    BY <1>5 DEF SyncSaves
  <2>2. synced' = synced \cup {d.merchant} /\ net' = [net EXCEPT ![d.merchant] = @ + 0] /\ 0 \in Int
    BY <1>2, <1>3, <1>5 DEF SyncSaves
  <2>3. synced \subseteq synced' /\ d.merchant \in synced'
    BY <2>2
  <2> QED
    BY <1>1, <1>2, <1>4, <2>1, <2>2, <2>3, RowSettles
<1>6. CASE SaveFinance(h)
  <2>1. /\ finance' = [finance EXCEPT ![d.merchant] = d.row] /\ d.kind = "row" /\ inflight[h] = NULL
        /\ synced' = synced
    BY <1>6 DEF SaveFinance
  <2>2. net' = [net EXCEPT ![d.merchant] = @ + 0] /\ 0 \in Int
    BY <1>2, <1>3, <1>6 DEF SaveFinance
  <2>3. \A n : Moving(inflight[h], invoices, payable, n) = 0
    BY <2>1 DEF Moving, Calling
  <2>4. /\ OwedBy(d.row) = OwedBy(finance[d.merchant]) + Moving(inflight[h], invoices, payable, d.merchant)
        /\ KeptBy(d.row) = KeptBy(finance[d.merchant]) + 0
    BY <1>1, <2>1 DEF DeskTells
  <2>5. OwedBy(d.row) \in Int
    <3>1. OwedBy(finance[d.merchant]) \in Int
      BY <1>1, <1>2, RowsAreNumbers DEF FinanceOK, RowFits
    <3> QED
      BY <2>3, <2>4, <3>1
  <2>6. OwedBy(d.row) + Moving(inflight'[h], invoices, payable, d.merchant)
          = OwedBy(finance[d.merchant]) + Moving(inflight[h], invoices, payable, d.merchant)
    BY <1>4, <2>3, <2>4, <2>5
  <2> QED
    BY <1>1, <1>2, <1>4, <2>1, <2>2, <2>4, <2>6, RowSettles
<1>7. CASE SaveAdjustment(h)
  <2> PICK x : x = d.row.current
    OBVIOUS
  <2> PICK m : m = d.merchant
    OBVIOUS
  <2> PICK f : f = [finance[m] EXCEPT !.current = x]
    OBVIOUS
  <2>1. /\ d.kind = "current" /\ finance' = [finance EXCEPT ![m] = f]
        /\ net' = [net EXCEPT ![m] = @ + d.by] /\ synced' = synced
    BY <1>7 DEF SaveAdjustment
  <2>2. finance[m] # NULL /\ x = finance[m].current + d.by /\ d.by \in Int /\ m \in Merchants
    BY <1>1, <2>1 DEF DeskTells
  <2>3. finance[m] \in Finance
    BY <1>1, <2>2 DEF FinanceOK, RowFits
  <2>4. /\ f.invoiced = finance[m].invoiced /\ f.processing = finance[m].processing
        /\ f.current = x /\ f.withdrawn = finance[m].withdrawn /\ x \in Int
        /\ finance[m].current \in Int /\ finance[m].withdrawn \in Int
    BY <2>2, <2>3 DEF Finance
  <2>5. f \in Finance
    BY <2>3, <2>4 DEF Finance
  <2>6. OwedBy(f) = OwedBy(finance[m]) /\ KeptBy(f) = KeptBy(finance[m]) + d.by
    BY <2>2, <2>4, <2>5, NullIsNoFinance DEF OwedBy, KeptBy
  <2>7. OwedBy(f) + Moving(inflight'[h], invoices, payable, m)
          = OwedBy(finance[m]) + Moving(inflight[h], invoices, payable, m)
    BY <1>4, <2>6
  <2> QED
    BY <1>1, <1>4, <2>1, <2>2, <2>6, <2>7, RowSettles
<1>8. CASE AdminFails(h)
  <2>1. UNCHANGED <<finance, net, synced>>
    BY <1>8 DEF AdminFails
  <2>2. Backed' /\ Ledger'
    BY <1>1, <2>1 DEF Agreement, Backed, Ledger
  <2> QED
    BY <1>1, <2>2, StepTells DEF Agreement
<1> QED
  BY <1>5, <1>6, <1>7, <1>8

LEMMA AgreementInit == BillingInit => Agreement
PROOF
<1> SUFFICES ASSUME BillingInit PROVE Agreement
  OBVIOUS
<1>1. /\ \A m \in Merchants : finance[m] = NULL
      /\ \A h \in Handlers : inflight[h] = NULL /\ desk[h] = NULL
      /\ \A i \in Invoices : invoices[i] = NULL
      /\ net = [m \in Merchants |-> 0]
  BY DEF BillingInit, Init, FinanceInit
<1>2. Backed
  <2>1. \A m \in Merchants : OpenOf(invoices, settled, m) = {}
    BY <1>1 DEF OpenOf
  <2>2. \A m \in Merchants : SumOver(payable, OpenOf(invoices, settled, m)) = 0
    BY <2>1, SumOfNone
  <2> QED
    BY <1>1, <2>2 DEF Backed, BackedBy, OwedBy, Moving, Calling
<1> QED
  BY <1>1, <1>2 DEF Agreement, Ledger, KeptBy, DesksTell

LEMMA AuditedStep == OneHandler => (Audited /\ [BillingNext]_billingVars => Audited')
PROOF
<1> SUFFICES ASSUME OneHandler, Audited, [BillingNext]_billingVars PROVE Audited'
  OBVIOUS
<1>1. SerialBooks'
  BY BillingIsInvoicing, NextSerialBooks DEF Audited
<1>2. BillingInv'
  BY <1>1, BillingInvStep DEF Audited, SerialBooks, Serial, Inv
<1>3. ASSUME invoices' = invoices, settled' = settled, inflight' = inflight, UNCHANGED financeVars
      PROVE  Agreement'
  <2>0. UNCHANGED <<finance, payable, desk, net, missed, synced>>
    BY <1>3 DEF financeVars
  <2>1. Backed' /\ Ledger'
    BY <1>3, <2>0 DEF Audited, Agreement, Backed, Ledger
  <2>2. DesksTell'
    BY <1>3, <2>0 DEF Audited, Agreement, DesksTell
  <2> QED
    BY <2>1, <2>2 DEF Agreement
<1>4. UNCHANGED billingVars => Agreement'
  BY <1>3 DEF billingVars, vars
<1>5. MonthPasses /\ UNCHANGED financeVars => Agreement'
  BY <1>3 DEF MonthPasses
<1>6. ASSUME NEW h \in Handlers, desk[h] = NULL,
             (\E S \in SUBSET Parcels : QuotesInvoice(h, S)) \/ BooksInvoice(h) \/ InvoiceStep(h)
      PROVE  Agreement'
  BY <1>6, QuoteAgrees, CreateAgrees, InvoiceStepAgrees
<1>7. ASSUME NEW h \in Handlers,
             \/ CallReads(h) \/ CallFindsNothing(h) \/ CallSaves(h)
             \/ FinanceStep(h) \/ InvoiceFails(h)
             \/ SyncSaves(h) \/ SaveFinance(h) \/ SaveAdjustment(h) \/ AdminFails(h)
      PROVE  Agreement'
  BY <1>7, CallAgrees, AdminAgrees, FailureAgrees, SaveAgrees
<1>8. Agreement'
  BY <1>4, <1>5, <1>6, <1>7 DEF BillingNext
<1> QED
  BY <1>1, <1>2, <1>8 DEF Audited

LEMMA StaysAudited == OneHandler => (BillingSpec => []Audited)
PROOF
<1> SUFFICES ASSUME OneHandler PROVE BillingSpec => []Audited
  OBVIOUS
<1>1. BillingInit => Audited
  BY AgreementInit, BillingInvInit, InitSerialBooks DEF BillingInit, Audited
<1>2. Audited /\ [BillingNext]_billingVars => Audited'
  BY AuditedStep
<1> QED
  BY <1>1, <1>2, PTL DEF BillingSpec

\* What the balances say is owed to a merchant is what his open invoices come to,
\* although another service writes it, in a transaction of its own and from amounts
\* computed before the invoice existed: with requests one at a time and as long as no
\* call was lost and no row recomputed, for any amounts, whatever admins set the
\* status of invoices to and whenever they adjust or hold balances.
THEOREM BalancesAreBacked ==
  ASSUME OneHandler, Handlers # {}
  PROVE  BillingSpec => []OpenInvoicesBacked
PROOF
<1>1. Audited => OpenInvoicesBacked
  <2> SUFFICES ASSUME Audited, NEW m \in Merchants \ (missed \cup synced),
                      finance[m] # NULL, \A h \in Handlers : ~At(h, "finance")
               PROVE  Owed(m) = MapThenSumSet(LAMBDA i : payable[i], OpenInvoices(m))
    BY DEF OpenInvoicesBacked
  <2> PICK h \in Handlers : TRUE
    OBVIOUS
  <2>1. BackedBy(inflight[h], invoices, settled, payable, finance[m], m)
    BY DEF Audited, Agreement, Backed
  <2>2. Moving(inflight[h], invoices, payable, m) = 0
    BY DEF Moving, Calling, At
  <2>3. OwedBy(finance[m]) \in Int /\ OwedBy(finance[m]) = Owed(m)
    BY RowsAreNumbers DEF Audited, BillingInv, FinanceOK, RowFits, OwedBy, Owed
  <2>4. OpenOf(invoices, settled, m) = OpenInvoices(m)
    BY DEF OpenOf, OpenInvoices, Exists
  <2>5. Owed(m) = SumOver(payable, OpenInvoices(m))
    BY <2>1, <2>2, <2>3, <2>4 DEF BackedBy
  <2> QED
    BY <2>5 DEF SumOver
<1> QED
  BY <1>1, StaysAudited, PTL

\* The ledger tells what a merchant has and was paid, wherever a request dies: the
\* entry and the balance are written by one transaction, and requests one at a time
\* find the row as they read it.
THEOREM LedgersAgree == OneHandler => (BillingSpec => []LedgerAgrees)
PROOF
<1> SUFFICES ASSUME OneHandler PROVE BillingSpec => []LedgerAgrees
  OBVIOUS
<1>1. Audited => LedgerAgrees
  BY DEF Audited, Agreement, Ledger, KeptBy, LedgerAgrees, NetChange
<1> QED
  BY <1>1, StaysAudited, PTL

-----------------------------------------------------------------------------
(* The lists and dashboards.                                               *)

\* A parcel stays on the list of those to be paid for, and its merchant on the list of
\* merchants to pay, until an invoice that counted it is paid: for any number of
\* handlers, however their reads and saves interleave.
THEOREM ListedUntilPaidFor == BillingSpec => []ListedUntilPaid
PROOF
<1>1. TypeOK /\ PaidWasBilled => ListedUntilPaid
  <2> SUFFICES ASSUME TypeOK, PaidWasBilled, NEW p \in Parcels, Holders(p) \cap settled = {}
               PROVE  /\ p \in GetUnpaidParcelsList
                      /\ MerchantOf[p] \in DOMAIN GetMerchantInvoiceEligibilityList
    BY DEF ListedUntilPaid
  <2>1. ~parcels[p].paid
    BY DEF PaidWasBilled, Holders, TypeOK
  <2>2. p \in GetUnpaidParcelsList
    BY <2>1 DEF GetUnpaidParcelsList
  <2> QED
    BY <2>2 DEF GetMerchantInvoiceEligibilityList
<1> QED
  BY <1>1, BillingImplementsInvoicing, TypeCorrect, PaidAreBilled, PTL

\* A delivered parcel is counted once in what the dashboards add up, under its store or
\* in one invoice, although they read the two from different tables: with requests one
\* at a time.
THEOREM EachCountedOnce == OneHandler => (BillingSpec => []CountedOnce)
PROOF
<1> SUFFICES ASSUME OneHandler PROVE BillingSpec => []CountedOnce
  OBVIOUS
<1>1. SerialBooks => CountedOnce
  <2> SUFFICES ASSUME SerialBooks, NEW p \in Parcels, parcels[p].delivered
               PROVE  LET byStore == GetUnpaidParcelsByStore(MerchantOf[p])
                          listed  == {s \in DOMAIN byStore : p \in byStore[s].parcels}
                      IN  Cardinality(listed) + Cardinality(Holders(p)) = 1
    BY DEF CountedOnce
  <2> PICK eligible : eligible = GetEligibleParcels(MerchantOf[p])
    OBVIOUS
  <2> DEFINE byStore == GetUnpaidParcelsByStore(MerchantOf[p])
             listed  == {s \in DOMAIN byStore : p \in byStore[s].parcels}
  <2>1. TypeOK /\ \A i \in Invoices : Bills(i, p) <=> parcels[p].invoice = i
    BY DEF SerialBooks, Serial, BilledIsLinked, Inv, RowsOK, RowOK, Counts, Bills, Exists
  <2>2. /\ DOMAIN byStore = {StoreOf[q] : q \in eligible}
        /\ \A s \in DOMAIN byStore : byStore[s].parcels = {q \in eligible : StoreOf[q] = s}
    BY DEF GetUnpaidParcelsByStore
  <2>3. listed = {s \in {StoreOf[q] : q \in eligible} : p \in eligible /\ StoreOf[p] = s}
    BY <2>2
  <2>4. CASE parcels[p].invoice = NULL
    <3>1. Holders(p) = {}
      BY <2>1, <2>4, NullIsNothing DEF Holders
    <3>2. ~parcels[p].paid
      BY <2>1, <2>4, <3>1 DEF SerialBooks, Serial, Inv, RowsOK, RowOK, Counts, TypeOK, Holders, Bills, Exists
    <3>3. parcels[p].financial = "PENDING"
      BY <2>4 DEF SerialBooks, Books, LinkTells, StatusBy
    <3>4. p \in eligible
      BY <2>4, <3>2, <3>3 DEF GetEligibleParcels, OfMerchant
    <3>5. listed = {StoreOf[p]}
      BY <2>3, <3>4
    <3>6. Cardinality(listed) = 1 /\ Cardinality(Holders(p)) = 0
      BY <3>1, <3>5, FS_Singleton, FS_EmptySet
    <3> QED
      BY <3>6
  <2>5. CASE parcels[p].invoice # NULL
    <3>1. parcels[p].invoice \in Invoices
      BY <2>1, <2>5 DEF TypeOK, Parcel
    <3>2. Holders(p) = {parcels[p].invoice}
      BY <2>1, <3>1 DEF Holders
    <3>3. p \notin eligible
      BY <2>5 DEF GetEligibleParcels
    <3>4. listed = {}
      BY <2>3, <3>3
    <3>5. Cardinality(listed) = 0 /\ Cardinality(Holders(p)) = 1
      BY <3>2, <3>4, FS_Singleton, FS_EmptySet
    <3> QED
      BY <3>5
  <2> QED
    BY <2>4, <2>5
<1>2. Init => SerialBooks
  BY InitSerialBooks
<1>3. SerialBooks /\ [Next]_vars => SerialBooks'
  BY NextSerialBooks
<1>4. Spec => []SerialBooks
  BY <1>2, <1>3, PTL DEF Spec
<1> QED
  BY <1>1, <1>4, BillingImplementsInvoicing, PTL

=============================================================================
