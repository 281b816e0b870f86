-------------------------- MODULE MerchantInvoice --------------------------
(***************************************************************************)
(* Invoices that pay merchants for their parcels                           *)
(* (merchant-invoice.service.ts).  An admin bills parcels, may mark the    *)
(* invoice as being processed, and marks it paid, which marks its parcels  *)
(* paid.                                                                   *)
(*                                                                         *)
(* Each of these checks first and writes later: generateInvoice checks the *)
(* parcels and then runs a transaction (insert the invoice, link the       *)
(* parcels); markInvoiceAsPaid checks the status and then runs one (save   *)
(* the invoice, find its parcels, update them); updateInvoiceStatus checks *)
(* and saves the row.  A transaction shows all or nothing to others, and   *)
(* locks nothing before it starts.  The balances of the merchant follow in *)
(* a call of their own, whose failure is swallowed.                        *)
(*                                                                         *)
(* Other services save whole parcel rows, the billing columns included.    *)
(* Amounts are left out.                                                   *)
(***************************************************************************)
EXTENDS Integers, FiniteSets

CONSTANTS
  Parcels, Merchants, MerchantOf,
  Invoices,      \* ids that the database may generate
  Handlers, NULL,
  MaxMonth,      \* months in this instance
  Patches,       \* statuses that admins set by PATCH in this instance
  MayFail,       \* whether statements fail and processes die in this instance
  OthersWrite    \* whether other services write parcels in this instance

InvoiceStatus == {"UNPAID", "PROCESSING", "PAID"}
FinancialStatus == {"PENDING", "INVOICED", "PAID"}
Months == 1..MaxMonth

\* The columns of a parcel about its payment, and whether it was delivered.
Parcel ==
  [delivered : BOOLEAN,                 \* status is terminal, amounts are booked
   invoice   : Invoices \cup {NULL},    \* invoice_id
   paid      : BOOLEAN,                 \* paid_to_merchant
   financial : FinancialStatus]         \* financial_status

\* invoice_no, INV-<month>-<seq>; unique.
Number == [month : Months, seq : Nat]

\* items are the parcels that payable_amount was computed from.
Invoice ==
  [no : Number, merchant : Merchants, status : InvoiceStatus, items : SUBSET Parcels]

Moves == {"invoiced", "processing", "back", "payment"}

Request ==
  [step : {"create"}, parcels : (SUBSET Parcels) \ {{}}]
    \cup [step : {"find"}, invoice : Invoices]
    \cup [step : {"pay"}, invoice : Invoices, parcels : SUBSET Parcels]
    \cup [step : {"status"}, invoice : Invoices, from : InvoiceStatus, to : InvoiceStatus]
    \cup [step : {"finance"}, invoice : Invoices, move : Moves]
    \cup [step : {"parcel"}, parcel : Parcels, row : Parcel]

ASSUME ConstantsAssumption ==
  /\ MerchantOf \in [Parcels -> Merchants]
  /\ IsFiniteSet(Invoices)
  /\ MaxMonth \in Nat \ {0}
  /\ Patches \subseteq InvoiceStatus
  /\ MayFail \in BOOLEAN /\ OthersWrite \in BOOLEAN
ASSUME NullIsNothing == NULL \notin Invoices /\ NULL \notin Invoice /\ NULL \notin Request

VARIABLES
  parcels,
  invoices,    \* the invoices table, NULL where there is no row
  month,       \* of the wall clock
  settled,     \* invoices that markInvoiceAsPaid committed
  again,       \* those it committed again
  inflight     \* what each handler is doing, NULL when it serves no request

vars == <<parcels, invoices, month, settled, again, inflight>>

TypeOK ==
  /\ parcels \in [Parcels -> Parcel]
  /\ invoices \in [Invoices -> Invoice \cup {NULL}]
  /\ month \in Months
  /\ settled \subseteq Invoices
  /\ again \subseteq settled
  /\ inflight \in [Handlers -> Request \cup {NULL}]

NewParcel == [delivered |-> FALSE, invoice |-> NULL, paid |-> FALSE, financial |-> "PENDING"]

Init ==
  /\ parcels = [p \in Parcels |-> NewParcel]
  /\ invoices = [i \in Invoices |-> NULL]
  /\ month = 1
  /\ settled = {}
  /\ again = {}
  /\ inflight = [h \in Handlers |-> NULL]

-----------------------------------------------------------------------------
Exists(i) == invoices[i] # NULL

Begins(h, req) ==
  /\ inflight[h] = NULL
  /\ inflight' = [inflight EXCEPT ![h] = req]
  /\ UNCHANGED <<parcels, invoices, month, settled, again>>

At(h, step) == inflight[h] # NULL /\ inflight[h].step = step
Goes(h, req) == inflight' = [inflight EXCEPT ![h] = req]
Responds(h)  == Goes(h, NULL)
CallsFinance(h, i, move) == Goes(h, [step |-> "finance", invoice |-> i, move |-> move])

(* Generation.                                                             *)

\* Mutant: only payment is looked at.
Billable_Unpaid(p) == ~parcels[p].paid

Billable(p) == parcels[p].invoice = NULL /\ ~parcels[p].paid

\* The parcels come from the admin; whether they are eligible
\* (getEligibleParcels) is not asked again.
GenerateInvoice(h, S) ==
  /\ S # {}
  /\ \A p, q \in S : MerchantOf[p] = MerchantOf[q]
  /\ \A p \in S : Billable(p)
  /\ Begins(h, [step |-> "create", parcels |-> S])

\* The count asks for an invoice_no IN ('INV-<month>%'), a literal that is
\* nobody's number (number 0 here).
Literal(m) == [month |-> m, seq |-> 0]
CountOf(m) == Cardinality({i \in Invoices : Exists(i) /\ invoices[i].no = Literal(m)})

NextNumber == [month |-> month, seq |-> CountOf(month) + 1]

NumberFree(no) == \A i \in Invoices : Exists(i) => invoices[i].no # no

Linked(S, i) ==
  [p \in Parcels |-> IF p \in S
                     THEN [parcels[p] EXCEPT !.invoice = i, !.financial = "INVOICED"]
                     ELSE parcels[p]]

\* The transaction.  The parcels are linked whatever they are by now.
InsertInvoice(h, i) ==
  LET S  == inflight[h].parcels
      no == NextNumber
  IN  /\ ~Exists(i)
      /\ NumberFree(no)
      /\ invoices' = [invoices EXCEPT ![i] =
           [no |-> no, merchant |-> MerchantOf[CHOOSE p \in S : TRUE],
            status |-> "UNPAID", items |-> S]]
      /\ parcels' = Linked(S, i)
      /\ CallsFinance(h, i, "invoiced")

\* Mutant: the parcels are linked outside of the transaction.
CreateInvoice_LinksFirst(h) ==
  /\ At(h, "create")
  /\ \E i \in Invoices :
       /\ parcels' = Linked(inflight[h].parcels, i)
       /\ Responds(h)
       /\ UNCHANGED invoices
  /\ UNCHANGED <<month, settled, again>>

CreateInvoice(h) ==
  /\ At(h, "create")
  /\ \/ \E i \in Invoices : InsertInvoice(h, i)
     \/ /\ ~NumberFree(NextNumber)
        /\ Responds(h)
        /\ UNCHANGED <<parcels, invoices>>
  /\ UNCHANGED <<month, settled, again>>

(* Payment.                                                                *)

\* Mutant: the status is not looked at.
MarkInvoiceAsPaid_Again(h, i) ==
  /\ Exists(i)
  /\ Begins(h, [step |-> "find", invoice |-> i])

MarkInvoiceAsPaid(h, i) ==
  /\ Exists(i)
  /\ invoices[i].status # "PAID"
  /\ Begins(h, [step |-> "find", invoice |-> i])

\* Mutant: every parcel of the merchant is found.
FindParcels_OfMerchant(h) ==
  /\ At(h, "find")
  /\ LET i == inflight[h].invoice
     IN  Goes(h, [step |-> "pay", invoice |-> i,
                  parcels |-> {p \in Parcels : MerchantOf[p] = invoices[i].merchant}])
  /\ UNCHANGED <<parcels, invoices, month, settled, again>>

FindParcels(h) ==
  /\ At(h, "find")
  /\ LET i == inflight[h].invoice
     IN  Goes(h, [step |-> "pay", invoice |-> i,
                  parcels |-> {p \in Parcels : parcels[p].invoice = i}])
  /\ UNCHANGED <<parcels, invoices, month, settled, again>>

Paid(S) ==
  [p \in Parcels |-> IF p \in S
                     THEN [parcels[p] EXCEPT !.paid = TRUE, !.financial = "PAID"]
                     ELSE parcels[p]]

\* Mutant: the parcels are updated one by one outside of a transaction, and
\* the process dies after the first.
PayInvoice_Partly(h) ==
  /\ At(h, "pay")
  /\ LET i == inflight[h].invoice
     IN  /\ invoices' = [invoices EXCEPT ![i].status = "PAID"]
         /\ settled' = settled \cup {i}
         /\ again' = again \cup (settled \cap {i})
         /\ \E S \in SUBSET inflight[h].parcels : parcels' = Paid(S)
         /\ Responds(h)
  /\ UNCHANGED month

PayInvoice(h) ==
  /\ At(h, "pay")
  /\ LET i == inflight[h].invoice
     IN  /\ invoices' = [invoices EXCEPT ![i].status = "PAID"]
         /\ settled' = settled \cup {i}
         /\ again' = again \cup (settled \cap {i})
         /\ parcels' = Paid(inflight[h].parcels)
         /\ CallsFinance(h, i, "payment")
  /\ UNCHANGED month

(* Status.                                                                 *)

UpdateInvoiceStatus(h, i, to) ==
  /\ Exists(i)
  /\ invoices[i].status # "PAID"
  /\ Begins(h, [step |-> "status", invoice |-> i, from |-> invoices[i].status, to |-> to])

SaveStatus(h) ==
  /\ At(h, "status")
  /\ LET i    == inflight[h].invoice
         from == inflight[h].from
         to   == inflight[h].to
     IN  /\ invoices' = [invoices EXCEPT ![i].status = to]
         /\ CASE from = "UNPAID" /\ to = "PROCESSING" -> CallsFinance(h, i, "processing")
              [] from = "PROCESSING" /\ to = "UNPAID" -> CallsFinance(h, i, "back")
              [] OTHER -> Responds(h)
  /\ UNCHANGED <<parcels, month, settled, again>>

\* moveToInvoiced, moveToProcessing, moveBackToInvoiced, recordInvoicePayment.
FinanceCall(h) ==
  /\ At(h, "finance")
  /\ Responds(h)
  /\ UNCHANGED <<parcels, invoices, month, settled, again>>

(* Elsewhere.                                                              *)

\* completeDelivery reads the parcel; its save says it is not paid.
Delivers(h, p) ==
  /\ OthersWrite
  /\ Begins(h, [step |-> "parcel", parcel |-> p,
                row |-> [parcels[p] EXCEPT !.delivered = TRUE, !.paid = FALSE]])

\* Any other handler that saves the whole row, such as markReturnToMerchant.
ReadsParcel(h, p) ==
  /\ OthersWrite
  /\ Begins(h, [step |-> "parcel", parcel |-> p, row |-> parcels[p]])

SaveParcel(h) ==
  /\ At(h, "parcel")
  /\ parcels' = [parcels EXCEPT ![inflight[h].parcel] = inflight[h].row]
  /\ Responds(h)
  /\ UNCHANGED <<invoices, month, settled, again>>

\* The statement or the transaction fails, or the process dies.
Abandon(h) ==
  /\ MayFail
  /\ inflight[h] # NULL
  /\ Responds(h)
  /\ UNCHANGED <<parcels, invoices, month, settled, again>>

MonthPasses ==
  /\ month < MaxMonth
  /\ month' = month + 1
  /\ UNCHANGED <<parcels, invoices, settled, again, inflight>>

-----------------------------------------------------------------------------
AdminStep(h) ==
  \/ \E S \in SUBSET Parcels : GenerateInvoice(h, S)
  \/ \E i \in Invoices :
       \/ MarkInvoiceAsPaid(h, i)
       \/ \E to \in Patches : UpdateInvoiceStatus(h, i, to)

OtherStep(h) == \E p \in Parcels : Delivers(h, p) \/ ReadsParcel(h, p)

Continue(h) ==
  \/ CreateInvoice(h)
  \/ FindParcels(h)
  \/ PayInvoice(h)
  \/ SaveStatus(h)
  \/ FinanceCall(h)
  \/ SaveParcel(h)

Next ==
  \/ \E h \in Handlers : AdminStep(h) \/ OtherStep(h) \/ Continue(h) \/ Abandon(h)
  \/ MonthPasses

Spec == Init /\ [][Next]_vars

-----------------------------------------------------------------------------
(* Properties.                                                             *)

Bills(i, p) == Exists(i) /\ p \in invoices[i].items

\* "Parcels can only be invoiced once": no parcel is in the amount of two
\* invoices.
BilledOnce ==
  \A p \in Parcels : \A i, j \in Invoices : Bills(i, p) /\ Bills(j, p) => i = j

\* The link of a parcel, from which markInvoiceAsPaid finds what it pays,
\* always leads to an invoice whose amount counted the parcel.
LinkedWasBilled ==
  \A p \in Parcels : \A i \in Invoices : parcels[p].invoice = i => Bills(i, p)

\* No parcel is marked as paid to the merchant unless an invoice that counted
\* it was paid, whatever handlers interleave, overwrite each other and die.
PaidWasBilled ==
  \A p \in Parcels :
    parcels[p].paid => \E i \in settled : Bills(i, p)

\* financial_status says what became of the parcel's invoice, although the two
\* tables are written by several statements that may fail.
FinancialStatusFollows ==
  \A p \in Parcels :
    parcels[p].financial =
      CASE \E i \in settled : Bills(i, p)  -> "PAID"
        [] \E i \in Invoices \ settled : Bills(i, p) -> "INVOICED"
        [] OTHER -> "PENDING"

\* "Link to merchant_invoices (prevents double payment)": a linked parcel stays
\* linked.
LinkStays ==
  [][\A p \in Parcels :
       parcels[p].invoice # NULL => parcels'[p].invoice = parcels[p].invoice]_vars

\* "Invoice is already paid": no invoice is paid twice.
PaidOnce == again = {}

\* "Cannot change PAID to anything else".
PaidStaysPaid ==
  [][\A i \in Invoices :
       Exists(i) /\ invoices[i].status = "PAID" => invoices'[i].status = "PAID"]_vars

\* "Sequential per month, auto-generated": the number an invoice would get is
\* not taken.
NextNumberFree == NumberFree(NextNumber)

\* "Batch of delivered parcels", getEligibleParcels: only parcels whose
\* delivery is over are billed.
BilledWasDelivered ==
  \A p \in Parcels : \A i \in Invoices : Bills(i, p) => parcels[p].delivered

=============================================================================
