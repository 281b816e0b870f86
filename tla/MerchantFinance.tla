-------------------------- MODULE MerchantFinance --------------------------
(***************************************************************************)
(* The balances of merchants (merchant-finance.service.ts), composed with  *)
(* the invoices that move them.                                            *)
(*                                                                         *)
(* A merchant has one row of balances.  After its own transaction an       *)
(* invoice handler calls this service to move the invoice's amount from    *)
(* pending to invoiced, on to processing and back, and out when it is      *)
(* paid; a call that fails is logged and forgotten.  Admins adjust, hold   *)
(* and release, and may recompute a row from the merchant's parcels.       *)
(*                                                                         *)
(* Every operation reads the row and saves what it made of it by a later   *)
(* statement; its transaction locks nothing in between.  adjustBalance     *)
(* updates one column, the others save the row.                            *)
(*                                                                         *)
(* recordParcelTransaction, which is to add to the pending balance, has no *)
(* caller, so it is no action here.                                        *)
(***************************************************************************)
EXTENDS MerchantInvoice, FiniteSetsExt

CONSTANTS
  Cod, Charge,     \* what each parcel brings and costs
  Amounts,         \* amounts that admins adjust, hold and release
  MaxCurrent       \* bound on the net balance

ASSUME AmountsAssumption ==
  /\ Cod \in [Parcels -> Nat] /\ Charge \in [Parcels -> Nat]
  /\ Amounts \subseteq Nat
  /\ MaxCurrent \in Nat
  /\ IsFiniteSet(Parcels)     \* for sums over them

Finance ==
  [current : Int, held : Int, pending : Int, invoiced : Int, processing : Int,
   withdrawn : Int]

\* What a request to this service has read and still has to save.
Desk == [kind : {"row", "current", "counted"}, merchant : Merchants, row : Finance, by : Int]

ASSUME NullIsNoFinance == NULL \notin Finance /\ NULL \notin Desk

VARIABLES
  finance,    \* the row of each merchant, NULL when there is none
  payable,    \* payable_amount of each invoice
  quoted,     \* the totals that a generation computed before its transaction
  desk,       \* NULL when the handler has no row of finance in its hands
  net,        \* credits less debits in the transaction table
  missed,     \* merchants of whom a call of the invoice service failed
  synced      \* merchants whose row was recomputed

financeVars == <<finance, payable, quoted, desk, net, missed, synced>>
billingVars == <<vars, financeVars>>

FinanceTypeOK ==
  /\ finance \in [Merchants -> Finance \cup {NULL}]
  /\ payable \in [Invoices -> Int]
  /\ quoted \in [Handlers -> Int]
  /\ desk \in [Handlers -> Desk \cup {NULL}]
  /\ net \in [Merchants -> Int]
  /\ missed \subseteq Merchants
  /\ synced \subseteq Merchants

NewFinance ==
  [current |-> 0, held |-> 0, pending |-> 0, invoiced |-> 0, processing |-> 0,
   withdrawn |-> 0]

FinanceInit ==
  /\ finance = [m \in Merchants |-> NULL]
  /\ payable = [i \in Invoices |-> 0]
  /\ quoted = [h \in Handlers |-> 0]
  /\ desk = [h \in Handlers |-> NULL]
  /\ net = [m \in Merchants |-> 0]
  /\ missed = {}
  /\ synced = {}

-----------------------------------------------------------------------------
(* Amounts.                                                                *)

\* calculateInvoiceTotals: the columns that an outcome sets are what a parcel
\* brought and what it costs; before that it only costs.
Payable(S, done) ==
  MapThenSumSet(LAMBDA p : (IF p \in done THEN Cod[p] ELSE 0) - Charge[p], S)

InvoiceTotal(S) == Payable(S, {p \in Parcels : parcels[p].delivered})

Least(a, b) == IF a < b THEN a ELSE b

(* What the calls of the invoice service make of a row.                    *)

Invoiced(f, a)   == [f EXCEPT !.pending = @ - a, !.invoiced = @ + a]
Processing(f, a) == [f EXCEPT !.invoiced = @ - a, !.processing = @ + a]
Back(f, a)       == [f EXCEPT !.processing = @ - a, !.invoiced = @ + a]

\* Mutant: taken from both balances.
Withdrawn_Both(f, a) ==
  [f EXCEPT !.processing = @ - Least(a, @), !.invoiced = @ - a, !.withdrawn = @ + a]

\* Taken from the processing balance first, whatever the invoice's status.
Withdrawn(f, a) ==
  LET first == Least(a, f.processing)
  IN  [f EXCEPT !.processing = @ - first, !.invoiced = @ - (a - first),
                !.withdrawn = @ + a]

Moved(f, move, a) ==
  CASE move = "invoiced"   -> Invoiced(f, a)
    [] move = "processing" -> Processing(f, a)
    [] move = "back"       -> Back(f, a)
    [] move = "payment"    -> Withdrawn(f, a)

-----------------------------------------------------------------------------
(* The invoice service, with its amounts and its calls.                    *)

\* The totals are computed from the parcels as they were read.
QuotesInvoice(h, S) ==
  /\ GenerateInvoice(h, S)
  /\ quoted' = [quoted EXCEPT ![h] = InvoiceTotal(S)]
  /\ UNCHANGED <<finance, payable, desk, net, missed, synced>>

BooksInvoice(h) ==
  /\ CreateInvoice(h)
  /\ payable' = [i \in Invoices |->
                   IF ~Exists(i) /\ invoices'[i] # NULL THEN quoted[h] ELSE payable[i]]
  /\ quoted' = [quoted EXCEPT ![h] = 0]
  /\ UNCHANGED <<finance, desk, net, missed, synced>>

Caller(h) == invoices[inflight[h].invoice].merchant

Takes(h, kind, m, row, by) ==
  desk' = [desk EXCEPT ![h] = [kind |-> kind, merchant |-> m, row |-> row, by |-> by]]

CallReads(h) ==
  /\ At(h, "finance")
  /\ desk[h] = NULL
  /\ finance[Caller(h)] # NULL
  /\ LET move == inflight[h].move
         a    == payable[inflight[h].invoice]
     IN  Takes(h, "row", Caller(h), Moved(finance[Caller(h)], move, a),
               IF move = "payment" THEN -a ELSE 0)
  /\ UNCHANGED <<vars, finance, payable, quoted, net, missed, synced>>

\* "Merchant finance record not found", and the caller swallows it.
CallFindsNothing(h) ==
  /\ FinanceCall(h)
  /\ desk[h] = NULL
  /\ finance[Caller(h)] = NULL
  /\ missed' = missed \cup {Caller(h)}
  /\ UNCHANGED <<finance, payable, quoted, desk, net, synced>>

\* The row, and for a payment the ledger entry.
CallSaves(h) ==
  /\ FinanceCall(h)
  /\ desk[h] # NULL /\ desk[h].kind = "row"
  /\ finance' = [finance EXCEPT ![desk[h].merchant] = desk[h].row]
  /\ net' = [net EXCEPT ![desk[h].merchant] = @ + desk[h].by]
  /\ desk' = [desk EXCEPT ![h] = NULL]
  /\ UNCHANGED <<payable, quoted, missed, synced>>

\* Everything else the invoice service does.
InvoiceStep(h) ==
  /\ \/ \E i \in Invoices :
          MarkInvoiceAsPaid(h, i) \/ \E to \in Patches : UpdateInvoiceStatus(h, i, to)
     \/ FindParcels(h)
     \/ PayInvoice(h)
     \/ SaveStatus(h)
     \/ OtherStep(h)
     \/ SaveParcel(h)
  /\ UNCHANGED financeVars

-----------------------------------------------------------------------------
(* Admins.                                                                 *)

Idle(h) == inflight[h] = NULL /\ desk[h] = NULL

\* getOrCreateFinance: merchant_id is unique, a second insert fails.
OpenFinance(h, m) ==
  /\ Idle(h)
  /\ finance[m] = NULL
  /\ finance' = [finance EXCEPT ![m] = NewFinance]
  /\ UNCHANGED <<vars, payable, quoted, desk, net, missed, synced>>

AdminReads(h, m) ==
  /\ Idle(h)
  /\ finance[m] # NULL
  /\ UNCHANGED <<vars, finance, payable, quoted, net, missed, synced>>

AdjustBalance(h, m, by) ==
  /\ AdminReads(h, m)
  /\ finance[m].current + by \in (-MaxCurrent)..MaxCurrent   \* bound of the instance
  /\ Takes(h, "current", m, [finance[m] EXCEPT !.current = @ + by], by)

HoldBalance(h, m, a) ==
  /\ AdminReads(h, m)
  /\ a <= finance[m].current - finance[m].held
  /\ Takes(h, "row", m, [finance[m] EXCEPT !.held = @ + a], 0)

ReleaseHold(h, m, a) ==
  /\ AdminReads(h, m)
  /\ a <= finance[m].held
  /\ Takes(h, "row", m, [finance[m] EXCEPT !.held = @ - a], 0)

\* The parcels of m in a terminal status, by what became of them.
Delivered(m) == {p \in Parcels : MerchantOf[p] = m /\ parcels[p].delivered}

\* syncMerchantFinance reads the parcels, then the row; the processing balance
\* stays as it is.
SyncCounts(h, m) ==
  /\ Idle(h)
  /\ LET paid == {p \in Delivered(m) : parcels[p].paid}
         open == {p \in Delivered(m) \ paid : parcels[p].invoice # NULL}
     IN  Takes(h, "counted", m,
               [NewFinance EXCEPT !.withdrawn = InvoiceTotal(paid),
                                  !.invoiced = InvoiceTotal(open),
                                  !.pending = InvoiceTotal(Delivered(m) \ (paid \cup open))],
               0)
  /\ UNCHANGED <<vars, finance, payable, quoted, net, missed, synced>>

SyncSaves(h) ==
  /\ desk[h] # NULL /\ desk[h].kind = "counted"
  /\ LET m   == desk[h].merchant
         old == IF finance[m] = NULL THEN NewFinance ELSE finance[m]
     IN  /\ finance' = [finance EXCEPT ![m] =
              [desk[h].row EXCEPT !.current = old.current, !.held = old.held,
                                  !.processing = old.processing]]
         /\ synced' = synced \cup {m}
  /\ desk' = [desk EXCEPT ![h] = NULL]
  /\ UNCHANGED <<vars, payable, quoted, net, missed>>

SaveFinance(h) ==
  /\ desk[h] # NULL /\ desk[h].kind = "row" /\ inflight[h] = NULL
  /\ finance' = [finance EXCEPT ![desk[h].merchant] = desk[h].row]
  /\ desk' = [desk EXCEPT ![h] = NULL]
  /\ UNCHANGED <<vars, payable, quoted, net, missed, synced>>

\* Mutant: the ledger entry is written by a statement of its own, and fails.
SaveAdjustment_Alone(h) ==
  /\ desk[h] # NULL /\ desk[h].kind = "current"
  /\ finance' = [finance EXCEPT ![desk[h].merchant].current = desk[h].row.current]
  /\ desk' = [desk EXCEPT ![h] = NULL]
  /\ UNCHANGED <<vars, payable, quoted, net, missed, synced>>

\* The transaction of adjustBalance: the column and the ledger entry.
SaveAdjustment(h) ==
  /\ desk[h] # NULL /\ desk[h].kind = "current"
  /\ LET m == desk[h].merchant
     IN  /\ finance' = [finance EXCEPT ![m].current = desk[h].row.current]
         /\ net' = [net EXCEPT ![m] = @ + desk[h].by]
  /\ desk' = [desk EXCEPT ![h] = NULL]
  /\ UNCHANGED <<vars, payable, quoted, missed, synced>>

(* Failure.                                                                *)

InvoiceFails(h) ==
  /\ Abandon(h)
  /\ At(h, "finance") => Caller(h) \notin missed   \* bound: one lost call per merchant
  /\ missed' = IF At(h, "finance") THEN missed \cup {Caller(h)} ELSE missed
  /\ desk' = [desk EXCEPT ![h] = NULL]
  /\ quoted' = [quoted EXCEPT ![h] = 0]
  /\ UNCHANGED <<finance, payable, net, synced>>

AdminFails(h) ==
  /\ MayFail
  /\ inflight[h] = NULL /\ desk[h] # NULL
  /\ desk' = [desk EXCEPT ![h] = NULL]
  /\ UNCHANGED <<vars, finance, payable, quoted, net, missed, synced>>

-----------------------------------------------------------------------------
FinanceStep(h) ==
  \E m \in Merchants :
    \/ OpenFinance(h, m)
    \/ \E a \in Amounts :
         \/ AdjustBalance(h, m, a)
         \/ AdjustBalance(h, m, -a)
         \/ HoldBalance(h, m, a)
         \/ ReleaseHold(h, m, a)
    \/ SyncCounts(h, m)

BillingNext ==
  \/ \E h \in Handlers :
       \/ /\ desk[h] = NULL
          /\ \/ \E S \in SUBSET Parcels : QuotesInvoice(h, S)
             \/ BooksInvoice(h)
             \/ InvoiceStep(h)
       \/ CallReads(h) \/ CallFindsNothing(h) \/ CallSaves(h)
       \/ FinanceStep(h)
       \/ SyncSaves(h) \/ SaveFinance(h) \/ SaveAdjustment(h)
       \/ InvoiceFails(h) \/ AdminFails(h)
  \/ MonthPasses /\ UNCHANGED financeVars

BillingInit == Init /\ FinanceInit

BillingSpec == BillingInit /\ [][BillingNext]_billingVars

-----------------------------------------------------------------------------
(* Properties.                                                             *)

Total(f) == f.pending + f.invoiced + f.processing + f.withdrawn

\* The calls only move money between the balances of a merchant: until a row is
\* recomputed its balances add up to nothing, however calls interleave, fail
\* or overwrite each other.
Conserved ==
  \A m \in Merchants \ synced : finance[m] # NULL => Total(finance[m]) = 0

\* getTransactionHistory and getMerchantFinanceOverview.
NetChange(m) == net[m]
Owed(m) == finance[m].invoiced + finance[m].processing

OpenInvoices(m) ==
  {i \in Invoices \ settled : Exists(i) /\ invoices[i].merchant = m}

\* One request at a time, and while no call failed: what the balances say is
\* owed to a merchant is what his open invoices say, although the two are
\* written by different services in different transactions.
OpenInvoicesBacked ==
  \A m \in Merchants \ (missed \cup synced) :
    finance[m] # NULL /\ (\A h \in Handlers : ~At(h, "finance")) =>
      Owed(m)
        = MapThenSumSet(LAMBDA i : payable[i], OpenInvoices(m))

\* One request at a time: the net change of a merchant's transactions is what
\* he has and what he was paid, wherever a request dies.
LedgerAgrees ==
  \A m \in Merchants \ synced :
    NetChange(m) = IF finance[m] = NULL THEN 0 ELSE finance[m].current - finance[m].withdrawn

\* The pending balance is "money from parcels not yet invoiced".
PendingIsUninvoiced ==
  \A m \in Merchants \ missed :
    finance[m] # NULL =>
      finance[m].pending
        = InvoiceTotal({p \in Delivered(m) : parcels[p].invoice = NULL /\ ~parcels[p].paid})

\* syncMerchantFinance, "data reconciliation": after it the balances agree with
\* the invoices.
SyncReconciles ==
  [][\A m \in Merchants, h \in Handlers :
       SyncSaves(h) /\ desk[h].merchant = m /\ OpenInvoices(m) # {} =>
         finance'[m].invoiced + finance'[m].processing
           = MapThenSumSet(LAMBDA i : payable[i], OpenInvoices(m))]_billingVars

=============================================================================
