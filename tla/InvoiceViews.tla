---------------------------- MODULE InvoiceViews ----------------------------
(***************************************************************************)
(* What merchants and admins are shown of invoices and balances: the lists *)
(* and dashboards of merchant-invoice.service.ts, which read the tables    *)
(* that MerchantInvoice and MerchantFinance write.  Filters by date, page  *)
(* or text only cut a list down and are left out.                          *)
(***************************************************************************)
EXTENDS MerchantFinance

CONSTANTS Stores, StoreOf     \* the store that each parcel was sent from

ASSUME StoresAssumption == StoreOf \in [Parcels -> Stores]

OfMerchant(m) == {p \in Parcels : MerchantOf[p] = m}

(* Parcels.                                                                *)

\* Mutant: only payment is looked at.
GetEligibleParcels_Unpaid(m) ==
  {p \in OfMerchant(m) : parcels[p].delivered /\ ~parcels[p].paid}

GetEligibleParcels(m) ==
  {p \in OfMerchant(m) :
     /\ parcels[p].delivered
     /\ parcels[p].invoice = NULL
     /\ ~parcels[p].paid
     /\ parcels[p].financial = "PENDING"}

\* The eligible parcels under the store they came from, with what is due.
GetUnpaidParcelsByStore(m) ==
  LET eligible == GetEligibleParcels(m)
      of(s)    == {p \in eligible : StoreOf[p] = s}
  IN  [s \in {StoreOf[p] : p \in eligible} |->
         [parcels |-> of(s), due |-> InvoiceTotal(of(s))]]

\* Mutant: invoiced parcels are taken off the list.
GetUnpaidParcelsList_Pending ==
  {p \in Parcels : ~parcels[p].paid /\ parcels[p].financial = "PENDING"}

\* Every parcel not paid for, whatever its status.
GetUnpaidParcelsList == {p \in Parcels : ~parcels[p].paid}

\* The merchants of those parcels.  A parcel that collected nothing counts with
\* what it should collect, and charges count whether they apply or not.
GetMerchantInvoiceEligibilityList ==
  LET unpaid(m) == GetUnpaidParcelsList \cap OfMerchant(m)
  IN  [m \in {MerchantOf[p] : p \in GetUnpaidParcelsList} |->
         [total_parcel |-> Cardinality({p \in unpaid(m) : parcels[p].delivered}),
          total_due    |-> Payable(unpaid(m), unpaid(m))]]

(* Invoices.                                                               *)

InvoicesOf(m, statuses) ==
  {i \in Invoices : Exists(i) /\ invoices[i].merchant = m /\ invoices[i].status \in statuses}

SumPayable(S) == MapThenSumSet(LAMBDA i : payable[i], S)

\* Of the list and of its export.
GetPendingInvoicesList == UNION {InvoicesOf(m, {"UNPAID", "PROCESSING"}) : m \in Merchants}

\* The parcels that an invoice's page shows are those linked to it, its amount
\* is the one it was made out for.
GetInvoiceDetails(i) ==
  [parcels |-> {p \in Parcels : parcels[p].invoice = i}, payable_amount |-> payable[i]]

GetMerchantPaymentHistory(m) ==
  [total_paid       |-> SumPayable(InvoicesOf(m, {"PAID"})),
   total_pending    |-> SumPayable(InvoicesOf(m, {"UNPAID"})),
   total_processing |-> SumPayable(InvoicesOf(m, {"PROCESSING"}))]

GetMerchantInvoiceSummary(m) ==
  LET all  == SumPayable(InvoicesOf(m, InvoiceStatus))
      paid == SumPayable(InvoicesOf(m, {"PAID"}))
  IN  [total_payable |-> all, total_paid |-> paid, total_pending |-> all - paid,
       pending_parcels |-> Cardinality({p \in OfMerchant(m) : ~parcels[p].delivered}),
       estimated_payable |-> InvoiceTotal(GetEligibleParcels(m))]

GetMerchantPaymentDashboard(m) ==
  LET clearance  == SumPayable(InvoicesOf(m, {"UNPAID", "PROCESSING"}))
      uninvoiced == InvoiceTotal(GetEligibleParcels(m))
  IN  [total_earning     |-> SumPayable(InvoicesOf(m, {"PAID"})),
       pending_clearance |-> clearance,
       available_balance |-> uninvoiced + clearance]

GetAdminMerchantPaymentSummary ==
  [m \in Merchants |->
     [total_earning      |-> SumPayable(InvoicesOf(m, {"PAID"})),
      available_balance  |-> GetMerchantPaymentDashboard(m).available_balance,
      pending_invoices   |-> Cardinality(InvoicesOf(m, {"UNPAID", "PROCESSING"})),
      uninvoiced_parcels |-> Cardinality(GetEligibleParcels(m))]]

-----------------------------------------------------------------------------
(* Properties.                                                             *)

Holders(p) == {i \in Invoices : Bills(i, p)}

\* Requests one at a time: a delivered parcel is counted once in what the
\* dashboards add up, either under its store as not yet invoiced or in the
\* amount of one invoice; the two are read from different tables.
CountedOnce ==
  \A p \in Parcels :
    LET byStore == GetUnpaidParcelsByStore(MerchantOf[p])
        listed  == {s \in DOMAIN byStore : p \in byStore[s].parcels}
    IN  parcels[p].delivered => Cardinality(listed) + Cardinality(Holders(p)) = 1

\* Requests one at a time: a parcel stays on the list of unpaid parcels, and
\* its merchant on the list of merchants to pay, until an invoice that counted
\* it is paid, whatever admins set the invoice's status to.
ListedUntilPaid ==
  \A p \in Parcels :
    Holders(p) \cap settled = {} =>
      /\ p \in GetUnpaidParcelsList
      /\ MerchantOf[p] \in DOMAIN GetMerchantInvoiceEligibilityList

\* What is shown as pending is owed by the balances.
ClearanceIsOwed ==
  \A m \in Merchants \ (missed \cup synced) :
    finance[m] # NULL /\ (\A h \in Handlers : ~At(h, "finance")) =>
      GetMerchantPaymentDashboard(m).pending_clearance = Owed(m)

\* The page of an invoice shows the parcels that its amount was made out for,
\* at what they came to.
DetailsAddUp ==
  \A i \in Invoices :
    Exists(i) => GetInvoiceDetails(i).payable_amount = InvoiceTotal(GetInvoiceDetails(i).parcels)

=============================================================================
