------------------------- MODULE MCMerchantFinance -------------------------
(* Small instances of MerchantFinance and InvoiceViews for TLC. *)
EXTENDS InvoiceViews, TLC

OneMerchant == [p \in Parcels |-> CHOOSE m \in Merchants : TRUE]

\* Every parcel brings 3 and costs 1.
Threes == [p \in Parcels |-> 3]
Ones   == [p \in Parcels |-> 1]

\* Both parcels come from the same store.
OneStore == [p \in Parcels |-> CHOOSE s \in Stores : TRUE]

\* What an admin adjusts or holds meets one invoice at a time.
Adjusted == \E m \in Merchants : finance[m] # NULL /\ (finance[m].current # 0 \/ finance[m].held # 0)
Apart == Adjusted => Cardinality({i \in Invoices : Exists(i)}) <= 1

Symmetric == Permutations(Parcels) \cup Permutations(Invoices) \cup Permutations(Handlers)

=============================================================================
