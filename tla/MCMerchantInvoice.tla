------------------------- MODULE MCMerchantInvoice -------------------------
(* Small instances of MerchantInvoice for TLC. *)
EXTENDS MerchantInvoice, TLC

OneMerchant == [p \in Parcels |-> CHOOSE m \in Merchants : TRUE]

Symmetric == Permutations(Parcels) \cup Permutations(Invoices) \cup Permutations(Handlers)

=============================================================================
