SPECIFICATION BillingSpec
CONSTANTS
  Parcels = {p1, p2}
  Merchants = {m1}
  MerchantOf <- OneMerchant
  Invoices = {i1, i2}
  Handlers = {c1}
  NULL = NULL
  MaxMonth = 2
  Patches = {"UNPAID", "PROCESSING", "PAID"}
  MayFail = TRUE
  OthersWrite = TRUE
  Cod <- Threes
  Charge <- Ones
  Stores = {s1}
  StoreOf <- OneStore
  Amounts = {1}
  MaxCurrent = 1

CONSTRAINT Apart
SYMMETRY Symmetric
CHECK_DEADLOCK FALSE
INVARIANTS
  BilledOnce
  FinancialStatusFollows
  PaidOnce
  
  OpenInvoicesBacked
  
  
  LedgerAgrees
  
  
