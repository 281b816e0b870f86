SPECIFICATION Spec
CONSTANTS
  Parcels = {p1}
  Merchants = {m1}
  MerchantOf <- OneMerchant
  Invoices = {i1, i2}
  Handlers = {c1}
  NULL = NULL
  MaxMonth = 1
  Patches = {"UNPAID", "PROCESSING", "PAID"}
  MayFail = FALSE
  OthersWrite = FALSE

SYMMETRY Symmetric
CHECK_DEADLOCK FALSE
INVARIANT NextNumberFree
