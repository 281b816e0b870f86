SPECIFICATION CashSpec
CONSTANTS
  Riders = {r1}
  Deliveries = {d1, d2}
  RiderOf <- OneRider
  Collected <- Twos
  Cash = {1, 3}
  Tills = {c1}
  NULL = NULL
  ManagerInToken = TRUE
  MaxClock = 5
  MayFail = TRUE
  Transfers = {t1}
  Amounts = {1, 2}
  Desks = {a1, a2}

SYMMETRY Symmetric
CHECK_DEADLOCK FALSE
INVARIANTS
  NothingSkipped
  DebtIsCarried
  
