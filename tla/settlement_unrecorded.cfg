SPECIFICATION CashSpec
CONSTANTS
  Riders = {r1}
  Deliveries = {d1, d2}
  RiderOf <- OneRider
  Collected <- Twos
  Cash = {1, 3}
  Tills = {c1}
  NULL = NULL
  ManagerInToken = FALSE
  MaxClock = 5
  MayFail = FALSE
  Transfers = {t1}
  Amounts = {1, 2}
  Desks = {a1, a2}
CHECK_DEADLOCK FALSE
PROPERTY
  SettlementRecorded
