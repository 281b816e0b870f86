SPECIFICATION IntakeSpec
CONSTANTS
  Orders = {o1, o2}
  Stores = {s1}
  Hubs = {h1}
  Riders = {r1}
  Customers = {u1, u2}
  Phones = {p1}
  Pickups = {q1, q2}
  Servers = {c1, c2}
  LastDay = 2
  Estimates = {1}
  RiderHub <- OneHub
  MayFail = TRUE
  NULL = NULL
CONSTRAINT Apart
SYMMETRY Symmetric
CHECK_DEADLOCK FALSE
INVARIANTS
  IntakeTypeOK
  OnePickupPerDay
  CountIsLinked
  
  RaceSafe
