SPECIFICATION FairSpec
CONSTANTS
  Parcels = {p1}
  Riders = {r1}
  Handlers = {c1, c2}
  NULL = NULL
  Outcomes = {"DELIVERED"}
  Cooldown = 1
  Validity = 2
  MaxClock = 2
  MayFail = FALSE

 
PROPERTY VerifiedIsCompleted
CHECK_DEADLOCK FALSE
