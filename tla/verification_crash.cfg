SPECIFICATION Spec
CONSTANTS
  Parcels = {p1}
  Riders = {r1, r2}
  Handlers = {c1}
  NULL = NULL
  Outcomes = {"DELIVERED", "DELIVERY_RESCHEDULED"}
  Cooldown = 1
  Validity = 2
  MaxClock = 4
  MayFail = TRUE

CHECK_DEADLOCK FALSE
INVARIANTS
  BookedIsApproved
  AttemptsCounted
