SPECIFICATION Spec
CONSTANTS
  Methods = {m1, m2}
  Stores = {s1, s2}
  Types = {cash, bank}
  Cash = cash
  Roles = {"ADMIN", "RIDER"}
  Passwords = {w1, w2}
  Codes = {n1, n2}
  CodeLife = 1
  TokenLife = 2
  MaxTime = 3
  People = {b1, b2, b3}
  Phones = {p1, p2, p3}
  Cards = {i1}
  HubCodes = {g1}
  Servers = {c1, c2}
  MayFail = TRUE
  NULL = NULL
CONSTRAINT Apart
SYMMETRY Symmetric
CHECK_DEADLOCK FALSE
INVARIANTS
  TypesOK
  ApprovedIsActive
  
  OneDefault
  DefaultIsKept
  
  
  EveryoneHasHisPlace
