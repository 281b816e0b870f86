SPECIFICATION Spec
CONSTANTS
  Parcels = {p1, p2, p3}
  Hubs = {h1}
  Riders = {r1}
  Stores = {s1}
  Handlers = {c1, c2}
  NULL = NULL
  SelectableOutcomes = {"RETURNED"}
  EditableStatuses = {}
  WebhookStatuses = {}
  RelationObjectWins = TRUE

CONSTRAINT OneOrder
INVARIANTS
  OneReturnPerOriginal
SYMMETRY Symmetric
