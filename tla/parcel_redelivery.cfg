SPECIFICATION Spec
CONSTANTS
  Parcels = {p1}
  Hubs = {h1}
  Riders = {r1}
  Stores = {s1}
  Handlers = {c1}
  NULL = NULL
  SelectableOutcomes = {"DELIVERY_RESCHEDULED"}
  EditableStatuses = {}
  WebhookStatuses = {}
  RelationObjectWins = TRUE

INVARIANT ReadyForRedelivery
