SPECIFICATION Spec
CONSTANTS
  Parcels = {p1}
  Hubs = {h1, h2}
  Riders = {r1, r2}
  Stores = {s1}
  Handlers = {c1}
  NULL = NULL
  SelectableOutcomes = {"DELIVERED", "RETURNED", "DELIVERY_RESCHEDULED", "EXCHANGE"}
  EditableStatuses = {}
  WebhookStatuses = {"DELIVERED", "RETURNED"}
  RelationObjectWins = TRUE

INVARIANTS
  OutcomeOnRecord
  
  NoStrayDestination
  CarriedIsListed
  OutcomeListedAtRidersHub
  SummaryIsEarned
PROPERTIES
  
  CustodySpec
SYMMETRY Symmetric
