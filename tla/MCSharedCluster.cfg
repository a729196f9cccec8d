SPECIFICATION Spec
CONSTANTS
  None = None
  LogCapacity = 6
  MinLine = 3
  Types <- MCTypes
  BuiltIn <- MCBuiltIn
  Desired <- MCDesired
  TargetNamespaces = {"in"}
  ClusterScopedResources = TRUE
  Reviews <- MCReviews
  Logs <- MCLogs
  EventLists <- MCEventLists
  MaxEvents = 2
INVARIANTS
  TypeOK
  RequestsAnswered
PROPERTIES
  NoFalseMissing
  ReportsSettle
CHECK_DEADLOCK FALSE
