SPECIFICATION Spec
CONSTANTS
  Targets = {t1, t2}
  deployment = deployment
  replicaSet = replicaSet
  pod = pod
  Keys <- MCKeys
  OwnersOf <- MCOwnersOf
  Nil = Nil
INVARIANTS TypeOK MapsAgree NothingUnwantedTracked
PROPERTIES IsARelation
CHECK_DEADLOCK FALSE
