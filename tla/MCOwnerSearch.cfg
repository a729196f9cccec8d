SPECIFICATION Spec
CONSTANTS
  Nil = Nil
  NoUid = NoUid
  NoVersion = NoVersion
  Keys <- ServiceKeys
  Uids <- MCUids
  Versions <- MCVersions
  Ids = {"i1"}
  Owner <- ServiceOwner
  FilledIn = {"endpoints"}
  AppIds = {a1}
  DesiredResources <- ServiceDesired
  Discoveries <- ServiceHealthy
  DeployVersions = {"release1"}
  Unmonitorable = {}
  WantedElsewhere = {}
  MaxBirths <- ServiceBirths
  MaxTouches = 1
  MaxCommands = 1
INVARIANTS OwnerSearchReturns
CHECK_DEADLOCK FALSE
