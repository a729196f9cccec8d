SPECIFICATION Spec
CONSTANTS
  Nil = Nil
  NoUid = NoUid
  NoVersion = NoVersion
  Keys <- OwnedKeys
  Uids <- MCUids
  Versions <- MCVersions
  Ids = {"i1", "i2"}
  Owner <- OwnedOwner
  FilledIn = {}
  AppIds = {a1}
  DesiredResources <- OwnedDesired
  Discoveries <- Healthy
  DeployVersions = {"release1"}
  Unmonitorable = {}
  WantedElsewhere = {}
  MaxBirths <- OwnedBirths
  MaxTouches = 0
  MaxCommands = 3
INVARIANTS TypeOK PresentXorMissing Accurate
CHECK_DEADLOCK FALSE
