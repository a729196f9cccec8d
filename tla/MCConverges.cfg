SPECIFICATION FairSpec
CONSTANTS
  Nil = Nil
  NoUid = NoUid
  NoVersion = NoVersion
  Keys <- PodKeys
  Uids <- MCUids
  Versions <- MCVersions
  Ids = {"i1"}
  Owner <- PodOwner
  FilledIn = {}
  AppIds = {a1}
  DesiredResources <- RootDesired
  Discoveries <- Healthy
  DeployVersions = {"release1"}
  Unmonitorable = {}
  WantedElsewhere = {"replicaSet"}
  MaxBirths <- PodBirths
  MaxTouches = 1
  MaxCommands = 2
PROPERTIES Converges
CHECK_DEADLOCK FALSE
