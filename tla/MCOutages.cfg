SPECIFICATION Spec
CONSTANTS
  Nil = Nil
  NoUid = NoUid
  NoVersion = NoVersion
  Keys <- CustomKeys
  Uids <- MCUids
  Versions <- MCVersions
  Ids = {"i1", "i2"}
  Owner <- CustomOwner
  FilledIn = {}
  AppIds = {a1, a2}
  DesiredResources <- CustomDesired
  Discoveries <- Outages
  DeployVersions = {"release2"}
  Unmonitorable = {}
  WantedElsewhere = {}
  MaxBirths <- CustomBirths
  MaxTouches = 0
  MaxCommands = 2
INVARIANTS DesiredUnderItsKey AccountedFor InterestCovered
CHECK_DEADLOCK FALSE
SYMMETRY Symmetric
