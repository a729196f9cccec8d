SPECIFICATION FairSpec
CONSTANTS
  Handlers = {"logs"}
  Senders = {"logs"}
  MaxRuns = 2
  EventBuffer = 2
INVARIANTS WTypeOK NoRunUnsupervised FreshFailuresOnly
PROPERTIES FailureEndsRun GivingUpEndsProcess
CHECK_DEADLOCK FALSE
