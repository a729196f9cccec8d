SPECIFICATION FairSpec
CONSTANTS
  Handlers = {"logs"}
  Senders = {"logs"}
  MaxRuns = 2
  EventBuffer = 2
PROPERTIES CancelledStop
CHECK_DEADLOCK FALSE
