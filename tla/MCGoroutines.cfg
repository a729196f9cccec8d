SPECIFICATION FairSpec
CONSTANTS
  Targets = {"t1"}
  Callers = {"commands", "loop"}
  JobsOf <- MCJobsOf
  QueueSize = 1
  Workers = 1
INVARIANTS GTypeOK
PROPERTIES CacheNeverStalls AcceptedRuns JobsReturn ChangesServed
CHECK_DEADLOCK FALSE
