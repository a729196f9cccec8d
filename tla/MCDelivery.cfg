SPECIFICATION Spec
CONSTANTS
  d = d
  k = k
  None = None
  Desirable = {d}
  Children = {k}
  Parent = d
  SecretItems = {d}
  NumWorkers = 2
  Capacity = 1
  Commands <- MCCommands
  MaxRuns = 2
  MaxEvents = 4
INVARIANTS
  HashedOnce
  CommandsInOrder
PROPERTIES
  NothingForgotten
  EventuallyAgrees

CHECK_DEADLOCK FALSE
