SPECIFICATION QSpec
CONSTANTS
  Keys = {k1, k2}
  Versions = {v1}
  Nil = Nil
  MaxBacklog = 3
INVARIANTS QTypeOK InsertionOrderedMap QueuedIsNetChange
PROPERTIES NeverOvertaken DeliversNetChanges
CHECK_DEADLOCK FALSE
