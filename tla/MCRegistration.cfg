SPECIFICATION Spec
CONSTANTS
  None = None
  MaxAttempts = 2
  MaxFaults = 4
  MaxRegistrations = 7
INVARIANTS
  TypeOK
  StoredIsIssued
  OneInstallation
  SecretsPrivate
PROPERTIES
  RegistersOnce
  EventuallyStored
