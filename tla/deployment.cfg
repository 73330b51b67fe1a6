SPECIFICATION Spec
CONSTANTS
  None = None
  MaxSecret = 1
  MaxPassword = 2
  MaxRelease = 2
  MaxCommand = 6
  MaxCrash = 1
INVARIANTS
  ConfiguredIsUsable
  CredentialsReadable
  RunsOnItsSchema
PROPERTIES
  OwnRecordsBackedUp
CHECK_DEADLOCK FALSE
