SPECIFICATION FairSpec
CONSTANTS
  None = None
  Kinds = {"device", "group", "capability"}
  Schema <- MCSchema
  Specs <- MCSpecs
  Stored <- MCStored
  Configs <- MCConfigs
  Environments <- MCEnvironments
  MaxQueue = 2
  Processing <- Result
  Missing <- AllMissing
  Merging <- Merge
  Copying <- Copy
CHECK_DEADLOCK FALSE
INVARIANTS
  TypeOK
  ProcessMatchesReference
PROPERTIES
  SyncedIsTrue
  IdentityIsKept
  Converges
