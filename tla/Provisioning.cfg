SPECIFICATION SmallSpec
CONSTANTS
  Names = {"pvc1", "pvc2"}
  Roots <- HomeAndProj
  DriverSecrets <- Installations
  Classes <- StorageClasses
  Replicas = {r1, r2}
  File <- OneFile
  Calls = {c1, c2}
  Hazards = {"mkdir", "rmdir", "save", "crash", "tear", "timeout", "failover"}
  MaxFaults = 2
  MaxTries = 2
INVARIANT TypeOK
INVARIANT MadeInWhitelist
INVARIANT StagedAsCreated
INVARIANT DeletedIsRemoved
PROPERTY NothingElseDeleted
PROPERTY ImplementsLifecycle
PROPERTY ClaimsAreServed
CHECK_DEADLOCK FALSE
