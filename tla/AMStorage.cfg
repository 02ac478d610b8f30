\* Two components over the life of the device, one certificate.
CONSTANTS
  UserIds <- MCUserIds
  StaticUserId <- MCStaticUserId
  Certs = {c1}
  NoCert = NoCert
  MaxId = 2
SPECIFICATION Spec
INVARIANTS
  TypeOK
  RepositoryMirrorsMemory
  NextIdIsFresh
  UnloadableOnlyInsideRemoval
PROPERTIES
  ListedUntilRemoved
  
CHECK_DEADLOCK FALSE
