SPECIFICATION FairSpec
CONSTANTS
  CoreColumns <- MCCore
  Migrations <- MCMigrations
  Indexes <- MCIndexes
  Databases <- MCReleases
  MaxFailures = 3
INVARIANTS
  TypeOK
  ServesCompleteSchema
PROPERTIES
  EventuallyServes
CHECK_DEADLOCK FALSE
