SPECIFICATION FairSpec
CONSTANTS
  CoreColumns <- MCCore
  Migrations <- MCMigrations
  Indexes <- MCIndexes
  Databases <- MCReleases
  MaxFailures = 3
INVARIANT EveryReleaseOpens
CHECK_DEADLOCK FALSE
