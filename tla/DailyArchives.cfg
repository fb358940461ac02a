SPECIFICATION ArchivesSpec
CONSTANTS
  Regions = 2
  Horizons = 2
  Writers = {server, command}
  Archivers = {server}
  Backfill = FALSE
  MaxBatches = 3
  MaxFaults = 1
  Days = {1}
  None = None
  SnapshotDay <- MCSnapshotDay
  BulletinDay <- MCBulletinDay
  MaxFailures = 1
INVARIANTS
  ArchivesSound
PROPERTIES
  PublishedFinal
  DayCovered
  BatchesSpec
CHECK_DEADLOCK FALSE
