SPECIFICATION FairSpec
CONSTANTS
  Regions = 2
  Horizons = 1
  Writers = {scheduler, command}
  Archivers = {scheduler}
  Backfill = FALSE
  MaxBatches = 2
  MaxFaults = 0
INVARIANTS
  CompleteBatchServed
CHECK_DEADLOCK FALSE
