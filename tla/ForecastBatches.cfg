SPECIFICATION FairSpec
CONSTANTS
  Regions = 2
  Horizons = 2
  Writers = {scheduler}
  Archivers = {scheduler}
  Backfill = TRUE
  MaxBatches = 4
  MaxFaults = 3
INVARIANTS
  TablesSound
PROPERTIES
  PublicationSpec
  PublishedUnlessFault
CHECK_DEADLOCK FALSE
