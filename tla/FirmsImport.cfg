SPECIFICATION FairSpec
CONSTANTS
  scheduler = scheduler
  backfill = backfill
  a = a
  b = b
  Unreadable = Unreadable
  Importers <- MCImporters
  Detections <- MCDetections
  Retrieved <- MCRetrieved
  MaxImports = 3
  MaxFaults = 2
INVARIANTS
  BatchesHonest
  CreditedOnce
PROPERTIES
  ImportsEnd
CHECK_DEADLOCK FALSE
