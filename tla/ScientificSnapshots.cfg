SPECIFICATION SnapshotsSpec
CONSTANTS
  None = None
  Unknown = Unknown
  DayHours = 2
  Transient = 1
  Degraded = 2
  Stale = 3
  Models = 0
  MaxHour = 2
  MaxChanges = 1
  MaxEvents = 1
  MaxAttempts = 2
  MaxFaults = 1
  MaxLosses = 1
  c1 = c1
  c2 = c2
  c3 = c3
  Cells = {c1, c2, c3}
  Masks <- WeekMasks
  Batches <- WeekBatches
  Captures = {p, q}
  MaxCaptures = 2
  Linkers = {l, k}
  MaxLinks = 2
  Fires = {1, 2}
INVARIANTS
  CapturesAccounted
  AlertsExact
  SnapshotsComplete
  LinksChain
PROPERTIES
  SnapshotsFinal
  ManifestFinal
CHECK_DEADLOCK FALSE
