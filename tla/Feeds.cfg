SPECIFICATION FeedsSpec
CONSTANTS
  Imports = {1, 2}
  FileOf <- FilesGiven
  Ids = {e1, e2, e3}
  e1 = e1
  e2 = e2
  e3 = e3
  north = north
  south = south
  None = None
  Audits = {1, 2, 3}
  ScopeOf <- ScopesGiven
  RulesOf <- RulesGiven
  Twins <- TwinsGiven
  MaxFaults = 1
  MaxRefresh = 1
  Partitions = 2
  Fields = 2
  Starts = {131, 158}
  Hours <- HoursGiven
  MaxCycles = 2
  SourceFaults = 1
  Detections <- DetectionsGiven
  Ignitions <- IgnitionsGiven
  Bulletins <- BulletinsGiven
  Threshold = 2
  RefreshFaults = 1
  EntryOf <- EntryGiven
  FirstListed <- ListedGiven
  PageSize = 2
  MaxPages = 2
  PageOf <- PageGiven
  SiteOf <- SiteGiven
  ReportUrl = "report"
  Answers <- AnswersGiven
  MaxChanges = 2
  SearchFaults = 1
  Areas <- AreasGiven
  Boxes <- BoxesGiven
  Malformed = Malformed
  Capacity = 2
  MaxUpdates = 5
  MaxRequests = 3
INVARIANTS
  RecordsSound
  SourcesTruthful
  AcquisitionSound
  ComparisonsComplete
  EvidenceSound
  StreamFaithful
PROPERTIES
  RecordsFinal
CHECK_DEADLOCK FALSE
