SPECIFICATION WorkSpec
CONSTANTS
  None = None
  Missing = Missing
  Builders = {p, q}
  MaxFaults = 1
  Days = {"d1", "d2", "d3", "d4", "d5", "d6", "d7"}
  Splits = {"train"}
  SplitOf <- SplitOfDay
  Near <- NearDay
  Suspect = {"d1"}
  Unreadable = {"d4"}
  Pool <- PoolOf
  CommandSeeds <- SeedsGiven
  Ratio = 1
  PilotNegatives = 1
  Fires = {1, 2, 3, 4, 5, 6}
  DayOf <- FireDay
  Natural = {6}
  Early = {1, 3, 4, 5, 6}
  Principal <- PrincipalVersion
  MaxPackages = 1
  Registrars = {r, s}
  Nothing = Nothing
  Bundlers = {u, w}
  Loads <- LoadsGiven
  MaxBundles = 4
  ScoreMax = 4
  YearOf <- Year
  ParentOf <- Parent
  Comparable = {14, 15}
  StudyVersions <- StudyVersionsGiven
  OtherVersion = "other"
  Built <- BuiltGiven
  MinFit = 3
  Trainers = {t, u}
  Intervals <- IntervalsGiven
  PastFires <- PastFiresGiven
  Trained <- TrainedGiven
  Cells <- CellsGiven
  FirstDay <- FirstGiven
  Controls = 1
  MaxModels = 2
  Past <- PastGiven
  Period <- PeriodGiven
  Sample = 4
INVARIANTS
  DatasetsSound
  CandidatesTraceable
  BundlesFaithful
  NoLeakage
  StudiesSound
  MetricsRight
PROPERTIES
  BundlesFrozen
SYMMETRY Sym
CHECK_DEADLOCK FALSE
