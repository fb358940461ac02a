SPECIFICATION SignalsSpec
CONSTANTS
  Communes = {1, 2, 3, 4}
  None = None
  Department <- SomeDepartments
  Previous <- SomePrevious
  MaxScore = 2
  National = 1
  Territorial = 1
  Acceleration = 1
  ProactiveLimit = 3
  ReactiveLimit = 2
  DailyLimit = 5
  Callers = {forecast, evidence}
  Watched = {2, 3, 4}
  MaxFaults = 1
INVARIANTS
  RanksWithinLimits
  SelectionSound
PROPERTIES
  DailySetSpec
  SignalsReviewed
CHECK_DEADLOCK FALSE
