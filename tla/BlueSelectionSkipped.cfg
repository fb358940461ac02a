SPECIFICATION FairSpec
CONSTANTS
  Communes = {1, 2, 3}
  None = None
  Department <- SomeDepartments
  Previous <- SomePrevious
  MaxScore = 2
  National = 1
  Territorial = 1
  Acceleration = 0
  ProactiveLimit = 2
  ReactiveLimit = 1
  DailyLimit = 3
  Callers = {forecast}
  Watched = {3}
  MaxFaults = 0
PROPERTIES
  SelectionEnsured
CHECK_DEADLOCK FALSE
