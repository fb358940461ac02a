SPECIFICATION FairSpec
CONSTANTS
  Cases = {c1}
  Alerts24 = {c1}
  Alerts48 = {c1}
  Reactive = {c1}
  Workers = {w1}
  MaxFaults = 0
INVARIANTS
  FinalVerdictAfterHorizon
CHECK_DEADLOCK FALSE
