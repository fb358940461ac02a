SPECIFICATION FairSpec
CONSTANTS
  Cases = {c1}
  Alerts24 = {c1}
  Alerts48 = {c1}
  Reactive = {}
  Workers = {w1}
  MaxFaults = 1
PROPERTIES
  EveryCaseConcludes
CHECK_DEADLOCK FALSE
