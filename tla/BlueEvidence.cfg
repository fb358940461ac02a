SPECIFICATION FairSpec
CONSTANTS
  Cases = {c1, c2}
  Alerts24 = {c1, c2}
  Alerts48 = {c1}
  Reactive = {c2}
  Workers = {w1, w2}
  MaxFaults = 1
INVARIANTS
  OneReviewer
  LedgerKept
  VerdictsFollowRuns
PROPERTIES
  WaitsKept
  ReviewSpec
  EventuallyClosed
CHECK_DEADLOCK FALSE
