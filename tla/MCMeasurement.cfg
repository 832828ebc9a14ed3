\* Two due checkpoints, overlapping collections of collect-due and of a request,
\* a failure of each, two activations that may overlap.
CONSTANTS
  Checks = {k1, k2}
  DueRuns = {d1}
  Manual = {m1}
  Editors = {e1, e2}
  None = none
  MaxFailed = 1
  MaxEdits = 2
SPECIFICATION FairSpec
CHECK_DEADLOCK FALSE
INVARIANTS
  TypeOK
  StrategyIsActive
PROPERTIES
  DueIsMeasured
