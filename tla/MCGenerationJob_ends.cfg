\* Fair scheduling, every client operation, two exceptions, two orderly stops.
CONSTANTS
  Instances = {i1}
  NumScenes = 2
  Reserve = 3
  TakeCents = 1
  Deposit = 6
  EventSinks = FALSE
  AutoPublish = TRUE
  NativeRetries = 0
  MaxAutomatic = 1
  Offered = {"start", "retry", "retryStage", "regenerate"}
  MaxOps = 4
  MaxCancels = 0
  MaxFaults = 2
  MaxCrashes = 0
  MaxStops = 2
  MaxSpends = 0
  MaxStoryboards = 8
SPECIFICATION FairSpec
INVARIANTS
  ReviewGate
  PolicyGate
  ResumeHasCheckpoints
PROPERTIES
  JobsEnd
CHECK_DEADLOCK FALSE
