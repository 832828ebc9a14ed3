\* One instance that never goes down, five operations, three exceptions or
\* rejected takes; the wallet holds one reserve, which another job may take.
CONSTANTS
  Instances = {i1}
  NumScenes = 2
  Reserve = 3
  TakeCents = 1
  Deposit = 3
  EventSinks = TRUE
  AutoPublish = TRUE
  NativeRetries = 1
  MaxAutomatic = 1
  Offered = {"start", "retry", "retryStage", "regenerate"}
  MaxOps = 5
  MaxCancels = 0
  MaxFaults = 3
  MaxCrashes = 0
  MaxStops = 0
  MaxSpends = 1
  MaxStoryboards = 5
SPECIFICATION Spec
INVARIANTS
  NoUnpaidTake
  FailureIsRefunded
  ReadyPaysItsTakes
CHECK_DEADLOCK FALSE
