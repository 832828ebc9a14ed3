\* Two instances that come and go, a reviewed or an immediate job, a cancel that
\* either instance serves; no automatic or client retries and no event sink.
CONSTANTS
  Instances = {i1, i2}
  NumScenes = 2
  Reserve = 3
  TakeCents = 1
  Deposit = 6
  EventSinks = FALSE
  AutoPublish = TRUE
  NativeRetries = 0
  MaxAutomatic = 0
  Offered = {"start"}
  MaxOps = 2
  MaxCancels = 1
  MaxFaults = 1
  MaxCrashes = 1
  MaxStops = 1
  MaxSpends = 0
  MaxStoryboards = 3
SPECIFICATION Spec
INVARIANTS
  SingleExecutor
CHECK_DEADLOCK FALSE
