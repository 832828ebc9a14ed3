\* One instance that crashes and stops, two exceptions; no stage retries, under
\* which paid scenes are lost.
CONSTANTS
  Instances = {i1}
  NumScenes = 2
  Reserve = 3
  TakeCents = 1
  Deposit = 6
  EventSinks = TRUE
  AutoPublish = TRUE
  NativeRetries = 0
  MaxAutomatic = 1
  Offered = {"start", "retry", "regenerate"}
  MaxOps = 3
  MaxCancels = 0
  MaxFaults = 2
  MaxCrashes = 1
  MaxStops = 1
  MaxSpends = 0
  MaxStoryboards = 3
SPECIFICATION Spec
INVARIANTS
  TypeOK
PROPERTIES
  ScenesAreKept
CHECK_DEADLOCK FALSE
