\* Two regenerations and a reassembly of two scenes, one extra take each, with
\* money for three takes, one exception and, unless the production is published by
\* itself, an orderly stop or an approval by a person.
CONSTANTS
  Regens = {r1, r2}
  Assemblies = {a1}
  NoOp = none
  NumScenes = 2
  TakeCents = 1
  NativeRetries = 1
  Deposit = 3
  Publishing = {TRUE, FALSE}
  EventSinks = FALSE
  MaxFaults = 1
  MaxStops <- MCTurns
  MaxTurns <- MCTurns
SPECIFICATION FairSpec
CHECK_DEADLOCK FALSE
INVARIANTS
  TypeOK
  OneOperation
  TakesAreReserved
  PaysItsTakes
  NoSceneWaitsForever
PROPERTIES
  ShowsAcceptedTakes
  JobIsGivenBack
