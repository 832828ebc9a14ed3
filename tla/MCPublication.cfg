\* One publication of any platform, two handlers, two failures and one cancel,
\* download or crash; clients retry what has failed, or confirm it
\* again without a retry.
CONSTANTS
  Pubs = {p1}
  Handlers = {x1, x2}
  Nobody = nobody
  MaxFaults = 2
  MaxMishaps = 1
SPECIFICATION FairSpec
CHECK_DEADLOCK FALSE
INVARIANTS
  TypeOK
  PostedOnce
  PublishedNamesItsPost
PROPERTIES
  AttemptsEnd
