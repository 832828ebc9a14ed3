\* One publication, two failures and a download of its export package; the
\* client retries, and never confirms what has failed again.
CONSTANTS
  Pubs = {p1}
  Handlers = {x1}
  Nobody = nobody
  MaxFaults = 2
  MaxMishaps = 1
SPECIFICATION Spec
CHECK_DEADLOCK FALSE
INVARIANT
  RetryIsBlocked
