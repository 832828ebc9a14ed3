\* One top-up, overages up to its price, a code that one of two accounts may
\* redeem, two handlers and the webhook.
CONSTANTS
  Topups = {t1}
  Users = {u1, u2}
  Handlers = {h1, h2}
  Hooks = {w}
  Nobody = nobody
  SharedLoop = FALSE
  Cents = 2
  MaxOverdraft = 2
  MaxFaults = 1
  MaxPatches = 1
SPECIFICATION FairSpec
CHECK_DEADLOCK FALSE
INVARIANTS
  TypeOK
  CreditedOnce
  CreditIsPaid
PROPERTIES
  RedeemedWithinLimit
  PaidIsCredited
