\* Handlers on two pool threads: every overlap of two transactions. One
\* reference, charged up to twice; the budget covers one charge of a cent.
CONSTANTS
  Refs = {r1}
  Procs = {p1, p2}
  OnLoop = {}
  Nobody = nobody
  MaxCents = 1
  MaxActual = 2
  BudgetCents = 1
  MaxRows = 2
  MaxDeposits = 2
SPECIFICATION FairSpec
INVARIANTS
  TypeOK
  LocksHeld
  BudgetRespected
PROPERTIES
  ImplementsWallet
  TransactionsEnd
