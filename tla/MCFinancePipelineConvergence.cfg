CONSTANTS
  a1 = a1
  t1 = t1
  s1 = s1
  s2 = s2
  food = food
  rent = rent
  NoMovement = NoMovement
  NoTx = NoTx
  NoJob = NoJob
  Free = Free
  NoFact = NoFact
  Gone = Gone
  Accounts = {a1}
  CreditAccounts = {a1}
  Openings <- MCOpenings
  Txs = {t1}
  Amounts <- MCAmounts
  Categories = {food, rent}
  Sessions = {s1, s2}
  MaxStamps = 4
SPECIFICATION SpecPipeline
INVARIANT ReadModelAlwaysConverges
CHECK_DEADLOCK FALSE
