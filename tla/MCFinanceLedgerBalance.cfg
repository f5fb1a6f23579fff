CONSTANTS
  a1 = a1
  t1 = t1
  t2 = t2
  s1 = s1
  s2 = s2
  s3 = s3
  food = food
  NoMovement = NoMovement
  NoTx = NoTx
  NoJob = NoJob
  Free = Free
  Accounts = {a1}
  CreditAccounts = {}
  Openings <- MCOpenings
  Txs = {t1, t2}
  Amounts <- MCAmounts
  Categories = {food}
  Sessions = {s1, s2, s3}
  MaxStamps = 4
SPECIFICATION Spec
INVARIANT BalanceAlwaysConsistent
CHECK_DEADLOCK FALSE
