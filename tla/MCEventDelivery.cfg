CONSTANTS
  t1 = t1
  a = a
  b = b
  NoEvent = NoEvent
  NoFact = NoFact
  Gone = Gone
  Txs = {t1}
  Categories = {a, b}
  Events <- MCEvents
  Relays = {r1, r2}
  Workers = {w1, w2}
  BatchSize = 2
  MaxFaults = 2
SPECIFICATION FairSpec
INVARIANTS
  TypeOK
  NothingLost
  ProjectionIsOrderInsensitive
PROPERTIES
  TombstonesAreFinal
  ImplementsReadModel
  EveryEventIsProjected
CHECK_DEADLOCK FALSE
