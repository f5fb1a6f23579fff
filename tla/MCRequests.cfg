CONSTANTS
  r1 = r1
  r2 = r2
  w1 = w1
  w2 = w2
  q1 = q1
  q2 = q2
  Workers = {w1, w2}
  Idle = Idle
  MaxTime = 3
  MaxFaults = 1
  ReportIds = {r1, r2}
  StaleAfter = 1
  Retention = 2
  LastRequest = 1
  NoReport = NoReport
  Requests = {q1, q2}
  NoRequest = NoRequest
  NoEntry = NoEntry
  u1 = u1
  Payers = {u1}
  PaidFor = 2
  CacheSeconds = 3
  LastInstant = 4
  Askers = {q1, q2}
  Unasked = Unasked
  NoRate = NoRate
  LastDay = 2
  b1 = b1
  b2 = b2
  all = all
  food = food
  Entries = {1, 2, 3}
  Legacy = {1, 2}
  EntryAmounts = {1}
  Labels = {"food", "rent"}
  Deviations <- MCDeviations
  Backfillers = {b1, b2}
  BackfillSize = 1
  LastStamp = 2
  NoEntryRow = NoEntryRow
  Erased = Erased
  NoPicture = NoPicture
  Filters = {all, food}
  PageSize = 1
  MaxTotal = 2
  MaxRequests = 2
  MaxPage = 2
  NoData = NoData
SPECIFICATION Spec
INVARIANTS
  RatesDegradeInOrder
  BackfillConverges
  ListIsCurrent
PROPERTIES
  ReportsAreFinal
  PendingReportsEnd
  AccessFollowsPayment
  AuditIsExact
CHECK_DEADLOCK FALSE
