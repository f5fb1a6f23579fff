CONSTANTS
  Filters = {all, food}
  PageSize = 2
  MaxTotal = 5
  MaxRequests = 2
  MaxPage = 3
  NoData = NoData
INIT InitPage
NEXT NextMovementsPage
INVARIANT RangeIsTrue
CHECK_DEADLOCK FALSE
