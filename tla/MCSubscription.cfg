CONSTANTS
  u1 = u1
  x1 = x1
  x2 = x2
  x3 = x3
  s1 = s1
  s2 = s2
  NoSub = NoSub
  NoRequest = NoRequest
  Free = Free
  Users = {u1}
  Subs = {x1, x2, x3}
  Sessions = {s1, s2}
  Outcomes = {"APPROVED", "DECLINED", "ERROR", "PENDING"}
  Period = 2
  MaxTime = 4
  MaxPayments = 3
SPECIFICATION FairSpec
INVARIANTS
  TypeOK
  OneCurrentPerUser
  OnePaymentInProgress
  ChargedAgainOnlyAfterError
  AccessIsPaid
PROPERTIES
  OnlyForward
  KeepsItsPromises
  FinishedSubscriptionsExpire
CHECK_DEADLOCK FALSE
