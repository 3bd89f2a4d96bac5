SPECIFICATION Spec
CONSTANTS
  Tabs = {t1}
  Users = {"alice"}
  Logins = {limited}
  Owner <- OneOwner
  Bound = {limited}
  Limited = {limited}
  Reqs = {r1, r2, r3}
  MaxGen = 2
  MaxOwn = 1
  MaxSubscribers = 1
  None = None
INVARIANTS RefreshMutex WaitersHeld TokensOfOneLogin
PROPERTIES RetryNewToken EveryRequestSettles
CHECK_DEADLOCK FALSE
