SPECIFICATION Spec
CONSTANTS
  ip = ip
  pairA = pairA
  pairB = pairB
  phone = phone
  Keys = {ip, pairA, pairB, phone}
  Requests <- MCRequests
  Logins <- MCLogins
  Limit <- MCLimit
  Window <- MCWindow
  Second = 2
  SweepEvery = 3
  MaxCalls = 8
  MaxTime = 6
CHECK_DEADLOCK FALSE
INVARIANTS TypeOK LimitHolds RetryAfterIsEnough SweepForgets
