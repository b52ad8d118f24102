SPECIFICATION FairSpec
CONSTANTS
  x1 = x1
  x2 = x2
  x3 = x3
  d1 = d1
  d2 = d2
  p1 = p1
  p2 = p2
  Sales = {x1, x2, x3}
  Devices = {d1, d2}
  Products = {p1, p2}
  Sessions = {s1, s2}
  StoreRow = StoreRow
  None = None
  Origin <- MCOrigin
  Items <- MCItems
  DetachOrder <- MCDetach
  Deletable = {p2}
  MaxTimeouts = 1
  MaxCrashes = 1
  MaxDetaches = 1
  MaxFailures = 1
  MaxEvents = 2
INVARIANTS TypeOK ReceiptsUnique SaleMovesStockOnce AckedSaleIsKeptUnlessFailure GapsNeedRetries
PROPERTIES LedgerSpec OutboxDrains
CHECK_DEADLOCK FALSE
