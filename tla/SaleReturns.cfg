SPECIFICATION FairSpec
CONSTANTS
  x1 = x1
  x2 = x2
  r1 = r1
  r2 = r2
  r3 = r3
  r4 = r4
  d1 = d1
  d2 = d2
  p1 = p1
  p2 = p2
  Returns = {r1, r2, r3, r4}
  Sales = {x1, x2}
  LateSales = {x2}
  Lines = {1, 2, 3}
  SaleLine <- MCSaleLine
  Sold <- MCSold
  Paid <- MCPaid
  Products = {p1, p2}
  Product <- MCProduct
  SaleOf <- MCSaleOf
  Qty <- MCQty
  Resellable <- MCResellable
  Knowledge <- MCKnowledge
  Devices = {d1, d2}
  Sessions = {s1, s2}
  Origin <- MCOrigin
  Position <- MCPosition
  StoreRow = StoreRow
  None = None
  Deletable = {p1}
  MaxTimeouts = 1
  MaxCrashes = 1
  MaxErrors = 1
  MaxEvents = 2
INVARIANTS TypeOK ReturnsWithinSale BooksAgree QuantityRefusalIsFinal
PROPERTIES LedgerSpec ReturnsSettle
CHECK_DEADLOCK FALSE
