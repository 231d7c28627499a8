SPECIFICATION EngineSpec
CONSTANTS
  OrderId = {1, 2, 3}
  Account = {"a", "b"}
  Price = {2, 3}
  MaxPrice = 3
  Qty = {1, 2}
  NewOrders <- MCNewOrders
  MaxSeq = 3
  SnapshotMayFail = FALSE
  UniqueIds = TRUE
  MaxOpenOrders = 1
  MaxNotional = 7
  PriceBandBps = 4000
  None = None
INVARIANTS OpenOrdersCapped
