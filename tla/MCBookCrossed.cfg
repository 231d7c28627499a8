SPECIFICATION Spec
CONSTANTS
  OrderId = {1, 2}
  Account = {a1, a2}
  Price = {1, 2}
  MaxPrice = 2
  Qty = {1, 2}
  NewOrders <- MCNewOrders
  MaxSeq = 3
  SnapshotMayFail = TRUE
  None = None
INVARIANTS Uncrossed
