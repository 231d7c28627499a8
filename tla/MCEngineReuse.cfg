SPECIFICATION EngineFairSpec
CONSTANTS
  OrderId = {1, 3}
  Account = {"a", "b"}
  Price = {2, 3}
  MaxPrice = 3
  Qty = {1, 2}
  NewOrders <- MCReusedNewOrders
  MaxSeq = 3
  SnapshotMayFail = FALSE
  UniqueIds = FALSE
  MaxOpenOrders = 2
  MaxNotional = 7
  PriceBandBps = 4000
  None = None
INVARIANTS RegistryMirrorsBook ExposureExact Uncrossed WalkInv
PROPERTIES CommandCompletes
