SPECIFICATION EngineSpec
CONSTANTS
  OrderId = {1, 2, 3}
  Account = {"a", "b"}
  Price = {2, 3}
  MaxPrice = 3
  Qty = {1, 2}
  NewOrders <- MCNewOrders
  MaxSeq = 3
  SnapshotMayFail = TRUE
  UniqueIds = TRUE
  MaxOpenOrders = 2
  MaxNotional = 7
  PriceBandBps = 4000
  None = None
INVARIANTS EngineTypeOK RegistryMirrorsBook ExposureExact OpenOrdersNeverOvercount
  AdmittedNewOrderFits AmendFits ViewExact MirrorExact TopNamesBest
PROPERTIES KillSwitchFreezes DrivesBook
