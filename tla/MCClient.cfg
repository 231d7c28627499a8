SPECIFICATION Spec
CONSTANTS
  TickSize = 1
  LotSize = 1
  Word = 4
  None = None
  Commands <- MCCommands
  Events <- MCEvents
  MaxTraffic = 2
  MaxDrain = 2
INVARIANTS
  ClientTypeOK
  EveryFrameDecodes
  NothingSkippedOrRepeated
  LostOnlyWithConnection
  CommandsArrive
PROPERTIES
  CallReturns
