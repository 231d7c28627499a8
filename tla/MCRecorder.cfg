SPECIFICATION Spec
CONSTANTS
  Writer = {w1}
  Frames <- MCFrames
  Commands <- MCCommands
  Radix = 4
  BufCapacity = 7
  MaxRecords = 3
INVARIANTS RecorderTypeOK CleanFileExact PrefixReadable ReplayReproduces
CHECK_DEADLOCK FALSE
