SPECIFICATION Spec
CONSTANTS
  PoolMax = 2
  PackMax = 1
  PcmMax = 1
  MaxStarts = 2
  MaxCalls = 3
  MaxFaults = 1
INVARIANTS PcmAlive DecoderAlive ExitsClean PauseFollowed
PROPERTY StopReturns
CHECK_DEADLOCK FALSE
