SPECIFICATION Spec
CONSTANTS
  InitialCount = 4
  Rgb32Count = 3
  CatchCount = 1
  MaxStarts = 2
  MaxFaults = 2
INVARIANTS ReadersHaveIt NoneDropped CallbackMapped
PROPERTY FrameDelivered
