SPECIFICATION Spec
CONSTANTS
  Vocab = 4
  Threads = 2
  One = 2
  FMax = 40
  Coarse = 20
  Tiny = 1
  Depth = 8
  PUnit = 4
  SampledBatches <- MCBatches
  Noise <- MCNoise
  MaxCalls = 2
INVARIANTS
  SelectsAsDocumented
  DeviceCallsAreSafe
CHECK_DEADLOCK FALSE
