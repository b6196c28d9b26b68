CONSTANTS
  HalfClock = 13
  WriteCycles = 2
  FastCycles = 0
  PacketCount = 2
  MaxRequests = 4
  Batches <- MCBatches
  Clocks = {0, 3}
SPECIFICATION Spec
INVARIANT ClockNotExceeded
PROPERTIES ServiceSpec EveryAnswered
