CONSTANTS
  MemSize = 16
  Page = 8
  Requests <- ShortRequests
  GarbledWrites = FALSE
SPECIFICATION Spec
INVARIANTS OkWriteAlwaysExact
