CONSTANTS
  MemSize = 20
  Page = 8
  Requests <- MixedRequests
  GarbledWrites = TRUE
SPECIFICATION Spec
INVARIANTS CacheCoherent AccessAsMeant OkWriteIsExact OkReadIsExact PartialWrite
PROPERTIES CallReturns
