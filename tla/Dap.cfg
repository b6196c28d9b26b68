CONSTANTS
  Packets <- AllPackets
  Blocks <- AllBlocks
  Retries = {0, 1}
  MatchRetries = {0, 1}
SPECIFICATION Spec
INVARIANTS ReadsInOrder OnceInOrder NothingBeyond OkAllDone
PROPERTIES CommandReturns
