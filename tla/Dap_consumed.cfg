CONSTANTS
  Packets <- Singles
  Blocks <- AllBlocks
  Retries = {0, 1}
  MatchRetries = {0, 1}
SPECIFICATION Spec
INVARIANTS RequestConsumed
