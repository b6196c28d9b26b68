CONSTANTS
  Turnarounds = {1, 2, 4}
  IdleCycles = {0, 3}
  DataBits = 5
  GuardWords = 1
  PhaseBits = 2
  SequenceBits = 3
  Sequences <- UpToTwo
SPECIFICATION Spec
INVARIANTS NoContention OkIsExact
PROPERTIES InStep NoOverwrite TurnsSpec CallReturns
