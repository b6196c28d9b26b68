CONSTANTS
  Turnarounds = {1, 2, 3, 4}
  IdleCycles = {0, 12}
  DataBits = 7
  Alignments = {TRUE, FALSE}
  PhaseBits = 11
  SequenceBits = 13
  Sequences <- UpToTwo
SPECIFICATION Spec
INVARIANTS OkIsExact WireIsMeant
PROPERTIES InStep TurnsSpec
