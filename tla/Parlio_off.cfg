CONSTANTS
  Turnarounds = {1}
  IdleCycles = {0}
  DataBits = 1
  GuardWords = 1
  PhaseBits = 1
  SequenceBits = 1
  Sequences <- UpToTwo
SPECIFICATION Spec
INVARIANT OffReleases
