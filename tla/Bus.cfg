CONSTANTS
  Turnarounds = {1, 2, 3, 4}
  IdleCycles = {0, 1, 2}
  DataBits = 33
  SwjBits = 2
SPECIFICATION Spec
INVARIANTS PadMatchesTranslator BitsAligned InSync
PROPERTIES DirOnlyIsolated TurnsSpec
