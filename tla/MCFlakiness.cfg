CONSTANTS
  Commit = {k1, k2}
  Window = 3
  MinRuns = 2
  Flips = 2
  Pairs = 3
  QuarantineTTL = 1
  StableRunsToRelease = 3
  NoEntry = NoEntry
  MaxRuns = 6
  MaxTime = 1
SYMMETRY Symmetric
SPECIFICATION Spec
INVARIANTS
  ReleasedIsNotFlaky
  FlakyHasBothOutcomes
PROPERTIES
  SkippedSaysNothing
CHECK_DEADLOCK FALSE
