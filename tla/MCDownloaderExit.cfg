SPECIFICATION Spec
CONSTANTS
  Files = {f1, f2}
  MaxRuns = 1
SYMMETRY FileSymmetry
CHECK_DEADLOCK FALSE
INVARIANT ExitZeroMeansFetched
