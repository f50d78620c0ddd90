SPECIFICATION Spec
CONSTANTS
  Jobs = {j1, j2}
  MaxFaults = 1
SYMMETRY JobSymmetry
CHECK_DEADLOCK FALSE
INVARIANT FailedIsNotStored
