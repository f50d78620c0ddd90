SPECIFICATION Spec
CONSTANTS
  Seeders = {s1}
  Leftovers <- MCLeftovers
INVARIANT SeededIdsAreFixed
CHECK_DEADLOCK FALSE
