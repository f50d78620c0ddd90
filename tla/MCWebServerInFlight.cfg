SPECIFICATION Spec
CONSTANTS
  Conns = {c1, c2}
  MaxConns = 5
  Half = 2
SYMMETRY ConnSymmetry
CHECK_DEADLOCK FALSE
INVARIANT InFlightRequestsComplete
