SPECIFICATION Spec
CONSTANTS
  Jobs = {j1, j2, j3}
  MaxFaults = 2
\* Requests are not repeated: all may be answered and the faults used up.
CHECK_DEADLOCK FALSE
INVARIANTS
  TypeOK
  AckedIsKept
  CountIncludesOwn
PROPERTIES
  ImplementsJobLog
