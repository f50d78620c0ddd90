SPECIFICATION FairSpec
CONSTANTS
  Conns = {c1, c2}
  MaxConns = 5
  Half = 2
\* The process ends: "exited" and "killed" have no successor.
CHECK_DEADLOCK FALSE
INVARIANTS
  TypeOK
  ReleaseAfterDrain
  ReleasedOnReturn
  ExitZeroIsOrderly
PROPERTIES
  ImplementsGracefulStop
  InterruptLeadsToExit
  ServerFailureLeadsToExit
  PoolWaitEnds
