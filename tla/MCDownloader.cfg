SPECIFICATION FairSpec
CONSTANTS
  Files = {f1, f2}
  MaxRuns = 2
\* The command ends.
CHECK_DEADLOCK FALSE
INVARIANTS
  TypeOK
  BundleIsOfThisRun
PROPERTY JoinEnds
