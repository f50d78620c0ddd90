SPECIFICATION FairSpec
CONSTANT Commands = {c1, c2, c3}
\* The commands end.
CHECK_DEADLOCK FALSE
INVARIANTS
  TypeOK
  SchemaMatchesVersion
  VersionsInOrder
  UpReachesLatest
PROPERTIES
  OneMigrationAtATime
  EveryCommandEnds
