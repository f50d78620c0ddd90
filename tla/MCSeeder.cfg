SPECIFICATION FairSpec
CONSTANTS
  Seeders = {s1, s2}
  Leftovers <- MCLeftovers
INVARIANTS
  TypeOK
  ConvergesOnSuccess
  RunsAgree
PROPERTIES
  AllOrNothing
  EveryRunEnds
CHECK_DEADLOCK FALSE
