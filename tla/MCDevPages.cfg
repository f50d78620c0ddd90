SPECIFICATION PagesFairSpec
CONSTANTS
  Requests = {r1, r2, r3}
  Tabs = {t1, t2}
  None = None
  MaxOpened = 4
  MaxPosts = 2
  MaxBuilds = 2
  MaxEvents = 3
\* Nothing more happens once the bounds are reached.
CHECK_DEADLOCK FALSE
INVARIANTS
  PagesTypeOK
  ReloadsArePaidFor
  OneRunsOnce
PROPERTIES
  NobodyStuckInOnce
  PendingReloadTaken
  SomeTabCatchesUp
