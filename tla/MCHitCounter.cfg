SPECIFICATION Spec
CONSTANTS
  Browsers = {b1, b2}
  Requests = {r1, r2, r3}
  None = None
  MaxSent = 6
SYMMETRY Symmetric
\* Nothing more is sent once the bound is reached.
CHECK_DEADLOCK FALSE
INVARIANTS
  TypeOK
  CountedIsKept
  AnswerCountsClick
PROPERTY PagesGoForward
