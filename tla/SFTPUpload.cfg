SPECIFICATION FairSpec
CONSTANTS
  u1 = u1
  u2 = u2
  Puts <- MCPuts
  Before = Before
INVARIANTS TypeOK CleanFailure
PROPERTIES IsAtomicFile Settles
CHECK_DEADLOCK FALSE
