SPECIFICATION FairSpec
CONSTANTS
  g1 = g1
  g2 = g2
  g3 = g3
  Callers <- MCCallers
  None = None
  StdinCap = 2
  MaxSends = 3
INVARIANTS TypeOK NoPanic TornDown Accounted
PROPERTIES DisconnectCompletes Delivered
CHECK_DEADLOCK FALSE
