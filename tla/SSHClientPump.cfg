SPECIFICATION FairSpec
CONSTANTS
  g1 = g1
  g2 = g2
  g3 = g3
  Callers <- MCCallers
  None = None
  StdinCap = 1
  MaxSends = 2
PROPERTY PumpStops
CHECK_DEADLOCK FALSE
