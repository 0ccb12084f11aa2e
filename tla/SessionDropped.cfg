SPECIFICATION FairSpec
CONSTANTS
  plain = plain
  second = second
  ppk = ppk
  capture = capture
  id = id
  other = other
  Calls <- MCCalls
  Captures = {capture}
  PPKs = {ppk}
  Ids = {id, other}
  IdOf <- MCIdOf
  None = None
PROPERTY SettlesWhenDropped
CHECK_DEADLOCK FALSE
CONSTRAINT AtMostThree
