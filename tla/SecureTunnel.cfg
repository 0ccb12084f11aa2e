SPECIFICATION FairSpec
CONSTANTS
  ServiceIdLen = 128
  Sizes = {64512, 65600}
  MaxSent = 131200
  MaxServed = 2
INVARIANTS
  TypeOK
  InOrder
  NothingLost
  LengthsFit
  ResetLast
PROPERTIES
  HandshakeFirst
  Flushed
  Parsed
CHECK_DEADLOCK FALSE
