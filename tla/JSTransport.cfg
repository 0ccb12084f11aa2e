SPECIFICATION FairSpec
CONSTANTS
  c1 = c1
  c2 = c2
  Closers <- MCClosers
  ChanCap = 2
  MaxChunk = 2
  MaxRead = 2
  MaxBytes = 4
INVARIANTS TypeOK CloseOnce
PROPERTIES IsByteStream CloseCompletes Delivered
CHECK_DEADLOCK FALSE
