SPECIFICATION Spec
CONSTANTS
  b1 = b1
  b2 = b2
  b3 = b3
  b4 = b4
  Blocks <- MCBlocks
  FakeHead = head
  FakeTail = tail
  None = none
  Window = 2
INVARIANTS TypeOK CountIsLengthPlusLost
PROPERTY ImplementsQueue
CHECK_DEADLOCK FALSE
