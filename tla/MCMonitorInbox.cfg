CONSTANTS
  c1 = c1
  c2 = c2
  Conns = {c1, c2}
  Acceptor = Acceptor
  Capacity = 2
  Histories <- MCHistories
SPECIFICATION Spec
INVARIANT IntactUnlessRaced
PROPERTY EveryPieceHandled
CHECK_DEADLOCK FALSE
