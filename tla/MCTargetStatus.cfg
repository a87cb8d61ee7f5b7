CONSTANTS
  N = 2
  MaxUser = 2
  MaxEnds = 1
SPECIFICATION Spec
INVARIANTS
  ShownTruthfully
  RowsFound
PROPERTY ConnectedComesTrue
CHECK_DEADLOCK FALSE
