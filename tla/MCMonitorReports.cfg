SPECIFICATION Spec
CONSTANTS
  Kinds <- MCKinds
  Classes = {"A", "B"}
  Stacks = {"s1", "s2"}
  TimerKeys <- MCTimerKeys
  SignalKeys = {"k1"}
  Values = {"v1", "v2"}
  JamKeys = {"w1"}
  Monitors = {"m1", "m2"}
  LoadedClasses <- MCLoadedClasses
  Samples <- MCSamples
  MaxPosted = 2
  MaxResets = 1
  MaxSaves = 1
  MaxLoads = 1
  MaxTime = 3
  NoName <- MCNoName
  Blank = "blank"
CHECK_DEADLOCK FALSE
INVARIANTS HeapBalance OnlyResetKills TimerTruth SettledShowsAccounts DetailAddsUp ColumnsCover MarksAreSeen
PROPERTIES LoadShowsFile LoadShowsTimers
