SPECIFICATION Spec
CONSTANTS
  Kinds <- HeapOnly
  Classes = {"A"}
  Stacks = {"s1"}
  TimerKeys <- MCTimerKeys
  SignalKeys = {"k1"}
  Values = {"v1", "v2"}
  JamKeys = {"w1"}
  Monitors = {"m1", "m2"}
  LoadedClasses <- MCLoadedClasses
  Samples <- MCSamples
  MaxPosted = 2
  MaxResets = 0
  MaxSaves = 0
  MaxLoads = 0
  MaxTime = 3
  NoName <- MCNoName
  Blank = "blank"
CHECK_DEADLOCK FALSE
INVARIANT HeapCountsObjects
