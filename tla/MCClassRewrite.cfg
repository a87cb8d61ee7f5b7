CONSTANTS
  Worlds <- MCWorlds
  Untracked = {"java/util/App"}
  Starred = {"*", "get*"}
  MainLike <- MCMainLike
  Word <- MCWord
  Junk = {3, 40}
  Depths = {3, 12}
SPECIFICATION HookSpec
INVARIANTS
  BranchesKept
  FramesMatch
  ExitsCalled
  StackFits
  OperandsResolve
  LengthsTrue
  HooksAsAsked
  RewrittenAfresh
  Survives
  TellsAsAsked
CHECK_DEADLOCK FALSE
