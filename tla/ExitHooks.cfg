CONSTANTS
  Worlds <- MCWorlds
  Untracked = {"java/util/App"}
  Starred = {"*", "get*"}
  MainLike <- MCMainLike
  Word <- MCWord
  Junk = {3}
  Depths = {3, 12}
SPECIFICATION HookSpec
INVARIANT AnyMethodHooked
CHECK_DEADLOCK FALSE
