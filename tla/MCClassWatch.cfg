CONSTANTS
  c1 = c1
  t1 = t1
  Classes = {c1}
  Signals = {c1}
  Trackable = {c1}
  Loaders = {t1}
  Reloader = Reloader
  NoClass = NoClass
  Commands = {"turn_on_profiler", "turn_off_profiler", "watch_loading", "stop_watch_loading", "watch_traffic", "stop_watch_traffic"}
  MaxCommands = 3
SPECIFICATION WatchSpec
INVARIANTS
  EveryListingCounts
  WatchedOnlyWhileProfiling
CHECK_DEADLOCK FALSE
