CONSTANTS
  c1 = c1
  c2 = c2
  t1 = t1
  Classes = {c1, c2}
  Signals = {c1}
  Trackable = {c1, c2}
  Loaders = {t1}
  Reloader = Reloader
  NoClass = NoClass
  Commands = {"turn_on_profiler", "turn_off_profiler"}
  MaxCommands = 4
SPECIFICATION SwitchSpec
INVARIANTS
  InstrumentedWhenSettled
  OwnCode
PROPERTY DoneAsAsked
CHECK_DEADLOCK FALSE
