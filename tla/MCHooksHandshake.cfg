CONSTANTS
  j1 = j1
  j2 = j2
  good = good
  bad = bad
  Jvms = {j1, j2}
  Texts = {good, bad}
  ValidTexts = {good}
  InitText = good
  OpcodeLines = 1
  UserActions = {"open", "close", "edit", "add_hook", "save", "validate", "watch"}
  MaxUser = 3
SPECIFICATION Spec
INVARIANT OneValidList
PROPERTY HooksArrive
CHECK_DEADLOCK FALSE
