CONSTANTS
  x = x
  y = y
  NUL = NUL
  Char = {x, y}
  Messages <- MCMessages
  MaxSent = 3
  MaxMsgSize = 2
  Slack = 1
SPECIFICATION Spec
PROPERTIES
  ImplementsChannel
  EveryMessageDelivered
CHECK_DEADLOCK FALSE
