CONSTANTS
  a1 = a1
  Agents = {a1}
  Acceptor = Acceptor
  Sizes = {1, 3}
  BatchSize = 2
  MaxMsgSize = 4
  EndSize = 1
  MaxPushed = 4
  Capacity = 1
SPECIFICATION PipelineSpec
INVARIANTS
  SentInOrder
  NothingLost
  MessageFits
  ReadyFirst
  DispatchedInOrder
PROPERTIES EveryReportSent EveryReportDispatched
CHECK_DEADLOCK FALSE
