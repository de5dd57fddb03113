CONSTANTS
  Receivers = {r1, r2}
  Workers = {w1, w2}
  QueueLength = 2
  MaxMsgs = 1
  NoProc = NoProc
  NoTask = NoTask
SPECIFICATION FairSpec
PROPERTIES
  AcceptedTasksRun
  PutReturns
  WorkersStop
\* Receivers may have read their last message while workers wait for more.
CHECK_DEADLOCK FALSE
