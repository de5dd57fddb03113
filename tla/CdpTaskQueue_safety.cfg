CONSTANTS
  Receivers = {r1, r2}
  Workers = {w1, w2}
  QueueLength = 3
  MaxMsgs = 2
  NoProc = NoProc
  NoTask = NoTask
SYMMETRY Symmetry
SPECIFICATION Spec
INVARIANTS
  TypeOK
  RingConsistent
  NoLostTaskWakeup
  NoLostSpaceWakeup
PROPERTY ImplementsFifo
\* Receivers may have read their last message while workers wait for more.
CHECK_DEADLOCK FALSE
