CONSTANTS
  Callers = {c1, c2}
  Workers = {w1}
  MaxCalls = 2
  MaxAnswers = 1
  SemAddrs = {a1, a2}
  PeerMayClose = TRUE
  Kinds = {"sendrecv"}
  None = None
  NULL = NULL
  Garbage = Garbage
  Refused = Refused
SPECIFICATION Spec
INVARIANT BlocksUntilEvent
CHECK_DEADLOCK FALSE
