CONSTANTS
  Callers = {c1, c2}
  Workers = {w1, w2}
  MaxCalls = 1
  MaxAnswers = 2
  SemAddrs = {a1, a2}
  PeerMayClose = TRUE
  Kinds = {"sendrecv", "async"}
  None = None
  NULL = NULL
  Garbage = Garbage
  Refused = Refused
SPECIFICATION FairSpec
INVARIANTS
  TypeOK
  ReturnsOwnAnswer
  PostsReachTheirCall
  ListedIsLive
  OneEvent
  WaiterIsTracked
PROPERTY CallsReturn
\* Every caller may have made its last call.
CHECK_DEADLOCK FALSE
