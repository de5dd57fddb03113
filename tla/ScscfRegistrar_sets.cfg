CONSTANTS
  SipProcs = {q1, q2}
  Timer = T
  a = a
  b = b
  ImplicitSet <- TwoIds
  Slots = 2
  Hashes <- Layouts
  Devices = {x}
  Kinds = {"register", "deregister", "call", "subscribe"}
  MaxPublics = 4
  MaxProfiles = 2
  MaxCalls = 2
  None = None
SPECIFICATION FairSpec
INVARIANTS
  TypeOK
  RefsCounted
  HeldIsLive
  RegisteredHasProfile
PROPERTY ExpiredIsRemoved
\* Walks of implicit sets from two identities wait for each other, and memory that
\* was freed is used: both stop the model.
CHECK_DEADLOCK FALSE
