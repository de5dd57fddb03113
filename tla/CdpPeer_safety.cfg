CONSTANTS
  MaxConn = 3
  MaxSock = 5
  Numbers <- Alike
  RemoteDials = TRUE
  LocalDials = TRUE
  CommonApps = {TRUE}
  Elects = {TRUE, FALSE}
  Prompt = TRUE
  Sending = TRUE
  None = None
  Freed = Freed
SPECIFICATION Spec
INVARIANTS
  TypeOK
  OpenedByNewest
  AckComes
  AckIsForOurs
  ClosedHasNoSocket
  ReceiverHasSocket
