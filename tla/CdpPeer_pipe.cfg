CONSTANTS
  MaxConn = 2
  MaxSock = 5
  Numbers <- Alike
  RemoteDials = TRUE
  LocalDials = FALSE
  CommonApps = {TRUE}
  Elects = {TRUE}
  Prompt = TRUE
  Sending = FALSE
  None = None
  Freed = Freed
SPECIFICATION Spec
INVARIANTS
  OpenHasPipe
