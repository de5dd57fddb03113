CONSTANTS
  MaxConn = 2
  MaxSock = 5
  Numbers <- Alike
  RemoteDials = FALSE
  LocalDials = TRUE
  CommonApps = {TRUE}
  Elects = {TRUE}
  Prompt = TRUE
  Sending = TRUE
  None = None
  Freed = Freed
SPECIFICATION FairSpec
PROPERTIES
  LostNoticed
