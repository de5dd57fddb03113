CONSTANTS
  MaxConn = 2
  MaxSock = 5
  Numbers <- Alike
  RemoteDials = TRUE
  LocalDials = TRUE
  CommonApps = {TRUE, FALSE}
  Elects = {TRUE, FALSE}
  Prompt = FALSE
  Sending = FALSE
  None = None
  Freed = Freed
SPECIFICATION FairSpec
INVARIANTS
  ElectionHasCER
  
PROPERTIES
  LostNoticed
  
