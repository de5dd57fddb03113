CONSTANTS
  SipProcs = {p1}
  Receiver = rcv
  Worker = wrk
  Timer = tmr
  DialogTimer = dtm
  Dialogs = {d1}
  MaxSessions = 2
  MaxCalls = 3
  MaxInFlight = 2
  Rows = {r1}
  RowOf <- OneRow
  Rejects = {"PENDING"}
  Requests = {"ASR", "RAR"}
  None = None
SPECIFICATION TimedSpec
INVARIANTS
  HoldsWhatItUses
\* All calls may have been made and all messages answered; processes may deadlock.
CHECK_DEADLOCK FALSE
