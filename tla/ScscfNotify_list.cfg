CONSTANTS
  SipProcs = {q1, q2}
  Timer = T
  Ids = {a, b}
  Devices = {x}
  MaxDialogs = 2
  MaxCalls = 4
  None = None
SYMMETRY Symmetry
SPECIFICATION Spec
INVARIANTS
  TypeOK
  OnceAndInOrder
  NoneQueuedWhenDropped
\* The use of a freed dialog stops the model.
CHECK_DEADLOCK FALSE
