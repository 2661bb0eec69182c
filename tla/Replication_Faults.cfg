SPECIFICATION Spec
CONSTANTS
  Server = {n1, n2}
  Nil = Nil
  Command = {a, b}
  a = a
  b = b
  c = c
  InitTerm = 0
  InitLogs <- EmptyLogs
  Started = {n1, n2}
  Impatient = {n1, n2}
  MaxTerm = 2
  FaultKinds = {"vote", "client", "sync", "delay", "crash"}
  MaxFaults = 2
SYMMETRY Symmetry
INVARIANTS TypeOK 
CHECK_DEADLOCK FALSE
