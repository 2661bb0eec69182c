SPECIFICATION Spec
CONSTANTS
  Server = {n1, n2, n3}
  Nil = Nil
  Command = {a}
  a = a
  b = b
  c = c
  InitTerm = 0
  InitLogs <- EmptyLogs
  Started = {n1, n2, n3}
  Impatient = {n1, n2, n3}
  MaxTerm = 2
  FaultKinds = {"vote", "client", "sync", "delay", "crash"}
  MaxFaults = 0
SYMMETRY Symmetry
INVARIANT AckedSurvives
CHECK_DEADLOCK FALSE
