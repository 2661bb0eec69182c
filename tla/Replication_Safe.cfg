SPECIFICATION Spec
CONSTANTS
  Server = {n1, n2, n3}
  Nil = Nil
  Command = {a, b}
  a = a
  b = b
  c = c
  InitTerm = 1
  InitLogs <- EmptyLogs
  Started = {n1, n2, n3}
  Impatient = {n1, n2, n3}
  MaxTerm = 2
  FaultKinds = {"sync", "delay"}
  MaxFaults = 1
SYMMETRY Symmetry
INVARIANTS AppliedOnce CommittedAgree ReplicasAgree
PROPERTY RunsAsOneMachine
CHECK_DEADLOCK FALSE
