SPECIFICATION Spec
CONSTANTS
  Server = {n1, n2, n3}
  Nil = Nil
  Command = {a, b, c}
  a = a
  b = b
  c = c
  InitTerm = 0
  InitLogs <- EmptyLogs
  Started = {n1, n3}
  Impatient = {n1}
  MaxTerm = 1
  FaultKinds = {"sync"}
  MaxFaults = 1
SYMMETRY CommandSymmetry
INVARIANTS CommitIsReplicated AckedIsReplicated
PROPERTY CurrentEntriesStay
CHECK_DEADLOCK FALSE
