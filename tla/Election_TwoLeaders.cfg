SPECIFICATION Spec
CONSTANTS
  Server = {n1, n2, n3}
  Nil = Nil
  InitTerms = {0}
  Logs <- OneLog
  Impatient = {n1, n2, n3}
  MaxTerm = 2
  MaxFaults = 1
SYMMETRY Symmetry
INVARIANT ElectionSafety
CHECK_DEADLOCK FALSE
