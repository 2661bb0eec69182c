SPECIFICATION Spec
CONSTANTS
  Server = {n1, n2, n3}
  Nil = Nil
  InitTerms = {0, 1}
  Logs <- OneLog
  Impatient = {n1, n2, n3}
  MaxTerm = 3
  MaxFaults = 0
SYMMETRY Symmetry
INVARIANT ElectionSafety
PROPERTIES  OwnVoteIsKept
CHECK_DEADLOCK FALSE
