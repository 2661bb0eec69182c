SPECIFICATION Spec
CONSTANTS
  Server = {n1, n2, n3}
  Nil = Nil
  InitTerms = {1, 2}
  Logs <- MCLogs
  Impatient = {n1, n2, n3}
  MaxTerm = 3
  MaxFaults = 1
SYMMETRY Symmetry
INVARIANTS TypeOK LeaderBackedByQuorum LeaderHoldsOwnVote LeaderHintWasElected
CHECK_DEADLOCK FALSE
