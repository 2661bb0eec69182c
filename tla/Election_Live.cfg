SPECIFICATION FairSpec
CONSTANTS
  Server = {n1, n2, n3}
  Nil = Nil
  InitTerms = {0, 1}
  Logs <- OneLog
  Impatient = {n1}
  MaxTerm = 4
  MaxFaults = 1
PROPERTY StableLeader
 
CHECK_DEADLOCK FALSE
