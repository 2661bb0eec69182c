SPECIFICATION FairSpec
CONSTANTS
  Server = {n1, n2, n3}
  Nil = Nil
  Command = {a, b, c, d}
  a = a
  b = b
  c = c
  InitTerm = 2
  InitLogs <- OverwrittenTail
  Started = {n1, n2, n3}
  Impatient = {n1}
  MaxTerm = 3
  FaultKinds = {"vote", "client", "sync", "delay", "crash"}
  MaxFaults = 0
INVARIANT LogMatching
PROPERTY LogsConverge
CHECK_DEADLOCK FALSE
