SPECIFICATION Spec
CONSTANTS
  LocalNode = n1
  Entry = {x, y}
  Nil = Nil
  MaxTerm = 2
  MaxLog = 3
  MaxFailures = 2
INVARIANT TypeOK
INVARIANT MemoryMatchesDisk
PROPERTY SurvivesCrashes
