SPECIFICATION FairSpec
CONSTANTS
  n1 = n1
  n2 = n2
  select = select
  update = update
  random = random
  dot = dot
  quit = quit
  Word = {select, update, random, dot, quit}
  SelectWord = {select}
  DotWord = {dot}
  UnsafeWord = {random}
  Quote = Quote
  Semi = Semi
  Server = {n1, n2}
  Nil = Nil
  NoFile = NoFile
  Options <- AllOptions
  Lines <- TypedLines
  Exit <- ExitLine
  MaxRuns = 2
  MaxLines = 2
  MaxLate = 1
INVARIANT TypeOK
INVARIANT StatementsInOrder
INVARIANT SplitAtStatements
INVARIANT QueriesOnlyRead
INVARIANT RefusedHasNoEffect
INVARIANT SubmittedIsTyped
PROPERTY ExecuteEnds
CHECK_DEADLOCK FALSE
