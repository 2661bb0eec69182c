SPECIFICATION FairSpec
CONSTANTS
  m1 = m1
  m2 = m2
  f1 = f1
  b1 = b1
  Message = {m1, m2}
  File = {f1}
  Block = {b1}
  PartOf <- OneBlock
  Never = Never
  MessageExpiry = 1
  MaxHours = 3
PROPERTY OldMessagesGo
CHECK_DEADLOCK FALSE
