SPECIFICATION FairSpec
CONSTANTS
  a = a
  b = b
  c1 = c1
  c2 = c2
  c3 = c3
  SlowCalls = TRUE
  None = None
  Call = {a, b}
  Client = {c1, c2, c3}
INVARIANTS
  ClientsKept
  OwnTransactions
  Answered
PROPERTIES
  CallsEnd
