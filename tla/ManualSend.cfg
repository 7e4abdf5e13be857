SPECIFICATION Spec
CHECK_DEADLOCK FALSE
CONSTANTS
  t1 = t1
  r1 = r1
  c1 = c1
  NoId = NoId
  TrxId = {t1}
  Request = {r1}
  ClientOps = {"cancel", "send", "process"}
  Client = {c1}
  MaxClientCalls = 1
  MaxTroubles = 0
INVARIANTS
  SentIsCarried
