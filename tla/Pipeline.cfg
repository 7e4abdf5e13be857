SPECIFICATION FairSpec
CHECK_DEADLOCK FALSE
CONSTANTS
  t1 = t1
  r1 = r1
  c1 = c1
  NoId = NoId
  TrxId = {t1}
  Request = {r1}
  ClientOps = {"cancel", "send", "process"}
  Client = {c1}
  MaxClientCalls = 2
  MaxTroubles = 2
INVARIANTS
  TypeOK
  PendingIsCarried
  AskedIsKept
  OpenedPerDelivery
  AutomaticOnce
PROPERTIES
  AutomaticPath
  Settles
