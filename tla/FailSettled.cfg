SPECIFICATION Spec
CONSTANTS
  w1 = w1
  w2 = w2
  t1 = t1
  t2 = t2
  alice = alice
  bob = bob
  carol = carol
  treasury = treasury
  transit = transit
  usd = usd
  eur = eur
  NoId = NoId
  Worker = {w1}
  TrxId = {t1}
  Regular = {alice, bob}
  BalanceAccount = treasury
  TransitAccount = transit
  Currency = {usd}
  Payments <- OneWay
  Openings <- None
  InitialFunds <- Funds
  OpenedAccounts = {alice, bob}
  ApiOps = {"create", "send", "process"}
  Exclusive = FALSE
  Failures = {}
  MaxRetryCount = 5
PROPERTIES
  FailsUnsettledOnly
