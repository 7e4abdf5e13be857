SPECIFICATION Spec
CONSTANTS
  w1 = w1
  w2 = w2
  t1 = t1
  t2 = t2
  alice = alice
  bob = bob
  carol = carol
  treasury = treasury
  transit = transit
  usd = usd
  eur = eur
  NoId = NoId
  Worker = {w1, w2}
  TrxId = {t1}
  Regular = {alice, bob, carol}
  BalanceAccount = treasury
  TransitAccount = transit
  Currency = {usd}
  Payments <- OpenMix
  Openings <- OpenMixed
  InitialFunds <- Funds
  OpenedAccounts = {alice}
  ApiOps = {"create", "cancel", "open"}
  Exclusive = FALSE
  Failures = {"abandon", "expiry", "redis"}
  MaxRetryCount = 2
SYMMETRY Symmetry
CONSTRAINT Bounded
INVARIANTS
  TypeOK
  
  Conservation
PROPERTIES
  ImplementsBooks
