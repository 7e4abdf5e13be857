SPECIFICATION Spec
CONSTANTS
  alice = alice
  bob = bob
  carol = carol
  treasury = treasury
  transit = transit
  usd = usd
  eur = eur
  Account = {alice, bob, carol, treasury, transit}
  BalanceAccount = treasury
  TransitAccount = transit
  Currency = {usd, eur}
  InitialFunds <- Funds
  Payments <- Paid
  Openings <- Opened
  NewAccount = {carol}
CONSTRAINT Bounded
INVARIANTS
  NeverNegative
  Conserved
  Covered
