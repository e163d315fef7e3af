SPECIFICATION FairSpec
CONSTANTS
  Investors = {alice, bob}
  Supply = 2
  Amounts = {1, 2}
  Handlers = {h1, h2}
  MaxOrders = 1
  MaxTxs = 3
  MaxConfirms = 2
  MaxFaults = 2
CHECK_DEADLOCK FALSE
INVARIANTS
  TypeOK
  LedgerMatchesChain
  FundedWithinSupply
PROPERTIES
  BoundOrderIsFunded
