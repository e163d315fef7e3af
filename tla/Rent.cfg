SPECIFICATION Spec
CONSTANTS
  Properties = {p1, p2}
  Accounts = {alice, bob}
  Zero = zero
  MaxInvestors = 2
  Rents = {3}
  Amounts = {1}
  MaxBatch = 2
  MaxSupply = 2
  MaxCollected = 6
  MaxUnbacked = 1
  MaxDonated = 1
SYMMETRY Symmetry
INVARIANTS
  TypeOK
  ListedOnce
  NeverOverDistributes
  Conservation
  Solvency
  BooksAgree
PROPERTIES
  DustBounded
  KeepsLedger
