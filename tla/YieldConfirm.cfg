SPECIFICATION Spec
CONSTANTS
  Investors = {alice, bob}
  Supply = 3
  Rent = 5
  Handlers = {h1}
  Kinds = {"register", "confirm"}
  MaxTxs = 1
  MaxRequests = 2
  MaxMoves = 0
  MaxCrashes = 0
  MaxFaults = 0
SYMMETRY Symmetric
CHECK_DEADLOCK FALSE
INVARIANTS
  CreditedOnce
