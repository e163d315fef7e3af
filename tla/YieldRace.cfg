SPECIFICATION Spec
CONSTANTS
  Investors = {alice, bob}
  Supply = 1
  Rent = 5
  Handlers = {h1, h2}
  Kinds = {"prepare", "sync", "confirm"}
  MaxTxs = 3
  MaxRequests = 2
  MaxMoves = 1
  MaxCrashes = 1
  MaxFaults = 0
SYMMETRY Symmetric
CHECK_DEADLOCK FALSE
INVARIANTS
  ClaimSettlesRows
