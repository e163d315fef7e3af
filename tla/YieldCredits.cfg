SPECIFICATION Spec
CONSTANTS
  Investors = {alice, bob}
  Supply = 2
  Rent = 5
  Handlers = {h1, h2}
  Kinds = {"prepare", "sync", "register", "confirm"}
  MaxTxs = 1
  MaxRequests = 3
  MaxMoves = 1
  MaxCrashes = 1
  MaxFaults = 1
SYMMETRY Symmetric
CHECK_DEADLOCK FALSE
INVARIANTS
  TypeOK
  
  CreditsRecorded
