SPECIFICATION Spec
CONSTANTS
  Wallets = {alice, bob}
  Sale = sale
  Txs = {1, 2}
  Loops = {l1}
  Requests = {r1}
  NoOne = nobody
  StartBlock = 1
  ReplayDepth = 1
  ChunkSize = 2
  MaxHead = 6
  MaxLag = 2
  Budget <- Failing
CHECK_DEADLOCK FALSE
SYMMETRY Symmetric
INVARIANTS
  SettledAgrees
