SPECIFICATION Spec
CONSTANTS
  Wallets = {alice, bob}
  Sale = sale
  Txs = {1, 2, 3}
  Loops = {l1, l2}
  Requests = {r1}
  NoOne = nobody
  StartBlock = 1
  ReplayDepth = 1
  ChunkSize = 2
  MaxHead = 4
  MaxLag = 4
  Budget <- Concurrent
SYMMETRY Symmetric
CHECK_DEADLOCK FALSE
INVARIANTS
  TypeOK
  AppliedOnce
  NoSilentGap
