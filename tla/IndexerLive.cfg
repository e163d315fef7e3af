SPECIFICATION FairSpec
CONSTANTS
  Wallets = {alice}
  Sale = sale
  Txs = {1, 2}
  Loops = {l1}
  Requests = {r1}
  NoOne = nobody
  StartBlock = 1
  ReplayDepth = 1
  ChunkSize = 2
  MaxHead = 4
  MaxLag = 4
  Budget <- Stressed
CHECK_DEADLOCK FALSE
PROPERTIES
  EventuallyIndexed
