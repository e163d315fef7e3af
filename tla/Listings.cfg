SPECIFICATION FairSpec
CONSTANTS
  Handlers = {h1, h2}
  Kinds = {"create", "stream", "deploy", "repair", "issue", "delete"}
  NoOne = nobody
  Supply = 1
  Attempts = 2
  MaxRequests = 3
  MaxTokens = 4
  Budget <- Stressed
  MaxFaults = 2
CHECK_DEADLOCK FALSE
INVARIANTS
  TypeOK
  MintedOnce
  OneListing
PROPERTIES
  TokenKept
  RequestsEnd
