\* Two threads and two names for two items; one interrupted call in a request.
CONSTANTS
  Threads = {t1, t2}
  Hosts = {h1, h2}
  NoHost = NoHost
  NItems = 2
  Caller = t1
  CallHost = h1
  Kinds = {"upload", "simple", "move"}
  Parts <- MCParts
  Piece = 2
  Chunks <- MCChunks
  ReadMax = 3
  BufLen = 1
  MaxIntr = 1
SPECIFICATION FairSpec
INVARIANT AddressOfHost
INVARIANT AnswerTrue
PROPERTY CallReturns
CHECK_DEADLOCK FALSE
