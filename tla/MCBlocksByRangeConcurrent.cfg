\* Two streams of one peer served at the same time.
CONSTANTS
  GenericError = "genericError"
  BadScore = "badScore"
  BAD_THRESHOLD = 1
  Peers = {"p1"}
  Blocks <- MCBlocks
  ZeroRoot = 0
  BLOCK_BATCH_LIMIT = 2
  RANGE_LIMIT = 4
  MAX_REQUEST_BLOCKS = 4
  CURRENT_SLOT = 4
  CAPACITY = 4
  MAX_LEAKS = 2
SPECIFICATION Spec
CONSTANTS
  Streams = {"s1", "s2"}
  PeerOf <- MCPeerTwoStreams
  Heads = {5}
  RequestSet <- MCRequestsSmall
  MAX_REORGS = 0
  MAX_REQUESTS = 1
INVARIANT RateLimitHonoured
CHECK_DEADLOCK FALSE
