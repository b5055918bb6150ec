\* A reorg between two step-1 batches of one response.
CONSTANTS
  GenericError = "genericError"
  BadScore = "badScore"
  BAD_THRESHOLD = 1
  Peers = {"p1"}
  Blocks <- MCBlocks
  ZeroRoot = 0
  BLOCK_BATCH_LIMIT = 2
  RANGE_LIMIT = 4
  MAX_REQUEST_BLOCKS = 4
  CURRENT_SLOT = 4
  CAPACITY = 4
  MAX_LEAKS = 2
SPECIFICATION Spec
CONSTANTS
  Streams = {"s1"}
  PeerOf <- MCPeerOneStream
  Heads = {5, 8}
  RequestSet <- MCRequestsSmall
  MAX_REORGS = 1
  MAX_REQUESTS = 1
INVARIANT LinearResponse
CHECK_DEADLOCK FALSE
