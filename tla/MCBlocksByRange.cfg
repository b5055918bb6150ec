\* One stream slot, two requests in a row from one peer; the fork choice may
\* switch between the tips of A and B twice while responses stream.
\* The peer is bad after one penalty, and the connection handler may
\* disconnect it at any moment.
CONSTANTS
  GenericError = "genericError"
  BadScore = "badScore"
  BAD_THRESHOLD = 1
  Peers = {"p1"}
  Blocks <- MCBlocks
  ZeroRoot = 0
  BLOCK_BATCH_LIMIT = 2
  RANGE_LIMIT = 4
  MAX_REQUEST_BLOCKS = 4
  CURRENT_SLOT = 4
  CAPACITY = 4
  MAX_LEAKS = 2
SPECIFICATION Spec
CONSTANTS
  Streams = {"s1"}
  PeerOf <- MCPeerOneStream
  Heads = {5, 8}
  RequestSet <- MCRequests
  MAX_REORGS = 2
  MAX_REQUESTS = 2
INVARIANT TypeOK StableResponseConforms StableRateLimitHonoured LinearWithinBatch BlockIdsAgree CanonicalBySlot
PROPERTY CallsReturn
\* Every handler returns and the model bounds the requests: the system stops.
CHECK_DEADLOCK FALSE
