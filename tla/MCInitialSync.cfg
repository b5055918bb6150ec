CONSTANTS
  Blocks <- MCBlocks
  DbInit = {1}
  FINALIZED_SLOT = 0
  SLOTS_PER_EPOCH = 2
  CURRENT_SLOT = 4
  DISABLE_SYNC = FALSE
  GENESIS_IN_FUTURE = FALSE
  ENABLE_PEER_SCORER = TRUE
  Batches <- MCBatches
  MIN_PEERS = 1
  MAX_PEERS = 1
  MAX_BATCHES = 3
  MAX_RESYNCS = 1
  UINT64 = 65536
SPECIFICATION Spec
INVARIANT TypeOK
PROPERTY HandoffsAvoidHeadChain SyncCompletes
CHECK_DEADLOCK FALSE
