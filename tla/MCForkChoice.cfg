CONSTANTS
  A = A
  B = B
  C = C
  D = D
  Outside = Outside
  Zero = Zero
  ZeroHash <- Zero
  Blocks <- MCBlocks
  Validators <- MCValidators
  Epochs <- MCEpochs
  Slots <- MCSlots
  Atts <- MCAtts
  NonExistentNode = 1000
  MAX_ATTESTATIONS = 4
  SLOTS_PER_EPOCH = 2
  MAX_SLOT = 4
SPECIFICATION APSpec
INVARIANT TypeOK AncestorRootCorrect LatestVote SlashingsMatchSpec
PROPERTY PoolRefined
