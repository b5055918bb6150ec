CONSTANTS
  k1 = k1
  k2 = k2
  r1 = r1
  r2 = r2
  MISSING = MISSING
  PubKeys <- MCPubKeys
  Roots <- MCRoots
  Slots <- MCSlots
  SLOTS_PER_EPOCH = 2
  WEAK_SUBJECTIVITY_PERIOD = 1
  MAX_SAVES = 4
SYMMETRY MCSymmetry
SPECIFICATION Spec
INVARIANT HistoryFaithful MarksExact
CHECK_DEADLOCK FALSE
