\* Every pipeline path; blocks arrive in any order; one validation may run
\* with a cancelled context.
CONSTANTS
  DbInit = {1}
  FINALIZED_SLOT = 0
  CURRENT_SLOT = 2
SPECIFICATION Spec
CONSTANTS
  Deliveries = {"d1", "d2", "d3", "d4", "d5", "d6", "d7"}
  MsgOf <- MCMsgOfAll
  MAX_CANCELS = 1
INVARIANT TypeOK BadOnlyIfTainted
PROPERTY ValidEventuallyStored
\* Every delivery is decided and every accepted block received: the system stops.
CHECK_DEADLOCK FALSE
