\* One block delivered twice.
CONSTANTS
  DbInit = {1}
  FINALIZED_SLOT = 0
  CURRENT_SLOT = 2
SPECIFICATION Spec
CONSTANTS
  Deliveries = {"d1", "d2"}
  MsgOf <- MCMsgOfDup
  MAX_CANCELS = 0
INVARIANT AcceptOnce
CHECK_DEADLOCK FALSE
