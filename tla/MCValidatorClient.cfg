\* Every start-up path (CLI, interop, web with or without a wallet, --web=false),
\* a dial that may fail, a wallet from the web portal, imports and interrupts.
CONSTANTS
  k1 = k1
  k2 = k2
  ValidatingKeys <- MCValidatingKeys
  PANIC_AFTER = 10
SPECIFICATION VCSpec
INVARIANT VCTypeOK ProtectorWired
PROPERTY KeysBucketed
\* A client that is never interrupted idles forever, and an ended process
\* takes no step: both are real end states.
CHECK_DEADLOCK FALSE
