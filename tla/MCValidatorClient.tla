------------------------- MODULE MCValidatorClient -------------------------
(* Two validating keys, so a wallet can start with none, one or both and  *)
(* an imported keymanager can gain an account after start; the interrupt  *)
(* handler's count is the code's ten.                                      *)
EXTENDS ValidatorClient

CONSTANTS k1, k2

MCValidatingKeys == {k1, k2}
=============================================================================
