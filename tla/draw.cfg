SPECIFICATION Spec
CONSTANTS
  SAMPLES = 64
  MAX_TICKETS = 63
  MAX_NONCE = 2
INVARIANTS
  TypeOK
  Uniform
  FewRejected
CHECK_DEADLOCK FALSE
