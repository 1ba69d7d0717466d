SPECIFICATION Spec
CONSTANTS
  Winner <- SomeWinners
  WINNERS_PER_PAGE = 3
  MAX_WINNERS = 5
  BITS = 2
  PREFIX_BYTES = 1
  COUNT_BYTES = 1
  RESERVED_BYTES = 1
  WALLET_BYTES = 2
  TICKET_BYTES = 1
INVARIANTS
  TypeOK
  Payable
PROPERTIES
  ImplementsRegister
CHECK_DEADLOCK FALSE
