SPECIFICATION Spec
SYMMETRY Symmetry
CONSTANTS
  Wallet = {w1, w2}
  Authority = authority
  Id = {id1, id2}
  Rent = 1
  TicketBound = 2
INVARIANTS
  LinksMatch
  CountsOwn
  VaultBacks
  PurseTrail
PROPERTIES
  OneLottery
CHECK_DEADLOCK FALSE
