SPECIFICATION LogSpec
SYMMETRY Symmetry
CONSTANTS
  Wallet = {w1, w2}
  NoWallet = NoWallet
  TicketPrice = 3
  ServiceChargeBps = 5000
  MaxWinnersCap = 2
  MAX_PARTICIPANTS = 3
  WINNERS_PER_PAGE = 1
  BuyWindow = 2
  UploadWindow = 1
  ConfigUploadWindow = 1
  RemediationWindow = 1
  AllowEarlyUpload = TRUE
  VaultRent = 1
  U64_MAX = 1000
  U32_MAX = 3
  BuySizes = {1}
  TicketBound = 2
  RevealSecs = {0, 2}
INVARIANTS
  SeedCanonical
  MoneyReplayed
  VaultReplayed
PROPERTIES
  WindowsKept
  TicketsFrozen
CONSTRAINT
  NoneClosed
CHECK_DEADLOCK FALSE
