SPECIFICATION Spec
CONSTANTS
  Wallet = {w1, w2}
  NoWallet = NoWallet
  TicketPrice = 3
  ServiceChargeBps = 5000
  MaxWinnersCap = 2
  MAX_PARTICIPANTS = 2
  WINNERS_PER_PAGE = 1
  BuyWindow = 1
  UploadWindow = 1
  ConfigUploadWindow = 1
  RemediationWindow = 1
  AllowEarlyUpload = FALSE
  VaultRent = 1
  U64_MAX = 1000
  U32_MAX = 3
  BuySizes = {1}
  TicketBound = 1
  RevealSecs = {0}
INVARIANTS
  EveryBuyerEligible
CHECK_DEADLOCK FALSE
