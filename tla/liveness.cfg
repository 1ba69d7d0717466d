SPECIFICATION LiveSpec
CONSTANTS
  Wallet = {w1, w2, w3}
  NoWallet = NoWallet
  TicketPrice = 1
  ServiceChargeBps = 7000
  MaxWinnersCap = 2
  MAX_PARTICIPANTS = 3
  WINNERS_PER_PAGE = 1
  BuyWindow = 1
  UploadWindow = 1
  ConfigUploadWindow = 1
  RemediationWindow = 1
  AllowEarlyUpload = FALSE
  VaultRent = 1
  U64_MAX = 100
  U32_MAX = 3
  BuySizes = {1}
  TicketBound = 2
  RevealSecs = {0}
PROPERTIES
  Settles
  RefundsPaidOut
CHECK_DEADLOCK FALSE
