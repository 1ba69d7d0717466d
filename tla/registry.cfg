SPECIFICATION Spec
CONSTANTS
  Key = {k1, k2}
  Prices = {1, 2}
  Charges = {0, 9999, 10000}
  Caps = {0, 1, 256, 257}
  AllowServiceChargeUpdate = TRUE
  LotteryBound = 3
INVARIANTS
  TypeOK
PROPERTIES
  TermsKept
  ConfigKept
CHECK_DEADLOCK FALSE
