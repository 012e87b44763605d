SPECIFICATION FairSpec
CONSTANTS
  Account <- MCAccount
  Currency = {"USD"}
  CurrencyCode = {"USD"}
  CurrencyOf <- MCCurrencyOf
  AllowNegative <- MCMerchantMayOwe
  FXAccount <- MCNoFX
  Key = {k1, k2}
  NoKey = NoKey
  MaxInt = 100
  Session = {s1, s2}
  Holder = {s1, s2}
  NoHolder = NoHolder
  Request <- MCRefunds
  Mode = "serializable"
  MaxAttempts = 2
  MaxTxns = 3
PROPERTIES RefinesAtomic EveryCallReturns
