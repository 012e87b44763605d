SPECIFICATION CoreFairSpec
CONSTANTS
  Account <- MCAccount
  Currency = {"USD"}
  CurrencyCode = {"USD"}
  CurrencyOf <- MCCurrencyOf
  AllowNegative <- MCAllowNegative
  FXAccount <- MCNoFX
  PayoutAccount <- MCRail
  Key = {k1}
  NoKey = NoKey
  MaxInt = 100
  Session = {s1}
  Settler = {d1, d2}
  Holder = {s1, d1, d2}
  NoHolder = NoHolder
  Request <- MCFullRefund
  Mode = "serializable"
  MaxAttempts = 2
  MaxTxns = 2
  MaxBatches = 2
PROPERTIES CoreRefinesAtomic EverySettlementReturns
