SPECIFICATION CoreSpec
CONSTANTS
  Account <- MCAccount
  Currency = {"USD"}
  CurrencyCode = {"USD"}
  CurrencyOf <- MCCurrencyOf
  AllowNegative <- MCAllowNegative
  FXAccount <- MCNoFX
  PayoutAccount <- MCRail
  Key = {k1}
  NoKey = NoKey
  MaxInt = 100
  Session = {s1}
  Settler = {d1}
  Holder = {s1, d1}
  NoHolder = NoHolder
  Request <- MCRefundAfterPayout
  Mode = "rowlock"
  MaxAttempts = 1
  MaxTxns = 4
  MaxBatches = 2
INVARIANTS BatchesAreCovered
