SPECIFICATION RecSpec
CONSTANTS
  Account <- MCAccount
  Currency = {"USD"}
  CurrencyCode = {"USD"}
  CurrencyOf <- MCCurrencyOf
  AllowNegative <- MCAllowNegative
  FXAccount <- MCNoFX
  Key = {k1}
  NoKey = NoKey
  MaxInt = 100
  Session = {s1}
  Holder = {s1}
  NoHolder = NoHolder
  Request <- MCRequest
  Mode = "rowlock"
  MaxAttempts = 1
  MaxTxns = 2
  Limit = {0}
  MaxLimit = 3
  DefaultLimit = 1
INVARIANTS ConsistentYieldsOK
