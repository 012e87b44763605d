SPECIFICATION Spec
CONSTANTS
  Account <- MCAccount
  Currency = {"USD"}
  CurrencyCode = {"USD"}
  CurrencyOf <- MCCurrencyOf
  AllowNegative <- MCAllowNegative
  FXAccount <- MCNoFX
  Key = {k1, k2}
  NoKey = NoKey
  MaxInt = 3
  Session = {s1}
  Holder = {s1}
  NoHolder = NoHolder
  Request <- MCLargeRefunds
  Mode = "rowlock"
  MaxAttempts = 1
  MaxTxns = 4
SYMMETRY MCSymmetry
INVARIANTS RefundBound
