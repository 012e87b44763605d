SPECIFICATION Spec
CONSTANTS
  Account <- MCAccount
  Currency = {"USD"}
  CurrencyCode = {"USD", "XXX"}
  CurrencyOf <- MCCurrencyOf
  AllowNegative <- MCMerchantMayOwe
  FXAccount <- MCNoFX
  Key = {k1, k2}
  NoKey = NoKey
  MaxInt = 100
  Session = {s1, s2}
  Holder = {s1, s2}
  NoHolder = NoHolder
  Request <- MCRefundsAndMistakes
  Mode = "rowlock"
  MaxAttempts = 1
  MaxTxns = 3
SYMMETRY MCSymmetry
INVARIANTS RefundBound FreshReads IInv AnswerInv
PROPERTIES RefinesAtomic
