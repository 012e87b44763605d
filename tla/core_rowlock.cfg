SPECIFICATION CoreSpec
CONSTANTS
  Account <- MCAccount
  Currency = {"USD"}
  CurrencyCode = {"USD"}
  CurrencyOf <- MCCurrencyOf
  AllowNegative <- MCAllowNegative
  FXAccount <- MCNoFX
  PayoutAccount <- MCRail
  Key = {k1}
  NoKey = NoKey
  MaxInt = 100
  Session = {s1}
  Settler = {d1, d2}
  Holder = {s1, d1, d2}
  NoHolder = NoHolder
  Request <- MCPayments
  Mode = "rowlock"
  MaxAttempts = 1
  MaxTxns = 3
  MaxBatches = 2
SYMMETRY MCSymmetry
INVARIANTS SInv PaidOnce PaidNet NoDrift NoOverdraft NoCoreLockCycle
PROPERTIES CoreRefinesAtomic
