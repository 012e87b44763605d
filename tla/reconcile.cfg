SPECIFICATION RecSpec
CONSTANTS
  Account <- MCAccountFX
  Currency = {"USD", "EUR"}
  CurrencyCode = {"USD", "EUR", "XXX"}
  CurrencyOf <- MCCurrencyOfFX
  AllowNegative <- MCAllowNegativeFX
  FXAccount <- MCFX
  Key = {k1}
  NoKey = NoKey
  MaxInt = 100
  Session = {s1, s2}
  Holder = {s1, s2}
  NoHolder = NoHolder
  Request <- MCMixed
  Mode = "rowlock"
  MaxAttempts = 1
  MaxTxns = 2
  Limit = {0, 3}
  MaxLimit = 3
  DefaultLimit = 1
SYMMETRY MCSymmetry
INVARIANTS ConservedBalances DriftIsRecent JournalChecksHold StatementAddsUp
