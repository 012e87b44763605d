SPECIFICATION FairSpec
CONSTANTS
  Account <- MCAccount
  Currency = {"USD"}
  CurrencyCode = {"USD"}
  CurrencyOf <- MCCurrencyOf
  AllowNegative <- MCAllowNegative
  FXAccount <- MCNoFX
  Key = {k1}
  NoKey = NoKey
  MaxInt = 3
  Session = {s1, s2}
  Holder = {s1, s2}
  NoHolder = NoHolder
  Request <- MCTransfers
  Mode = "rowlock"
  MaxAttempts = 1
  MaxTxns = 3
INVARIANTS TypeOK NoDrift ExactWhereBounded NoOverdraft ExactlyOnce AnswersTrue NoLockCycle
PROPERTIES RefinesAtomic EveryCallReturns
