SPECIFICATION HFairSpec
CONSTANTS
  Account <- MCAccount
  Currency = {"USD"}
  CurrencyCode = {"USD"}
  CurrencyOf <- MCCurrencyOf
  AllowNegative = {3}
  FXAccount <- MCNoFX
  Key = {"k1", "k2"}
  NoKey = NoKey
  MaxInt = 100
  Session = {s1, s2}
  Holder = {s1, s2}
  NoHolder = NoHolder
  Request <- HarnessRequest
  Mode = "rowlock"
  MaxAttempts = 1
  MaxTxns = 20
  Limit = {}
  MaxLimit = 0
  DefaultLimit = 0
  Main = s1
  Shared = {1, 2}
  World = 3
  Sink = 4
  Cur = "USD"
  InitialEach = 2
  OpsPerWorker = 2
  Amount = {2}
  Trials <- MCTrials
INVARIANTS NoFalseAlarm CountsTrue TrialsTrue
PROPERTIES HarnessReturns
