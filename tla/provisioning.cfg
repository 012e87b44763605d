SPECIFICATION FairSpec
CONSTANTS
  Server = {v1, v2}
  NoServer = NoServer
  Client = {c1, c2}
  Currencies <- MCCurrencies
  ClientName <- MCClientName
  CurrencyCode = {"USD", "XXX"}
  MaxFaults = 2
INVARIANTS Provisioned NamesReserved CreatedAsAsked
PROPERTIES StartupSucceeds
