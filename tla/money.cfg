SPECIFICATION Spec
CONSTANTS
  Currency = {"USD"}
  MaxInt = 2047
  Code = {"USD", "XXX"}
  Texts <- MCTexts
  Amounts <- MCAmounts
  RateInts <- MCRateInts
INVARIANTS RoundTrip ParseExact RoundsToNearest
