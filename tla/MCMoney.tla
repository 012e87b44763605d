------------------------------ MODULE MCMoney -------------------------------
(* Every amount of a 12-bit integer is printed and read back; strings of   *)
(* up to four characters before the point and three after it are read.     *)
EXTENDS MoneyCalls

MCTexts ==
  LET Char == {0, 1, 9, NotDigit}
      upto(n) == UNION {[1 .. k -> Char] : k \in 0 .. n}
  IN  [neg : BOOLEAN, int : upto(4), frac : upto(3)]

MCAmounts == -2048 .. 2047

MCRateInts == {-1, 0, 1, 2, 3, 7, 92, 100}
=============================================================================
