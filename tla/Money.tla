------------------------------- MODULE Money --------------------------------
(***************************************************************************)
(* internal/money: amounts are int64 counts of minor units.  How a decimal *)
(* string is read and printed (money.go), and how a rate converts an       *)
(* amount (fx.go), with the width of int64 kept.                           *)
(***************************************************************************)
EXTENDS Integers, Sequences, FiniteSets, FiniteSetsExt

CONSTANTS
  Currency,   \* the currencies IsSupported accepts, all with two decimals
  MaxInt      \* the largest int64 (2^63 - 1 in the code)

ASSUME MaxIntAssumption == MaxInt \in Nat \ {0}

(* Two's-complement 64-bit integers, with MaxInt in the place of 2^63 - 1. *)
Int64  == -(MaxInt + 1) .. MaxInt
MinInt == -(MaxInt + 1)

Wrap(x) == ((x + MaxInt + 1) % (2 * (MaxInt + 1))) - (MaxInt + 1)

(* Go's / and big.Int's Quo truncate towards zero; den is positive.        *)
Quo(num, den) == IF num < 0 THEN -((-num) \div den) ELSE num \div den

-----------------------------------------------------------------------------
(* Rate.Convert.  The product is exact; q.Int64() keeps its low 64 bits,   *)
(* and negating the smallest int64 has no effect.                          *)

(* Mutant: the quotient is truncated, not rounded.                         *)
MutRounded(f, num, den) == Wrap(Quo(f * num, den))

Rounded(f, num, den) == Wrap(Quo(f * num + den \div 2, den))

Convert(from, num, den) ==
  IF from < 0 THEN Wrap(-Rounded(Wrap(-from), num, den)) ELSE Rounded(from, num, den)

-----------------------------------------------------------------------------
(* A major-unit string, without the spaces around it: a sign, the          *)
(* characters before the point and those after it.  A character is a       *)
(* digit or NotDigit.  "7" and "7." read alike.                            *)

NotDigit == 10
Text(neg, int, frac) == [neg |-> neg, int |-> int, frac |-> frac]

(* scale's loop: 10 * ... * 10, n times.                                   *)
Tens(n) ==
  LET upto[i \in 0 .. n] == IF i = 0 THEN 1 ELSE upto[i - 1] * 10
  IN  upto[n]

Decimals == 2
Scale    == Tens(Decimals)

Bad     == [ok |-> FALSE, amt |-> 0]
Read(m) == [ok |-> TRUE, amt |-> m]

(* Mutant: a short fraction is not padded: "5.5" reads as 5.05.            *)
MutPadded(frac) == frac

(* Right-padded with zeros.                                                *)
Padded(frac) == frac \o [i \in 1 .. Decimals - Len(frac) |-> 0]

(* The digit loops: int64 arithmetic without an overflow check.            *)
ReadDigits(ds) ==
  LET upto[i \in 0 .. Len(ds)] ==
        IF i = 0 THEN 0 ELSE Wrap(upto[i - 1] * 10 + ds[i])
  IN  upto[Len(ds)]

HasDigits(t) == t.int # << >> \/ t.frac # << >>

ParseMajor(c, t) ==
  LET total == Wrap(ReadDigits(t.int) * Scale + ReadDigits(Padded(t.frac)))
  IN  IF /\ c \in Currency
         /\ HasDigits(t)
         /\ Len(t.frac) <= Decimals
         /\ \A i \in DOMAIN t.int : t.int[i] # NotDigit
         /\ \A i \in DOMAIN t.frac : t.frac[i] # NotDigit
        THEN Read(IF t.neg THEN Wrap(-total) ELSE total)
        ELSE Bad

(* The decimal digits of a natural number, at least w of them.             *)
DigitsOf(n, w) ==
  LET len == CHOOSE k \in w .. n + w + 1 :
               n < Tens(k) /\ (k = w \/ n >= Tens(k - 1))
  IN  [i \in 1 .. len |-> (n \div Tens(len - i)) % 10]

(* Sprintf's %d and %0*d: a negative number begins with a minus sign.      *)
Printed(n, w) == IF n < 0 THEN <<NotDigit>> \o DigitsOf(-n, 1) ELSE DigitsOf(n, w)

(* Mutant: %d for the fraction: 5.05 is printed as "5.5".                  *)
MutFormatMajor(m) ==
  LET v == IF m < 0 THEN Wrap(-m) ELSE m
      whole == Quo(v, Scale)
  IN  Text(m < 0, Printed(whole, 1), Printed(v - whole * Scale, 1))

(* v = -v has no effect on the smallest int64.                             *)
FormatMajor(m) ==
  LET v == IF m < 0 THEN Wrap(-m) ELSE m
      whole == Quo(v, Scale)
  IN  Text(m < 0, Printed(whole, 1), Printed(v - whole * Scale, Decimals))
=============================================================================
