----------------------------- MODULE MoneyCalls -----------------------------
(***************************************************************************)
(* One caller of internal/money: it reads a string, prints an amount and   *)
(* reads back what it printed, or converts an amount.                      *)
(***************************************************************************)
EXTENDS Money

CONSTANTS
  Code,     \* what a caller may pass as a currency
  Texts,    \* the strings read
  Amounts,  \* the amounts printed and converted
  RateInts  \* the numerators and denominators

TextType == [neg : BOOLEAN, int : Seq(0 .. NotDigit), frac : Seq(0 .. NotDigit)]

ASSUME CallAssumption ==
  Amounts \subseteq Int64 /\ RateInts \subseteq Int64 /\ Texts \subseteq TextType

VARIABLES
  call,     \* the function called and its arguments
  result    \* its result, or Unanswered

mvars == <<call, result>>

Unanswered == [ok |-> FALSE]

Calls ==
  [op : {"parse"}, cur : Code, text : Texts]
    \union [op : {"format"}, amt : Amounts]
    \union [op : {"convert"}, amt : Amounts, num : RateInts, den : RateInts]

Init == call \in Calls /\ result = Unanswered

Parse ==
  /\ call.op \in {"parse", "reread"} /\ result = Unanswered
  /\ result' = ParseMajor(call.cur, call.text)
  /\ UNCHANGED call

(* The text printed is what the next call reads.                           *)
Format ==
  /\ call.op = "format" /\ result = Unanswered
  /\ \E c \in Currency :
       call' = [op |-> "reread", cur |-> c, text |-> FormatMajor(call.amt), amt |-> call.amt]
  /\ UNCHANGED result

(* Rate.Validate refuses what is not positive.                             *)
ConvertAmount ==
  /\ call.op = "convert" /\ result = Unanswered
  /\ result' = IF call.num <= 0 \/ call.den <= 0 THEN Bad
               ELSE Read(Convert(call.amt, call.num, call.den))
  /\ UNCHANGED call

Answered == result # Unanswered /\ UNCHANGED mvars

Next == Parse \/ Format \/ ConvertAmount \/ Answered

Spec == Init /\ [][Next]_mvars

-----------------------------------------------------------------------------
Done(op) == call.op = op /\ result # Unanswered

(* What FormatMajor prints, ParseMajor reads back as the same amount.  The *)
(* smallest int64, printed with two minus signs, is refused, never read as *)
(* another amount.                                                         *)
RoundTrip ==
  Done("reread") =>
    result = IF call.amt = MinInt THEN Bad ELSE Read(call.amt)

(* Digit i of ds is worth 10^(point - i).                                  *)
DigitSum(ds, point) ==
  LET upto[i \in 0 .. Len(ds)] ==
        IF i = 0 THEN 0 ELSE upto[i - 1] + ds[i] * Tens(point - i)
  IN  upto[Len(ds)]

(* The number a string stands for, in minor units.                         *)
Value(t) ==
  (IF t.neg THEN -1 ELSE 1)
    * (DigitSum(t.int, Len(t.int)) * Scale + DigitSum(t.frac, Decimals))

(* ParseMajor is exact when the amount fits in an int64, and otherwise off *)
(* by a multiple of 2^64: it never reports the overflow, which may happen  *)
(* in the middle of the digit loop, although its comment (money.go:69-71)  *)
(* promises exact minor units.                                             *)
ParseExact ==
  Done("parse") /\ result.ok =>
    LET v == Value(call.text) IN
    /\ v \in Int64 => result.amt = v
    /\ (result.amt - v) % (2 * (MaxInt + 1)) = 0

(* amt * num / den in whole minor units, ties away from zero.              *)
Nearest(amt, num, den) ==
  LET size  == IF amt < 0 THEN -amt ELSE amt
      units == (2 * size * num + den) \div (2 * den)
  IN  IF amt < 0 THEN -units ELSE units

(* Convert rounds to the nearest minor unit, ties away from zero, the same *)
(* for a debit as for a credit, every amount but the smallest int64 whose  *)
(* converted amount fits an int64.  The two exceptions are not in the      *)
(* comment of Convert (fx.go:28-30).  Negating the smallest int64 has no   *)
(* effect, so half a unit is added to a negative product and the sign is   *)
(* turned: at 1/2 the answer is positive.  And of a converted amount that  *)
(* does not fit q.Int64() returns the low 64 bits, and no error.           *)
RoundsToNearest ==
  Done("convert") /\ result.ok /\ call.amt # MinInt =>
    LET n == Nearest(call.amt, call.num, call.den)
    IN  n \in Int64 => result.amt = n

(* What makes the three inductive: an answer is the function's, and what   *)
(* is read back is what was printed.                                       *)
ReadAnswered ==
  /\ call.op = "parse" => call.text \in Texts
  /\ call.op \in {"format", "reread"} => call.amt \in Amounts
  /\ call.op = "reread" => call.cur \in Currency /\ call.text = FormatMajor(call.amt)
  /\ call.op \in {"parse", "reread"} =>
       result \in {Unanswered, ParseMajor(call.cur, call.text)}

ConvertAnswered ==
  call.op = "convert" =>
    /\ call.amt \in Amounts /\ call.num \in RateInts /\ call.den \in RateInts
    /\ \/ result = Unanswered
       \/ call.num > 0 /\ call.den > 0
            /\ result = Read(Convert(call.amt, call.num, call.den))
       \/ result = Bad
=============================================================================
