---------------------------- MODULE MoneyProofs -----------------------------
(***************************************************************************)
(* internal/money for every amount, rate and string, and an int64 of any   *)
(* width: Rate.Convert rounds correctly, ParseMajor is exact as long as    *)
(* the amount fits, and reads back what FormatMajor printed.               *)
(***************************************************************************)
EXTENDS MoneyCalls, MoneyLemmas

(* The closed form of a conversion that fits.                              *)
LEMMA ConvertRounds ==
  ASSUME NEW from \in Int64, from # MinInt, NEW num \in Nat, NEW den \in Nat, den > 0,
         Nearest(from, num, den) \in Int64
  PROVE  Convert(from, num, den) = Nearest(from, num, den)
<1> DEFINE size == IF from < 0 THEN -from ELSE from
           e    == (2 * (size * num) + den) \div (2 * den)
<1>1. from \in Int /\ size \in Nat
  BY MaxIntAssumption DEF Int64
<1>2. Nearest(from, num, den) = IF from < 0 THEN -e ELSE e
  <2>1. 2 * size * num = 2 * (size * num)
    <3> HIDE DEF size
    <3> QED BY <1>1
  <2> QED BY <2>1 DEF Nearest
<1>3. size = IF from < 0 THEN -from ELSE from
  OBVIOUS
<1> HIDE DEF size
<1>4. e = (2 * (size * num) + den) \div (2 * den) /\ e \in Int
  <2> DEFINE n == size * num
  <2>1. n \in Nat
    BY <1>1
  <2>2. 2 * n + den \in Nat /\ 2 * den \in Nat /\ 2 * den > 0
    BY <2>1
  <2> HIDE DEF n
  <2>3. (2 * n + den) \div (2 * den) \in Int
    BY <2>2
  <2> QED BY <2>3 DEF n
<1> HIDE DEF e
<1>5. Rounded(size, num, den) = Wrap(e)
  <2> DEFINE n == size * num
  <2>1. n \in Nat /\ den \div 2 \in Nat
    BY <1>1
  <2>2. Quo(n + den \div 2, den) = (n + den \div 2) \div den
    BY <2>1 DEF Quo
  <2>3. (n + den \div 2) \div den = e
    BY <1>4, <2>1, HalfUp
  <2> QED BY <2>2, <2>3 DEF Rounded
<1>6. CASE from < 0
  <2>1. -from \in Int64 /\ size = -from
    BY <1>3, <1>6, MaxIntAssumption DEF Int64, MinInt
  <2>2. Wrap(-from) = size
    BY <2>1, WrapFits
  <2>3. Convert(from, num, den) = Wrap(-Wrap(e))
    BY <1>5, <1>6, <2>2 DEF Convert
  <2> QED BY <1>2, <1>4, <1>6, <2>3, WrapFits, WrapNegated
<1>7. CASE ~(from < 0)
  BY <1>1, <1>2, <1>3, <1>5, <1>7, WrapFits DEF Convert
<1> QED BY <1>6, <1>7

(* Every answer in progress or given is Convert's.                         *)
LEMMA AnsweredInit == Init => ConvertAnswered
<1> SUFFICES ASSUME Init, call.op = "convert"
             PROVE  ConvertAnswered
  BY DEF ConvertAnswered
<1>1. call \in [op : {"convert"}, amt : Amounts, num : RateInts, den : RateInts]
  BY DEF Init, Calls
<1> QED BY <1>1 DEF Init, ConvertAnswered

LEMMA AnsweredStep == ConvertAnswered /\ [Next]_mvars => ConvertAnswered'
<1> SUFFICES ASSUME ConvertAnswered, [Next]_mvars, call'.op = "convert"
             PROVE  ConvertAnswered'
  BY DEF ConvertAnswered
<1>1. CASE Parse
  BY <1>1 DEF Parse
<1>2. CASE Format
  BY <1>2 DEF Format
<1>3. CASE ConvertAmount
  <2>1. call' = call /\ call.op = "convert"
    BY <1>3 DEF ConvertAmount
  <2>2. call.num \in Int /\ call.den \in Int
    <3>1. RateInts \subseteq Int
      BY CallAssumption, MaxIntAssumption DEF Int64
    <3> QED BY <2>1, <3>1 DEF ConvertAnswered
  <2> QED BY <1>3, <2>1, <2>2 DEF ConvertAmount, ConvertAnswered
<1>4. CASE Answered \/ UNCHANGED mvars
  BY <1>4 DEF Answered, ConvertAnswered, mvars
<1> QED BY <1>1, <1>2, <1>3, <1>4 DEF Next

LEMMA AnsweredRounds == ConvertAnswered => RoundsToNearest
<1> SUFFICES ASSUME ConvertAnswered, Done("convert"), result.ok, call.amt # MinInt,
                    Nearest(call.amt, call.num, call.den) \in Int64
             PROVE  result.amt = Nearest(call.amt, call.num, call.den)
  BY DEF RoundsToNearest
<1>1. /\ call.amt \in Int64 /\ call.num \in Int64 /\ call.den \in Int64
      /\ call.num > 0 /\ call.den > 0
      /\ result = Read(Convert(call.amt, call.num, call.den))
  BY CallAssumption DEF ConvertAnswered, Done, Bad
<1>2. call.num \in Nat /\ call.den \in Nat
  BY <1>1, MaxIntAssumption DEF Int64
<1>3. Convert(call.amt, call.num, call.den) = Nearest(call.amt, call.num, call.den)
  BY <1>1, <1>2, ConvertRounds
<1> QED BY <1>1, <1>3 DEF Read

(* Rate.Convert (internal/money/fx.go) is the exact conversion rounded to  *)
(* the nearest minor unit, half away from zero, whatever the rate and the  *)
(* sign of the amount, provided the result fits in an int64 and the amount *)
(* is not the smallest int64, of which this says nothing.                  *)
THEOREM ConversionsRound == Spec => []RoundsToNearest
<1>1. Init => ConvertAnswered
  BY AnsweredInit
<1>2. ConvertAnswered /\ [Next]_mvars => ConvertAnswered'
  BY AnsweredStep
<1>3. ConvertAnswered => RoundsToNearest
  BY AnsweredRounds
<1> QED BY <1>1, <1>2, <1>3, PTL DEF Spec

-----------------------------------------------------------------------------
(* Reading: the digits, each worth its power of ten, are what the digit    *)
(* loop makes of them.                                                     *)
LEMMA DigitSumIs ==
  ASSUME NEW ds \in Seq(Nat), NEW point \in Nat, Len(ds) <= point,
         NEW u \in [0 .. Len(ds) -> Nat], Reads(u, 0, ds, Len(ds))
  PROVE  DigitSum(ds, point) = u[Len(ds)] * Tens(point - Len(ds))
<1> DEFINE n == Len(ds)
           F(f) == [i \in 0 .. n |-> IF i = 0 THEN 0 ELSE f[i - 1] + ds[i] * Tens(point - i)]
           upto == CHOOSE f : f = F(f)
           v == [i \in 0 .. n |-> u[i] * Tens(point - i)]
           S == {i \in 0 .. n : upto[i] = v[i]}
<1>1. DigitSum(ds, point) = upto[n]
  BY DEF DigitSum
<1>2. n \in Nat /\ n <= point /\ u \in [0 .. n -> Nat] /\ u[0] = 0
  BY DEF Reads
<1>3. \A i \in 1 .. n : u[i] = u[i - 1] * 10 + ds[i]
  BY DEF Reads
<1>4. \A i \in 1 .. n : ds[i] \in Nat
  OBVIOUS
<1> HIDE DEF n
<1>5. ASSUME NEW i \in 1 .. n
      PROVE  u[i] * Tens(point - i) = u[i - 1] * Tens(point - (i - 1)) + ds[i] * Tens(point - i)
  <2> DEFINE T == Tens(point - i)
  <2>1. point - i \in Nat /\ point - (i - 1) = (point - i) + 1 /\ i - 1 \in 0 .. n
    BY <1>2
  <2>2. T \in Nat /\ Tens(point - (i - 1)) = T * 10
    BY <2>1, TensNext
  <2>3. u[i - 1] \in Nat /\ ds[i] \in Nat
    BY <1>2, <1>4, <2>1
  <2>4. u[i] = u[i - 1] * 10 + ds[i]
    BY <1>3
  <2> DEFINE a == u[i - 1]
             d == ds[i]
  <2>5. a \in Nat /\ d \in Nat
    BY <2>3
  <2> HIDE DEF T, a, d
  <2>6. (a * 10 + d) * T = a * (T * 10) + d * T
    BY ONLY <2>2, <2>5
  <2> QED BY <2>2, <2>4, <2>6 DEF T, a, d
<1>6. v[0] = 0
  BY <1>2, TensNext
<1>7. \A i \in 1 .. n : v[i] = v[i - 1] + ds[i] * Tens(point - i)
  <2> SUFFICES ASSUME NEW i \in 1 .. n
               PROVE  v[i] = v[i - 1] + ds[i] * Tens(point - i)
    OBVIOUS
  <2>1. i \in 0 .. n /\ i - 1 \in 0 .. n
    BY <1>2
  <2> QED BY <1>5, <2>1
<1>8. upto = F(upto)
  <2>1. v = [i \in 0 .. n |-> v[i]]
    OBVIOUS
  <2>2. \A i \in 0 .. n : v[i] = IF i = 0 THEN 0 ELSE v[i - 1] + ds[i] * Tens(point - i)
    <3> HIDE DEF v
    <3> QED BY <1>2, <1>6, <1>7
  <2>3. v = F(v)
    <3> HIDE DEF v
    <3> QED BY <2>1, <2>2
  <2> QED BY <2>3
<1> HIDE DEF upto
<1>9. 0 \in S /\ \A i \in 1 .. n : i - 1 \in S => i \in S
  <2> HIDE DEF v
  <2>1. \A i \in 0 .. n :
          upto[i] = IF i = 0 THEN 0 ELSE upto[i - 1] + ds[i] * Tens(point - i)
    BY ONLY <1>8
  <2>2. 0 \in S
    BY ONLY <1>2, <1>6, <2>1
  <2>3. ASSUME NEW i \in 1 .. n, upto[i - 1] = v[i - 1]
        PROVE  upto[i] = v[i]
    <3>1. upto[i] = upto[i - 1] + ds[i] * Tens(point - i)
      BY ONLY <1>2, <2>1, i \in 1 .. n
    <3>2. v[i] = v[i - 1] + ds[i] * Tens(point - i)
      BY ONLY <1>7, i \in 1 .. n
    <3> QED BY <2>3, <3>1, <3>2
  <2> QED BY <1>2, <2>2, <2>3
<1>10. \A i \in 0 .. n : i \in S
  <2> HIDE DEF S
  <2> QED BY ONLY <1>2, <1>9, UpTo
<1> QED BY <1>1, <1>2, <1>10 DEF n

(* A padded fraction reads as its digits, times the missing powers of ten. *)
LEMMA PaddedReads ==
  ASSUME NEW ds \in Seq(Nat), Len(ds) <= Decimals,
         NEW u \in [0 .. Len(ds) -> Nat], Reads(u, 0, ds, Len(ds))
  PROVE  ReadDigits(Padded(ds)) = Wrap(u[Len(ds)] * Tens(Decimals - Len(ds)))
<1> DEFINE n == Len(ds)
           e == Padded(ds)
           v == [i \in 0 .. Decimals |-> IF i <= n THEN u[i] ELSE u[n] * Tens(i - n)]
<1>1. n \in Nat /\ n <= Decimals /\ Decimals \in Nat /\ u \in [0 .. n -> Nat]
  BY DEF Decimals
<1>2. /\ e \in Seq(Nat) /\ Len(e) = Decimals
      /\ \A i \in 1 .. Decimals : e[i] = IF i <= n THEN ds[i] ELSE 0
  <2> DEFINE z == [i \in 1 .. Decimals - n |-> 0]
  <2>1. z \in Seq(Nat) /\ Len(z) = Decimals - n /\ \A i \in 1 .. Decimals - n : z[i] = 0
    BY <1>1
  <2>2. e = ds \o z
    BY DEF Padded
  <2> HIDE DEF z
  <2> QED BY <1>1, <2>1, <2>2
<1>3. u[0] = 0 /\ \A i \in 1 .. n : u[i] = u[i - 1] * 10 + ds[i]
  BY DEF Reads
<1> HIDE DEF n, e
<1>4. \A i \in 0 .. Decimals : v[i] \in Nat
  <2> SUFFICES ASSUME NEW i \in 0 .. Decimals PROVE v[i] \in Nat
    OBVIOUS
  <2>1. CASE i <= n
    BY <1>1, <2>1
  <2>2. CASE ~(i <= n)
    <3>1. i - n \in Nat /\ n \in 0 .. n
      BY <1>1, <2>2
    <3>2. Tens(i - n) \in Nat /\ u[n] \in Nat
      BY <1>1, <3>1, TensNext
    <3> QED BY <2>2, <3>2
  <2> QED BY <2>1, <2>2
<1>5. ASSUME NEW i \in 1 .. Decimals
      PROVE  v[i] = v[i - 1] * 10 + e[i]
  <2>1. i \in 0 .. Decimals /\ i - 1 \in 0 .. Decimals /\ v[i - 1] \in Nat
    <3> HIDE DEF v
    <3> QED BY <1>1, <1>4
  <2>2. CASE i <= n
    <3>1. v[i] = u[i] /\ v[i - 1] = u[i - 1] /\ e[i] = ds[i]
      BY <1>1, <1>2, <2>1, <2>2
    <3>2. u[i] = u[i - 1] * 10 + ds[i]
      BY <1>1, <1>3, <2>2
    <3> QED BY <3>1, <3>2
  <2>3. CASE i = n + 1
    <3>1. v[i] = u[n] * Tens(1) /\ v[i - 1] = u[n] /\ e[i] = 0
      BY <1>1, <1>2, <2>1, <2>3
    <3> QED BY <2>1, <3>1, TensSmall
  <2>4. CASE i > n + 1
    <3>1. i - 1 - n \in Nat /\ i - n = (i - 1 - n) + 1 /\ u[n] \in Nat
      BY <1>1, <2>4
    <3>2. Tens(i - n) = Tens(i - 1 - n) * 10 /\ Tens(i - 1 - n) \in Nat
      BY <3>1, TensNext
    <3>3. v[i] = u[n] * Tens(i - n) /\ v[i - 1] = u[n] * Tens(i - 1 - n) /\ e[i] = 0
      BY <1>1, <1>2, <2>1, <2>4
    <3>4. \A a, t \in Nat : a * (t * 10) = (a * t) * 10 + 0
      OBVIOUS
    <3> QED BY <3>1, <3>2, <3>3, <3>4
  <2> QED BY <1>1, <2>2, <2>3, <2>4
<1>6. v \in [0 .. Decimals -> Nat] /\ v[0] = 0
  BY <1>1, <1>3, <1>4
<1>7. v[Decimals] = u[n] * Tens(Decimals - n)
  <2>1. CASE n = Decimals
    <3>1. Decimals - n = 0 /\ u[n] \in Nat
      BY <1>1, <2>1
    <3> QED BY <1>1, <2>1, <3>1, TensSmall
  <2>2. CASE n # Decimals
    BY <1>1, <2>2
  <2> QED BY <2>1, <2>2
<1>8. Reads(v, 0, e, Decimals)
  <2> HIDE DEF v
  <2> QED BY <1>5, <1>6 DEF Reads
<1>9. ReadDigits(e) = Wrap(v[Decimals])
  <2> HIDE DEF v
  <2> QED BY <1>2, <1>6, <1>8, ReadDigitsIs
<1> QED BY <1>7, <1>9 DEF n, e

LEMMA ReadsType ==
  ASSUME NEW ds \in Seq(Nat)
  PROVE  \E u \in [0 .. Len(ds) -> Nat] : Reads(u, 0, ds, Len(ds))
<1>1. Len(ds) \in Nat /\ \A i \in 1 .. Len(ds) : ds[i] \in Nat
  OBVIOUS
<1> QED BY <1>1, ReadsExist

(* What ParseMajor accepts it reads as its value, up to a multiple of 2^64.*)
LEMMA ParseIsValue ==
  ASSUME NEW c, NEW t \in TextType, ParseMajor(c, t).ok
  PROVE  Value(t) \in Int /\ ParseMajor(c, t).amt = Wrap(Value(t))
<1>1. t.int \in Seq(Nat) /\ t.frac \in Seq(Nat)
  BY DEF TextType, NotDigit
<1>2. PICK u \in [0 .. Len(t.int) -> Nat] : Reads(u, 0, t.int, Len(t.int))
  BY <1>1, ReadsType
<1>3. PICK v \in [0 .. Len(t.frac) -> Nat] : Reads(v, 0, t.frac, Len(t.frac))
  BY <1>1, ReadsType
<1> DEFINE whole == u[Len(t.int)]
           cents == v[Len(t.frac)] * Tens(Decimals - Len(t.frac))
           sum == Wrap(ReadDigits(t.int) * Scale + ReadDigits(Padded(t.frac)))
           exact == whole * Scale + cents
<1>4. Len(t.frac) <= Decimals /\ ParseMajor(c, t) = Read(IF t.neg THEN Wrap(-sum) ELSE sum)
  BY DEF ParseMajor, Bad
<1>5. /\ Len(t.int) \in Nat /\ Len(t.frac) \in Nat /\ Decimals \in Nat
      /\ Decimals - Len(t.frac) \in Nat /\ Scale = 100
  BY <1>1, <1>4, TensSmall DEF Decimals, Scale
<1>6. whole \in Nat /\ cents \in Nat
  <2>1. Tens(Decimals - Len(t.frac)) \in Nat
    BY <1>5, TensNext
  <2>2. u[Len(t.int)] \in Nat /\ v[Len(t.frac)] \in Nat
    BY <1>2, <1>3, <1>5
  <2> QED BY <2>1, <2>2
<1>7. ReadDigits(t.int) = Wrap(whole)
  BY <1>1, <1>2, ReadDigitsIs
<1>8. ReadDigits(Padded(t.frac)) = Wrap(cents)
  BY <1>1, <1>3, <1>4, PaddedReads
<1>9. DigitSum(t.int, Len(t.int)) = whole
  <2>1. DigitSum(t.int, Len(t.int)) = whole * Tens(Len(t.int) - Len(t.int))
    <3> DEFINE ds == t.int
    <3>1. ds \in Seq(Nat) /\ Len(ds) \in Nat /\ Len(ds) <= Len(ds)
      BY <1>1, <1>5
    <3> HIDE DEF ds
    <3>2. DigitSum(ds, Len(ds)) = u[Len(ds)] * Tens(Len(ds) - Len(ds))
      BY <1>2, <3>1, DigitSumIs DEF ds
    <3> QED BY <3>2 DEF ds
  <2>2. Len(t.int) - Len(t.int) = 0
    BY <1>5
  <2> HIDE DEF whole
  <2> QED BY <1>6, <2>1, <2>2, TensSmall
<1>10. DigitSum(t.frac, Decimals) = cents
  BY <1>1, <1>3, <1>4, <1>5, DigitSumIs
<1> HIDE DEF whole, cents
<1>11. sum = Wrap(exact)
  <2>1. Wrap(whole) \in Int /\ Wrap(cents) \in Int
    <3>1. Wrap(whole) \in Int64 /\ Wrap(cents) \in Int64
      BY <1>6, WrapType
    <3> QED BY <3>1, MaxIntAssumption DEF Int64
  <2>2. sum = Wrap(Wrap(whole) * 100 + Wrap(cents))
    BY <1>5, <1>7, <1>8
  <2>3. Wrap(Wrap(whole) * 100 + Wrap(cents)) = Wrap(whole * 100 + Wrap(cents))
    <3>1. whole \in Int /\ Wrap(cents) \in Int /\ 100 \in Int
      BY <1>6, <2>1
    <3> QED BY ONLY <3>1, WrapTimes
  <2>4. whole * 100 + Wrap(cents) = Wrap(cents) + whole * 100 /\ whole * 100 \in Int
    BY <1>6, <2>1
  <2>5. Wrap(Wrap(cents) + whole * 100) = Wrap(cents + whole * 100)
    BY <1>6, <2>4, WrapAdd
  <2>6. cents + whole * 100 = exact
    BY <1>5, <1>6
  <2> QED BY <2>2, <2>3, <2>4, <2>5, <2>6
<1>12. Value(t) = (IF t.neg THEN -1 ELSE 1) * exact /\ exact \in Nat
  BY <1>5, <1>6, <1>9, <1>10 DEF Value
<1> HIDE DEF sum, exact
<1>13. CASE t.neg
  <2>1. Value(t) = -exact
    BY <1>12, <1>13
  <2>2. Wrap(-sum) = Wrap(-exact)
    BY <1>11, <1>12, WrapNegated
  <2> QED BY <1>4, <1>12, <1>13, <2>1, <2>2 DEF Read
<1>14. CASE ~t.neg
  <2>1. Value(t) = exact
    BY <1>12, <1>14
  <2> QED BY <1>4, <1>11, <1>12, <1>14, <2>1 DEF Read
<1> QED BY <1>13, <1>14

(* Printing: what is printed is read back.                                 *)
LEMMA ReadsBack ==
  ASSUME NEW c \in Currency, NEW m \in Int64
  PROVE  ParseMajor(c, FormatMajor(m)) = IF m = MinInt THEN Bad ELSE Read(m)
<1> DEFINE v == IF m < 0 THEN Wrap(-m) ELSE m
           whole == Quo(v, Scale)
           cents == v - whole * Scale
           t == FormatMajor(m)
<1>1. Scale = 100 /\ Decimals = 2
  BY TensSmall DEF Scale, Decimals
<1>2. m \in Int /\ MinInt = -(MaxInt + 1) /\ MaxInt \in Nat /\ m >= MinInt /\ m <= MaxInt
  BY MaxIntAssumption DEF Int64, MinInt
<1>3. t.neg = (m < 0) /\ t.int = Printed(whole, 1) /\ t.frac = Printed(cents, 2)
  BY <1>1 DEF FormatMajor, Text
<1>4. CASE m # MinInt
  <2>1. v \in 0 .. MaxInt /\ m = IF m < 0 THEN -v ELSE v
    <3>1. CASE m < 0
      <4>1. -m \in Int64
        BY <1>2, <1>4, <3>1 DEF Int64
      <4>2. Wrap(-m) = -m
        BY <4>1, WrapFits
      <4> QED BY <1>2, <1>4, <3>1, <4>2
    <3>2. CASE ~(m < 0)
      BY <1>2, <3>2
    <3> QED BY <3>1, <3>2
  <2>2. v \in Nat /\ v \in Int64
    BY <1>2, <2>1 DEF Int64
  <2> HIDE DEF v
  <2>3. whole = v \div 100
    BY <1>1, <2>2 DEF Quo
  <2>4. whole \in Nat /\ cents \in 0 .. 99 /\ v = whole * 100 + cents
    BY <1>1, <2>2, <2>3
  <2> HIDE DEF whole, cents
  <2>5. /\ t.int \in Seq(0 .. 9) /\ Len(t.int) >= 1
        /\ ReadDigits(t.int) = Wrap(whole)
    <3>1. Printed(whole, 1) = DigitsOf(whole, 1)
      BY <2>4 DEF Printed
    <3> QED BY <1>3, <2>4, <3>1, DigitsOfIs
  <2>6. /\ t.frac \in Seq(0 .. 9) /\ Len(t.frac) = 2
        /\ ReadDigits(t.frac) = Wrap(cents)
    <3>1. Printed(cents, 2) = DigitsOf(cents, 2) /\ cents \in Nat /\ cents < Tens(2)
      BY <2>4, TensSmall DEF Printed
    <3>2. /\ DigitsOf(cents, 2) \in Seq(0 .. 9) /\ Len(DigitsOf(cents, 2)) = 2
          /\ ReadDigits(DigitsOf(cents, 2)) = Wrap(cents)
      <4>1. 2 \in Nat /\ 2 > 0
        OBVIOUS
      <4> QED BY ONLY <3>1, <4>1, DigitsOfIs
    <3> QED BY <1>3, <3>1, <3>2
  <2> HIDE DEF t
  <2>7. Padded(t.frac) = t.frac
    <3>1. [i \in 1 .. Decimals - Len(t.frac) |-> 0] = << >>
      BY <1>1, <2>6
    <3>2. t.frac \o << >> = t.frac
      BY <2>6
    <3> QED BY <3>1, <3>2 DEF Padded
  <2>8. Wrap(Wrap(whole) * 100 + Wrap(cents)) = v
    <3>1. Wrap(cents) \in Int
      BY <2>4, WrapType, MaxIntAssumption DEF Int64
    <3>2. Wrap(Wrap(whole) * 100 + Wrap(cents)) = Wrap(whole * 100 + Wrap(cents))
      <4>1. whole \in Int /\ 100 \in Int
        BY <2>4
      <4> QED BY ONLY <3>1, <4>1, WrapTimes
    <3>3. whole * 100 + Wrap(cents) = Wrap(cents) + whole * 100 /\ whole * 100 \in Int
      BY <2>4, <3>1
    <3>4. Wrap(Wrap(cents) + whole * 100) = Wrap(cents + whole * 100)
      BY <2>4, <3>3, WrapAdd
    <3>5. cents + whole * 100 = v
      BY <2>4
    <3> QED BY <2>2, <3>2, <3>3, <3>4, <3>5, WrapFits
  <2>9. ParseMajor(c, t) = Read(IF m < 0 THEN Wrap(-v) ELSE v)
    <3>1. HasDigits(t)
      BY <2>6 DEF HasDigits
    <3>2. \A i \in DOMAIN t.int : t.int[i] # NotDigit
      BY <2>5 DEF NotDigit
    <3>3. \A i \in DOMAIN t.frac : t.frac[i] # NotDigit
      BY <2>6 DEF NotDigit
    <3>4. Wrap(ReadDigits(t.int) * Scale + ReadDigits(Padded(t.frac))) = v
      BY <1>1, <2>5, <2>6, <2>7, <2>8
    <3>5. Len(t.frac) <= Decimals
      BY <1>1, <2>6
    <3> QED BY <1>3, <3>1, <3>2, <3>3, <3>4, <3>5 DEF ParseMajor
  <2>10. ParseMajor(c, t) = Read(m)
    <3>1. CASE m < 0
      <4>1. -v = m /\ Wrap(m) = m
        BY <2>1, <3>1, WrapFits
      <4> QED BY <2>9, <3>1, <4>1
    <3>2. CASE ~(m < 0)
      BY <2>1, <2>9, <3>2
    <3> QED BY <3>1, <3>2
  <2> QED BY <1>4, <2>10 DEF t
<1>5. CASE m = MinInt
  <2>1. v = MinInt
    <3>1. Wrap(-m) = Wrap(MinInt)
      <4>1. -m = MinInt + 2 * (MaxInt + 1) * 1
        BY <1>2, <1>5
      <4>2. Wrap(MinInt + 2 * (MaxInt + 1) * 1) = Wrap(MinInt)
        <5>1. MinInt \in Int /\ 1 \in Int
          BY <1>2
        <5> QED BY ONLY <5>1, WrapShift
      <4> QED BY <4>1, <4>2
    <3>2. MinInt \in Int64 /\ m < 0
      BY <1>2, <1>5 DEF Int64
    <3> QED BY <3>1, <3>2, WrapFits
  <2> HIDE DEF v
  <2>2. v < 0 /\ v \in Int
    BY <1>2, <2>1
  <2>3. whole < 0 \/ cents < 0
    <3>1. whole = -((-v) \div 100)
      BY <1>1, <2>2 DEF Quo
    <3>2. (-v) \div 100 \in Nat
      BY <2>2
    <3> HIDE DEF whole
    <3> QED BY <1>1, <2>2, <3>1, <3>2
  <2> HIDE DEF whole, cents
  <2>4. \A n \in Int, w \in {1, 2} : n < 0 => 1 \in DOMAIN Printed(n, w) /\ Printed(n, w)[1] = NotDigit
    <3> SUFFICES ASSUME NEW n \in Int, NEW w \in {1, 2}, n < 0
                 PROVE  1 \in DOMAIN Printed(n, w) /\ Printed(n, w)[1] = NotDigit
      OBVIOUS
    <3>1. Printed(n, w) = <<NotDigit>> \o DigitsOf(-n, 1)
      BY DEF Printed
    <3>2. DigitsOf(-n, 1) \in Seq(0 .. 9)
      BY DigitsOfIs
    <3> QED BY <3>1, <3>2 DEF NotDigit
  <2>5. whole \in Int /\ cents \in Int
    <3>1. whole \in Int
      BY <1>1, <2>2, QuoType DEF whole
    <3> QED BY <1>1, <2>2, <3>1 DEF cents
  <2>6. \/ \E i \in DOMAIN t.int : t.int[i] = NotDigit
        \/ \E i \in DOMAIN t.frac : t.frac[i] = NotDigit
    BY <1>3, <2>3, <2>4, <2>5
  <2> HIDE DEF t
  <2> QED BY <1>5, <2>6 DEF ParseMajor, t
<1> QED BY <1>4, <1>5

-----------------------------------------------------------------------------
(* Every reading in progress or given is ParseMajor's, and what is read    *)
(* back is what was printed.                                               *)
LEMMA ReadInit == Init => ReadAnswered
<1> SUFFICES ASSUME Init PROVE ReadAnswered
  OBVIOUS
<1>1. result = Unanswered /\ call \in Calls
  BY DEF Init
<1>2. CASE call \in [op : {"parse"}, cur : Code, text : Texts]
  BY <1>1, <1>2 DEF ReadAnswered
<1>3. CASE call \in [op : {"format"}, amt : Amounts]
  BY <1>1, <1>3 DEF ReadAnswered
<1>4. CASE call \in [op : {"convert"}, amt : Amounts, num : RateInts, den : RateInts]
  BY <1>1, <1>4 DEF ReadAnswered
<1> QED BY <1>1, <1>2, <1>3, <1>4 DEF Calls

LEMMA ReadStep == ReadAnswered /\ [Next]_mvars => ReadAnswered'
<1> SUFFICES ASSUME ReadAnswered, [Next]_mvars PROVE ReadAnswered'
  OBVIOUS
<1>1. CASE Parse
  BY <1>1 DEF Parse, ReadAnswered
<1>2. CASE Format
  <2>1. result' = Unanswered /\ call.op = "format"
    BY <1>2 DEF Format
  <2>2. PICK c \in Currency :
          call' = [op |-> "reread", cur |-> c, text |-> FormatMajor(call.amt), amt |-> call.amt]
    BY <1>2 DEF Format
  <2> QED BY <2>1, <2>2 DEF ReadAnswered
<1>3. CASE ConvertAmount
  BY <1>3 DEF ConvertAmount, ReadAnswered
<1>4. CASE Answered \/ UNCHANGED mvars
  BY <1>4 DEF Answered, ReadAnswered, mvars
<1> QED BY <1>1, <1>2, <1>3, <1>4 DEF Next

(* ParseMajor (internal/money/money.go) reads every string it accepts      *)
(* exactly, up to a multiple of 2^64, which it never reports: the digit    *)
(* loop may wrap halfway and the amount is right if it fits at the end.    *)
THEOREM ParsingIsExact == Spec => []ParseExact
<1>1. ReadAnswered => ParseExact
  <2> SUFFICES ASSUME ReadAnswered, Done("parse"), result.ok
               PROVE  ParseExact
    BY DEF ParseExact
  <2> DEFINE v == Value(call.text)
  <2>1. call.text \in TextType /\ result = ParseMajor(call.cur, call.text)
    BY CallAssumption DEF ReadAnswered, Done
  <2>2. v \in Int /\ result.amt = Wrap(v)
    BY <2>1, ParseIsValue
  <2> HIDE DEF v
  <2>3. v \in Int64 => result.amt = v
    BY <2>2, WrapFits
  <2>4. (result.amt - v) % (2 * (MaxInt + 1)) = 0
    <3> DEFINE N == 2 * (MaxInt + 1)
    <3>1. PICK k \in Int : Wrap(v) = v + N * k
      BY <2>2, WrapIs
    <3>2. N \in Nat /\ N > 0 /\ 0 \in 0 .. N - 1
      BY MaxIntAssumption
    <3> HIDE DEF N
    <3>3. (N * k + 0) % N = 0
      BY <3>2, ModUnique
    <3>4. result.amt - v = N * k + 0
      BY <2>2, <3>1, <3>2
    <3> QED BY <3>3, <3>4 DEF N
  <2> QED BY <2>3, <2>4 DEF ParseExact, v
<1> QED BY <1>1, ReadInit, ReadStep, PTL DEF Spec

(* ParseMajor reads back every amount that FormatMajor printed, but for    *)
(* the smallest int64, which it refuses (internal/money/money.go).         *)
THEOREM PrintedIsReadBack == Spec => []RoundTrip
<1>1. ReadAnswered => RoundTrip
  <2> SUFFICES ASSUME ReadAnswered, Done("reread")
               PROVE  result = IF call.amt = MinInt THEN Bad ELSE Read(call.amt)
    BY DEF RoundTrip
  <2>1. call.amt \in Int64 /\ call.cur \in Currency /\ call.text = FormatMajor(call.amt)
    BY CallAssumption DEF ReadAnswered, Done
  <2>2. result = ParseMajor(call.cur, call.text)
    BY DEF ReadAnswered, Done
  <2> QED BY <2>1, <2>2, ReadsBack
<1> QED BY <1>1, ReadInit, ReadStep, PTL DEF Spec
=============================================================================
