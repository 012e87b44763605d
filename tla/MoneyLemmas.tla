---------------------------- MODULE MoneyLemmas -----------------------------
(***************************************************************************)
(* What the int64 operators of Money return, for an int64 of any width.    *)
(***************************************************************************)
EXTENDS Money, TLAPS, WellFoundedInduction

(* Arithmetic modulo 2^64 always gives an int64.                           *)
LEMMA WrapType ==
  ASSUME NEW x \in Int
  PROVE  Wrap(x) \in Int64
<1> DEFINE N == 2 * (MaxInt + 1)
           y == x + MaxInt + 1
<1>1. N \in Nat /\ N > 0 /\ y \in Int
  BY MaxIntAssumption
<1>2. y % N \in 0 .. N - 1
  <2> HIDE DEF N, y
  <2> QED BY <1>1
<1> QED BY <1>2, MaxIntAssumption DEF Wrap, Int64

(* An int64 is not changed by wrapping.                                    *)
LEMMA WrapFits ==
  ASSUME NEW x \in Int64
  PROVE  Wrap(x) = x
<1> DEFINE N == 2 * (MaxInt + 1)
           y == x + MaxInt + 1
<1>1. N \in Nat /\ N > 0 /\ y \in 0 .. N - 1
  BY MaxIntAssumption DEF Int64
<1>2. y % N = y
  <2> HIDE DEF N, y
  <2> QED BY <1>1
<1> QED BY <1>1, <1>2, MaxIntAssumption DEF Wrap, Int64

(* A remainder is the only number with its bounds.                         *)
LEMMA ModUnique ==
  ASSUME NEW N \in Nat, N > 0, NEW q \in Int, NEW r \in 0 .. N - 1
  PROVE  (N * q + r) % N = r
<1> DEFINE y == N * q + r
           p == y \div N
           s == y % N
<1>1. N * q \in Int /\ y \in Int
  OBVIOUS
<1>2. p \in Int /\ s \in 0 .. N - 1 /\ y = N * p + s
  <2> HIDE DEF y
  <2> QED BY <1>1
<1> HIDE DEF p, s
<1>3. p = q
  <2>1. N * p \in Int /\ N * q + r = N * p + s
    BY <1>2
  <2>2. CASE p < q
    <3>1. N * (p + 1) <= N * q
      BY <1>2, <2>2
    <3>2. N * (p + 1) = N * p + N
      BY <1>2
    <3> QED BY <1>1, <1>2, <2>1, <3>1, <3>2
  <2>3. CASE q < p
    <3>1. N * (q + 1) <= N * p
      BY <1>2, <2>3
    <3>2. N * (q + 1) = N * q + N
      OBVIOUS
    <3> QED BY <1>1, <1>2, <2>1, <3>1, <3>2
  <2> QED BY <1>2, <2>2, <2>3
<1>4. s = r
  BY <1>1, <1>2, <1>3
<1> QED BY <1>4 DEF s

(* Wrapping a summand first does not change a wrapped sum: an int64 sum    *)
(* can be made in steps.                                                   *)
LEMMA WrapAdd ==
  ASSUME NEW x \in Int, NEW d \in Int
  PROVE  Wrap(Wrap(x) + d) = Wrap(x + d)
<1> DEFINE h == MaxInt + 1
           N == 2 * h
           y == x + h
           z == (y % N) + d
<1>1. h \in Nat /\ N \in Nat /\ N > 0 /\ y \in Int
  BY MaxIntAssumption
<1>2. /\ y \div N \in Int /\ y % N \in Int
      /\ N * (y \div N) \in Int /\ y = N * (y \div N) + (y % N)
  <2> HIDE DEF N, y
  <2> QED BY <1>1
<1>3. /\ z \in Int /\ z \div N \in Int /\ z % N \in 0 .. N - 1
      /\ N * (z \div N) \in Int /\ z = N * (z \div N) + (z % N)
  <2>1. z \in Int
    BY <1>2
  <2> HIDE DEF N, z
  <2> QED BY <1>1, <2>1
<1>4. (y + d) % N = z % N
  <2> DEFINE q == (y \div N) + (z \div N)
  <2>1. N * q = N * (y \div N) + N * (z \div N) /\ q \in Int
    <3> HIDE DEF N, y, z
    <3> QED BY <1>1, <1>2, <1>3
  <2>2. y + d = N * q + (z % N)
    <3>1. z = (y % N) + d
      OBVIOUS
    <3> HIDE DEF N, y, z, q
    <3> QED BY <1>1, <1>2, <1>3, <2>1, <3>1
  <2> HIDE DEF N, y, z, q
  <2> QED BY <1>1, <1>3, <2>1, <2>2, ModUnique
<1>5. Wrap(x) = (y % N) - h /\ Wrap(x + d) = ((y + d) % N) - h
  <2>1. x + d + MaxInt + 1 = y + d
    BY MaxIntAssumption
  <2> QED BY <2>1, MaxIntAssumption DEF Wrap
<1>6. Wrap(Wrap(x) + d) = (z % N) - h
  <2>1. Wrap(x) + d + MaxInt + 1 = z
    BY <1>1, <1>2, <1>5, MaxIntAssumption
  <2> QED BY <2>1, MaxIntAssumption DEF Wrap
<1> QED BY <1>4, <1>5, <1>6

(* A sum beyond the largest int64 wraps to a negative number, so one that  *)
(* is not negative after the addition did not wrap.                        *)
LEMMA SumFits ==
  ASSUME NEW x \in 0 .. MaxInt, NEW d \in Int64, Wrap(x + d) >= 0
  PROVE  Wrap(x + d) = x + d
<1> DEFINE N == 2 * (MaxInt + 1)
           r == x + d - (MaxInt + 1)
<1>1. d \in Int /\ d <= MaxInt /\ d >= -(MaxInt + 1) /\ N \in Nat /\ N > 0
  BY MaxIntAssumption DEF Int64
<1>2. CASE x + d <= MaxInt
  BY <1>1, <1>2, WrapFits, MaxIntAssumption DEF Int64
<1>3. CASE x + d > MaxInt
  <2>1. r \in 0 .. N - 1 /\ r < MaxInt + 1
    BY <1>1, <1>3, MaxIntAssumption
  <2>2. (N * 1 + r) % N = r
    <3> HIDE DEF N, r
    <3> QED BY <1>1, <2>1, ModUnique
  <2>3. x + d + MaxInt + 1 = N * 1 + r
    BY <1>1, MaxIntAssumption
  <2>4. Wrap(x + d) = r - (MaxInt + 1)
    BY <2>2, <2>3 DEF Wrap
  <2> QED BY <1>1, <2>1, <2>4, MaxIntAssumption
<1> QED BY <1>1, <1>2, <1>3, MaxIntAssumption

(* Dividing by a positive number gives an integer.                         *)
LEMMA DivType ==
  ASSUME NEW n \in Int, NEW d \in Nat, d > 0
  PROVE  n \div d \in Int
OBVIOUS

LEMMA QuoType ==
  ASSUME NEW n \in Int, NEW d \in Nat, d > 0
  PROVE  Quo(n, d) \in Int
<1>1. n \div d \in Int /\ (-n) \div d \in Int
  BY DivType
<1> QED BY <1>1 DEF Quo

(* Rounding a quotient gives an int64 whenever the denominator is positive.*)
LEMMA RoundedType ==
  ASSUME NEW f \in Int, NEW num \in Int, NEW den \in Nat, den > 0
  PROVE  Rounded(f, num, den) \in Int64
<1>1. den \div 2 \in Int /\ f * num \in Int
  OBVIOUS
<1>2. f * num + den \div 2 \in Int
  BY <1>1
<1>3. Quo(f * num + den \div 2, den) \in Int
  BY <1>2, QuoType
<1> QED BY <1>3, WrapType DEF Rounded

(* So does Rate.Convert.                                                   *)
LEMMA ConvertType ==
  ASSUME NEW from \in Int, NEW num \in Int, NEW den \in Nat, den > 0
  PROVE  Convert(from, num, den) \in Int64
<1>1. Wrap(-from) \in Int
  BY WrapType, MaxIntAssumption DEF Int64
<1>2. Rounded(from, num, den) \in Int64 /\ Rounded(Wrap(-from), num, den) \in Int64
  BY <1>1, RoundedType
<1>3. -Rounded(Wrap(-from), num, den) \in Int
  BY <1>2, MaxIntAssumption DEF Int64
<1> QED BY <1>2, <1>3, WrapType DEF Convert

(* Division is the only number with its bounds.                            *)
LEMMA DivUnique ==
  ASSUME NEW n \in Nat, NEW d \in Nat, d > 0, NEW q \in Nat,
         d * q <= n, n < d * q + d
  PROVE  n \div d = q
<1> DEFINE p == n \div d
<1>1. p \in Nat /\ d * p <= n /\ n < d * p + d
  OBVIOUS
<1> HIDE DEF p
<1>2. CASE p < q
  <2>1. d * (p + 1) <= d * q
    BY <1>1, <1>2
  <2>2. d * (p + 1) = d * p + d
    BY <1>1
  <2> QED BY <1>1, <2>1, <2>2
<1>3. CASE q < p
  <2>1. d * (q + 1) <= d * p
    BY <1>1, <1>3
  <2>2. d * (q + 1) = d * q + d
    OBVIOUS
  <2> QED BY <1>1, <2>1, <2>2
<1>4. p = q
  BY <1>1, <1>2, <1>3
<1> QED BY <1>4 DEF p

(* Adding half the denominator before an integer division is rounding to   *)
(* the nearest integer, a half upwards, for odd and even denominators.     *)
LEMMA HalfUp ==
  ASSUME NEW n \in Nat, NEW d \in Nat, d > 0
  PROVE  (n + d \div 2) \div d = (2 * n + d) \div (2 * d)
<1> DEFINE h == d \div 2
           q == (n + h) \div d
           P == d * q
<1>1. h \in Nat /\ 2 * h <= d /\ d <= 2 * h + 1
  OBVIOUS
<1>2. q \in Nat /\ P \in Nat /\ P <= n + h /\ n + h < P + d
  <2> HIDE DEF h
  <2> QED BY <1>1
<1>3. (2 * d) * q = 2 * P
  <2>1. q \in Nat
    BY <1>2
  <2> HIDE DEF q
  <2> QED BY <2>1
<1>4. 2 * P <= 2 * n + d /\ 2 * n + d < 2 * P + 2 * d
  <2> HIDE DEF h, P
  <2> QED BY <1>1, <1>2
<1>5. (2 * n + d) \div (2 * d) = q
  <2>1. 2 * n + d \in Nat /\ 2 * d \in Nat /\ 2 * d > 0
    OBVIOUS
  <2> HIDE DEF q, P
  <2> QED BY <1>2, <1>3, <1>4, <2>1, DivUnique
<1> QED BY <1>5
(* Every non-empty set of numbers has a least one.                         *)
LEMMA LeastNumber ==
  ASSUME NEW S, S \subseteq Nat, S # {}
  PROVE  \E n \in S : \A m \in S : n <= m
<1> DEFINE R == OpToRel(<, Nat)
<1>1. IsWellFoundedOn(R, Nat)
  BY NatLessThanWellFounded
<1>2. \A x \in Nat : \A y \in Nat : y < x => <<y, x>> \in R
  BY DEF OpToRel
<1> HIDE DEF R
<1>3. PICK x \in S : \A y \in S : ~(<<y, x>> \in R)
  BY <1>1, WFMin
<1>4. ASSUME NEW y \in S
      PROVE  x <= y
  <2>1. x \in Nat /\ y \in Nat
    OBVIOUS
  <2>2. ~(y < x)
    BY <1>2, <1>3, <2>1, Zenon
  <2> QED BY <2>1, <2>2
<1> QED BY <1>4

(* Induction from 0 to n, with a set in the place of a predicate.          *)
LEMMA UpTo ==
  ASSUME NEW n \in Nat, NEW S, 0 \in S, \A i \in 1 .. n : i - 1 \in S => i \in S
  PROVE  \A i \in 0 .. n : i \in S
<1> DEFINE C == (0 .. n) \ S
<1>1. SUFFICES ASSUME C # {} PROVE FALSE
  OBVIOUS
<1>2. PICK i \in C : \A l \in C : i <= l
  <2>1. C \subseteq Nat
    OBVIOUS
  <2> HIDE DEF C
  <2> QED BY <1>1, <2>1, LeastNumber
<1>3. i \in 1 .. n /\ i - 1 \in 0 .. n /\ ~(i <= i - 1)
  BY <1>2
<1>4. i - 1 \in S
  BY <1>2, <1>3
<1> QED BY <1>2, <1>3, <1>4

-----------------------------------------------------------------------------
(* Numerals.  u[i] is the number whose digits are those of b and the first *)
(* i of ds.                                                                *)
Reads(u, b, ds, n) == u[0] = b /\ \A i \in 1 .. n : u[i] = u[i - 1] * 10 + ds[i]

LEMMA ReadsExist ==
  ASSUME NEW n \in Nat, NEW b \in Nat, NEW ds, \A i \in 1 .. n : ds[i] \in Nat
  PROVE  \E u \in [0 .. n -> Nat] : Reads(u, b, ds, n)
<1> DEFINE S == {m \in 0 .. n : \E u \in [0 .. m -> Nat] : Reads(u, b, ds, m)}
<1>1. 0 \in S
  <2> DEFINE u == [i \in 0 .. 0 |-> b]
  <2>1. u \in [0 .. 0 -> Nat] /\ Reads(u, b, ds, 0)
    BY DEF Reads
  <2> QED BY <2>1
<1>2. ASSUME NEW m \in 1 .. n, m - 1 \in S
      PROVE  m \in S
  <2>1. PICK u \in [0 .. m - 1 -> Nat] : Reads(u, b, ds, m - 1)
    BY <1>2
  <2> DEFINE v == [i \in 0 .. m |-> IF i = m THEN u[m - 1] * 10 + ds[m] ELSE u[i]]
  <2>2. v \in [0 .. m -> Nat] /\ Reads(v, b, ds, m)
    BY <2>1 DEF Reads
  <2> QED BY <2>2
<1>3. n \in S
  <2> HIDE DEF S
  <2> QED BY <1>1, <1>2, UpTo
<1> QED BY <1>3

(* 10^n is what n steps of scale's loop give.                              *)
LEMMA TensIs ==
  ASSUME NEW n \in Nat, NEW u, u[0] = 1, \A i \in 1 .. n : u[i] = u[i - 1] * 10
  PROVE  Tens(n) = u[n]
<1> DEFINE F(f) == [i \in 0 .. n |-> IF i = 0 THEN 1 ELSE f[i - 1] * 10]
           upto == CHOOSE f : f = F(f)
           w == [i \in 0 .. n |-> u[i]]
           S == {i \in 0 .. n : upto[i] = u[i]}
<1>1. Tens(n) = upto[n]
  BY DEF Tens
<1>2. w = F(w)
  OBVIOUS
<1>3. upto = F(upto)
  BY <1>2
<1> HIDE DEF upto
<1>4. 0 \in S /\ \A i \in 1 .. n : i - 1 \in S => i \in S
  BY <1>3
<1>5. n \in S
  <2> HIDE DEF S
  <2> QED BY <1>4, UpTo
<1> QED BY <1>1, <1>5

LEMMA TensNext ==
  ASSUME NEW n \in Nat
  PROVE  /\ Tens(n) \in Nat /\ Tens(n) > 0
         /\ Tens(n + 1) = Tens(n) * 10
<1> DEFINE ds == [i \in 1 .. n + 1 |-> 0]
<1>1. PICK u \in [0 .. n + 1 -> Nat] : Reads(u, 1, ds, n + 1)
  <2>1. n + 1 \in Nat /\ \A i \in 1 .. n + 1 : ds[i] \in Nat
    OBVIOUS
  <2> HIDE DEF ds
  <2> QED BY <2>1, ReadsExist
<1>2. u[0] = 1 /\ \A i \in 1 .. n + 1 : u[i] = u[i - 1] * 10
  BY <1>1 DEF Reads
<1>3. Tens(n) = u[n] /\ Tens(n + 1) = u[n + 1]
  <2>1. \A i \in 1 .. n : u[i] = u[i - 1] * 10
    BY <1>2
  <2>2. Tens(n) = u[n]
    BY <1>2, <2>1, TensIs
  <2>3. n + 1 \in Nat
    OBVIOUS
  <2> QED BY <1>2, <2>2, <2>3, TensIs
<1>4. n \in 0 .. n + 1 /\ n + 1 \in 1 .. n + 1 /\ (n + 1) - 1 = n
  OBVIOUS
<1>5. u[n + 1] = u[n] * 10
  BY <1>2, <1>4
<1> DEFINE S == {i \in 0 .. n : u[i] > 0}
<1>6. 0 \in S /\ \A i \in 1 .. n : i - 1 \in S => i \in S
  BY <1>1, <1>2
<1>7. \A i \in 0 .. n : i \in S
  <2> HIDE DEF S
  <2> QED BY ONLY n \in Nat, <1>6, UpTo
<1>8. u[n] > 0 /\ u[n] \in Nat
  BY <1>1, <1>7
<1> QED BY <1>3, <1>5, <1>8

LEMMA TensSmall == Tens(0) = 1 /\ Tens(1) = 10 /\ Tens(2) = 100
<1>1. Tens(0) = 1
  <2> DEFINE u == [i \in 0 .. 0 |-> 1]
  <2>1. u[0] = 1 /\ \A i \in 1 .. 0 : u[i] = u[i - 1] * 10
    OBVIOUS
  <2> HIDE DEF u
  <2> QED BY <2>1, TensIs
<1>2. Tens(0 + 1) = Tens(0) * 10 /\ Tens(1 + 1) = Tens(1) * 10
  BY TensNext
<1> QED BY <1>1, <1>2

(* Powers of ten grow, and beyond every number.                            *)
LEMMA TensGrow ==
  ASSUME NEW m \in Nat, NEW n \in Nat, m <= n
  PROVE  Tens(m) <= Tens(n) /\ n < Tens(n)
<1> DEFINE S == {i \in 0 .. n : i < Tens(i) /\ (m <= i => Tens(m) <= Tens(i))}
<1>1. 0 \in S
  BY TensSmall
<1>2. ASSUME NEW i \in 1 .. n, i - 1 \in S
      PROVE  i \in S
  <2>1. i - 1 \in Nat /\ (i - 1) + 1 = i
    OBVIOUS
  <2>2. Tens(i - 1) \in Nat /\ Tens(i - 1) > 0 /\ Tens(i) = Tens(i - 1) * 10
    BY <2>1, TensNext
  <2>3. i - 1 < Tens(i - 1) /\ (m <= i - 1 => Tens(m) <= Tens(i - 1))
    BY <1>2
  <2>4. i < Tens(i) /\ Tens(i - 1) <= Tens(i)
    BY <2>2, <2>3
  <2>5. ASSUME m <= i
        PROVE  Tens(m) <= Tens(i)
    <3>1. m = i \/ m <= i - 1
      BY <2>5
    <3>2. Tens(m) \in Nat /\ Tens(i) \in Nat
      BY <2>2, TensNext
    <3> QED BY <2>2, <2>3, <2>4, <3>1, <3>2
  <2> QED BY <2>4, <2>5
<1>3. \A i \in 0 .. n : i \in S
  <2> HIDE DEF S
  <2> QED BY ONLY n \in Nat, <1>1, <1>2, UpTo
<1> QED BY <1>3

-----------------------------------------------------------------------------
(* Wrapping adds a multiple of 2^64, and no such multiple matters to it.   *)
LEMMA WrapShift ==
  ASSUME NEW x \in Int, NEW k \in Int
  PROVE  Wrap(x + 2 * (MaxInt + 1) * k) = Wrap(x)
<1> DEFINE N == 2 * (MaxInt + 1)
           y == x + MaxInt + 1
           q == y \div N
           r == y % N
<1>1. N \in Nat /\ N > 0 /\ y \in Int
  BY MaxIntAssumption
<1>2. q \in Int /\ r \in 0 .. N - 1 /\ y = N * q + r
  <2> HIDE DEF N, y
  <2> QED BY <1>1
<1>3. (N * (q + k) + r) % N = r
  <2>1. q + k \in Int
    BY <1>2
  <2> HIDE DEF N, q, r
  <2> QED BY <1>1, <1>2, <2>1, ModUnique
<1>4. N * (q + k) + r = x + N * k + MaxInt + 1
  <2>1. N * (q + k) = N * q + N * k /\ N * q \in Int /\ N * k \in Int /\ r \in Int
    <3> HIDE DEF N, q, r
    <3> QED BY <1>1, <1>2
  <2>2. y = x + MaxInt + 1 /\ MaxInt \in Int
    BY MaxIntAssumption
  <2> HIDE DEF N, q, r, y
  <2> QED BY <1>2, <2>1, <2>2
<1>5. Wrap(x + N * k) = r - (MaxInt + 1)
  BY <1>3, <1>4 DEF Wrap
<1>6. Wrap(x) = r - (MaxInt + 1)
  BY DEF Wrap
<1> QED BY <1>5, <1>6

LEMMA WrapIs ==
  ASSUME NEW x \in Int
  PROVE  \E k \in Int : Wrap(x) = x + 2 * (MaxInt + 1) * k
<1> DEFINE N == 2 * (MaxInt + 1)
           y == x + MaxInt + 1
           q == y \div N
           r == y % N
<1>1. N \in Nat /\ N > 0 /\ y \in Int
  BY MaxIntAssumption
<1>2. q \in Int /\ r \in 0 .. N - 1 /\ y = N * q + r
  <2> HIDE DEF N, y
  <2> QED BY <1>1
<1>3. Wrap(x) = r - (MaxInt + 1)
  BY DEF Wrap
<1>4. -q \in Int /\ N * (-q) = -(N * q) /\ N * q \in Int
  <2> HIDE DEF N, q
  <2> QED BY <1>1, <1>2
<1>5. Wrap(x) = x + N * (-q)
  <2>1. y = x + MaxInt + 1 /\ MaxInt \in Int
    BY MaxIntAssumption
  <2> HIDE DEF N, q, r, y
  <2> QED BY <1>2, <1>3, <1>4, <2>1
<1> QED BY <1>4, <1>5

(* So a factor may be wrapped before the product is.                       *)
LEMMA WrapTimes ==
  ASSUME NEW x \in Int, NEW m \in Int, NEW d \in Int
  PROVE  Wrap(Wrap(x) * m + d) = Wrap(x * m + d)
<1> DEFINE N == 2 * (MaxInt + 1)
<1>1. PICK k \in Int : Wrap(x) = x + N * k
  BY WrapIs
<1>2. N \in Int
  BY MaxIntAssumption
<1>3. (x + N * k) * m + d = (x * m + d) + N * (k * m)
  <2> HIDE DEF N
  <2>1. N * k \in Int /\ x * m \in Int /\ (x + N * k) * m = x * m + (N * k) * m
    BY <1>2
  <2>2. (N * k) * m = N * (k * m) /\ N * (k * m) \in Int
    BY <1>2
  <2> QED BY <2>1, <2>2
<1>4. x * m + d \in Int /\ k * m \in Int
  OBVIOUS
<1> QED BY <1>1, <1>3, <1>4, WrapShift

LEMMA WrapNegated ==
  ASSUME NEW x \in Int
  PROVE  Wrap(-Wrap(x)) = Wrap(-x)
<1>1. Wrap(x) \in Int
  BY WrapType, MaxIntAssumption DEF Int64
<1>2. Wrap(x) * (-1) + 0 = -Wrap(x) /\ x * (-1) + 0 = -x
  BY <1>1
<1> QED BY <1>2, WrapTimes

(* The digit loop reads a numeral, up to a multiple of 2^64.               *)
LEMMA ReadDigitsIs ==
  ASSUME NEW ds \in Seq(Nat), NEW u \in [0 .. Len(ds) -> Nat], Reads(u, 0, ds, Len(ds))
  PROVE  ReadDigits(ds) = Wrap(u[Len(ds)])
<1> DEFINE n == Len(ds)
           F(f) == [i \in 0 .. n |-> IF i = 0 THEN 0 ELSE Wrap(f[i - 1] * 10 + ds[i])]
           upto == CHOOSE f : f = F(f)
           w == [i \in 0 .. n |-> Wrap(u[i])]
           S == {i \in 0 .. n : upto[i] = Wrap(u[i])}
<1>1. ReadDigits(ds) = upto[n]
  BY DEF ReadDigits
<1>2. n \in Nat
  OBVIOUS
<1> HIDE DEF n
<1>3. u \in [0 .. n -> Nat] /\ u[0] = 0 /\ \A i \in 1 .. n : u[i] = u[i - 1] * 10 + ds[i] /\ ds[i] \in Nat
  BY DEF n, Reads
<1>4. Wrap(u[0]) = 0
  BY <1>3, WrapFits, MaxIntAssumption DEF Int64
<1>5. ASSUME NEW i \in 1 .. n
      PROVE  Wrap(u[i]) = Wrap(Wrap(u[i - 1]) * 10 + ds[i])
  <2>1. i - 1 \in 0 .. n /\ u[i] = u[i - 1] * 10 + ds[i] /\ ds[i] \in Nat
    <3>1. i - 1 \in 0 .. n
      BY ONLY <1>2, i \in 1 .. n
    <3>2. u[i] = u[i - 1] * 10 + ds[i] /\ ds[i] \in Nat
      BY ONLY <1>3, i \in 1 .. n
    <3> QED BY ONLY <3>1, <3>2
  <2>2. u[i - 1] \in Int /\ ds[i] \in Int /\ 10 \in Int
    <3>1. u \in [0 .. n -> Nat]
      BY <1>3
    <3>2. u[i - 1] \in Nat
      BY ONLY <2>1, <3>1
    <3> QED BY ONLY <2>1, <3>2
  <2>3. Wrap(Wrap(u[i - 1]) * 10 + ds[i]) = Wrap(u[i - 1] * 10 + ds[i])
    BY ONLY <2>2, WrapTimes
  <2> QED BY <2>1, <2>3
<1>6. w = F(w)
  BY <1>2, <1>4, <1>5
<1>7. upto = F(upto)
  BY <1>6
<1> HIDE DEF upto
<1>8. 0 \in S /\ \A i \in 1 .. n : i - 1 \in S => i \in S
  BY <1>2, <1>4, <1>5, <1>7
<1>9. \A i \in 0 .. n : i \in S
  <2> HIDE DEF S
  <2> QED BY ONLY <1>2, <1>8, UpTo
<1> QED BY <1>1, <1>2, <1>9 DEF n

-----------------------------------------------------------------------------
(* Dividing by d and then by 10 is dividing by 10 * d.                     *)
LEMMA DivTen ==
  ASSUME NEW n \in Nat, NEW d \in Nat, d > 0
  PROVE  n \div (d * 10) = (n \div d) \div 10
<1> DEFINE a == n \div d
           q == a \div 10
<1>1. a \in Nat /\ d * a <= n /\ n < d * a + d
  OBVIOUS
<1> HIDE DEF a
<1>2. q \in Nat /\ 10 * q <= a /\ a + 1 <= 10 * q + 10
  BY <1>1
<1> HIDE DEF q
<1>3. d * (10 * q) <= d * a /\ d * (a + 1) <= d * (10 * q + 10)
  <2>1. 10 * q \in Nat /\ a + 1 \in Nat /\ 10 * q + 10 \in Nat
    BY <1>1, <1>2
  <2>2. \A x, y \in Nat : x <= y => d * x <= d * y
    OBVIOUS
  <2> QED BY <1>1, <1>2, <2>1, <2>2
<1>4. /\ d * (10 * q) = (d * 10) * q /\ d * (a + 1) = d * a + d
      /\ d * (10 * q + 10) = (d * 10) * q + d * 10
      /\ (d * 10) * q \in Nat /\ d * a \in Nat /\ d * 10 \in Nat /\ d * 10 > 0
  BY <1>1, <1>2
<1>5. (d * 10) * q <= n /\ n < (d * 10) * q + d * 10
  BY <1>1, <1>3, <1>4
<1>6. n \div (d * 10) = q
  BY <1>2, <1>4, <1>5, DivUnique
<1> QED BY <1>6 DEF q, a

(* The digits printed for a number are digits, at least w of them, no more *)
(* if w suffice, and the digit loop reads the number from them.            *)
LEMMA DigitsOfIs ==
  ASSUME NEW n \in Nat, NEW w \in Nat, w > 0
  PROVE  /\ DigitsOf(n, w) \in Seq(0 .. 9) /\ Len(DigitsOf(n, w)) >= w
         /\ n < Tens(w) => Len(DigitsOf(n, w)) = w
         /\ ReadDigits(DigitsOf(n, w)) = Wrap(n)
<1> DEFINE P(k) == n < Tens(k) /\ (k = w \/ n >= Tens(k - 1))
           len == CHOOSE k \in w .. n + w + 1 : P(k)
           ds == [i \in 1 .. len |-> (n \div Tens(len - i)) % 10]
           u == [i \in 0 .. len |-> n \div Tens(len - i)]
<1>1. \E k \in w .. n + w + 1 : P(k)
  <2> DEFINE C == {k \in Nat : w <= k /\ n < Tens(k)}
  <2>1. n + w \in C
    <3>1. n + w \in Nat /\ n + w <= n + w /\ w <= n + w
      OBVIOUS
    <3>2. n + w < Tens(n + w) /\ Tens(n + w) \in Nat
      BY <3>1, TensGrow, TensNext
    <3> QED BY <3>1, <3>2
  <2>2. PICK k \in C : \A m \in C : k <= m
    <3>1. C \subseteq Nat /\ C # {}
      BY <2>1
    <3> HIDE DEF C
    <3> QED BY <3>1, LeastNumber
  <2>3. k \in w .. n + w + 1 /\ n < Tens(k) /\ k \in Nat
    BY <2>1, <2>2
  <2>4. ASSUME k # w PROVE n >= Tens(k - 1)
    <3>1. k - 1 \in Nat /\ w <= k - 1 /\ k - 1 \notin C
      BY <2>2, <2>3, <2>4
    <3>2. Tens(k - 1) \in Nat
      BY <3>1, TensNext
    <3> QED BY <3>1, <3>2
  <2> QED BY <2>3, <2>4
<1>2. len \in w .. n + w + 1 /\ P(len)
  BY <1>1
<1>3. DigitsOf(n, w) = ds
  BY DEF DigitsOf
<1> HIDE DEF len
<1>4. len \in Nat /\ len > 0 /\ len >= w
  BY <1>2
<1>5. ASSUME NEW i \in 0 .. len
      PROVE  /\ Tens(len - i) \in Nat /\ Tens(len - i) > 0
             /\ u[i] \in Nat /\ u[i] = n \div Tens(len - i)
  <2>1. len - i \in Nat
    BY <1>4
  <2>2. Tens(len - i) \in Nat /\ Tens(len - i) > 0
    BY <2>1, TensNext
  <2> QED BY <2>2
<1>6. ASSUME NEW i \in 1 .. len
      PROVE  ds[i] \in 0 .. 9 /\ u[i] = u[i - 1] * 10 + ds[i]
  <2>1. /\ i \in 0 .. len /\ i - 1 \in 0 .. len /\ len - i \in Nat
        /\ len - (i - 1) = (len - i) + 1
    BY <1>4
  <2>2. Tens(len - (i - 1)) = Tens(len - i) * 10
    BY <2>1, TensNext
  <2>3. u[i - 1] = u[i] \div 10
    BY <1>5, <2>1, <2>2, DivTen
  <2>4. ds[i] = u[i] % 10
    BY <1>5, <2>1
  <2>5. u[i] \in Nat
    BY <1>5, <2>1
  <2> HIDE DEF u, ds
  <2> QED BY <2>3, <2>4, <2>5
<1>7. ds \in Seq(0 .. 9) /\ ds \in Seq(Nat) /\ Len(ds) = len
  <2>1. \A i \in 1 .. len : ds[i] \in 0 .. 9
    BY <1>6
  <2> QED BY <1>4, <2>1
<1>8. ASSUME n < Tens(w) PROVE len = w
  <2>1. SUFFICES ASSUME len # w PROVE FALSE
    OBVIOUS
  <2>2. len - 1 \in Nat /\ w <= len - 1 /\ n >= Tens(len - 1)
    BY <1>2, <1>4, <2>1
  <2>3. Tens(w) <= Tens(len - 1) /\ Tens(w) \in Nat /\ Tens(len - 1) \in Nat
    BY <2>2, TensGrow, TensNext
  <2> QED BY <1>8, <2>2, <2>3
<1>9. ReadDigits(ds) = Wrap(n)
  <2>1. u[0] = 0
    <3>1. n < Tens(len) /\ Tens(len) \in Nat
      BY <1>2, <1>4, TensNext
    <3>2. n \div Tens(len) = 0
      BY <3>1, DivUnique
    <3> QED BY <1>4, <3>2
  <2>2. u[len] = n
    <3>1. n \div Tens(0) = n
      BY TensSmall
    <3> QED BY <1>4, <3>1
  <2>3. u \in [0 .. len -> Nat] /\ Reads(u, 0, ds, len)
    <3>1. u \in [0 .. len -> Nat]
      BY <1>5
    <3> HIDE DEF u, ds
    <3> QED BY <1>6, <2>1, <3>1 DEF Reads
  <2> HIDE DEF u, ds
  <2> QED BY <1>7, <2>2, <2>3, ReadDigitsIs
<1> QED BY <1>3, <1>4, <1>7, <1>8, <1>9
=============================================================================
