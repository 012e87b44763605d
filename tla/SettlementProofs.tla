-------------------------- MODULE SettlementProofs --------------------------
(***************************************************************************)
(* Settlements beside the operations of the clients, for any number of     *)
(* both: a settlement keeps what PostingProofs and RefinementProofs say of *)
(* the clients, pays no payment twice, pays what the journal owes at the   *)
(* moment of its commit, and is one step of the abstract ledger.           *)
(*                                                                         *)
(* First come its queries and payouts, as functions of the journal: sums   *)
(* over it, the pending payments and the nets of merchants, which change   *)
(* only with an entry that touches the merchant's row, and the payouts,    *)
(* one for each merchant that is owed something.                           *)
(***************************************************************************)
EXTENDS LedgerCore, RefinementProofs

-----------------------------------------------------------------------------
(* Sums.  Total is the last of them.                                       *)
LEMMA SumIsTotal ==
  ASSUME NEW n \in Nat, NEW d, \A i \in 1 .. n : d[i] \in Int, NEW v, Sums(v, d, n)
  PROVE  Total(d, n) = v[n]
BY TotalIsSum

(* Zeros at the end do not count.                                          *)
LEMMA TotalExtend ==
  ASSUME NEW n \in Nat, NEW m \in Nat, n <= m, NEW d, NEW e,
         \A i \in 1 .. n : d[i] \in Int /\ e[i] = d[i],
         \A i \in n + 1 .. m : e[i] = 0
  PROVE  Total(e, m) = Total(d, n)
<1>1. \A i \in 1 .. m : e[i] \in Int
  OBVIOUS
<1>2. PICK u \in [0 .. m -> Int] : Sums(u, e, m)
  BY <1>1, SumsExist
<1>3. Total(e, m) = u[m]
  BY <1>1, <1>2, TotalIsSum
<1>4. Total(d, n) = u[n]
  <2>1. \A i \in 1 .. n : d[i] \in Int /\ d[i] = e[i]
    OBVIOUS
  <2> QED BY <1>2, <2>1, TotalIsSum
<1> DEFINE S == {k \in n .. m : u[k] # u[n]}
<1>5. S = {}
  <2>1. SUFFICES ASSUME S # {} PROVE FALSE
    OBVIOUS
  <2>2. PICK k \in S : \A l \in S : k <= l
    <3>1. S \subseteq Nat
      OBVIOUS
    <3> HIDE DEF S
    <3> QED BY <2>1, <3>1, LeastNumber
  <2>3. k \in n + 1 .. m /\ k \in 1 .. m /\ k - 1 \in n .. m /\ k - 1 \notin S
    BY <2>2
  <2>4. u[k] = u[k - 1] + e[k] /\ e[k] = 0
    BY <1>2, <2>3 DEF Sums
  <2>5. u[k - 1] = u[n] /\ u[k - 1] \in Int
    BY <1>2, <2>3
  <2> QED BY <2>2, <2>4, <2>5
<1>6. u[m] = u[n]
  BY <1>5
<1> QED BY <1>3, <1>4, <1>6

(* Only zeros sum to 0.                                                    *)
LEMMA TotalNone ==
  ASSUME NEW n \in Nat, NEW d, \A i \in 1 .. n : d[i] = 0
  PROVE  Total(d, n) = 0
<1>1. Total(d, n) = Total(d, 0)
  <2>1. /\ 0 \in Nat /\ 0 <= n /\ \A i \in 0 + 1 .. n : d[i] = 0
        /\ \A i \in 1 .. 0 : d[i] \in Int /\ d[i] = d[i]
    OBVIOUS
  <2> QED BY <2>1, TotalExtend
<1> QED BY <1>1, TotalZero

(* One number among zeros is the sum.                                      *)
LEMMA TotalOne ==
  ASSUME NEW n \in Nat, NEW d, NEW k \in 1 .. n, d[k] \in Int,
         \A i \in 1 .. n : i # k => d[i] = 0
  PROVE  Total(d, n) = d[k]
<1>1. k \in Nat /\ k - 1 \in Nat /\ k <= n /\ (k - 1) + 1 = k
  OBVIOUS
<1>2. /\ \A i \in 1 .. k : d[i] \in Int /\ d[i] = d[i]
      /\ \A i \in k + 1 .. n : d[i] = 0
      /\ \A i \in 1 .. k - 1 : d[i] = 0
  OBVIOUS
<1>3. Total(d, n) = Total(d, k)
  BY <1>1, <1>2, TotalExtend
<1>4. Total(d, (k - 1) + 1) = Total(d, k - 1) + d[(k - 1) + 1]
  BY <1>1, <1>2, TotalNext
<1>5. Total(d, k - 1) = 0
  BY <1>1, <1>2, TotalNone
<1> QED BY <1>1, <1>3, <1>4, <1>5

(* The sum of one list after another is the sum of their sums.             *)
Joined(e, m, d, n, f, k) ==
  /\ n \in Nat /\ k \in Nat /\ m \in Nat /\ m = n + k
  /\ \A i \in 1 .. n : d[i] \in Int /\ e[i] = d[i]
  /\ \A i \in 1 .. k : f[i] \in Int /\ e[n + i] = f[i]

LEMMA TotalJoin ==
  ASSUME NEW e, NEW m, NEW d, NEW n, NEW f, NEW k, Joined(e, m, d, n, f, k)
  PROVE  Total(e, m) = Total(d, n) + Total(f, k)
<1> USE DEF Joined
<1>1. \A i \in 1 .. m : e[i] \in Int
  <2> SUFFICES ASSUME NEW i \in 1 .. m, i \notin 1 .. n
               PROVE  e[i] \in Int
    OBVIOUS
  <2>1. i - n \in 1 .. k /\ n + (i - n) = i
    OBVIOUS
  <2> QED BY <2>1
<1>2. n <= m
  OBVIOUS
<1>3. PICK u \in [0 .. m -> Int] : Sums(u, e, m)
  BY <1>1, SumsExist
<1>4. PICK w \in [0 .. k -> Int] : Sums(w, f, k)
  BY SumsExist
<1>5. Total(e, m) = u[m]
  BY <1>1, <1>3, SumIsTotal
<1>6. Total(f, k) = w[k]
  BY <1>4, SumIsTotal
<1>7. Total(d, n) = u[n]
  <2>1. Sums(u, d, n)
    BY <1>2, <1>3 DEF Sums
  <2> QED BY <2>1, SumIsTotal
<1> DEFINE S == {i \in 0 .. k : u[n + i] # u[n] + w[i]}
<1>8. S = {}
  <2>1. SUFFICES ASSUME S # {} PROVE FALSE
    OBVIOUS
  <2>2. PICK i \in S : \A l \in S : i <= l
    <3>1. S \subseteq Nat
      OBVIOUS
    <3> HIDE DEF S
    <3> QED BY <2>1, <3>1, LeastNumber
  <2>3. i # 0
    <3>1. w[0] = 0 /\ u[n] \in Int /\ n + 0 = n
      BY <1>2, <1>3, <1>4 DEF Sums
    <3> QED BY <2>2, <3>1
  <2>4. i \in 1 .. k /\ n + i \in 1 .. m /\ i - 1 \in 0 .. k /\ i - 1 \notin S
    BY <2>2, <2>3
  <2>5. u[n + i] = u[n + (i - 1)] + e[n + i]
    <3>1. (n + i) - 1 = n + (i - 1)
      BY <2>4
    <3> QED BY <1>3, <2>4, <3>1 DEF Sums
  <2>6. w[i] = w[i - 1] + f[i] /\ e[n + i] = f[i] /\ f[i] \in Int
    BY <1>4, <2>4 DEF Sums
  <2>7. u[n + (i - 1)] = u[n] + w[i - 1]
    BY <2>4
  <2>8. u[n] \in Int /\ w[i - 1] \in Int
    BY <1>2, <1>3, <1>4, <2>4
  <2> HIDE DEF S
  <2>9. u[n + i] = u[n] + w[i]
    BY <2>5, <2>6, <2>7, <2>8
  <2> QED BY <2>2, <2>9 DEF S
<1>9. u[m] = u[n] + w[k]
  <2>1. k \in 0 .. k
    OBVIOUS
  <2> QED BY <1>8, <2>1
<1> QED BY <1>5, <1>6, <1>7, <1>9

-----------------------------------------------------------------------------
(* The netting queries.  A journal as they find it: its payments have both *)
(* legs, and its refunds touch the row of the merchant they refund from.   *)
Sound(j) ==
  /\ j \in Seq(JournalEntry)
  /\ \A n \in DOMAIN j : TwoSided(j[n]) /\ LegAccounts(j[n]) \subseteq Account
  /\ \A n \in DOMAIN j : j[n].kind = "refund" =>
       IsPayment(j, j[n].ref) /\ Merchant(j, j[n].ref) \in LegAccounts(j[n])

(* Nothing from entry n + 1 to entry k touches the row of m.               *)
Untouched(j, n, k, m) == \A i \in n + 1 .. k : m \notin LegAccounts(j[i])

(* A payment touches the row of its merchant, and captures a number.       *)
LEMMA MerchantTouched ==
  ASSUME NEW j, Sound(j), NEW p, IsPayment(j, p)
  PROVE  /\ Merchant(j, p) \in LegAccounts(j[p]) /\ Merchant(j, p) \in Account
         /\ Captured(j[p]) \in Int /\ p \in 1 .. Len(j)
<1>1. /\ p \in 1 .. Len(j) /\ j[p] \in JournalEntry /\ j[p].kind = "payment" /\ TwoSided(j[p])
      /\ LegAccounts(j[p]) \subseteq Account
  BY DEF Sound, IsPayment
<1> DEFINE e == j[p]
           S == {e.legs[i] : i \in DOMAIN e.legs}
<1>2. e.legs \in Seq(Legs)
  BY <1>1 DEF JournalEntry
<1>3. S \subseteq Legs /\ \E l \in S : l.amt > 0
  BY <1>1, <1>2 DEF TwoSided
<1>4. MerchantLeg(e) \in S
  BY <1>3 DEF MerchantLeg
<1>5. MerchantLeg(e) \in Legs
  BY <1>3, <1>4
<1>6. MerchantLeg(e).acct \in LegAccounts(e)
  BY <1>4 DEF LegAccounts
<1> QED BY <1>1, <1>5, <1>6, MaxIntAssumption DEF Merchant, Captured, Legs, Int64

(* What one entry refunds is a number.                                     *)
LEMMA RefundDebitsType ==
  ASSUME NEW e, e.legs \in Seq(Legs), NEW p
  PROVE  RefundDebits(e, p) \in Int
<1>1. \A i \in Nat : DebitAt(e, i) \in Int
  <2> SUFFICES ASSUME NEW i \in DOMAIN e.legs
               PROVE  e.legs[i].amt \in Int
    BY DEF DebitAt
  <2>1. e.legs[i] \in Legs
    OBVIOUS
  <2> QED BY <2>1, MaxIntAssumption DEF Legs, Int64
<1> QED BY <1>1 DEF RefundDebits, Debits

(* The refunds of a payment, and what is still owed for it, are numbers.   *)
LEMMA OwedType ==
  ASSUME NEW j, Sound(j), NEW n \in 0 .. Len(j), NEW p
  PROVE  /\ \A i \in 1 .. n : RefundDebits(j[i], p) \in Int
         /\ Refunded(j, n, p) \in Int
         /\ IsPayment(j, p) => StillOwed(j, n, p) \in Int
<1>1. \A i \in 1 .. n : RefundDebits(j[i], p) \in Int
  <2> SUFFICES ASSUME NEW i \in 1 .. n
               PROVE  RefundDebits(j[i], p) \in Int
    OBVIOUS
  <2>1. j[i] \in JournalEntry
    BY DEF Sound
  <2> QED BY <2>1, RefundDebitsType DEF JournalEntry
<1> DEFINE d == [i \in 1 .. n |-> RefundDebits(j[i], p)]
<1>2. n \in Nat /\ \A i \in 1 .. n : d[i] \in Int
  BY <1>1
<1>3. Total(d, n) \in Int
  <2> HIDE DEF d
  <2> QED BY <1>2, TotalType
<1>4. Refunded(j, n, p) \in Int
  BY <1>3 DEF Refunded
<1> QED BY <1>1, <1>4, MerchantTouched DEF StillOwed

(* A net is a number.                                                      *)
LEMMA NetType ==
  ASSUME NEW j, Sound(j), NEW n \in 0 .. Len(j), NEW P, \A p \in P : IsPayment(j, p)
  PROVE  NetOf(j, n, P) \in Int
<1> DEFINE d == [p \in 1 .. n |-> IF p \in P THEN StillOwed(j, n, p) ELSE 0]
<1>1. n \in Nat /\ \A p \in 1 .. n : d[p] \in Int
  BY OwedType
<1>2. Total(d, n) \in Int
  <2> HIDE DEF d
  <2> QED BY <1>1, TotalType
<1> QED BY <1>2 DEF NetOf

(* The refunds of a payment stay what they are while nothing touches the   *)
(* row of its merchant.                                                    *)
LEMMA RefundsFrozen ==
  ASSUME NEW j, Sound(j), NEW k \in 0 .. Len(j), NEW n \in 0 .. k, NEW p,
         IsPayment(j, p), Untouched(j, n, k, Merchant(j, p))
  PROVE  Refunded(j, k, p) = Refunded(j, n, p)
<1> DEFINE d == [i \in 1 .. n |-> RefundDebits(j[i], p)]
           e == [i \in 1 .. k |-> RefundDebits(j[i], p)]
<1>1. n \in Nat /\ k \in Nat /\ n <= k /\ n \in 0 .. Len(j)
  OBVIOUS
<1>2. \A i \in 1 .. n : d[i] \in Int /\ e[i] = d[i]
  BY <1>1, OwedType
<1>3. ASSUME NEW i \in n + 1 .. k
      PROVE  e[i] = 0
  <2>1. i \in DOMAIN j /\ i \in 1 .. k
    BY DEF Sound
  <2>2. ~(j[i].kind = "refund" /\ j[i].ref = p)
    BY <2>1 DEF Sound, Untouched
  <2> QED BY <2>1, <2>2 DEF RefundDebits
<1>4. Total(e, k) = Total(d, n)
  <2> HIDE DEF d, e
  <2> QED BY <1>1, <1>2, <1>3, TotalExtend
<1> QED BY <1>4 DEF Refunded

(* So do the pending payments of the merchant, and the net of them.        *)
LEMMA NetFrozen ==
  ASSUME NEW j, Sound(j), NEW k \in 0 .. Len(j), NEW n \in 0 .. k, NEW m,
         Untouched(j, n, k, m), NEW S
  PROVE  LET P == PendingOf(j, n, S, {m}) IN
         PendingOf(j, k, S, {m}) = P /\ NetOf(j, k, P) = NetOf(j, n, P)
<1> DEFINE P == PendingOf(j, n, S, {m})
           d == [p \in 1 .. n |-> IF p \in P THEN StillOwed(j, n, p) ELSE 0]
           e == [p \in 1 .. k |-> IF p \in P THEN StillOwed(j, k, p) ELSE 0]
<1>1. n \in Nat /\ k \in Nat /\ n <= k /\ n \in 0 .. Len(j)
  OBVIOUS
<1>2. ASSUME NEW p \in 1 .. k, IsPayment(j, p), Merchant(j, p) = m
      PROVE  p \in 1 .. n
  <2>1. m \in LegAccounts(j[p])
    BY <1>2, MerchantTouched
  <2> QED BY <2>1 DEF Untouched
<1>3. PendingOf(j, k, S, {m}) = P
  BY <1>1, <1>2 DEF PendingOf, Pending
<1>4. \A p \in P : p \in 1 .. n /\ IsPayment(j, p) /\ Merchant(j, p) = m
  BY DEF PendingOf, Pending
<1> HIDE DEF P
<1>5. \A p \in P : StillOwed(j, k, p) = StillOwed(j, n, p) /\ StillOwed(j, n, p) \in Int
  BY <1>1, <1>4, OwedType, RefundsFrozen DEF StillOwed
<1>6. /\ \A p \in 1 .. n : d[p] \in Int /\ e[p] = d[p]
      /\ \A p \in n + 1 .. k : e[p] = 0
  BY <1>1, <1>4, <1>5
<1>7. Total(e, k) = Total(d, n)
  <2> HIDE DEF d, e
  <2> QED BY <1>1, <1>6, TotalExtend
<1> QED BY <1>3, <1>7 DEF NetOf, P

(* A net depends on the entries it is taken from alone.                    *)
LEMMA NetAgrees ==
  ASSUME NEW j, NEW h, Sound(j), NEW n \in 0 .. Len(j),
         DOMAIN j \subseteq DOMAIN h, \A i \in DOMAIN j : h[i] = j[i]
  PROVE  /\ \A P : NetOf(h, n, P) = NetOf(j, n, P)
         /\ \A S, M : PendingOf(h, n, S, M) = PendingOf(j, n, S, M)
         /\ \A p \in 1 .. n : Merchant(h, p) = Merchant(j, p)
<1>1. \A i \in 1 .. n : i \in DOMAIN j /\ h[i] = j[i]
  BY DEF Sound
<1>2. \A p : Refunded(h, n, p) = Refunded(j, n, p)
  <2> SUFFICES ASSUME NEW p
               PROVE  Refunded(h, n, p) = Refunded(j, n, p)
    OBVIOUS
  <2>1. [i \in 1 .. n |-> RefundDebits(h[i], p)] = [i \in 1 .. n |-> RefundDebits(j[i], p)]
    BY <1>1
  <2> QED BY <2>1 DEF Refunded
<1>3. ASSUME NEW P
      PROVE  NetOf(h, n, P) = NetOf(j, n, P)
  <2>1. [p \in 1 .. n |-> IF p \in P THEN StillOwed(h, n, p) ELSE 0]
          = [p \in 1 .. n |-> IF p \in P THEN StillOwed(j, n, p) ELSE 0]
    BY <1>1, <1>2 DEF StillOwed
  <2> QED BY <2>1 DEF NetOf
<1>4. \A p \in 1 .. n : Merchant(h, p) = Merchant(j, p) /\ (IsPayment(h, p) <=> IsPayment(j, p))
  BY <1>1 DEF Merchant, IsPayment
<1>5. \A S, M : PendingOf(h, n, S, M) = PendingOf(j, n, S, M)
  BY <1>4 DEF PendingOf, Pending
<1> QED BY <1>3, <1>4, <1>5

-----------------------------------------------------------------------------
(* The payouts.  Every number of a finite set has one rank, and every rank *)
(* up to the size of the set one number.                                   *)
LEMMA RankedIsOrder ==
  ASSUME NEW S, S \subseteq Nat, IsFiniteSet(S)
  PROVE  /\ Cardinality(S) \in Nat
         /\ \A i \in 1 .. Cardinality(S) : Ranked(S, i) \in S
         /\ \A i, k \in 1 .. Cardinality(S) : Ranked(S, i) = Ranked(S, k) => i = k
         /\ \A m \in S : \E i \in 1 .. Cardinality(S) : Ranked(S, i) = m
<1> DEFINE N == Cardinality(S)
           upto(m) == {x \in S : x <= m}
           rank == [m \in S |-> Cardinality(upto(m))]
<1>1. N \in Nat /\ IsFiniteSet(1 .. N) /\ Cardinality(1 .. N) = N
  <2>1. N \in Nat
    BY FS_CardinalityType
  <2>2. IsFiniteSet(1 .. N) /\ Cardinality(1 .. N) = IF 1 > N THEN 0 ELSE N - 1 + 1
    BY <2>1, FS_Interval
  <2> QED BY <2>1, <2>2
<1>2. ASSUME NEW m \in S
      PROVE  IsFiniteSet(upto(m)) /\ rank[m] \in 1 .. N
  <2>1. upto(m) \in SUBSET S /\ m \in upto(m)
    OBVIOUS
  <2>2. IsFiniteSet(upto(m)) /\ Cardinality(upto(m)) <= N
    BY <2>1, FS_Subset
  <2>3. Cardinality(upto(m)) \in Nat /\ Cardinality(upto(m)) # 0
    BY <2>1, <2>2, FS_CardinalityType, FS_EmptySet
  <2> HIDE DEF upto
  <2> QED BY <1>1, <2>2, <2>3
<1>3. ASSUME NEW m \in S, NEW l \in S, m < l
      PROVE  rank[m] # rank[l]
  <2>1. upto(m) \in SUBSET upto(l) /\ l \in upto(l) /\ l \notin upto(m)
    <3>1. m \in Nat /\ l \in Nat /\ \A x \in S : x \in Nat
      OBVIOUS
    <3>2. (\A x \in S : x <= m => x <= l) /\ l <= l /\ ~(l <= m)
      BY <1>3, <3>1
    <3> QED BY <3>2
  <2>2. IsFiniteSet(upto(l))
    BY <1>2
  <2> HIDE DEF upto
  <2>3. Cardinality(upto(l)) = Cardinality(upto(m)) => upto(l) = upto(m)
    BY <2>1, <2>2, FS_Subset
  <2> QED BY <2>1, <2>3
<1>4. \A m, l \in S : rank[m] = rank[l] => m = l
  <2> SUFFICES ASSUME NEW m \in S, NEW l \in S, m # l
               PROVE  rank[m] # rank[l]
    OBVIOUS
  <2>1. m < l \/ l < m
    <3>1. m \in Nat /\ l \in Nat
      OBVIOUS
    <3> QED BY <3>1
  <2> HIDE DEF rank
  <2> QED BY <1>3, <2>1
<1>5. rank \in Surjection(S, 1 .. N)
  <2>1. rank \in [S -> 1 .. N]
    BY <1>2
  <2>2. rank \in Injection(S, 1 .. N)
    <3> HIDE DEF rank
    <3> QED BY <1>4, <2>1 DEF Injection, IsInjective
  <2> HIDE DEF rank
  <2> QED BY <1>1, <2>2, FS_Injection
<1>6. ASSUME NEW i \in 1 .. N
      PROVE  Ranked(S, i) \in S /\ rank[Ranked(S, i)] = i
  <2>1. \E m \in S : rank[m] = i
    BY <1>5 DEF Surjection
  <2>2. \E m \in S : Cardinality({x \in S : x <= m}) = i
    BY <2>1
  <2>3. Ranked(S, i) \in S /\ Cardinality({x \in S : x <= Ranked(S, i)}) = i
    BY <2>2 DEF Ranked
  <2> QED BY <2>3
<1>7. ASSUME NEW m \in S
      PROVE  \E i \in 1 .. N : Ranked(S, i) = m
  <2>1. rank[m] \in 1 .. N
    BY <1>2
  <2> HIDE DEF rank
  <2> QED BY <1>4, <1>6, <2>1
<1> HIDE DEF rank
<1>8. \A i, k \in 1 .. N : Ranked(S, i) = Ranked(S, k) => i = k
  BY <1>6
<1> QED BY <1>1, <1>6, <1>7, <1>8

Rail(m) == PayoutAccount[CurrencyOf[m]]

(* A payout takes its net from the merchant and brings it to the rail.     *)
LEMMA PayoutLegs ==
  ASSUME NEW m \in Account, Rail(m) \in Account, NEW net \in Int64, net > 0
  PROVE  LET e == PayoutEntry(m, net) IN
         /\ e \in EntryType /\ e.kind = "settlement" /\ e.legs[1].acct = m
         /\ Paired(e) /\ TwoSided(e) /\ LegAccounts(e) = {m, Rail(m)}
         /\ \A a : Debited(e, a) = IF a = m THEN net ELSE 0
         /\ \A a : Delta(e, a) = (IF a = m THEN -net ELSE 0) + (IF a = Rail(m) THEN net ELSE 0)
         /\ RightCurrency(e) => CurrencyOf[Rail(m)] = CurrencyOf[m]
<1> DEFINE e == PayoutEntry(m, net)
           c == CurrencyOf[m]
<1>1. m \in Nat /\ Rail(m) \in Nat /\ c \in CurrencyCode /\ net \in Int
  <2>1. m \in Nat /\ Rail(m) \in Nat
    BY AccountAssumption
  <2>2. c \in CurrencyCode
    BY AccountAssumption
  <2>3. net \in Int
    BY MaxIntAssumption DEF Int64
  <2> QED BY <2>1, <2>2, <2>3
<1>2. e = [kind |-> "settlement", ref |-> 0, legs |-> TwoLegs(m, Rail(m), c, net)]
  BY DEF PayoutEntry, Entry, Rail
<1>3. e.legs \in Seq(Legs)
  BY <1>1, <1>2, TwoLegsType
<1>4. /\ e.kind = "settlement" /\ e.ref = 0 /\ DOMAIN e.legs = 1 .. 2 /\ Len(e.legs) = 2
      /\ e.legs[1].acct = m /\ e.legs[1].cur = c /\ e.legs[1].amt = -net
      /\ e.legs[2].acct = Rail(m) /\ e.legs[2].cur = c /\ e.legs[2].amt = net
  BY <1>2 DEF TwoLegs, Leg
<1>5. e \in EntryType
  <2>1. e.kind \in Kinds /\ e.ref \in Nat
    BY <1>4 DEF Kinds
  <2> QED BY <1>2, <1>3, <2>1 DEF EntryType
<1> HIDE DEF e
<1>6. Paired(e) /\ TwoSided(e)
  BY <1>1, <1>4 DEF Paired, Opposite, TwoSided
<1>7. LegAccounts(e) = {m, Rail(m)}
  BY <1>4 DEF LegAccounts
<1>8. \A a : /\ AmountOn(e, 1, a) = IF a = m THEN -net ELSE 0
             /\ AmountOn(e, 2, a) = IF a = Rail(m) THEN net ELSE 0
             /\ AmountOn(e, 3, a) = 0 /\ AmountOn(e, 4, a) = 0
  BY <1>4 DEF AmountOn
<1>9. \A a : Debited(e, a) = IF a = m THEN net ELSE 0
  BY <1>1, <1>8 DEF Debited, DebitOn
<1>10. \A a : Delta(e, a) = (IF a = m THEN -net ELSE 0) + (IF a = Rail(m) THEN net ELSE 0)
  BY <1>1, <1>8 DEF Delta
<1>11. RightCurrency(e) => CurrencyOf[Rail(m)] = CurrencyOf[m]
  BY <1>4 DEF RightCurrency
<1> QED BY <1>4, <1>5, <1>6, <1>7, <1>9, <1>10, <1>11 DEF e

Payee(e) == e.legs[1].acct

Payable64(nets) ==
  /\ IsFiniteSet(DOMAIN nets) /\ DOMAIN nets \subseteq Account
  /\ \A m \in DOMAIN nets : nets[m] \in Int64 /\ Rail(m) \in Account

(* One payout for each merchant whose net is positive, and no other.       *)
LEMMA PayoutsFacts ==
  ASSUME NEW nets, Payable64(nets)
  PROVE  LET P == PayoutsFor(nets) IN
         /\ P \in Seq(EntryType)
         /\ \A i \in DOMAIN P :
              LET m == Payee(P[i]) IN
              /\ m \in DOMAIN nets /\ nets[m] > 0 /\ nets[m] \in Int64
              /\ m \in Account /\ Rail(m) \in Account
              /\ P[i] = PayoutEntry(m, nets[m])
         /\ \A i, k \in DOMAIN P : Payee(P[i]) = Payee(P[k]) => i = k
         /\ \A m \in DOMAIN nets : nets[m] > 0 => \E i \in DOMAIN P : Payee(P[i]) = m
<1> DEFINE P == PayoutsFor(nets)
           S == {m \in DOMAIN nets : nets[m] > 0}
           N == Cardinality(S)
<1>1. S \in SUBSET DOMAIN nets /\ S \subseteq Nat /\ IsFiniteSet(S)
  <2>1. S \in SUBSET DOMAIN nets
    OBVIOUS
  <2>2. IsFiniteSet(S)
    BY <2>1, FS_Subset DEF Payable64
  <2> QED BY <2>1, <2>2, AccountAssumption DEF Payable64
<1>2. P = [i \in 1 .. N |-> PayoutEntry(Ranked(S, i), nets[Ranked(S, i)])]
  BY DEF PayoutsFor
<1> HIDE DEF P
<1>3. \A m \in S : /\ m \in DOMAIN nets /\ nets[m] > 0 /\ nets[m] \in Int64
                   /\ m \in Account /\ Rail(m) \in Account
  BY DEF Payable64
<1> HIDE DEF S
<1>4. /\ N \in Nat
      /\ \A i \in 1 .. N : Ranked(S, i) \in S
      /\ \A i, k \in 1 .. N : Ranked(S, i) = Ranked(S, k) => i = k
      /\ \A m \in S : \E i \in 1 .. N : Ranked(S, i) = m
  BY <1>1, RankedIsOrder
<1> HIDE DEF N
<1>5. ASSUME NEW i \in 1 .. N
      PROVE  /\ P[i] \in EntryType /\ Payee(P[i]) = Ranked(S, i)
             /\ P[i] = PayoutEntry(Ranked(S, i), nets[Ranked(S, i)])
  <2> DEFINE m == Ranked(S, i)
  <2>1. P[i] = PayoutEntry(m, nets[m]) /\ m \in S
    BY <1>2, <1>4
  <2> HIDE DEF m
  <2>2. nets[m] > 0 /\ nets[m] \in Int64 /\ m \in Account /\ Rail(m) \in Account
    BY <1>3, <2>1
  <2>3. PayoutEntry(m, nets[m]) \in EntryType /\ PayoutEntry(m, nets[m]).legs[1].acct = m
    BY <2>2, PayoutLegs
  <2> QED BY <2>1, <2>3 DEF Payee, m
<1>6. P \in Seq(EntryType) /\ DOMAIN P = 1 .. N
  BY <1>2, <1>4, <1>5
<1>7. \A m \in DOMAIN nets : nets[m] > 0 => m \in S
  BY DEF S
<1> QED BY <1>3, <1>4, <1>5, <1>6, <1>7 DEF P

(* A merchant is debited its net, once, and nobody else anything.          *)
LEMMA PayoutSums ==
  ASSUME NEW nets, Payable64(nets), NEW a, NEW d,
         \A i \in 1 .. Len(PayoutsFor(nets)) : d[i] = Debited(PayoutsFor(nets)[i], a)
  PROVE  Total(d, Len(PayoutsFor(nets))) =
           IF a \in DOMAIN nets /\ nets[a] > 0 THEN nets[a] ELSE 0
<1> DEFINE P == PayoutsFor(nets)
<1>1. /\ P \in Seq(EntryType)
      /\ \A i \in DOMAIN P :
           /\ Payee(P[i]) \in DOMAIN nets /\ nets[Payee(P[i])] > 0 /\ nets[Payee(P[i])] \in Int64
           /\ Payee(P[i]) \in Account /\ Rail(Payee(P[i])) \in Account
           /\ P[i] = PayoutEntry(Payee(P[i]), nets[Payee(P[i])])
      /\ \A i, k \in DOMAIN P : Payee(P[i]) = Payee(P[k]) => i = k
      /\ \A m \in DOMAIN nets : nets[m] > 0 => \E i \in DOMAIN P : Payee(P[i]) = m
  BY PayoutsFacts
<1> HIDE DEF P
<1>2. Len(P) \in Nat /\ DOMAIN P = 1 .. Len(P)
  BY <1>1
<1>3. ASSUME NEW i \in 1 .. Len(P)
      PROVE  d[i] = IF a = Payee(P[i]) THEN nets[Payee(P[i])] ELSE 0
  <2> DEFINE m == Payee(P[i])
  <2>1. /\ P[i] = PayoutEntry(m, nets[m]) /\ m \in Account /\ Rail(m) \in Account
        /\ nets[m] \in Int64 /\ nets[m] > 0
    BY <1>1, <1>2
  <2>2. d[i] = Debited(P[i], a)
    BY DEF P
  <2> HIDE DEF m
  <2>3. Debited(PayoutEntry(m, nets[m]), a) = IF a = m THEN nets[m] ELSE 0
    BY <2>1, PayoutLegs
  <2> QED BY <2>1, <2>2, <2>3 DEF m
<1>4. CASE a \in DOMAIN nets /\ nets[a] > 0
  <2>1. PICK k \in 1 .. Len(P) : Payee(P[k]) = a
    BY <1>1, <1>2, <1>4
  <2>2. d[k] = nets[a] /\ d[k] \in Int
    BY <1>1, <1>2, <1>3, <2>1, MaxIntAssumption DEF Int64
  <2>3. \A i \in 1 .. Len(P) : i # k => d[i] = 0
    BY <1>1, <1>2, <1>3, <2>1
  <2>4. Total(d, Len(P)) = d[k]
    BY <1>2, <2>2, <2>3, TotalOne
  <2> QED BY <1>4, <2>2, <2>4 DEF P
<1>5. CASE ~(a \in DOMAIN nets /\ nets[a] > 0)
  <2>1. \A i \in 1 .. Len(P) : d[i] = 0
    BY <1>1, <1>2, <1>3, <1>5
  <2>2. Total(d, Len(P)) = 0
    BY <1>2, <2>1, TotalNone
  <2> QED BY <1>5, <2>2 DEF P
<1> QED BY <1>4, <1>5

(* The entries of one list after another.                                  *)
LEMMA JoinFacts ==
  ASSUME NEW j \in Seq(JournalEntry), NEW q \in Seq(JournalEntry), NEW h, h = j \o q
  PROVE  /\ h \in Seq(JournalEntry) /\ Len(j) \in Nat /\ Len(q) \in Nat
         /\ Len(h) = Len(j) + Len(q)
         /\ DOMAIN j = 1 .. Len(j) /\ DOMAIN h = 1 .. Len(j) + Len(q)
         /\ \A i \in 1 .. Len(j) : h[i] = j[i]
         /\ \A i \in 1 .. Len(q) : h[Len(j) + i] = q[i]
OBVIOUS

(* What is posted together adds what its entries add.                      *)
LEMMA DerivedJoin ==
  ASSUME NEW j \in Seq(JournalEntry), NEW q \in Seq(JournalEntry), NEW a
  PROVE  /\ Derived(j \o q, a) = Derived(j, a) + Total(Deltas(q, a), Len(q))
         /\ Derived(j, a) \in Int /\ Total(Deltas(q, a), Len(q)) \in Int
<1> DEFINE h == j \o q
           n == Len(j)
           k == Len(q)
<1>1. /\ n \in Nat /\ k \in Nat /\ h \in Seq(JournalEntry) /\ Len(h) = n + k /\ Len(h) \in Nat
      /\ \A i \in 1 .. n : h[i] = j[i]
      /\ \A i \in 1 .. k : h[n + i] = q[i]
  OBVIOUS
<1> HIDE DEF h
<1>2. /\ \A i \in 1 .. n : i \in 1 .. Len(h)
      /\ \A i \in 1 .. k : n + i \in 1 .. Len(h)
  BY <1>1
<1>3. /\ \A i \in 1 .. n : Deltas(j, a)[i] \in Int /\ Deltas(j, a)[i] = Delta(j[i], a)
      /\ \A i \in 1 .. k : Deltas(q, a)[i] \in Int /\ Deltas(q, a)[i] = Delta(q[i], a)
      /\ \A i \in 1 .. Len(h) : Deltas(h, a)[i] = Delta(h[i], a)
  BY <1>1, DeltasType
<1>4. /\ \A i \in 1 .. n : Deltas(j, a)[i] \in Int /\ Deltas(h, a)[i] = Deltas(j, a)[i]
      /\ \A i \in 1 .. k : Deltas(q, a)[i] \in Int /\ Deltas(h, a)[n + i] = Deltas(q, a)[i]
  BY <1>1, <1>2, <1>3
<1>5. Total(Deltas(h, a), Len(h)) = Total(Deltas(j, a), n) + Total(Deltas(q, a), k)
  <2>1. Joined(Deltas(h, a), Len(h), Deltas(j, a), n, Deltas(q, a), k)
    BY <1>1, <1>4 DEF Joined
  <2> QED BY <2>1, TotalJoin
<1>6. Total(Deltas(j, a), n) \in Int /\ Total(Deltas(q, a), k) \in Int
  BY <1>1, <1>3, TotalType
<1> QED BY <1>5, <1>6 DEF Derived, Deltas, h

-----------------------------------------------------------------------------
(* What the proofs about the clients alone have shown of them.             *)
ClientInv ==
  /\ IInv /\ AnswerInv /\ RowsLocked /\ NoDrift /\ Exact /\ JournalSound
  /\ NotRefused /\ StillValid /\ LocksHeld /\ Ascending

(* A step of a client keeps it.                                            *)
LEMMA NextClients == ClientInv /\ [Next]_vars => ClientInv'
BY NextIInv, NextAnswers, NextDrift, NextExact, NextJournal, NextAccepted, NextLocks
   DEF ClientInv

LEMMA InitClients == Init => ClientInv
<1> SUFFICES ASSUME Init
             PROVE  ClientInv
  OBVIOUS
<1>1. JournalSound /\ NotRefused /\ StillValid
  BY DEF Init, JournalSound, NotRefused, StillValid
<1>2. LocksHeld /\ Ascending
  BY SessionAssumption DEF Init, LocksHeld, Ascending, NoRows
<1> QED BY <1>1, <1>2, InitIInv, InitAnswers, InitDrift, InitExact DEF ClientInv

(* A settler locks rows nobody has and releases its own.                   *)
SettlerLocks ==
  /\ rowLock' \in [Account -> Holder \union {NoHolder}]
  /\ \A a \in Account : \/ rowLock'[a] = rowLock[a]
                        \/ rowLock[a] \notin Session /\ rowLock'[a] \notin Session

(* It leaves the clients alone unless it commits.                          *)
LEMMA ClientsUnmoved ==
  ASSUME ClientInv, UNCHANGED <<db, keyLock, cvars>>, SettlerLocks
  PROVE  ClientInv'
<1>1. /\ balance' = balance /\ journal' = journal /\ keyRow' = keyRow /\ keyLock' = keyLock
      /\ pc' = pc /\ seen' = seen /\ snap' = snap /\ job' = job /\ attempt' = attempt
      /\ reply' = reply
  BY DEF db, cvars, local
<1>2. IInv'
  <2>1. TypeOK'
    BY <1>1 DEF ClientInv, IInv, TypeOK, DbType, LockType, SessionType, SettlerLocks
  <2>2. PaymentShape' /\ NoOverdraft' /\ OwnsKey' /\ ExactlyOnce'
    BY <1>1 DEF ClientInv, IInv, PaymentShape, NoOverdraft, OwnsKey, ExactlyOnce
  <2>3. FreshReads'
    BY <1>1 DEF ClientInv, IInv, FreshReads, SettlerLocks, TypeOK, SessionType
  <2>4. StillCovered'
    BY <1>1 DEF ClientInv, IInv, StillCovered, Covered, NewBalance
  <2> QED BY <2>1, <2>2, <2>3, <2>4 DEF IInv
<1>3. AnswerInv'
  BY <1>1, QuietAnswers DEF ClientInv, db
<1>4. RowsLocked' /\ NoDrift'
  BY <1>1, RowsStayLocked, NoDriftStays DEF ClientInv
<1>5. Exact'
  BY <1>1, QuietExact DEF ClientInv
<1>6. JournalSound'
  BY <1>1 DEF ClientInv, JournalSound, LegAccounts, RightCurrency, Paired, Opposite
<1>7. NotRefused' /\ StillValid'
  BY <1>1, GrowsNot, QuietAccepted DEF ClientInv
<1>8. LocksHeld'
  BY <1>1 DEF ClientInv, LocksHeld, SettlerLocks
<1>9. Ascending'
  BY <1>1 DEF ClientInv, Ascending, ToLock, LegAccounts
<1> QED BY <1>2, <1>3, <1>4, <1>5, <1>6, <1>7, <1>8, <1>9 DEF ClientInv

-----------------------------------------------------------------------------
(* The commit of a batch.  Its entries are payouts of merchants the        *)
(* settler has netted to their rails.                                      *)
Batch(d) == [i \in 1 .. Len(Payouts(d)) |-> Posted(Payouts(d)[i], NoKey)]

LEMMA RunPays ==
  ASSUME SInv, NEW d \in Settler, spc[d] \in {"payout", "commit"}
  PROVE  /\ Payable64(run[d].nets) /\ DOMAIN run[d].nets = run[d].merchants
         /\ \A m \in run[d].merchants : m \in DOMAIN sseen[d] /\ Rail(m) \in DOMAIN sseen[d]
<1>1. /\ RunType(run[d]) /\ RailsKnown(d) /\ SRowsLocked(d) /\ NetsCurrent(d)
  BY DEF SInv, SettlementTypeOK, SettlerInv
<1>2. \A m \in run[d].merchants : Rail(m) \in RailsOf(run[d].merchants)
  BY DEF Rail, RailsOf
<1>3. RailsOf(run[d].merchants) \subseteq Account
  BY <1>1 DEF RailsKnown
<1>4. run[d].merchants \union RailsOf(run[d].merchants) \subseteq DOMAIN sseen[d]
  BY <1>1 DEF SRowsLocked
<1>5. DOMAIN run[d].nets = run[d].merchants
  BY <1>1 DEF NetsCurrent
<1>6. Payable64(run[d].nets)
  BY <1>1, <1>2, <1>3, <1>5 DEF Payable64, RunType
<1> QED BY <1>2, <1>4, <1>5, <1>6

(* One payout, as it is posted.                                            *)
LEMMA PayoutPosted ==
  ASSUME NEW nets, Payable64(nets), NEW i \in 1 .. Len(PayoutsFor(nets))
  PROVE  LET e == PayoutsFor(nets)[i]
             m == Payee(e)
             q == Posted(e, NoKey)
         IN  /\ q \in JournalEntry /\ q.key = NoKey /\ q.kind = "settlement"
             /\ Paired(q) /\ TwoSided(q)
             /\ m \in DOMAIN nets /\ LegAccounts(e) = {m, Rail(m)} /\ LegAccounts(q) = LegAccounts(e)
             /\ m \in Account /\ Rail(m) \in Account
             /\ e.legs \in Seq(Legs) /\ Paired(e)
             /\ RightCurrency(q) <=> RightCurrency(e)
             /\ \A a : Delta(q, a) = Delta(e, a) /\ Debited(q, a) = Debited(e, a)
<1> DEFINE e == PayoutsFor(nets)[i]
           m == Payee(e)
           q == Posted(e, NoKey)
<1>1. /\ PayoutsFor(nets) \in Seq(EntryType) /\ i \in DOMAIN PayoutsFor(nets)
  BY PayoutsFacts
<1>2. /\ e \in EntryType /\ m \in DOMAIN nets /\ nets[m] > 0 /\ nets[m] \in Int64
      /\ m \in Account /\ Rail(m) \in Account /\ e = PayoutEntry(m, nets[m])
  BY <1>1, PayoutsFacts
<1> HIDE DEF e
<1>3. /\ e.kind = "settlement" /\ Paired(e) /\ TwoSided(e) /\ LegAccounts(e) = {m, Rail(m)}
  BY <1>2, PayoutLegs
<1>4. q.kind = e.kind /\ q.ref = e.ref /\ q.legs = e.legs /\ q.key = NoKey
  BY DEF Posted
<1>5. q \in JournalEntry /\ e.legs \in Seq(Legs)
  BY <1>2 DEF Posted, JournalEntry, EntryType
<1>6. Paired(q) /\ TwoSided(q) /\ LegAccounts(q) = LegAccounts(e) /\ (RightCurrency(q) <=> RightCurrency(e))
  BY <1>3, <1>4 DEF Paired, Opposite, TwoSided, LegAccounts, RightCurrency
<1>7. \A a : Delta(q, a) = Delta(e, a) /\ Debited(q, a) = Debited(e, a)
  BY <1>4 DEF Delta, Debited, DebitOn, AmountOn
<1> HIDE DEF q
<1> QED BY <1>2, <1>3, <1>4, <1>5, <1>6, <1>7 DEF e, q

(* What a batch posts is entries of the journal.                           *)
LEMMA BatchFacts ==
  ASSUME SInv, NEW d \in Settler, spc[d] \in {"payout", "commit"}
  PROVE  /\ Len(Payouts(d)) \in Nat /\ DOMAIN Payouts(d) = 1 .. Len(Payouts(d))
         /\ Batch(d) \in Seq(JournalEntry) /\ Len(Batch(d)) = Len(Payouts(d))
         /\ \A i \in 1 .. Len(Payouts(d)) :
              /\ Batch(d)[i] = Posted(Payouts(d)[i], NoKey)
              /\ LegAccounts(Batch(d)[i]) \subseteq DOMAIN sseen[d]
<1> DEFINE nets == run[d].nets
<1>1. /\ Payable64(nets) /\ DOMAIN nets = run[d].merchants
      /\ \A m \in run[d].merchants : m \in DOMAIN sseen[d] /\ Rail(m) \in DOMAIN sseen[d]
  BY RunPays
<1> HIDE DEF nets
<1>2. PayoutsFor(nets) \in Seq(EntryType)
  BY <1>1, PayoutsFacts
<1>3. Payouts(d) = PayoutsFor(nets)
  BY DEF Payouts, nets
<1>4. Len(Payouts(d)) \in Nat /\ DOMAIN Payouts(d) = 1 .. Len(Payouts(d))
  BY <1>2, <1>3
<1>5. ASSUME NEW i \in 1 .. Len(Payouts(d))
      PROVE  /\ Posted(Payouts(d)[i], NoKey) \in JournalEntry
             /\ LegAccounts(Posted(Payouts(d)[i], NoKey)) \subseteq DOMAIN sseen[d]
  <2> DEFINE e == Payouts(d)[i]
             m == Payee(e)
  <2>1. /\ Posted(e, NoKey) \in JournalEntry /\ m \in DOMAIN nets
        /\ LegAccounts(Posted(e, NoKey)) = {m, Rail(m)}
    <3>1. i \in 1 .. Len(PayoutsFor(nets))
      BY <1>3
    <3>2. LET p == PayoutsFor(nets)[i] IN
          /\ Posted(p, NoKey) \in JournalEntry /\ Payee(p) \in DOMAIN nets
          /\ LegAccounts(Posted(p, NoKey)) = {Payee(p), Rail(Payee(p))}
      BY <1>1, <3>1, PayoutPosted
    <3> QED BY <1>3, <3>2
  <2> HIDE DEF m
  <2>2. m \in DOMAIN sseen[d] /\ Rail(m) \in DOMAIN sseen[d]
    BY <1>1, <2>1
  <2> QED BY <2>1, <2>2
<1> QED BY <1>4, <1>5 DEF Batch

(* What the payouts of a batch add to a balance.                           *)
LEMMA BatchDeltas ==
  ASSUME SInv, NEW d \in Settler, spc[d] \in {"payout", "commit"}, NEW a \in DOMAIN sseen[d]
  PROVE  LET N == Len(Payouts(d))
             D == Deltas(Batch(d), a)
         IN  /\ N \in Nat /\ \A i \in 1 .. N : D[i] \in Int /\ D[i] = Delta(Payouts(d)[i], a)
             /\ \A k \in 0 .. N : /\ Total(D, k) \in Int
                                  /\ AfterPayouts(d, a, k) = Wrap(sseen[d][a] + Total(D, k))
<1> DEFINE N == Len(Payouts(d))
           D == Deltas(Batch(d), a)
<1>1. /\ N \in Nat /\ Batch(d) \in Seq(JournalEntry) /\ Len(Batch(d)) = N
      /\ \A i \in 1 .. N : Batch(d)[i] = Posted(Payouts(d)[i], NoKey)
  BY BatchFacts
<1>2. \A e : Delta(Posted(e, NoKey), a) = Delta(e, a)
  BY DEF Delta, AmountOn, Posted
<1>3. \A i \in 1 .. N : D[i] \in Int /\ D[i] = Delta(Payouts(d)[i], a)
  BY <1>1, <1>2, DeltasType
<1>4. ASSUME NEW k \in 0 .. N
      PROVE  Total(D, k) \in Int /\ AfterPayouts(d, a, k) = Wrap(sseen[d][a] + Total(D, k))
  <2> DEFINE f == [j \in 1 .. k |-> Delta(Payouts(d)[j], a)]
  <2>1. k \in Nat /\ \A i \in 1 .. k : D[i] \in Int /\ D[i] = f[i]
    BY <1>1, <1>3
  <2>2. AfterPayouts(d, a, k) = Wrap(sseen[d][a] + Total(f, k))
    BY DEF AfterPayouts
  <2> HIDE DEF D, f
  <2>3. Total(D, k) = Total(f, k) /\ Total(D, k) \in Int
    BY <2>1, TotalAgrees, TotalType
  <2> QED BY <2>2, <2>3
<1> QED BY <1>1, <1>3, <1>4

(* A balance that must not go negative does not wrap on the way: each      *)
(* payout was checked against the balance the ones before it left.         *)
LEMMA BatchExact ==
  ASSUME ClientInv, SInv, NEW d \in Settler, spc[d] = "commit",
         NEW a \in DOMAIN sseen[d], a \notin AllowNegative
  PROVE  LET N == Len(Payouts(d)) IN
         /\ AfterPayouts(d, a, N) >= 0
         /\ AfterPayouts(d, a, N) = balance[a] + Total(Deltas(Batch(d), a), N)
<1> DEFINE N == Len(Payouts(d))
           D == Deltas(Batch(d), a)
           T(k) == Total(D, k)
           P == Payouts(d)
           x == sseen[d][a]
<1>1. /\ N \in Nat /\ \A i \in 1 .. N : D[i] \in Int /\ D[i] = Delta(P[i], a)
      /\ \A k \in 0 .. N : T(k) \in Int /\ AfterPayouts(d, a, k) = Wrap(x + T(k))
  BY BatchDeltas
<1>2. a \in Account /\ x = balance[a] /\ x \in 0 .. MaxInt
  <2>1. a \in Account /\ x = balance[a]
    BY DEF SInv, SettlementTypeOK, SettlerInv, SFreshReads
  <2> QED BY <2>1, MaxIntAssumption DEF ClientInv, IInv, TypeOK, DbType, NoOverdraft, Int64
<1>3. ASSUME NEW i \in 1 .. N
      PROVE  /\ Delta(P[i], a) \in Int64
             /\ a \in LegAccounts(P[i]) => AfterPayouts(d, a, i) >= 0
             /\ a \notin LegAccounts(P[i]) => Delta(P[i], a) = 0
  <2>1. Payable(d) /\ i \in DOMAIN P
    BY BatchFacts DEF SInv, SettlerInv, StillPayable
  <2>2. /\ RightCurrency(P[i])
        /\ \A b \in LegAccounts(P[i]) \ AllowNegative : AfterPayouts(d, b, i) >= 0
    BY <2>1 DEF Payable
  <2>3. P[i].legs \in Seq(Legs) /\ Paired(P[i])
    <3>1. Payable64(run[d].nets) /\ i \in 1 .. Len(PayoutsFor(run[d].nets))
      BY RunPays DEF Payouts
    <3>2. PayoutsFor(run[d].nets)[i].legs \in Seq(Legs) /\ Paired(PayoutsFor(run[d].nets)[i])
      BY <3>1, PayoutPosted
    <3> QED BY <3>2 DEF Payouts
  <2>4. Delta(P[i], a) \in Int64
    BY <2>2, <2>3, PairedDelta
  <2>5. a \notin LegAccounts(P[i]) => Delta(P[i], a) = 0
    BY DEF LegAccounts, Delta, AmountOn
  <2> QED BY <2>2, <2>4, <2>5
<1> HIDE DEF D, P, x, N
<1>4. T(0) = 0
  BY TotalZero
<1>5. ASSUME NEW k \in 0 .. N, k # N
      PROVE  T(k + 1) = T(k) + D[k + 1]
  <2>1. k \in Nat /\ \A i \in 1 .. k + 1 : i \in 1 .. N
    BY <1>1, <1>5
  <2>2. \A i \in 1 .. k + 1 : D[i] \in Int
    BY <1>1, <2>1
  <2> QED BY <2>1, <2>2, TotalNext
<1> HIDE DEF T
<1> DEFINE good(k) == x + T(k) \in 0 .. MaxInt /\ AfterPayouts(d, a, k) = x + T(k)
           S == {k \in 0 .. N : ~good(k)}
<1>6. S = {}
  <2>1. SUFFICES ASSUME S # {} PROVE FALSE
    OBVIOUS
  <2>2. PICK k \in S : \A l \in S : k <= l
    <3>1. S \subseteq Nat
      BY <1>1
    <3> HIDE DEF S
    <3> QED BY <2>1, <3>1, LeastNumber
  <2>3. k # 0
    <3>1. x + 0 = x /\ x \in Int64
      BY <1>2, MaxIntAssumption DEF Int64
    <3>2. 0 \in 0 .. N /\ good(0)
      BY <1>1, <1>2, <1>4, <3>1, WrapFits
    <3> QED BY <2>2, <3>2
  <2> DEFINE y == x + T(k - 1)
  <2>4. k \in 1 .. N /\ k - 1 \in 0 .. N /\ k - 1 # N /\ (k - 1) + 1 = k /\ good(k - 1)
    BY <1>1, <2>2, <2>3
  <2>5. T(k) = T(k - 1) + D[k] /\ D[k] = Delta(P[k], a) /\ T(k - 1) \in Int
    BY <1>1, <1>5, <2>4
  <2>6. y \in 0 .. MaxInt /\ y + D[k] = x + T(k) /\ D[k] \in Int64 /\ D[k] \in Int
    BY <1>1, <1>2, <1>3, <2>4, <2>5
  <2>7. AfterPayouts(d, a, k) = Wrap(y + D[k])
    BY <1>1, <2>4, <2>6
  <2> HIDE DEF y
  <2>8. CASE a \in LegAccounts(P[k])
    <3>1. Wrap(y + D[k]) >= 0
      BY <1>3, <2>4, <2>7, <2>8
    <3>2. Wrap(y + D[k]) = y + D[k]
      BY <2>6, <3>1, SumFits
    <3>3. y + D[k] \in 0 .. MaxInt
      <4>1. Wrap(y + D[k]) \in Int64
        BY <2>6, WrapType
      <4> QED BY <2>6, <3>1, <3>2, <4>1, MaxIntAssumption DEF Int64
    <3> QED BY <2>2, <2>6, <2>7, <3>2, <3>3
  <2>9. CASE a \notin LegAccounts(P[k])
    <3>1. D[k] = 0 /\ y + D[k] = y /\ y \in Int64
      BY <1>3, <2>4, <2>5, <2>6, <2>9, MaxIntAssumption DEF Int64
    <3>2. Wrap(y) = y
      BY <3>1, WrapFits
    <3> QED BY <2>2, <2>6, <2>7, <3>1, <3>2
  <2> QED BY <2>8, <2>9
<1>7. good(N)
  BY <1>1, <1>6
<1> QED BY <1>2, <1>7, MaxIntAssumption DEF T, N, D, x

(* What the commit of a batch changes of the database, and nothing else of *)
(* the clients.                                                            *)
LEMMA BatchCommits ==
  ASSUME ClientInv, SInv, NEW d \in Settler, CommitBatch(d)
  PROVE  LET n == Len(journal)
             N == Len(Payouts(d))
         IN  /\ n \in Nat /\ N \in Nat /\ Len(journal') = n + N
             /\ journal' = journal \o Batch(d) /\ journal' \in Seq(JournalEntry)
             /\ DOMAIN journal = 1 .. n /\ DOMAIN journal' = 1 .. n + N /\ Grows
             /\ \A i \in 1 .. N : journal'[n + i] = Batch(d)[i]
             /\ \A i \in 1 .. n + N : i \in 1 .. n \/ (i - n \in 1 .. N /\ journal'[i] = Batch(d)[i - n])
             /\ \A a \in Account : balance'[a] = IF a \in DOMAIN sseen[d] THEN AfterPayouts(d, a, N) ELSE balance[a]
             /\ \A s \in Session : \A a \in DOMAIN seen[s] : a \notin DOMAIN sseen[d]
             /\ SettlerLocks
             /\ keyRow' = keyRow /\ keyLock' = keyLock /\ pc' = pc /\ seen' = seen /\ snap' = snap
             /\ job' = job /\ attempt' = attempt /\ reply' = reply
<1> DEFINE n == Len(journal)
           N == Len(Payouts(d))
<1>1. /\ spc[d] = "commit" /\ journal' = journal \o Batch(d)
      /\ balance' = [a \in Account |-> IF a \in DOMAIN sseen[d] THEN AfterPayouts(d, a, N) ELSE balance[a]]
      /\ rowLock' = [a \in Account |-> IF rowLock[a] = d THEN NoHolder ELSE rowLock[a]]
      /\ keyRow' = keyRow /\ keyLock' = keyLock /\ pc' = pc /\ seen' = seen /\ snap' = snap
      /\ job' = job /\ attempt' = attempt /\ reply' = reply
  BY DEF CommitBatch, SReturn, SRelease, cvars, local, Batch
<1>2. journal \in Seq(JournalEntry) /\ n \in Nat /\ DOMAIN journal = 1 .. n
  BY DEF ClientInv, IInv, TypeOK, DbType
<1>3. Batch(d) \in Seq(JournalEntry) /\ Len(Batch(d)) = N /\ N \in Nat
  BY <1>1, BatchFacts
<1> HIDE DEF N
<1>4. /\ journal' \in Seq(JournalEntry) /\ Len(journal') = n + N /\ DOMAIN journal' = 1 .. n + N
      /\ \A i \in 1 .. n : journal'[i] = journal[i]
      /\ \A i \in 1 .. N : journal'[n + i] = Batch(d)[i]
  <2>1. /\ journal \in Seq(JournalEntry) /\ Batch(d) \in Seq(JournalEntry)
        /\ journal' = journal \o Batch(d)
    BY <1>1, <1>2, <1>3
  <2>2. /\ journal' \in Seq(JournalEntry) /\ Len(journal') = n + Len(Batch(d))
        /\ DOMAIN journal' = 1 .. n + Len(Batch(d))
        /\ \A i \in 1 .. n : journal'[i] = journal[i]
        /\ \A i \in 1 .. Len(Batch(d)) : journal'[n + i] = Batch(d)[i]
    BY <2>1, JoinFacts
  <2> QED BY <1>3, <2>2
<1>5. Grows
  BY <1>2, <1>3, <1>4 DEF Grows
<1>6. \A i \in 1 .. n + N : i \in 1 .. n \/ (i - n \in 1 .. N /\ journal'[i] = Batch(d)[i - n])
  <2> SUFFICES ASSUME NEW i \in 1 .. n + N, i \notin 1 .. n
               PROVE  i - n \in 1 .. N /\ journal'[i] = Batch(d)[i - n]
    OBVIOUS
  <2>1. i - n \in 1 .. N /\ n + (i - n) = i
    BY <1>2, <1>3
  <2> QED BY <1>4, <2>1
<1>7. d \in Holder /\ d \notin Session /\ NoHolder \notin Session
  BY SettlerAssumption, SessionAssumption
<1>8. SettlerLocks
  BY <1>1, <1>7 DEF SettlerLocks, ClientInv, IInv, TypeOK, LockType
<1>9. \A s \in Session : \A a \in DOMAIN seen[s] : a \notin DOMAIN sseen[d]
  BY <1>7 DEF ClientInv, IInv, FreshReads, SInv, SettlerInv, SFreshReads
<1> QED BY <1>1, <1>2, <1>3, <1>4, <1>5, <1>6, <1>8, <1>9 DEF N

(* The commit of a batch keeps what is known of the clients: its entries   *)
(* are on rows no session has read, and it writes what the sum of the      *)
(* postings becomes.                                                       *)
LEMMA BatchKeepsClients ==
  ASSUME ClientInv, SInv, NEW d \in Settler, CommitBatch(d)
  PROVE  ClientInv'
<1> DEFINE n == Len(journal)
           N == Len(Payouts(d))
<1>1. /\ n \in Nat /\ N \in Nat /\ Len(journal') = n + N
      /\ journal' = journal \o Batch(d) /\ journal' \in Seq(JournalEntry)
      /\ DOMAIN journal = 1 .. n /\ DOMAIN journal' = 1 .. n + N /\ Grows
      /\ \A i \in 1 .. N : journal'[n + i] = Batch(d)[i]
      /\ \A i \in 1 .. n + N : i \in 1 .. n \/ (i - n \in 1 .. N /\ journal'[i] = Batch(d)[i - n])
      /\ \A a \in Account : balance'[a] = IF a \in DOMAIN sseen[d] THEN AfterPayouts(d, a, N) ELSE balance[a]
      /\ \A s \in Session : \A a \in DOMAIN seen[s] : a \notin DOMAIN sseen[d]
      /\ SettlerLocks
  BY BatchCommits
<1>2. /\ keyRow' = keyRow /\ keyLock' = keyLock /\ pc' = pc /\ seen' = seen /\ snap' = snap
      /\ job' = job /\ attempt' = attempt /\ reply' = reply
  BY BatchCommits
<1>3. spc[d] = "commit" /\ d \in Settler /\ DOMAIN balance' = Account
  BY DEF CommitBatch
<1>4. \A i \in DOMAIN journal : journal'[i] = journal[i]
  BY <1>1 DEF Grows
<1>5. /\ DOMAIN sseen[d] \subseteq Account
      /\ \A a \in DOMAIN sseen[d] : sseen[d][a] \in Int64 /\ sseen[d][a] = balance[a]
  BY DEF SInv, SettlementTypeOK, SettlerInv, SFreshReads
<1>6. \A i \in 1 .. N :
        /\ Batch(d)[i] \in JournalEntry /\ Batch(d)[i].key = NoKey /\ Batch(d)[i].kind = "settlement"
        /\ Paired(Batch(d)[i]) /\ TwoSided(Batch(d)[i]) /\ RightCurrency(Batch(d)[i])
        /\ LegAccounts(Batch(d)[i]) \subseteq DOMAIN sseen[d]
  <2> SUFFICES ASSUME NEW i \in 1 .. N
               PROVE  /\ Batch(d)[i] \in JournalEntry /\ Batch(d)[i].key = NoKey
                      /\ Batch(d)[i].kind = "settlement"
                      /\ Paired(Batch(d)[i]) /\ TwoSided(Batch(d)[i]) /\ RightCurrency(Batch(d)[i])
                      /\ LegAccounts(Batch(d)[i]) \subseteq DOMAIN sseen[d]
    OBVIOUS
  <2> DEFINE p == PayoutsFor(run[d].nets)[i]
             q == Posted(p, NoKey)
  <2>1. /\ Payable64(run[d].nets) /\ i \in 1 .. Len(PayoutsFor(run[d].nets))
        /\ i \in DOMAIN Payouts(d) /\ Batch(d)[i] = q /\ Payouts(d)[i] = p
        /\ LegAccounts(Batch(d)[i]) \subseteq DOMAIN sseen[d]
    BY <1>3, RunPays, BatchFacts DEF Payouts
  <2>2. RightCurrency(p)
    BY <1>3, <2>1 DEF SInv, SettlerInv, StillPayable, Payable
  <2>3. /\ q \in JournalEntry /\ q.key = NoKey /\ q.kind = "settlement"
        /\ Paired(q) /\ TwoSided(q) /\ (RightCurrency(q) <=> RightCurrency(p))
    BY <2>1, PayoutPosted
  <2> HIDE DEF p, q
  <2> QED BY <2>1, <2>2, <2>3
<1>7. ASSUME NEW a \in DOMAIN sseen[d]
      PROVE  /\ AfterPayouts(d, a, N) \in Int64
             /\ AfterPayouts(d, a, N) = Wrap(balance[a] + Total(Deltas(Batch(d), a), N))
             /\ Total(Deltas(Batch(d), a), N) \in Int
  <2> DEFINE T == Total(Deltas(Batch(d), a), N)
  <2>1. T \in Int /\ AfterPayouts(d, a, N) = Wrap(sseen[d][a] + T)
    <3>1. N \in 0 .. N
      BY <1>1
    <3> QED BY <1>3, <3>1, BatchDeltas
  <2>2. sseen[d][a] = balance[a] /\ sseen[d][a] \in Int
    BY <1>5, MaxIntAssumption DEF Int64
  <2> HIDE DEF T
  <2>3. sseen[d][a] + T \in Int
    BY <2>1, <2>2
  <2> QED BY <2>1, <2>2, <2>3, WrapType DEF T
<1> HIDE DEF N, n
<1>8. TypeOK'
  <2>1. \A a \in Account : balance'[a] \in Int64
    BY <1>1, <1>7 DEF ClientInv, IInv, TypeOK, DbType
  <2>2. balance' \in [Account -> Int64]
    <3>1. balance' = [a \in Account |-> IF a \in DOMAIN sseen[d] THEN AfterPayouts(d, a, N) ELSE balance[a]]
      BY DEF CommitBatch, N
    <3> QED BY <2>1, <3>1
  <2>3. DbType'
    BY <1>1, <1>2, <2>2 DEF ClientInv, IInv, TypeOK, DbType
  <2>4. LockType' /\ SessionType'
    BY <1>1, <1>2 DEF ClientInv, IInv, TypeOK, LockType, SessionType, SettlerLocks
  <2> QED BY <2>3, <2>4 DEF TypeOK
<1>9. PaymentShape'
  <2>1. \A i \in DOMAIN journal' : TwoSided(journal'[i])
    BY <1>1, <1>4, <1>6 DEF ClientInv, IInv, PaymentShape
  <2> QED BY <1>2, <2>1 DEF ClientInv, IInv, PaymentShape, TwoSided
<1>10. FreshReads'
  <2>1. \A s \in Session : \A a \in DOMAIN seen[s] : a \in Account /\ rowLock[a] = s /\ seen[s][a] = balance[a]
    BY DEF ClientInv, IInv, FreshReads, TypeOK, SessionType
  <2>2. \A s \in Session : \A a \in DOMAIN seen[s] : rowLock'[a] = s /\ seen[s][a] = balance'[a]
    <3> SUFFICES ASSUME NEW s \in Session, NEW a \in DOMAIN seen[s]
                 PROVE  rowLock'[a] = s /\ seen[s][a] = balance'[a]
      OBVIOUS
    <3>1. a \in Account /\ rowLock[a] = s /\ seen[s][a] = balance[a]
      BY <2>1
    <3>2. balance'[a] = balance[a]
      BY <1>1, <3>1
    <3>3. SettlerLocks
      BY <1>1
    <3>4. rowLock'[a] = s
      BY <3>1, <3>3 DEF SettlerLocks
    <3> QED BY <3>1, <3>2, <3>4
  <2> QED BY <1>2, <2>2 DEF FreshReads
<1>11. StillCovered' /\ OwnsKey'
  BY <1>2 DEF ClientInv, IInv, StillCovered, OwnsKey, Covered, NewBalance
<1>12. NoOverdraft'
  <2> SUFFICES ASSUME NEW a \in Account \ AllowNegative
               PROVE  balance'[a] >= 0
    BY DEF NoOverdraft
  <2>1. CASE a \in DOMAIN sseen[d]
    BY <1>1, <1>3, <2>1, BatchExact DEF N
  <2>2. CASE a \notin DOMAIN sseen[d]
    BY <1>1, <2>2 DEF ClientInv, IInv, NoOverdraft
  <2> QED BY <2>1, <2>2
<1>13. ExactlyOnce'
  <2>1. \A k \in Key : \A i \in DOMAIN journal' :
          journal'[i].key = k <=> (i \in DOMAIN journal /\ journal[i].key = k)
    BY <1>1, <1>4, <1>6, KeyAssumption
  <2>2. \A k \in Key : {i \in DOMAIN journal' : journal'[i].key = k} = {i \in DOMAIN journal : journal[i].key = k}
    BY <1>1, <2>1 DEF Grows
  <2> QED BY <1>2, <2>2 DEF ClientInv, IInv, ExactlyOnce
<1>14. IInv'
  BY <1>8, <1>9, <1>10, <1>11, <1>12, <1>13 DEF IInv
<1>15. AnswerInv'
  <2>1. \A r \in Request : Pinned(r) => EntryFor(journal', r) = EntryFor(journal, r) /\ Pinned(r)'
    BY <1>1, RequestOps, EntryStable
  <2>2. EntriesCurrent'
    <3> SUFFICES ASSUME NEW s \in Session, pc[s] # "idle"
                 PROVE  Pinned(job[s].req)' /\ job[s].entry = EntryFor(journal', job[s].req)
      BY <1>2 DEF EntriesCurrent
    <3>1. job[s].req \in Request
      BY DEF ClientInv, IInv, TypeOK, SessionType, Job
    <3>2. Pinned(job[s].req) /\ job[s].entry = EntryFor(journal, job[s].req)
      BY DEF ClientInv, AnswerInv, EntriesCurrent
    <3> QED BY <1>2, <2>1, <3>1, <3>2 DEF Pinned
  <2>3. KeysAnswer'
    <3> SUFFICES ASSUME NEW k \in Key, keyRow[k] # NoRow
                 PROVE  /\ Pinned(keyRow[k].req)' /\ keyRow[k].txn \in DOMAIN journal'
                        /\ journal'[keyRow[k].txn] = Posted(EntryFor(journal', keyRow[k].req), k)
      BY <1>2 DEF KeysAnswer
    <3>1. keyRow[k].req \in Request
      BY DEF ClientInv, IInv, TypeOK, DbType
    <3>2. /\ Pinned(keyRow[k].req) /\ keyRow[k].txn \in DOMAIN journal
          /\ journal[keyRow[k].txn] = Posted(EntryFor(journal, keyRow[k].req), k)
      BY DEF ClientInv, AnswerInv, KeysAnswer
    <3> QED BY <1>1, <1>2, <1>4, <2>1, <3>1, <3>2 DEF Grows, Pinned
  <2>4. AnswerStored'
    BY <1>2 DEF ClientInv, AnswerInv, AnswerStored
  <2>5. AnswersTrue'
    BY <1>1, <1>2, <1>4 DEF ClientInv, AnswerInv, AnswersTrue, Grows
  <2> QED BY <2>2, <2>3, <2>4, <2>5 DEF AnswerInv
<1>16. RowsLocked'
  BY <1>2, RowsStayLocked DEF ClientInv
<1>17. ASSUME NEW a \in Account
       PROVE  /\ Derived(journal', a) = Derived(journal, a) + Total(Deltas(Batch(d), a), N)
              /\ Derived(journal, a) \in Int /\ Total(Deltas(Batch(d), a), N) \in Int
              /\ a \notin DOMAIN sseen[d] => Total(Deltas(Batch(d), a), N) = 0
  <2>1. /\ journal \in Seq(JournalEntry) /\ Batch(d) \in Seq(JournalEntry) /\ Len(Batch(d)) = N
    BY <1>3, BatchFacts DEF ClientInv, IInv, TypeOK, DbType, N
  <2>2. /\ Derived(journal \o Batch(d), a) = Derived(journal, a) + Total(Deltas(Batch(d), a), N)
        /\ Derived(journal, a) \in Int /\ Total(Deltas(Batch(d), a), N) \in Int
    BY <2>1, DerivedJoin
  <2>3. ASSUME a \notin DOMAIN sseen[d]
        PROVE  Total(Deltas(Batch(d), a), N) = 0
    <3>1. \A i \in 1 .. N : a \notin LegAccounts(Batch(d)[i])
      BY <1>6, <2>3
    <3>2. \A e : a \notin LegAccounts(e) => Delta(e, a) = 0
      BY DEF LegAccounts, Delta, AmountOn
    <3>3. \A i \in 1 .. N : Deltas(Batch(d), a)[i] = 0
      BY <2>1, <3>1, <3>2 DEF Deltas
    <3> QED BY <1>1, <3>3, TotalNone
  <2> QED BY <1>1, <2>2, <2>3
<1>18. NoDrift'
  <2> SUFFICES ASSUME NEW a \in Account
               PROVE  balance'[a] = Wrap(Derived(journal', a))
    BY DEF NoDrift
  <2>1. balance[a] = Wrap(Derived(journal, a))
    BY DEF ClientInv, NoDrift
  <2>2. CASE a \in DOMAIN sseen[d]
    <3> DEFINE x == Derived(journal, a)
               t == Total(Deltas(Batch(d), a), N)
    <3>1. x \in Int /\ t \in Int /\ Derived(journal', a) = x + t
      BY <1>17
    <3>2. balance'[a] = Wrap(Wrap(x) + t)
      BY <1>1, <1>7, <2>1, <2>2
    <3> HIDE DEF x, t
    <3> QED BY <3>1, <3>2, WrapAdd
  <2>3. CASE a \notin DOMAIN sseen[d]
    BY <1>1, <1>17, <2>1, <2>3
  <2> QED BY <2>2, <2>3
<1>19. Exact'
  <2>1. EntriesPaired' /\ StillRight'
    BY <1>2 DEF ClientInv, Exact, EntriesPaired, StillRight, Paired, Opposite, RightCurrency
  <2>2. ASSUME NEW a \in Account \ AllowNegative
        PROVE  balance'[a] = Derived(journal', a)
    <3>1. balance[a] = Derived(journal, a)
      BY DEF ClientInv, Exact, ExactWhereBounded
    <3>2. CASE a \in DOMAIN sseen[d]
      BY <1>1, <1>3, <1>17, <3>1, <3>2, BatchExact DEF N
    <3>3. CASE a \notin DOMAIN sseen[d]
      BY <1>1, <1>17, <3>1, <3>3
    <3> QED BY <3>2, <3>3
  <2> QED BY <2>1, <2>2 DEF Exact, ExactWhereBounded
<1>20. JournalSound'
  <2>1. \A i \in DOMAIN journal' :
          LegAccounts(journal'[i]) \subseteq Account /\ RightCurrency(journal'[i]) /\ Paired(journal'[i])
    <3> SUFFICES ASSUME NEW i \in DOMAIN journal'
                 PROVE  /\ LegAccounts(journal'[i]) \subseteq Account
                        /\ RightCurrency(journal'[i]) /\ Paired(journal'[i])
      OBVIOUS
    <3>1. CASE i \in DOMAIN journal
      BY <1>4, <3>1 DEF ClientInv, JournalSound
    <3>2. CASE i \notin DOMAIN journal
      <4>1. i - n \in 1 .. N /\ journal'[i] = Batch(d)[i - n]
        BY <1>1, <3>2
      <4> QED BY <1>5, <1>6, <4>1
    <3> QED BY <3>1, <3>2
  <2> QED BY <2>1 DEF JournalSound, LegAccounts, RightCurrency, Paired, Opposite
<1>21. NotRefused' /\ StillValid'
  BY <1>1, <1>2, QuietAccepted DEF ClientInv
<1>22. LocksHeld'
  BY <1>1, <1>2 DEF ClientInv, LocksHeld, SettlerLocks
<1>23. Ascending'
  BY <1>2 DEF ClientInv, Ascending, ToLock, LegAccounts
<1> QED BY <1>14, <1>15, <1>16, <1>18, <1>19, <1>20, <1>21, <1>22, <1>23 DEF ClientInv

-----------------------------------------------------------------------------
(* What a step of another leaves of a settler.                             *)
LEMMA JournalIsSound == ClientInv /\ RefundsOnMerchant => Sound(journal)
BY DEF ClientInv, RefundsOnMerchant, Sound, IInv, TypeOK, DbType, PaymentShape, JournalSound

(* The pending payments of some merchants are those of each.               *)
SamePending(j, n, S, h, k, T, M) ==
  \A m \in M : PendingOf(h, k, T, {m}) = PendingOf(j, n, S, {m})

LEMMA PendingEach ==
  ASSUME NEW j, NEW n, NEW S, NEW h, NEW k, NEW T, NEW M, SamePending(j, n, S, h, k, T, M)
  PROVE  PendingOf(h, k, T, M) = PendingOf(j, n, S, M)
<1> USE DEF SamePending
<1>1. \A i, Q, R : PendingOf(i, Q, R, M) = UNION {PendingOf(i, Q, R, {m}) : m \in M}
  BY DEF PendingOf, Pending
<1>2. {PendingOf(h, k, T, {m}) : m \in M} = {PendingOf(j, n, S, {m}) : m \in M}
  OBVIOUS
<1> QED BY <1>1, <1>2

(* Entries that do not touch the row of m leave what is owed to it, and so *)
(* does settling the payments of others.                                   *)
LEMMA NetKept ==
  ASSUME NEW j, NEW h, Sound(j), Sound(h), DOMAIN j \subseteq DOMAIN h,
         \A i \in DOMAIN j : h[i] = j[i], NEW m, Untouched(h, Len(j), Len(h), m),
         NEW S, NEW T, S \subseteq T, \A p \in T \ S : p \in DOMAIN j => Merchant(j, p) # m
  PROVE  LET P == PendingOf(j, Len(j), S, {m}) IN
         /\ PendingOf(h, Len(h), T, {m}) = P
         /\ NetOf(h, Len(h), P) = NetOf(j, Len(j), P)
<1> DEFINE n == Len(j)
           k == Len(h)
           P == PendingOf(j, n, S, {m})
<1>1. /\ DOMAIN j = 1 .. n /\ DOMAIN h = 1 .. k /\ n \in Nat /\ k \in Nat
  BY DEF Sound
<1>2. n \in 0 .. k /\ n \in 0 .. Len(j) /\ k \in 0 .. Len(h)
  <2>1. n <= k
    <3>1. \A i \in 1 .. n : i \in 1 .. k
      BY <1>1
    <3> HIDE DEF n, k
    <3>2. CASE n = 0
      BY <1>1, <3>2
    <3>3. CASE n # 0
      <4>1. n \in 1 .. n
        BY <1>1, <3>3
      <4> QED BY <1>1, <3>1, <4>1
    <3> QED BY <3>2, <3>3
  <2> QED BY <1>1, <2>1
<1>3. /\ \A Q : NetOf(h, n, Q) = NetOf(j, n, Q)
      /\ \A Q, M : PendingOf(h, n, Q, M) = PendingOf(j, n, Q, M)
  BY <1>2, NetAgrees
<1>4. /\ PendingOf(h, k, S, {m}) = PendingOf(h, n, S, {m})
      /\ NetOf(h, k, PendingOf(h, n, S, {m})) = NetOf(h, n, PendingOf(h, n, S, {m}))
  BY <1>2, NetFrozen
<1>5. PendingOf(h, k, S, {m}) = P
  BY <1>3, <1>4
<1>6. PendingOf(h, k, T, {m}) = PendingOf(h, k, S, {m})
  <2>1. PendingOf(h, k, T, {m}) \subseteq PendingOf(h, k, S, {m})
    BY DEF PendingOf, Pending
  <2>2. ASSUME NEW p \in P
        PROVE  p \notin T
    <3>1. p \in DOMAIN j /\ Merchant(j, p) = m /\ p \notin S
      BY <1>1 DEF PendingOf, Pending
    <3> QED BY <3>1
  <2> HIDE DEF P
  <2>3. PendingOf(h, k, S, {m}) \subseteq PendingOf(h, k, T, {m})
    BY <1>5, <2>2 DEF PendingOf, Pending
  <2> QED BY <2>1, <2>3
<1> QED BY <1>3, <1>4, <1>5, <1>6

(* What is payable depends on what the settler has read alone.             *)
LEMMA PayableStays ==
  ASSUME NEW d, run'[d] = run[d], sseen'[d] = sseen[d]
  PROVE  Payable(d)' <=> Payable(d)
<1>1. Payouts(d)' = Payouts(d)
  BY DEF Payouts
<1>2. \A a, i : AfterPayouts(d, a, i)' = AfterPayouts(d, a, i)
  BY <1>1 DEF AfterPayouts
<1> QED BY <1>1, <1>2 DEF Payable

(* Another's step: the settler d keeps its state and its locks, and what   *)
(* is posted or settled is not on its rows.                                *)
Elsewhere(d) ==
  /\ spc'[d] = spc[d] /\ run'[d] = run[d] /\ sseen'[d] = sseen[d] /\ sview'[d] = sview[d]
  /\ \A a \in DOMAIN sseen[d] : rowLock'[a] = rowLock[a] /\ balance'[a] = balance[a]
  /\ Grows
  /\ \A i \in DOMAIN journal' \ DOMAIN journal :
       LegAccounts(journal'[i]) \intersect DOMAIN sseen[d] = {}
  /\ settled \subseteq settled'
  /\ \A p \in settled' \ settled : p \in DOMAIN journal /\ Merchant(journal, p) \notin DOMAIN sseen[d]

LEMMA Undisturbed ==
  ASSUME SInv, Sound(journal), Sound(journal'), NEW d \in Settler, Elsewhere(d)
  PROVE  SettlerInv(d)'
<1> DEFINE n == Len(journal)
           k == Len(journal')
<1>1. /\ SettlerInv(d) /\ DOMAIN journal = 1 .. n /\ DOMAIN journal' = 1 .. k
      /\ n \in Nat /\ k \in Nat
  BY DEF SInv, Sound
<1>2. /\ spc'[d] = spc[d] /\ run'[d] = run[d] /\ sseen'[d] = sseen[d] /\ sview'[d] = sview[d]
      /\ \A i \in DOMAIN journal : i \in DOMAIN journal' /\ journal'[i] = journal[i]
  BY DEF Elsewhere, Grows
<1>3. SFreshReads(d)' /\ RailsKnown(d)' /\ SRowsLocked(d)' /\ SAscending(d)'
  <2>1. SFreshReads(d)'
    BY <1>1, <1>2 DEF Elsewhere, SettlerInv, SFreshReads
  <2>2. RailsKnown(d)' /\ SRowsLocked(d)' /\ SAscending(d)'
    BY <1>1, <1>2 DEF SettlerInv, RailsKnown, SRowsLocked, SAscending, SToLock
  <2> QED BY <2>1, <2>2
<1>4. SSnapCurrent(d)'
  <2> SUFFICES ASSUME Mode = "serializable", NEW a \in DOMAIN sseen[d], NEW i \in sview[d].n + 1 .. k
               PROVE  a \notin LegAccounts(journal'[i])
    BY <1>2 DEF SSnapCurrent, LegAccounts
  <2>1. sview[d].n \in Nat
    BY DEF SInv, SettlementTypeOK
  <2>2. i \in DOMAIN journal'
    BY <1>1, <2>1
  <2>3. CASE i \in DOMAIN journal
    <3>1. i \in sview[d].n + 1 .. n
      BY <1>1, <2>1, <2>3
    <3>2. a \notin LegAccounts(journal[i])
      BY <1>1, <3>1 DEF SettlerInv, SSnapCurrent
    <3> QED BY <1>2, <2>3, <3>2
  <2>4. CASE i \notin DOMAIN journal
    BY <2>2, <2>4 DEF Elsewhere
  <2> QED BY <2>3, <2>4
<1>5. StillPayable(d)'
  BY <1>1, <1>2, PayableStays DEF SettlerInv, StillPayable
<1>6. ASSUME spc[d] \in {"nets", "ids", "payout", "commit"}, NEW m \in run[d].merchants
      PROVE  LET P == PendingOf(journal, n, View(d).settled, {m}) IN
             /\ PendingOf(journal', k, View(d).settled', {m}) = P
             /\ NetOf(journal', k, P) = NetOf(journal, n, P)
  <2>1. m \in DOMAIN sseen[d]
    BY <1>1, <1>6 DEF SettlerInv, SRowsLocked
  <2>2. Untouched(journal', n, k, m)
    <3> SUFFICES ASSUME NEW i \in n + 1 .. k
                 PROVE  m \notin LegAccounts(journal'[i])
      BY DEF Untouched
    <3>1. i \in DOMAIN journal' \ DOMAIN journal
      BY <1>1
    <3> QED BY <2>1, <3>1 DEF Elsewhere
  <2>3. /\ View(d).settled \subseteq View(d).settled'
        /\ \A p \in View(d).settled' \ View(d).settled : p \in DOMAIN journal => Merchant(journal, p) # m
    BY <1>2, <2>1 DEF View, Now, Elsewhere
  <2>4. DOMAIN journal \subseteq DOMAIN journal' /\ \A i \in DOMAIN journal : journal'[i] = journal[i]
    BY <1>2
  <2> DEFINE S == View(d).settled
             T == View(d).settled'
             h == journal'
  <2>5. /\ Sound(journal) /\ Sound(h) /\ DOMAIN journal \subseteq DOMAIN h
        /\ \A i \in DOMAIN journal : h[i] = journal[i]
        /\ Untouched(h, Len(journal), Len(h), m)
        /\ S \subseteq T /\ \A p \in T \ S : p \in DOMAIN journal => Merchant(journal, p) # m
    BY <2>2, <2>3, <2>4
  <2> HIDE DEF S, T, h
  <2>6. LET P == PendingOf(journal, Len(journal), S, {m}) IN
        /\ PendingOf(h, Len(h), T, {m}) = P
        /\ NetOf(h, Len(h), P) = NetOf(journal, Len(journal), P)
    BY <2>5, NetKept
  <2> QED BY <2>6 DEF S, T, h
<1>7. NetsCurrent(d)'
  <2>1. ASSUME spc[d] \in {"ids", "payout", "commit"}
        PROVE  run[d].nets = [m \in run[d].merchants |->
                 NetOf(journal', k, PendingOf(journal', k, View(d).settled', {m}))]
    <3>1. run[d].nets = [m \in run[d].merchants |->
            NetOf(journal, n, PendingOf(journal, n, View(d).settled, {m}))]
      BY <1>1, <2>1 DEF SettlerInv, NetsCurrent
    <3>2. \A m \in run[d].merchants :
            NetOf(journal', k, PendingOf(journal', k, View(d).settled', {m}))
              = NetOf(journal, n, PendingOf(journal, n, View(d).settled, {m}))
      BY <1>6, <2>1
    <3> QED BY <3>1, <3>2
  <2>2. ASSUME spc[d] \in {"payout", "commit"}
        PROVE  run[d].payments = PendingOf(journal', k, View(d).settled', run[d].merchants)
    <3>1. run[d].payments = PendingOf(journal, n, View(d).settled, run[d].merchants)
      BY <1>1, <2>2 DEF SettlerInv, NetsCurrent
    <3>2. \A m \in run[d].merchants :
            PendingOf(journal', k, View(d).settled', {m}) = PendingOf(journal, n, View(d).settled, {m})
      BY <1>6, <2>2
    <3>3. PendingOf(journal', k, View(d).settled', run[d].merchants)
            = PendingOf(journal, n, View(d).settled, run[d].merchants)
      <4>1. SamePending(journal, n, View(d).settled, journal', k, View(d).settled', run[d].merchants)
        BY <3>2 DEF SamePending
      <4> QED BY <4>1, PendingEach
    <3> QED BY <3>1, <3>3
  <2>3. ASSUME spc[d] = "commit"
        PROVE  run[d].payments \intersect settled' = {}
    <3>1. /\ run[d].payments = PendingOf(journal, n, View(d).settled, run[d].merchants)
          /\ run[d].payments \intersect settled = {}
      BY <1>1, <2>3 DEF SettlerInv, NetsCurrent
    <3>2. \A p \in run[d].payments : Merchant(journal, p) \in DOMAIN sseen[d]
      BY <1>1, <2>3, <3>1 DEF SettlerInv, SRowsLocked, PendingOf
    <3> QED BY <3>1, <3>2 DEF Elsewhere
  <2> QED BY <1>2, <2>1, <2>2, <2>3 DEF NetsCurrent
<1> QED BY <1>3, <1>4, <1>5, <1>7 DEF SettlerInv

-----------------------------------------------------------------------------
(* A step of a client.  It takes rows nobody has and gives back its own.   *)
LEMMA ClientRows ==
  ASSUME IInv, [Next]_vars, NEW a \in Account
  PROVE  \/ rowLock'[a] = rowLock[a]
         \/ rowLock[a] \notin Settler /\ rowLock'[a] \notin Settler
<1> DEFINE kept == \/ rowLock'[a] = rowLock[a]
                   \/ rowLock[a] \notin Settler /\ rowLock'[a] \notin Settler
<1>1. NoHolder \notin Settler /\ Session \intersect Settler = {}
  BY SettlerAssumption, SessionAssumption
<1>2. ASSUME NEW s \in Session, Release(s)
      PROVE  kept
  BY <1>1, <1>2 DEF Release
<1>3. ASSUME NEW s \in Session, LockAccount(s)
      PROVE  kept
  <2>1. PICK b \in Account : rowLock[b] = NoHolder /\ rowLock' = [rowLock EXCEPT ![b] = s]
    BY <1>3 DEF LockAccount
  <2> QED BY <1>1, <2>1 DEF IInv, TypeOK, LockType
<1>4. ASSUME NEW s \in Session, NEW r \in Request, NEW k \in Key \union {NoKey},
             Refuse(s, r, k) \/ Call(s, r, k)
      PROVE  kept
  BY <1>4 DEF Refuse, Call, Send, locks
<1>5. ASSUME NEW s \in Session,
             \/ BeginTx(s) \/ ClaimKey(s) \/ KeyTaken(s) \/ AllLocked(s) \/ PostLegs(s)
             \/ CheckGuard(s) /\ rowLock' = rowLock
      PROVE  kept
  BY <1>5 DEF BeginTx, ClaimKey, KeyTaken, AllLocked, PostLegs, locks
<1>6. ASSUME NEW s \in Session,
             \/ ReadReplay(s) \/ RejectEntry(s) \/ CheckGuard(s) \/ RejectPosting(s) \/ CommitTx(s)
             \/ CommitAnswerLost(s) \/ Retry(s) \/ Exhausted(s) \/ Abort(s)
      PROVE  Release(s) \/ (CheckGuard(s) /\ rowLock' = rowLock)
  BY <1>6 DEF ReadReplay, RejectEntry, CheckGuard, RejectPosting, CommitTx, CommitAnswerLost,
              Retry, Exhausted, Abort, Return, locks
<1>7. ASSUME UNCHANGED vars
      PROVE  kept
  BY <1>7 DEF vars, locks
<1> HIDE DEF kept
<1>8. ASSUME NEW s \in Session, Step(s) \/ Abort(s)
      PROVE  kept
  BY <1>2, <1>3, <1>5, <1>6, <1>8 DEF Step, Progress
<1>9. kept
  BY <1>4, <1>7, <1>8 DEF Next, Terminating
<1> QED BY <1>9 DEF kept

(* A call to refund takes it from the merchant of its payment.             *)
LEMMA RefundCall ==
  ASSUME ClientInv, NEW s \in Session, pc[s] # "idle", job[s].entry.kind = "refund"
  PROVE  LET e == job[s].entry IN
         IsPayment(journal, e.ref) /\ Merchant(journal, e.ref) \in LegAccounts(e)
<1> DEFINE r == job[s].req
           e == job[s].entry
           p == journal[r.payment]
           m == MerchantLeg(p).acct
<1>1. e = EntryFor(journal, r) /\ r \in Request /\ Pinned(r)
  BY DEF ClientInv, AnswerInv, EntriesCurrent, IInv, TypeOK, SessionType, Job
<1>2. r.op = "refund"
      /\ e = Entry("refund", r.payment, TwoLegs(m, SourceLeg(p).acct, MerchantLeg(p).cur, r.amount))
  BY <1>1, RequestAssumption DEF EntryFor, Entry
<1> HIDE DEF e, m
<1>3. e.ref = r.payment /\ 1 \in DOMAIN e.legs /\ e.legs[1].acct = m
  BY <1>2 DEF Entry, TwoLegs, Leg
<1>4. IsPayment(journal, e.ref)
  BY <1>1, <1>2, <1>3 DEF Pinned
<1>5. m \in LegAccounts(e)
  BY <1>3 DEF LegAccounts
<1> QED BY <1>3, <1>4, <1>5 DEF Merchant, m, e

(* What a client's commit adds to the journal.                             *)
LEMMA ClientPosts ==
  ASSUME ClientInv, NEW s \in Session, pc[s] = "commit", Publish(s)
  PROVE  LET n == Len(journal)
             p == Posted(job[s].entry, job[s].key)
         IN  /\ journal \in Seq(JournalEntry) /\ journal' \in Seq(JournalEntry) /\ n \in Nat
             /\ DOMAIN journal = 1 .. n /\ DOMAIN journal' = 1 .. n + 1 /\ Len(journal') = n + 1
             /\ journal'[n + 1] = p /\ p \in JournalEntry
             /\ \A i \in 1 .. n : journal'[i] = journal[i]
             /\ LegAccounts(p) \subseteq DOMAIN seen[s] /\ Grows
             /\ p.kind = job[s].entry.kind /\ p.ref = job[s].entry.ref /\ p.legs = job[s].entry.legs
<1> DEFINE e == job[s].entry
           p == Posted(e, job[s].key)
           n == Len(journal)
<1>1. job[s] \in Job /\ journal \in Seq(JournalEntry) /\ n \in Nat /\ DOMAIN journal = 1 .. n
  BY DEF ClientInv, IInv, TypeOK, DbType, SessionType
<1>2. p \in JournalEntry /\ p.kind = e.kind /\ p.ref = e.ref /\ p.legs = e.legs
  BY <1>1 DEF Posted, JournalEntry, Job
<1>3. LegAccounts(p) \subseteq DOMAIN seen[s]
  BY <1>2 DEF ClientInv, RowsLocked, LegAccounts
<1>4. journal' = Append(journal, p)
  BY DEF Publish
<1> HIDE DEF p
<1>5. /\ journal' \in Seq(JournalEntry) /\ DOMAIN journal' = 1 .. n + 1 /\ Len(journal') = n + 1
      /\ journal'[n + 1] = p /\ \A i \in 1 .. n : journal'[i] = journal[i]
  BY <1>1, <1>2, <1>4
<1>6. Grows
  BY <1>1, <1>5 DEF Grows
<1> QED BY <1>1, <1>2, <1>3, <1>5, <1>6 DEF p

(* So a settler is left alone by the clients, and refunds in the journal   *)
(* are on the rows of their merchants.                                     *)
LEMMA ClientElsewhere ==
  ASSUME ClientInv, SInv, [Next]_vars, UNCHANGED svars
  PROVE  RefundsOnMerchant' /\ Grows /\ \A d \in Settler : Elsewhere(d)
<1>1. settled' = settled /\ spc' = spc /\ run' = run /\ sseen' = sseen /\ sview' = sview
  BY DEF svars
<1>2. ASSUME NEW d \in Settler, NEW a \in DOMAIN sseen[d]
      PROVE  a \in Account /\ rowLock[a] = d /\ rowLock'[a] = rowLock[a]
  <2>1. a \in Account /\ rowLock[a] = d
    BY DEF SInv, SettlementTypeOK, SettlerInv, SFreshReads
  <2> QED BY <2>1, ClientRows DEF ClientInv
<1>3. CASE UNCHANGED db
  <2>1. balance' = balance /\ journal' = journal
    BY <1>3 DEF db
  <2>2. RefundsOnMerchant'
    BY <2>1 DEF SInv, RefundsOnMerchant, IsPayment, Merchant, LegAccounts
  <2>3. Grows
    BY <2>1, GrowsNot
  <2> QED BY <1>1, <1>2, <2>1, <2>2, <2>3 DEF Elsewhere
<1>4. ASSUME NEW s \in Session, pc[s] = "commit", Publish(s)
      PROVE  RefundsOnMerchant' /\ Grows /\ \A d \in Settler : Elsewhere(d)
  <2> DEFINE n == Len(journal)
             e == job[s].entry
             p == Posted(e, job[s].key)
  <2>1. /\ n \in Nat /\ DOMAIN journal = 1 .. n /\ DOMAIN journal' = 1 .. n + 1
        /\ journal'[n + 1] = p /\ \A i \in 1 .. n : journal'[i] = journal[i]
        /\ LegAccounts(p) \subseteq DOMAIN seen[s] /\ Grows
        /\ p.kind = e.kind /\ p.ref = e.ref /\ p.legs = e.legs
    BY <1>4, ClientPosts
  <2> HIDE DEF p
  <2>2. p.kind = "refund" => IsPayment(journal, p.ref) /\ Merchant(journal, p.ref) \in LegAccounts(p)
    BY <1>4, <2>1, RefundCall DEF LegAccounts
  <2>3. \A a \in DOMAIN seen[s] : a \in Account /\ rowLock[a] = s
    BY DEF ClientInv, IInv, FreshReads, TypeOK, SessionType
  <2>4. RefundsOnMerchant'
    <3> SUFFICES ASSUME NEW i \in DOMAIN journal', journal'[i].kind = "refund"
                 PROVE  /\ IsPayment(journal', journal'[i].ref)
                        /\ Merchant(journal', journal'[i].ref) \in LegAccounts(journal'[i])
      BY DEF RefundsOnMerchant, IsPayment, Merchant, LegAccounts
    <3>1. PICK q : q = journal'[i]
      OBVIOUS
    <3>2. IsPayment(journal, q.ref) /\ Merchant(journal, q.ref) \in LegAccounts(q)
      BY <2>1, <2>2, <3>1 DEF SInv, RefundsOnMerchant
    <3>3. q.ref \in 1 .. n /\ journal'[q.ref] = journal[q.ref]
      BY <2>1, <3>2 DEF IsPayment
    <3>4. IsPayment(journal', q.ref) /\ Merchant(journal', q.ref) = Merchant(journal, q.ref)
      BY <2>1, <3>2, <3>3 DEF IsPayment, Merchant
    <3> QED BY <3>1, <3>2, <3>4
  <2>5. ASSUME NEW d \in Settler
        PROVE  Elsewhere(d)
    <3>1. \A a \in DOMAIN sseen[d] : a \notin DOMAIN seen[s]
      BY <1>2, <2>3, SettlerAssumption
    <3>2. \A a \in DOMAIN sseen[d] : balance'[a] = balance[a]
      BY <1>2, <1>4, <3>1 DEF Publish
    <3>3. \A i \in DOMAIN journal' \ DOMAIN journal : i = n + 1
      BY <2>1
    <3>4. \A i \in DOMAIN journal' \ DOMAIN journal :
            LegAccounts(journal'[i]) \intersect DOMAIN sseen[d] = {}
      BY <2>1, <3>1, <3>3
    <3> QED BY <1>1, <1>2, <2>1, <3>2, <3>4 DEF Elsewhere
  <2> QED BY <2>1, <2>4, <2>5
<1> QED BY <1>3, <1>4, CommitOrNothing

LEMMA JournalStaysSound == ClientInv' /\ RefundsOnMerchant' => Sound(journal')
<1> SUFFICES ASSUME ClientInv', RefundsOnMerchant'
             PROVE  Sound(journal')
  OBVIOUS
<1>1. journal' \in Seq(JournalEntry) /\ \A n \in DOMAIN journal' : LegAccounts(journal'[n]) \subseteq Account
  BY DEF ClientInv, IInv, TypeOK, DbType, JournalSound, LegAccounts
<1>2. \A n \in DOMAIN journal' : TwoSided(journal'[n])
  BY DEF ClientInv, IInv, PaymentShape, TwoSided
<1>3. \A n \in DOMAIN journal' : journal'[n].kind = "refund" =>
        /\ IsPayment(journal', journal'[n].ref)
        /\ Merchant(journal', journal'[n].ref) \in LegAccounts(journal'[n])
  BY DEF RefundsOnMerchant, IsPayment, Merchant, LegAccounts
<1> QED BY <1>1, <1>2, <1>3 DEF Sound

(* Types and places are kept as the journal grows.                         *)
LEMMA GrowthFacts ==
  ASSUME Grows, Sound(journal), Sound(journal')
  PROVE  /\ DOMAIN journal = 1 .. Len(journal) /\ DOMAIN journal' = 1 .. Len(journal')
         /\ Len(journal) \in Nat /\ Len(journal') \in Nat /\ Len(journal) <= Len(journal')
         /\ DOMAIN journal \subseteq DOMAIN journal'
<1> DEFINE n == Len(journal)
           k == Len(journal')
<1>1. /\ DOMAIN journal = 1 .. n /\ DOMAIN journal' = 1 .. k /\ n \in Nat /\ k \in Nat
      /\ DOMAIN journal \subseteq DOMAIN journal'
  BY DEF Sound, Grows
<1> HIDE DEF n, k
<1>2. n <= k
  <2>1. CASE n = 0
    BY <1>1, <2>1
  <2>2. CASE n # 0
    <3>1. n \in 1 .. n
      BY <1>1, <2>2
    <3> QED BY <1>1, <3>1
  <2> QED BY <2>1, <2>2
<1> QED BY <1>1, <1>2 DEF n, k

(* A sequence of some things is one of more things.                        *)
LEMMA SeqOfMore ==
  ASSUME NEW A, NEW B, A \subseteq B, NEW q \in Seq(A)
  PROVE  q \in Seq(B) /\ \A i \in DOMAIN q : q[i] \in A
OBVIOUS

LEMMA BatchesKept ==
  ASSUME SInv, Grows, Sound(journal), Sound(journal'), batches' = batches
  PROVE  /\ BatchesPlaced'
         /\ batches' \in Seq([payments : SUBSET (DOMAIN journal'), at : Nat, n : Nat])
<1>1. /\ Len(journal) \in Nat /\ Len(journal') \in Nat /\ Len(journal) <= Len(journal')
      /\ DOMAIN journal \subseteq DOMAIN journal'
  BY GrowthFacts
<1>2. batches \in Seq([payments : SUBSET (DOMAIN journal), at : Nat, n : Nat])
  BY DEF SInv, SettlementTypeOK
<1> DEFINE R == [payments : SUBSET (DOMAIN journal), at : Nat, n : Nat]
           Q == [payments : SUBSET (DOMAIN journal'), at : Nat, n : Nat]
<1>3. R \subseteq Q /\ \A b \in R : b.at \in Nat /\ b.n \in Nat
  BY <1>1
<1> HIDE DEF R, Q
<1>4. batches \in Seq(Q) /\ \A i \in DOMAIN batches : batches[i] \in R
  BY <1>2, <1>3, SeqOfMore DEF R
<1>5. \A i \in DOMAIN batches : batches[i].at \in Nat /\ batches[i].n \in Nat
  BY <1>3, <1>4
<1>6. BatchesPlaced'
  BY <1>1, <1>5 DEF SInv, BatchesPlaced
<1> QED BY <1>4, <1>6 DEF Q

(* A step of a client keeps what is known of the settlers.                 *)
LEMMA ClientKeepsSettlers ==
  ASSUME ClientInv, SInv, [Next]_vars, UNCHANGED svars
  PROVE  ClientInv' /\ SInv'
<1>1. ClientInv' /\ RefundsOnMerchant' /\ Grows /\ \A d \in Settler : Elsewhere(d)
  BY NextClients, ClientElsewhere
<1>2. Sound(journal) /\ Sound(journal')
  BY <1>1, JournalIsSound, JournalStaysSound DEF SInv
<1>3. \A d \in Settler : SettlerInv(d)'
  BY <1>1, <1>2, Undisturbed
<1>4. /\ settled' = settled /\ batches' = batches /\ spc' = spc /\ run' = run
      /\ sseen' = sseen /\ sview' = sview /\ sattempt' = sattempt
  BY DEF svars
<1>5. BatchesPlaced' /\ batches' \in Seq([payments : SUBSET (DOMAIN journal'), at : Nat, n : Nat])
  BY <1>1, <1>2, <1>4, BatchesKept
<1>6. /\ DOMAIN journal \subseteq DOMAIN journal'
      /\ \A i : i \in 0 .. Len(journal) => i \in 0 .. Len(journal')
  BY <1>1, <1>2, GrowthFacts
<1>7. SettlementTypeOK'
  <2>1. sview' \in [Settler -> [n : 0 .. Len(journal'), settled : SUBSET settled']]
    <3>1. sview \in [Settler -> [n : 0 .. Len(journal), settled : SUBSET settled]]
      BY DEF SInv, SettlementTypeOK
    <3>2. \A v \in [n : 0 .. Len(journal), settled : SUBSET settled] :
            v \in [n : 0 .. Len(journal'), settled : SUBSET settled]
      BY <1>6
    <3> QED BY <1>4, <3>1, <3>2
  <2>2. \A d \in Settler : RunType(run[d])'
    BY <1>4, <1>6 DEF SInv, SettlementTypeOK, RunType
  <2> QED BY <1>4, <1>5, <1>6, <2>1, <2>2 DEF SInv, SettlementTypeOK
<1>8. SLocksHeld'
  <2> SUFFICES ASSUME NEW a \in Account, rowLock'[a] \in Settler
               PROVE  a \in DOMAIN sseen[rowLock'[a]]
    BY <1>4 DEF SLocksHeld
  <2>1. rowLock'[a] = rowLock[a]
    BY ClientRows DEF ClientInv
  <2> QED BY <2>1 DEF SInv, SLocksHeld
<1> QED BY <1>1, <1>3, <1>5, <1>7, <1>8 DEF SInv

-----------------------------------------------------------------------------
(* A step of settler d that commits nothing.                               *)
LEMMA QuietSettler ==
  ASSUME ClientInv, SInv, NEW d \in Settler,
         UNCHANGED <<db, keyLock, cvars, settled, batches>>, SettlerLocks,
         \A x \in Settler \ {d} :
           /\ spc'[x] = spc[x] /\ run'[x] = run[x] /\ sseen'[x] = sseen[x] /\ sview'[x] = sview[x]
           /\ \A a \in DOMAIN sseen[x] : rowLock'[a] = rowLock[a],
         SettlementTypeOK', SLocksHeld', SettlerInv(d)'
  PROVE  ClientInv' /\ SInv'
<1>1. ClientInv'
  BY ClientsUnmoved
<1>2. balance' = balance /\ journal' = journal /\ settled' = settled /\ batches' = batches
  BY DEF db
<1>3. RefundsOnMerchant' /\ Grows
  BY <1>2, GrowsNot DEF SInv, RefundsOnMerchant, IsPayment, Merchant, LegAccounts
<1>4. Sound(journal) /\ Sound(journal')
  BY <1>1, <1>3, JournalIsSound, JournalStaysSound DEF SInv
<1>5. ASSUME NEW x \in Settler \ {d}
      PROVE  SettlerInv(x)'
  <2>1. Elsewhere(x)
    BY <1>2, <1>3 DEF Elsewhere
  <2> QED BY <1>4, <2>1, Undisturbed
<1>6. BatchesPlaced'
  BY <1>2, <1>3, <1>4, BatchesKept
<1> QED BY <1>1, <1>3, <1>5, <1>6 DEF SInv

(* The type of what it keeps.                                              *)
LEMMA SettlerTyped ==
  ASSUME ClientInv, SInv, NEW d \in Settler, UNCHANGED <<db, settled, batches>>,
         NEW l \in {"idle", "begin", "candidates", "lock", "nets", "ids", "payout", "commit"}, SGoto(d, l),
         NEW r, RunType(r),
         DOMAIN run' = Settler, \A x \in Settler : run'[x] = IF x = d THEN r ELSE run[x],
         NEW q, DOMAIN q \subseteq Account, q \in [DOMAIN q -> Int64],
         DOMAIN sseen' = Settler, \A x \in Settler : sseen'[x] = IF x = d THEN q ELSE sseen[x],
         NEW v \in [n : 0 .. Len(journal), settled : SUBSET settled], sview' = [sview EXCEPT ![d] = v],
         sattempt' \in [Settler -> 0 .. MaxAttempts - 1]
  PROVE  SettlementTypeOK'
<1>1. journal' = journal /\ settled' = settled /\ batches' = batches
  BY DEF db
<1>2. SettlementTypeOK
  BY DEF SInv
<1>3. /\ spc' \in [Settler -> {"idle", "begin", "candidates", "lock", "nets", "ids", "payout", "commit"}]
  BY <1>2 DEF SettlementTypeOK, SGoto
<1>7. \A x \in Settler : RunType(run[x])'
  BY <1>1, <1>2 DEF SettlementTypeOK, RunType
<1>8. \A x \in Settler : DOMAIN sseen'[x] \subseteq Account /\ sseen'[x] \in [DOMAIN sseen'[x] -> Int64]
  BY <1>2 DEF SettlementTypeOK
<1>9. sview' \in [Settler -> [n : 0 .. Len(journal), settled : SUBSET settled]]
  BY <1>2 DEF SettlementTypeOK
<1> QED BY <1>1, <1>2, <1>3, <1>7, <1>8, <1>9 DEF SettlementTypeOK

LEMMA NothingTyped ==
  /\ RunType(NoRun) /\ DOMAIN NoRows = {} /\ NoRows \in [DOMAIN NoRows -> Int64]
  /\ \A n \in Nat : \A S : NoView \in [n : 0 .. n, settled : SUBSET S]
<1>1. IsFiniteSet({}) /\ DOMAIN NoRows = {} /\ NoRows \in [DOMAIN NoRows -> Int64]
  BY FS_EmptySet DEF NoRows
<1>2. RunType(NoRun)
  BY <1>1 DEF RunType, NoRun
<1>3. \A n \in Nat : \A S : NoView \in [n : 0 .. n, settled : SUBSET S]
  BY DEF NoView
<1> QED BY <1>1, <1>2, <1>3

(* Its transaction ends without a commit: it has nothing, and the rows it  *)
(* had are free.                                                           *)
LEMMA ReleasedRows ==
  ASSUME ClientInv, SInv, NEW d \in Settler, SRelease(d)
  PROVE  /\ SettlerLocks
         /\ \A x \in Settler \ {d} : \A a \in DOMAIN sseen[x] : rowLock'[a] = rowLock[a]
         /\ \A a \in Account : rowLock'[a] \in Settler => rowLock'[a] = rowLock[a] /\ rowLock[a] # d
         /\ \A x \in Settler : /\ run'[x] = IF x = d THEN NoRun ELSE run[x]
                               /\ sseen'[x] = IF x = d THEN NoRows ELSE sseen[x]
                               /\ sview'[x] = IF x = d THEN NoView ELSE sview[x]
         /\ DOMAIN sseen' = Settler /\ DOMAIN run' = Settler
<1>1. \A a \in Account : rowLock'[a] = IF rowLock[a] = d THEN NoHolder ELSE rowLock[a]
  BY DEF SRelease
<1>2. d \in Holder /\ d \notin Session /\ NoHolder \notin Session /\ NoHolder \notin Settler
  BY SettlerAssumption, SessionAssumption
<1>3. rowLock' \in [Account -> Holder \union {NoHolder}]
  BY DEF SRelease, ClientInv, IInv, TypeOK, LockType
<1>4. SettlerLocks
  BY <1>1, <1>2, <1>3 DEF SettlerLocks
<1>5. \A x \in Settler : \A a \in DOMAIN sseen[x] : a \in Account /\ rowLock[a] = x
  BY DEF SInv, SettlementTypeOK, SettlerInv, SFreshReads
<1>6. /\ \A x \in Settler : /\ run'[x] = IF x = d THEN NoRun ELSE run[x]
                            /\ sseen'[x] = IF x = d THEN NoRows ELSE sseen[x]
                            /\ sview'[x] = IF x = d THEN NoView ELSE sview[x]
      /\ DOMAIN sseen' = Settler /\ DOMAIN run' = Settler
  BY DEF SRelease, SInv, SettlementTypeOK
<1> QED BY <1>1, <1>2, <1>4, <1>5, <1>6

LEMMA IdleSettler ==
  ASSUME NEW d, DOMAIN sseen[d]' = {}, run'[d] = NoRun, spc'[d] \in {"idle", "begin", "candidates"}
  PROVE  SettlerInv(d)'
BY DEF SettlerInv, SFreshReads, RailsKnown, SRowsLocked, SSnapCurrent, NetsCurrent, StillPayable, SAscending

LEMMA ReleasedSettler ==
  ASSUME ClientInv, SInv, NEW d \in Settler, UNCHANGED <<db, settled, batches>>, SRelease(d),
         NEW l \in {"idle", "begin"}, SGoto(d, l), sattempt' \in [Settler -> 0 .. MaxAttempts - 1]
  PROVE  ClientInv' /\ SInv'
<1>1. /\ SettlerLocks
      /\ \A x \in Settler \ {d} : \A a \in DOMAIN sseen[x] : rowLock'[a] = rowLock[a]
      /\ \A a \in Account : rowLock'[a] \in Settler => rowLock'[a] = rowLock[a] /\ rowLock[a] # d
      /\ \A x \in Settler : /\ run'[x] = IF x = d THEN NoRun ELSE run[x]
                            /\ sseen'[x] = IF x = d THEN NoRows ELSE sseen[x]
                            /\ sview'[x] = IF x = d THEN NoView ELSE sview[x]
      /\ DOMAIN sseen' = Settler /\ DOMAIN run' = Settler
  BY ReleasedRows
<1>2. \A x \in Settler : spc'[x] = IF x = d THEN l ELSE spc[x]
  BY DEF SGoto, SInv, SettlementTypeOK
<1>3. DOMAIN NoRows = {} /\ DOMAIN NoRows \subseteq Account /\ NoView \in [n : 0 .. Len(journal), settled : SUBSET settled]
  BY NothingTyped DEF ClientInv, IInv, TypeOK, DbType
<1>4. SettlementTypeOK'
  <2>1. sview' = [sview EXCEPT ![d] = NoView]
    BY DEF SRelease
  <2>2. RunType(NoRun) /\ DOMAIN NoRows \subseteq Account /\ NoRows \in [DOMAIN NoRows -> Int64]
    BY NothingTyped
  <2>3. l \in {"idle", "begin", "candidates", "lock", "nets", "ids", "payout", "commit"}
    OBVIOUS
  <2> HIDE DEF NoRun, NoRows, NoView
  <2> QED BY <1>1, <1>3, <2>1, <2>2, <2>3, SettlerTyped
<1>5. SLocksHeld'
  BY <1>1 DEF SInv, SLocksHeld
<1>6. SettlerInv(d)'
  BY <1>1, <1>2, <1>3, IdleSettler
<1>7. UNCHANGED <<db, keyLock, cvars, settled, batches>>
  BY DEF SRelease
<1> QED BY <1>1, <1>2, <1>4, <1>5, <1>6, <1>7, QuietSettler

(* It moves on: it keeps its locks.                                        *)
LEMMA MovedSettler ==
  ASSUME ClientInv, SInv, NEW d \in Settler, UNCHANGED <<vars, settled, batches, sseen, sattempt>>,
         NEW l \in {"idle", "begin", "candidates", "lock", "nets", "ids", "payout", "commit"}, SGoto(d, l),
         NEW r, RunType(r),
         DOMAIN run' = Settler, \A x \in Settler : run'[x] = IF x = d THEN r ELSE run[x],
         NEW v \in [n : 0 .. Len(journal), settled : SUBSET settled], sview' = [sview EXCEPT ![d] = v],
         SettlerInv(d)'
  PROVE  ClientInv' /\ SInv'
<1>1. UNCHANGED <<db, keyLock, cvars, settled, batches>> /\ rowLock' = rowLock /\ sseen' = sseen /\ sattempt' = sattempt
  BY DEF vars, locks, cvars
<1>2. SettlerLocks
  BY <1>1 DEF SettlerLocks, ClientInv, IInv, TypeOK, LockType
<1>3. \A x \in Settler \ {d} : /\ spc'[x] = spc[x] /\ run'[x] = run[x] /\ sseen'[x] = sseen[x]
                               /\ sview'[x] = sview[x]
  BY <1>1 DEF SGoto, SInv, SettlementTypeOK
<1>4. SettlementTypeOK'
  <2>1. DOMAIN sseen[d] \subseteq Account /\ sseen[d] \in [DOMAIN sseen[d] -> Int64]
    BY DEF SInv, SettlementTypeOK
  <2>2. /\ DOMAIN sseen' = Settler /\ \A x \in Settler : sseen'[x] = IF x = d THEN sseen[d] ELSE sseen[x]
        /\ sattempt' \in [Settler -> 0 .. MaxAttempts - 1]
    BY <1>1 DEF SInv, SettlementTypeOK
  <2>3. UNCHANGED <<db, settled, batches>>
    BY <1>1
  <2> QED BY <2>1, <2>2, <2>3, SettlerTyped
<1>5. SLocksHeld'
  BY <1>1 DEF SInv, SLocksHeld
<1> QED BY <1>1, <1>2, <1>3, <1>4, <1>5, QuietSettler

LEMMA ReturnedSettler ==
  ASSUME ClientInv, SInv, NEW d \in Settler, UNCHANGED <<db, settled, batches>>, SReturn(d)
  PROVE  ClientInv' /\ SInv'
<1>1. sattempt' \in [Settler -> 0 .. MaxAttempts - 1]
  BY ModeAssumption DEF SReturn, SInv, SettlementTypeOK
<1> QED BY <1>1, ReleasedSettler DEF SReturn

-----------------------------------------------------------------------------
(* One lemma for each step of settler d.                                   *)
LEMMA BeginKeeps ==
  ASSUME ClientInv, SInv, NEW d \in Settler, RunSettlement(d) \/ SBeginTx(d)
  PROVE  ClientInv' /\ SInv'
<1> DEFINE v == sview'[d]
<1>1. DOMAIN sseen[d] = {} /\ run[d] = NoRun
  BY DEF RunSettlement, SBeginTx, SInv, SettlerInv, SAscending
<1>2. \E l \in {"begin", "candidates"} : SGoto(d, l)
  BY DEF RunSettlement, SBeginTx
<1>3. UNCHANGED <<vars, settled, batches, sseen, sattempt>> /\ run' = run
  BY DEF RunSettlement, SBeginTx
<1>4. RunType(run[d]) /\ DOMAIN run' = Settler /\ \A x \in Settler : run'[x] = IF x = d THEN run[d] ELSE run[x]
  BY <1>3 DEF SInv, SettlementTypeOK
<1>5. \E w \in [n : 0 .. Len(journal), settled : SUBSET settled] : sview' = [sview EXCEPT ![d] = w]
  <2>1. sview \in [Settler -> [n : 0 .. Len(journal), settled : SUBSET settled]] /\ Len(journal) \in Nat
    BY DEF SInv, SettlementTypeOK, ClientInv, IInv, TypeOK, DbType
  <2>2. Now \in [n : 0 .. Len(journal), settled : SUBSET settled]
    BY <2>1 DEF Now
  <2>3. NoView \in [n : 0 .. Len(journal), settled : SUBSET settled]
    BY <2>1, NothingTyped
  <2>4. CASE RunSettlement(d)
    BY <2>1, <2>4 DEF RunSettlement
  <2>5. CASE SBeginTx(d)
    BY <2>2, <2>3, <2>5 DEF SBeginTx
  <2> QED BY <2>4, <2>5
<1>6. SettlerInv(d)'
  BY <1>1, <1>2, <1>3, IdleSettler DEF SGoto, SInv, SettlementTypeOK
<1> QED BY <1>2, <1>3, <1>4, <1>5, <1>6, MovedSettler

(* The merchants of the pending payments exist, and so do their rails.     *)
LEMMA CandidatesType ==
  ASSUME ClientInv, SInv, NEW n \in 0 .. Len(journal), NEW S
  PROVE  LET M == Candidates(journal, n, S) IN
         /\ M \subseteq Account /\ IsFiniteSet(M)
         /\ NoAccount \notin RailsOf(M) => RailsOf(M) \subseteq Account
<1> DEFINE P == Pending(journal, n, S)
           M == Candidates(journal, n, S)
<1>1. Sound(journal)
  BY JournalIsSound DEF SInv
<1>2. \A p \in P : IsPayment(journal, p)
  BY DEF Pending
<1>3. M \subseteq Account
  BY <1>1, <1>2, MerchantTouched DEF Candidates
<1>4. IsFiniteSet(M)
  <2>1. n \in Nat
    BY <1>1 DEF Sound
  <2>2. IsFiniteSet(1 .. n)
    BY <2>1, FS_Interval
  <2>3. IsFiniteSet(P)
    BY <2>2, FS_Subset DEF Pending
  <2> DEFINE f == [p \in P |-> Merchant(journal, p)]
  <2> HIDE DEF P
  <2>4. f \in Surjection(P, {f[p] : p \in P})
    BY DEF Surjection
  <2>5. IsFiniteSet({f[p] : p \in P})
    BY <2>3, <2>4, FS_Surjection
  <2>6. {f[p] : p \in P} = {Merchant(journal, p) : p \in P}
    OBVIOUS
  <2> QED BY <2>5, <2>6 DEF Candidates, P
<1>5. NoAccount \notin RailsOf(M) => RailsOf(M) \subseteq Account
  <2> HIDE DEF M
  <2> QED BY <1>3, PayoutAssumption, AccountAssumption DEF RailsOf
<1> QED BY <1>3, <1>4, <1>5

(* candidateMerchants.                                                     *)
LEMMA CandidatesKeep ==
  ASSUME ClientInv, SInv, NEW d \in Settler, CandidateMerchants(d)
  PROVE  ClientInv' /\ SInv'
<1> DEFINE M == Candidates(journal, View(d).n, View(d).settled)
           r == [run[d] EXCEPT !.merchants = M]
<1>1. View(d).n \in 0 .. Len(journal)
  BY DEF View, Now, SInv, SettlementTypeOK, ClientInv, IInv, TypeOK, DbType
<1>2. /\ M \subseteq Account /\ IsFiniteSet(M)
      /\ NoAccount \notin RailsOf(M) => RailsOf(M) \subseteq Account
  BY <1>1, CandidatesType
<1>3. spc[d] = "candidates" /\ UNCHANGED <<db, settled, batches>>
  BY DEF CandidateMerchants
<1>4. run[d] = NoRun /\ DOMAIN sseen[d] = {}
  BY <1>3 DEF SInv, SettlerInv, SAscending
<1>5. CASE SReturn(d)
  BY <1>3, <1>5, ReturnedSettler
<1>6. CASE ~SReturn(d)
  <2>1. /\ NoAccount \notin RailsOf(M) /\ run' = [run EXCEPT ![d] = r]
        /\ SGoto(d, "lock") /\ UNCHANGED <<vars, settled, batches, sseen, sview, sattempt>>
    BY <1>6 DEF CandidateMerchants, vars, locks, cvars
  <2>2. r.merchants = M /\ r.nets = NoRows /\ r.payments = {} /\ DOMAIN r = {"merchants", "nets", "payments"}
    BY <1>4 DEF NoRun
  <2>3. RunType(r)
    BY <1>2, <2>2, NothingTyped DEF RunType
  <2> HIDE DEF r, M
  <2>4. SettlementTypeOK
    BY DEF SInv
  <2>5. /\ DOMAIN run' = Settler /\ \A x \in Settler : run'[x] = IF x = d THEN r ELSE run[x]
        /\ spc'[d] = "lock" /\ sseen' = sseen /\ sview' = sview
    BY <2>1, <2>4 DEF SGoto, SettlementTypeOK
  <2>6. SettlerInv(d)'
    BY <1>2, <1>4, <2>1, <2>2, <2>5
       DEF SettlerInv, SFreshReads, RailsKnown, SRowsLocked, SSnapCurrent, NetsCurrent, StillPayable, SAscending
  <2>7. sview[d] \in [n : 0 .. Len(journal), settled : SUBSET settled] /\ sview' = [sview EXCEPT ![d] = sview[d]]
    BY <2>4, <2>5 DEF SettlementTypeOK
  <2> QED BY <2>1, <2>3, <2>5, <2>6, <2>7, MovedSettler
<1> QED BY <1>5, <1>6

(* lockAccounts.                                                           *)
LEMMA SLockKeeps ==
  ASSUME ClientInv, SInv, NEW d \in Settler, SLockAccount(d)
  PROVE  ClientInv' /\ SInv'
<1>1. PICK a \in Account :
        /\ SIsNext(d, a) /\ rowLock[a] = NoHolder /\ ~SStaleRow(d, a)
        /\ rowLock' = [rowLock EXCEPT ![a] = d]
        /\ sseen' = [sseen EXCEPT ![d] =
             [b \in DOMAIN sseen[d] \union {a} |-> IF b = a THEN balance[a] ELSE sseen[d][b]]]
  BY DEF SLockAccount
<1>2. spc[d] = "lock" /\ UNCHANGED <<db, keyLock, cvars, settled, batches, spc, run, sview, sattempt>>
  BY DEF SLockAccount
<1> DEFINE q == [b \in DOMAIN sseen[d] \union {a} |-> IF b = a THEN balance[a] ELSE sseen[d][b]]
<1>3. /\ DOMAIN sseen' = Settler /\ \A x \in Settler : sseen'[x] = IF x = d THEN q ELSE sseen[x]
      /\ DOMAIN sseen[d] \subseteq Account /\ sseen[d] \in [DOMAIN sseen[d] -> Int64]
      /\ run' = run /\ spc' = spc /\ sview' = sview /\ balance' = balance /\ journal' = journal
      /\ settled' = settled
  BY <1>1, <1>2 DEF SInv, SettlementTypeOK, db
<1>4. DOMAIN q \subseteq Account /\ q \in [DOMAIN q -> Int64]
  BY <1>3 DEF ClientInv, IInv, TypeOK, DbType
<1>5. /\ \A b \in Account : rowLock'[b] = IF b = a THEN d ELSE rowLock[b]
      /\ rowLock' \in [Account -> Holder \union {NoHolder}]
  BY <1>1, SettlerAssumption DEF ClientInv, IInv, TypeOK, LockType
<1>6. d \notin Session /\ NoHolder \notin Session /\ NoHolder \notin Settler
  BY SettlerAssumption, SessionAssumption
<1>7. SettlerLocks
  BY <1>1, <1>5, <1>6 DEF SettlerLocks
<1>8. \A x \in Settler : \A b \in DOMAIN sseen[x] : b \in Account /\ rowLock[b] = x /\ b # a
  BY <1>1, <1>6 DEF SInv, SettlementTypeOK, SettlerInv, SFreshReads
<1>9. SettlementTypeOK'
  <2>1. SettlementTypeOK
    BY DEF SInv
  <2>2. /\ SGoto(d, "lock") /\ RunType(run[d]) /\ sview[d] \in [n : 0 .. Len(journal), settled : SUBSET settled]
        /\ sview' = [sview EXCEPT ![d] = sview[d]] /\ sattempt' \in [Settler -> 0 .. MaxAttempts - 1]
        /\ DOMAIN run' = Settler /\ \A x \in Settler : run'[x] = IF x = d THEN run[d] ELSE run[x]
    BY <1>2, <1>3, <2>1 DEF SettlementTypeOK, SGoto
  <2>3. UNCHANGED <<db, settled, batches>> /\ "lock" \in {"idle", "begin", "candidates", "lock", "nets", "ids", "payout", "commit"}
    BY <1>2
  <2> HIDE DEF q
  <2> QED BY <1>3, <1>4, <2>2, <2>3, SettlerTyped
<1>10. SLocksHeld'
  BY <1>1, <1>3, <1>5, <1>6 DEF SInv, SLocksHeld
<1>11. SettlerInv(d)'
  <2>1. SettlerInv(d)
    BY DEF SInv
  <2>2. SFreshReads(d)'
    BY <1>3, <1>5, <2>1 DEF SettlerInv, SFreshReads
  <2>3. RailsKnown(d)' /\ SRowsLocked(d)' /\ NetsCurrent(d)' /\ StillPayable(d)'
    BY <1>2, <1>3, <2>1 DEF SettlerInv, RailsKnown, SRowsLocked, NetsCurrent, StillPayable
  <2>4. SSnapCurrent(d)'
    <3> SUFFICES ASSUME Mode = "serializable", NEW b \in DOMAIN q, NEW i \in sview[d].n + 1 .. Len(journal)
                 PROVE  b \notin LegAccounts(journal[i])
      BY <1>3 DEF SSnapCurrent, LegAccounts
    <3> QED BY <1>1, <2>1 DEF SettlerInv, SSnapCurrent, SStaleRow
  <2>5. SAscending(d)'
    <3>1. SToLock(d)' = SToLock(d) \ {a}
      BY <1>3 DEF SToLock
    <3>2. SToLock(d) \subseteq Nat /\ DOMAIN sseen[d] \subseteq Nat /\ a \in Nat
      <4>1. RunType(run[d]) /\ RailsOf(run[d].merchants) \subseteq Account
        BY <1>2, <2>1 DEF SInv, SettlementTypeOK, SettlerInv, RailsKnown
      <4> QED BY <1>3, <4>1, AccountAssumption DEF SToLock, RunType
    <3>3. a \in SToLock(d) /\ \A b \in SToLock(d) : a <= b
      BY <1>1 DEF SIsNext
    <3>4. \A b \in DOMAIN sseen[d], c \in SToLock(d) : b < c
      BY <1>2, <2>1 DEF SettlerInv, SAscending
    <3>5. \A b \in DOMAIN q, c \in SToLock(d) \ {a} : b < c
      BY <3>2, <3>3, <3>4
    <3> HIDE DEF q
    <3> QED BY <1>2, <1>3, <3>1, <3>5 DEF SAscending
  <2> QED BY <2>1, <2>2, <2>3, <2>4, <2>5 DEF SettlerInv
<1>12. UNCHANGED <<db, keyLock, cvars, settled, batches>>
  BY <1>2
<1>13. \A x \in Settler \ {d} :
         /\ spc'[x] = spc[x] /\ run'[x] = run[x] /\ sseen'[x] = sseen[x] /\ sview'[x] = sview[x]
         /\ \A b \in DOMAIN sseen[x] : rowLock'[b] = rowLock[b]
  BY <1>3, <1>5, <1>8
<1> QED BY <1>7, <1>9, <1>10, <1>11, <1>12, <1>13, QuietSettler

(* What it computes from its view is what it would compute from the        *)
(* journal as it is: the rows of its merchants are locked.                 *)
LEMMA ViewIsCurrent ==
  ASSUME ClientInv, SInv, NEW d \in Settler, spc[d] \in {"nets", "ids", "payout", "commit"},
         NEW m \in run[d].merchants
  PROVE  LET n == Len(journal)
             v == View(d)
             P == PendingOf(journal, n, v.settled, {m})
         IN  /\ PendingOf(journal, v.n, v.settled, {m}) = P
             /\ NetOf(journal, v.n, P) = NetOf(journal, n, P)
<1> DEFINE n == Len(journal)
           v == View(d)
<1>1. Sound(journal) /\ n \in Nat /\ n \in 0 .. n
  BY JournalIsSound DEF SInv, Sound
<1>2. CASE Mode = "serializable"
  <2>1. v = sview[d] /\ v.n \in 0 .. n
    BY <1>2 DEF View, SInv, SettlementTypeOK
  <2>2. m \in DOMAIN sseen[d]
    BY DEF SInv, SettlerInv, SRowsLocked
  <2>3. Untouched(journal, v.n, n, m)
    BY <1>2, <2>1, <2>2 DEF SInv, SettlerInv, SSnapCurrent, Untouched
  <2> HIDE DEF v, n
  <2>4. n \in 0 .. Len(journal) /\ v.n \in 0 .. n
    BY <1>1, <2>1 DEF n
  <2>5. LET P == PendingOf(journal, v.n, v.settled, {m}) IN
        PendingOf(journal, n, v.settled, {m}) = P /\ NetOf(journal, n, P) = NetOf(journal, v.n, P)
    BY <1>1, <2>3, <2>4, NetFrozen
  <2> QED BY <2>5 DEF n, v
<1>3. CASE Mode # "serializable"
  BY <1>3 DEF View, Now
<1> QED BY <1>2, <1>3

(* A step that keeps the locks, the snapshot and what was computed.        *)
LEMMA MovesOn ==
  ASSUME ClientInv, SInv, NEW d \in Settler, UNCHANGED <<vars, settled, batches, sseen, sview, sattempt>>,
         NEW l \in {"nets", "ids", "payout", "commit"}, SGoto(d, l),
         spc[d] \in {"lock", "nets", "ids", "payout"},
         NEW r, RunType(r), r.merchants = run[d].merchants,
         DOMAIN run' = Settler, \A x \in Settler : run'[x] = IF x = d THEN r ELSE run[x],
         SRowsLocked(d)', NetsCurrent(d)', StillPayable(d)'
  PROVE  ClientInv' /\ SInv'
<1>1. sview[d] \in [n : 0 .. Len(journal), settled : SUBSET settled] /\ sview' = [sview EXCEPT ![d] = sview[d]]
  BY DEF SInv, SettlementTypeOK
<1>2. /\ balance' = balance /\ journal' = journal /\ rowLock' = rowLock
      /\ UNCHANGED <<vars, settled, batches, sseen, sattempt>>
  BY DEF vars, db, locks
<1>3. spc'[d] = l /\ run'[d] = r
  BY DEF SGoto, SInv, SettlementTypeOK
<1>4. SettlerInv(d)
  BY DEF SInv
<1>5. SFreshReads(d)' /\ SSnapCurrent(d)' /\ RailsKnown(d)' /\ SAscending(d)'
  <2>1. SFreshReads(d)' /\ SAscending(d)'
    BY <1>2, <1>3, <1>4 DEF SettlerInv, SFreshReads, SAscending
  <2>2. SSnapCurrent(d)'
    BY <1>2, <1>4 DEF SettlerInv, SSnapCurrent, LegAccounts
  <2>3. RailsKnown(d)'
    BY <1>3, <1>4 DEF SettlerInv, RailsKnown
  <2> QED BY <2>1, <2>2, <2>3
<1>6. SettlerInv(d)'
  BY <1>5 DEF SettlerInv
<1> QED BY <1>1, <1>2, <1>6, MovedSettler

(* The last row is locked.                                                 *)
LEMMA AllLockedKeeps ==
  ASSUME ClientInv, SInv, NEW d \in Settler, SAllLocked(d)
  PROVE  ClientInv' /\ SInv'
<1>1. /\ spc[d] = "lock" /\ SGoto(d, "nets") /\ SToLock(d) = {}
      /\ UNCHANGED <<vars, settled, batches, sseen, sview, sattempt>> /\ run' = run
  BY DEF SAllLocked
<1>2. /\ spc'[d] = "nets" /\ sseen' = sseen
      /\ DOMAIN run' = Settler /\ \A x \in Settler : run'[x] = IF x = d THEN run[d] ELSE run[x]
      /\ RunType(run[d])
  BY <1>1 DEF SGoto, SInv, SettlementTypeOK
<1>3. SRowsLocked(d)' /\ NetsCurrent(d)' /\ StillPayable(d)'
  BY <1>1, <1>2 DEF SToLock, SRowsLocked, NetsCurrent, StillPayable
<1> QED BY <1>1, <1>2, <1>3, MovesOn

(* computeNetsLocked.                                                      *)
LEMMA NetsKeep ==
  ASSUME ClientInv, SInv, NEW d \in Settler, ComputeNets(d)
  PROVE  ClientInv' /\ SInv'
<1> DEFINE v == View(d)
           M == run[d].merchants
           net(m) == NetOf(journal, v.n, PendingOf(journal, v.n, v.settled, {m}))
           nets == [m \in M |-> net(m)]
           r == [run[d] EXCEPT !.nets = nets]
<1>1. spc[d] = "nets" /\ UNCHANGED <<db, settled, batches>>
  BY DEF ComputeNets
<1>2. CASE ~\A m \in M : net(m) \in Int64
  BY <1>1, <1>2, ReturnedSettler DEF ComputeNets
<1>3. CASE \A m \in M : net(m) \in Int64
  <2>1. /\ run' = [run EXCEPT ![d] = r] /\ SGoto(d, "ids")
        /\ UNCHANGED <<vars, settled, batches, sseen, sview, sattempt>>
    BY <1>3 DEF ComputeNets, vars, locks, cvars
  <2>2. /\ RunType(run[d]) /\ SRowsLocked(d) /\ SettlementTypeOK
    BY DEF SInv, SettlementTypeOK, SettlerInv
  <2>3. nets \in [M -> Int64] /\ DOMAIN nets = M
    BY <1>3
  <2>4. nets = [m \in M |-> NetOf(journal, Len(journal), PendingOf(journal, Len(journal), v.settled, {m}))]
    <3>1. \A m \in M : net(m) = NetOf(journal, Len(journal), PendingOf(journal, Len(journal), v.settled, {m}))
      BY <1>1, ViewIsCurrent
    <3> QED BY <3>1
  <2> HIDE DEF nets
  <2>5. r.merchants = M /\ r.nets = nets /\ r.payments = run[d].payments /\ DOMAIN r = {"merchants", "nets", "payments"}
    BY <2>2 DEF RunType
  <2>6. RunType(r)
    BY <2>2, <2>3, <2>5 DEF RunType
  <2> HIDE DEF r
  <2>7. /\ spc'[d] = "ids" /\ sseen' = sseen /\ journal' = journal /\ settled' = settled /\ sview' = sview
        /\ DOMAIN run' = Settler /\ \A x \in Settler : run'[x] = IF x = d THEN r ELSE run[x]
    BY <1>1, <2>1, <2>2 DEF SGoto, SettlementTypeOK, db
  <2>8. SRowsLocked(d)' /\ StillPayable(d)'
    BY <1>1, <2>2, <2>5, <2>7 DEF SRowsLocked, StillPayable
  <2>9. View(d)' = v
    BY <2>7 DEF View, Now
  <2>10. NetsCurrent(d)'
    BY <2>4, <2>5, <2>7, <2>9 DEF NetsCurrent
  <2> HIDE DEF v
  <2> QED BY <1>1, <2>1, <2>5, <2>6, <2>7, <2>8, <2>10, MovesOn
<1> QED BY <1>2, <1>3

(* The ids of the pending payments.                                        *)
LEMMA IdsKeep ==
  ASSUME ClientInv, SInv, NEW d \in Settler, PendingIds(d)
  PROVE  ClientInv' /\ SInv'
<1> DEFINE v == View(d)
           M == run[d].merchants
           ids == PendingOf(journal, v.n, v.settled, M)
           r == [run[d] EXCEPT !.payments = ids]
<1>1. /\ spc[d] = "ids" /\ run' = [run EXCEPT ![d] = r] /\ SGoto(d, "payout")
      /\ UNCHANGED <<vars, settled, batches, sseen, sview, sattempt>>
  BY DEF PendingIds
<1>2. /\ RunType(run[d]) /\ SRowsLocked(d) /\ SettlementTypeOK /\ NetsCurrent(d)
  BY DEF SInv, SettlementTypeOK, SettlerInv
<1>3. ids = PendingOf(journal, Len(journal), v.settled, M)
  <2>1. SamePending(journal, Len(journal), v.settled, journal, v.n, v.settled, M)
    BY <1>1, ViewIsCurrent DEF SamePending
  <2> QED BY <2>1, PendingEach
<1>4. ids \subseteq DOMAIN journal
  BY DEF PendingOf, Pending, IsPayment
<1> HIDE DEF ids
<1>5. r.merchants = M /\ r.nets = run[d].nets /\ r.payments = ids /\ DOMAIN r = {"merchants", "nets", "payments"}
  BY <1>2 DEF RunType
<1>6. RunType(r)
  BY <1>2, <1>4, <1>5 DEF RunType
<1> HIDE DEF r
<1>7. /\ spc'[d] = "payout" /\ sseen' = sseen /\ journal' = journal /\ settled' = settled /\ sview' = sview
      /\ DOMAIN run' = Settler /\ \A x \in Settler : run'[x] = IF x = d THEN r ELSE run[x]
  BY <1>1, <1>2 DEF SGoto, SettlementTypeOK, vars, db
<1>8. SRowsLocked(d)' /\ StillPayable(d)'
  BY <1>1, <1>2, <1>5, <1>7 DEF SRowsLocked, StillPayable
<1>9. View(d)' = v
  BY <1>7 DEF View, Now
<1>10. NetsCurrent(d)'
  BY <1>1, <1>2, <1>3, <1>5, <1>7, <1>9 DEF NetsCurrent
<1> HIDE DEF v
<1> QED BY <1>1, <1>5, <1>6, <1>7, <1>8, <1>10, MovesOn

(* The payouts and the marks.                                              *)
LEMMA PayOutKeeps ==
  ASSUME ClientInv, SInv, NEW d \in Settler, PayOut(d)
  PROVE  ClientInv' /\ SInv'
<1>1. /\ spc[d] = "payout" /\ SGoto(d, "commit") /\ Payable(d) /\ ~StaleMark(d)
      /\ UNCHANGED <<vars, settled, batches, sseen, sview, sattempt>> /\ run' = run
  BY DEF PayOut
<1>2. /\ spc'[d] = "commit" /\ sseen' = sseen /\ journal' = journal /\ settled' = settled /\ sview' = sview
      /\ DOMAIN run' = Settler /\ \A x \in Settler : run'[x] = IF x = d THEN run[d] ELSE run[x]
      /\ RunType(run[d]) /\ SRowsLocked(d) /\ NetsCurrent(d)
  BY <1>1 DEF SGoto, SInv, SettlementTypeOK, SettlerInv, vars, db
<1>3. SRowsLocked(d)'
  BY <1>1, <1>2 DEF SRowsLocked
<1>4. StillPayable(d)'
  BY <1>1, <1>2, PayableStays DEF StillPayable
<1>5. run[d].payments \intersect settled = {}
  <2>1. run[d].payments \intersect View(d).settled = {}
    BY <1>1, <1>2 DEF NetsCurrent, PendingOf, Pending
  <2>2. Mode = "serializable" => View(d) = sview[d] /\ run[d].payments \intersect (settled \ sview[d].settled) = {}
    BY <1>1 DEF View, StaleMark
  <2>3. Mode # "serializable" => View(d).settled = settled
    BY DEF View, Now
  <2> QED BY <2>1, <2>2, <2>3
<1>6. View(d)' = View(d)
  BY <1>2 DEF View, Now
<1>7. NetsCurrent(d)'
  BY <1>1, <1>2, <1>5, <1>6 DEF NetsCurrent
<1> QED BY <1>1, <1>2, <1>3, <1>4, <1>7, MovesOn

(* Every end without a commit.                                             *)
LEMMA FailKeeps ==
  ASSUME ClientInv, SInv, NEW d \in Settler, RejectBatch(d) \/ SAbort(d) \/ SRetry(d)
  PROVE  ClientInv' /\ SInv'
<1>1. UNCHANGED <<db, settled, batches>>
  BY DEF RejectBatch, SAbort, SRetry
<1>2. CASE SReturn(d)
  BY <1>1, <1>2, ReturnedSettler
<1>3. CASE ~SReturn(d)
  <2>1. /\ SRelease(d) /\ SGoto(d, "begin") /\ sattempt[d] + 1 < MaxAttempts
        /\ sattempt' = [sattempt EXCEPT ![d] = @ + 1]
    BY <1>3 DEF RejectBatch, SAbort, SRetry
  <2>2. sattempt' \in [Settler -> 0 .. MaxAttempts - 1]
    BY <2>1, ModeAssumption DEF SInv, SettlementTypeOK
  <2> QED BY <1>1, <2>1, <2>2, ReleasedSettler
<1> QED BY <1>2, <1>3

(* What a batch marks: payments in the journal, not marked so far, of the  *)
(* merchants whose rows it has locked.                                     *)
LEMMA BatchMarks ==
  ASSUME ClientInv, SInv, NEW d \in Settler, CommitBatch(d)
  PROVE  LET r == run[d] IN
         /\ settled' = settled \union r.payments /\ r.payments \intersect settled = {}
         /\ r.payments = PendingOf(journal, Len(journal), settled, r.merchants)
         /\ \A p \in r.payments : /\ p \in DOMAIN journal /\ IsPayment(journal, p)
                                  /\ Merchant(journal, p) \in r.merchants
                                  /\ Merchant(journal, p) \in DOMAIN sseen[d]
         /\ batches' = Append(batches, [payments |-> r.payments, at |-> Len(journal), n |-> Len(Payouts(d))])
<1>1. /\ spc[d] = "commit" /\ settled' = settled \union run[d].payments
      /\ batches' = Append(batches, [payments |-> run[d].payments, at |-> Len(journal), n |-> Len(Payouts(d))])
  BY DEF CommitBatch
<1> DEFINE v == View(d).settled
           P == run[d].payments
           M == run[d].merchants
<1>2. P \intersect settled = {} /\ P = PendingOf(journal, Len(journal), v, M) /\ M \subseteq DOMAIN sseen[d]
  BY <1>1 DEF SInv, SettlerInv, NetsCurrent, SRowsLocked
<1>3. v \subseteq settled
  BY DEF View, Now, SInv, SettlementTypeOK
<1>4. P = PendingOf(journal, Len(journal), settled, M)
  <2> HIDE DEF v, P, M
  <2> QED BY <1>2, <1>3 DEF PendingOf, Pending
<1>5. \A p \in P : p \in DOMAIN journal /\ IsPayment(journal, p) /\ Merchant(journal, p) \in M
  BY <1>2 DEF PendingOf, Pending, IsPayment
<1> QED BY <1>1, <1>2, <1>4, <1>5

(* The commit.                                                             *)
LEMMA BatchKeepsSettlers ==
  ASSUME ClientInv, SInv, NEW d \in Settler, CommitBatch(d)
  PROVE  ClientInv' /\ SInv'
<1> DEFINE n == Len(journal)
           N == Len(Payouts(d))
           r == run[d]
           b == [payments |-> r.payments, at |-> n, n |-> N]
<1>1. /\ n \in Nat /\ N \in Nat /\ Len(journal') = n + N
      /\ DOMAIN journal = 1 .. n /\ DOMAIN journal' = 1 .. n + N /\ Grows
      /\ \A i \in 1 .. n + N : i \in 1 .. n \/ (i - n \in 1 .. N /\ journal'[i] = Batch(d)[i - n])
      /\ \A a \in Account : balance'[a] = IF a \in DOMAIN sseen[d] THEN AfterPayouts(d, a, N) ELSE balance[a]
  BY BatchCommits
<1>2. /\ spc[d] = "commit" /\ SRelease(d) /\ SGoto(d, "idle") /\ sattempt' = [sattempt EXCEPT ![d] = 0]
  BY DEF CommitBatch, SReturn
<1>3. /\ settled' = settled \union r.payments /\ r.payments \intersect settled = {}
      /\ \A p \in r.payments : p \in DOMAIN journal /\ Merchant(journal, p) \in DOMAIN sseen[d]
      /\ batches' = Append(batches, b)
  BY BatchMarks
<1>4. /\ \A x \in Settler \ {d} : \A a \in DOMAIN sseen[x] : rowLock'[a] = rowLock[a]
      /\ \A a \in Account : rowLock'[a] \in Settler => rowLock'[a] = rowLock[a] /\ rowLock[a] # d
      /\ \A x \in Settler : /\ run'[x] = IF x = d THEN NoRun ELSE run[x]
                            /\ sseen'[x] = IF x = d THEN NoRows ELSE sseen[x]
                            /\ sview'[x] = IF x = d THEN NoView ELSE sview[x]
      /\ DOMAIN sseen' = Settler /\ DOMAIN run' = Settler
  BY <1>2, ReleasedRows
<1>5. \A x \in Settler : spc'[x] = IF x = d THEN "idle" ELSE spc[x]
  BY <1>2 DEF SGoto, SInv, SettlementTypeOK
<1>6. ClientInv'
  BY BatchKeepsClients
<1>7. \A i \in DOMAIN journal' \ DOMAIN journal :
        /\ LegAccounts(journal'[i]) \subseteq DOMAIN sseen[d] /\ journal'[i].kind = "settlement"
  <2> SUFFICES ASSUME NEW i \in 1 .. N
               PROVE  LegAccounts(Batch(d)[i]) \subseteq DOMAIN sseen[d] /\ Batch(d)[i].kind = "settlement"
    BY <1>1
  <2>1. /\ Batch(d)[i] = Posted(Payouts(d)[i], NoKey) /\ LegAccounts(Batch(d)[i]) \subseteq DOMAIN sseen[d]
        /\ Payable64(run[d].nets)
    BY <1>2, BatchFacts, RunPays
  <2>2. Posted(PayoutsFor(run[d].nets)[i], NoKey).kind = "settlement"
    BY <2>1, PayoutPosted DEF Payouts
  <2> QED BY <2>1, <2>2 DEF Payouts
<1> HIDE DEF N, n, b, r
<1>8. RefundsOnMerchant'
  <2> SUFFICES ASSUME NEW i \in DOMAIN journal', journal'[i].kind = "refund"
               PROVE  /\ IsPayment(journal', journal'[i].ref)
                      /\ Merchant(journal', journal'[i].ref) \in LegAccounts(journal'[i])
    BY DEF RefundsOnMerchant, IsPayment, Merchant, LegAccounts
  <2>1. i \in DOMAIN journal /\ journal'[i] = journal[i]
    BY <1>1, <1>7 DEF Grows
  <2> DEFINE p == journal[i].ref
  <2>2. IsPayment(journal, p) /\ Merchant(journal, p) \in LegAccounts(journal[i])
    BY <2>1 DEF SInv, RefundsOnMerchant
  <2>3. p \in DOMAIN journal' /\ journal'[p] = journal[p]
    BY <1>1, <2>2 DEF IsPayment, Grows
  <2> QED BY <2>1, <2>2, <2>3 DEF IsPayment, Merchant
<1>9. Sound(journal) /\ Sound(journal')
  BY <1>6, <1>8, JournalIsSound, JournalStaysSound DEF SInv
<1>10. \A x \in Settler : \A a \in DOMAIN sseen[x] : a \in Account /\ rowLock[a] = x
  BY DEF SInv, SettlementTypeOK, SettlerInv, SFreshReads
<1>11. ASSUME NEW x \in Settler \ {d}
       PROVE  SettlerInv(x)'
  <2>1. \A a \in DOMAIN sseen[x] : a \notin DOMAIN sseen[d]
    BY <1>10
  <2>2. /\ \A i \in DOMAIN journal' \ DOMAIN journal : LegAccounts(journal'[i]) \intersect DOMAIN sseen[x] = {}
        /\ \A a \in DOMAIN sseen[x] : balance'[a] = balance[a]
        /\ \A p \in settled' \ settled : p \in DOMAIN journal /\ Merchant(journal, p) \notin DOMAIN sseen[x]
    BY <1>1, <1>3, <1>7, <1>10, <2>1
  <2>3. Elsewhere(x)
    BY <1>1, <1>3, <1>4, <1>5, <2>2 DEF Elsewhere
  <2> QED BY <1>9, <2>3, Undisturbed
<1>12. SettlerInv(d)'
  BY <1>4, <1>5, NothingTyped, IdleSettler
<1>13. SLocksHeld'
  BY <1>4 DEF SInv, SLocksHeld
<1>14. /\ DOMAIN journal \subseteq DOMAIN journal' /\ n <= Len(journal') /\ Len(journal') \in Nat
       /\ n + N <= Len(journal')
  BY <1>1
<1> DEFINE R == [payments : SUBSET (DOMAIN journal), at : Nat, n : Nat]
           Q == [payments : SUBSET (DOMAIN journal'), at : Nat, n : Nat]
<1>15. b \in Q /\ R \subseteq Q /\ b.payments \subseteq 1 .. n /\ b.at = n /\ b.n = N
       /\ \A x \in R : x.at \in Nat /\ x.n \in Nat
  BY <1>1, <1>3, <1>14 DEF b
<1>16. batches \in Seq(R)
  BY DEF SInv, SettlementTypeOK
<1> HIDE DEF R, Q
<1>17. /\ batches' \in Seq(Q) /\ \A i \in DOMAIN batches : batches[i] \in R
       /\ \A i \in DOMAIN batches' : batches'[i] = b \/ (i \in DOMAIN batches /\ batches'[i] = batches[i])
  BY <1>3, <1>15, <1>16, SeqOfMore
<1>18. BatchesPlaced'
  <2> SUFFICES ASSUME NEW i \in DOMAIN batches'
               PROVE  /\ batches'[i].at + batches'[i].n <= Len(journal')
                      /\ batches'[i].payments \subseteq 1 .. batches'[i].at
    BY DEF BatchesPlaced
  <2>1. CASE batches'[i] = b
    BY <1>14, <1>15, <2>1
  <2>2. CASE i \in DOMAIN batches /\ batches'[i] = batches[i]
    <3>1. /\ batches[i].at + batches[i].n <= n /\ batches[i].payments \subseteq 1 .. batches[i].at
          /\ batches[i].at \in Nat /\ batches[i].n \in Nat
      BY <1>15, <1>17, <2>2 DEF SInv, BatchesPlaced, n
    <3> QED BY <1>1, <1>14, <2>2, <3>1
  <2> QED BY <1>17, <2>1, <2>2
<1>19. SettlementTypeOK'
  <2>1. SettlementTypeOK
    BY DEF SInv
  <2>2. \A x \in Settler : RunType(run[x])'
    <3>1. \A x \in Settler \ {d} : run'[x] = run[x] /\ RunType(run[x])
      BY <1>4, <2>1 DEF SettlementTypeOK
    <3>2. RunType(NoRun) /\ run'[d] = NoRun
      BY <1>4, NothingTyped
    <3> QED BY <1>14, <3>1, <3>2 DEF RunType
  <2>3. \A x \in Settler : DOMAIN sseen'[x] \subseteq Account /\ sseen'[x] \in [DOMAIN sseen'[x] -> Int64]
    BY <1>4, <2>1, NothingTyped DEF SettlementTypeOK
  <2>4. sview' \in [Settler -> [n : 0 .. Len(journal'), settled : SUBSET settled']]
    <3>1. sview \in [Settler -> [n : 0 .. n, settled : SUBSET settled]] /\ sview' = [sview EXCEPT ![d] = NoView]
      BY <1>2, <2>1 DEF SettlementTypeOK, SRelease, n
    <3>2. NoView \in [n : 0 .. Len(journal'), settled : SUBSET settled']
      BY <1>14, NothingTyped
    <3>3. \A v \in [n : 0 .. n, settled : SUBSET settled] :
            v \in [n : 0 .. Len(journal'), settled : SUBSET settled']
      BY <1>1, <1>3, <1>14
    <3> QED BY <3>1, <3>2, <3>3
  <2>5. settled' \subseteq DOMAIN journal'
    BY <1>3, <1>14, <2>1 DEF SettlementTypeOK
  <2>6. sattempt' \in [Settler -> 0 .. MaxAttempts - 1]
    BY <1>2, <2>1, ModeAssumption DEF SettlementTypeOK
  <2>7. spc' \in [Settler -> {"idle", "begin", "candidates", "lock", "nets", "ids", "payout", "commit"}]
    BY <1>2, <2>1 DEF SettlementTypeOK, SGoto
  <2> QED BY <1>4, <1>17, <2>2, <2>3, <2>4, <2>5, <2>6, <2>7 DEF SettlementTypeOK, Q
<1> QED BY <1>6, <1>8, <1>11, <1>12, <1>13, <1>18, <1>19 DEF SInv

-----------------------------------------------------------------------------
(* Every step of the whole system, and its beginning.                      *)
LEMMA SettlerKeeps ==
  ASSUME ClientInv, SInv, NEW d \in Settler, RunSettlement(d) \/ SStep(d) \/ SAbort(d)
  PROVE  ClientInv' /\ SInv'
BY BeginKeeps, CandidatesKeep, SLockKeeps, AllLockedKeeps, NetsKeep, IdsKeep, PayOutKeeps, FailKeeps,
   BatchKeepsSettlers DEF SStep, SProgress

LEMMA CoreKeeps == ClientInv /\ SInv /\ [CoreNext]_allvars => ClientInv' /\ SInv'
<1> SUFFICES ASSUME ClientInv, SInv, [CoreNext]_allvars
             PROVE  ClientInv' /\ SInv'
  OBVIOUS
<1>1. CASE ClientNext /\ UNCHANGED svars
  BY <1>1, ClientKeepsSettlers DEF ClientNext, Next
<1>2. ASSUME NEW d \in Settler, RunSettlement(d) \/ SStep(d) \/ SAbort(d)
      PROVE  ClientInv' /\ SInv'
  BY <1>2, SettlerKeeps
<1>3. CASE UNCHANGED allvars
  BY <1>3, ClientKeepsSettlers DEF allvars
<1> QED BY <1>1, <1>2, <1>3 DEF CoreNext, CoreTerminating

LEMMA CoreBegins == CoreInit => ClientInv /\ SInv
<1> SUFFICES ASSUME CoreInit
             PROVE  ClientInv /\ SInv
  OBVIOUS
<1>1. ClientInv
  BY InitClients DEF CoreInit
<1>2. /\ journal = << >> /\ Len(journal) = 0 /\ settled = {} /\ batches = << >>
      /\ rowLock = [a \in Account |-> NoHolder]
      /\ DOMAIN run = Settler /\ DOMAIN sseen = Settler
      /\ \A d \in Settler : /\ spc[d] = "idle" /\ run[d] = NoRun /\ sseen[d] = NoRows
                            /\ sview[d] = NoView /\ sattempt[d] = 0
  BY DEF CoreInit, Init, SInit
<1>3. /\ RunType(NoRun) /\ DOMAIN NoRows = {} /\ NoRows \in [DOMAIN NoRows -> Int64]
      /\ NoView \in [n : 0 .. 0, settled : SUBSET {}]
  BY NothingTyped
<1>4. SettlementTypeOK
  <2>1. sview \in [Settler -> [n : 0 .. Len(journal), settled : SUBSET settled]]
    BY <1>2, <1>3 DEF CoreInit, SInit
  <2>2. sattempt \in [Settler -> 0 .. MaxAttempts - 1]
    BY ModeAssumption DEF CoreInit, SInit
  <2>3. spc \in [Settler -> {"idle", "begin", "candidates", "lock", "nets", "ids", "payout", "commit"}]
    BY DEF CoreInit, SInit
  <2>4. batches \in Seq([payments : SUBSET (DOMAIN journal), at : Nat, n : Nat])
    BY <1>2
  <2> QED BY <1>2, <1>3, <2>1, <2>2, <2>3, <2>4 DEF SettlementTypeOK
<1>5. SLocksHeld
  BY <1>2, SettlerAssumption, SessionAssumption DEF SLocksHeld
<1>6. RefundsOnMerchant /\ BatchesPlaced
  BY <1>2 DEF RefundsOnMerchant, BatchesPlaced
<1>7. \A d \in Settler : SettlerInv(d)
  BY <1>2, <1>3 DEF SettlerInv, SFreshReads, RailsKnown, SRowsLocked, SSnapCurrent, NetsCurrent,
                    StillPayable, SAscending
<1> QED BY <1>1, <1>4, <1>5, <1>6, <1>7 DEF SInv

(* The invariant of the whole system: what is known of the clients holds   *)
(* beside any number of settlements, and what is known of a settlement     *)
(* beside any number of clients and of other settlements.                  *)
THEOREM CoreInductive == CoreSpec => [](ClientInv /\ SInv)
<1> QED BY CoreBegins, CoreKeeps, PTL DEF CoreSpec

(* A settlement's variables keep their types: no net that is not an int64  *)
(* is paid, and only rows that exist are locked (store.RunSettlement).     *)
THEOREM SettlementTypes == CoreSpec => []SettlementTypeOK
<1>1. SInv => SettlementTypeOK
  BY DEF SInv
<1> QED BY <1>1, CoreInductive, PTL

(* With settlements running, the balances are the sums of the postings,    *)
(* and exactly so where a balance must not go negative; no such balance    *)
(* goes negative; a key posts once; answers are true; no entry names an    *)
(* account that is not there.                                              *)
THEOREM ClientsUnharmed ==
  CoreSpec => [](/\ TypeOK /\ FreshReads /\ NoDrift /\ ExactWhereBounded /\ NoOverdraft
                 /\ ExactlyOnce /\ AnswersTrue)
<1>1. ClientInv => /\ TypeOK /\ FreshReads /\ NoDrift /\ ExactWhereBounded /\ NoOverdraft
                   /\ ExactlyOnce /\ AnswersTrue
  BY DEF ClientInv, IInv, Exact, AnswerInv
<1> QED BY <1>1, CoreInductive, PTL

(* A payout moves money and makes none: with settlements running as well,  *)
(* the balances of the accounts of a currency add up to 0.                 *)
THEOREM ConservedBesideBatches ==
  ASSUME IsFiniteSet(Account) PROVE CoreSpec => []ConservedBalances
<1>1. ClientInv => ConservedBalances
  BY IsFiniteSet(Account), JournalConserves DEF ClientInv, IInv
<1> QED BY <1>1, CoreInductive, PTL

-----------------------------------------------------------------------------
(* A step settles nothing, or is the commit of a batch.                    *)
LEMMA SettlesOrNot ==
  ASSUME [CoreNext]_allvars
  PROVE  \/ settled' = settled /\ batches' = batches
         \/ \E d \in Settler : CommitBatch(d)
<1>1. CASE UNCHANGED svars
  BY <1>1 DEF svars
<1>2. ASSUME NEW d \in Settler, RunSettlement(d) \/ SStep(d) \/ SAbort(d)
      PROVE  \/ settled' = settled /\ batches' = batches
             \/ CommitBatch(d)
  BY <1>2 DEF SStep, SProgress, RunSettlement, SBeginTx, CandidateMerchants, SLockAccount, SAllLocked,
              ComputeNets, PendingIds, PayOut, RejectBatch, SAbort, SRetry
<1> QED BY <1>1, <1>2 DEF CoreNext, CoreTerminating, allvars

LEMMA OncePaid == ClientInv /\ SInv /\ PaidOnce /\ [CoreNext]_allvars => PaidOnce'
<1> SUFFICES ASSUME ClientInv, SInv, PaidOnce, [CoreNext]_allvars
             PROVE  PaidOnce'
  OBVIOUS
<1>1. CASE settled' = settled /\ batches' = batches
  BY <1>1 DEF PaidOnce
<1>2. ASSUME NEW d \in Settler, CommitBatch(d)
      PROVE  PaidOnce'
  <2> DEFINE P == run[d].payments
             b == [payments |-> P, at |-> Len(journal), n |-> Len(Payouts(d))]
             k == Len(batches)
  <2>1. settled' = settled \union P /\ P \intersect settled = {} /\ batches' = Append(batches, b)
    BY <1>2, BatchMarks
  <2>2. b.payments = P
    OBVIOUS
  <2>3. \E R : batches \in Seq(R)
    BY DEF SInv, SettlementTypeOK
  <2> HIDE DEF b, P
  <2>4. /\ k \in Nat /\ DOMAIN batches = 1 .. k /\ DOMAIN batches' = 1 .. k + 1
        /\ batches'[k + 1] = b /\ \A i \in 1 .. k : batches'[i] = batches[i]
    BY <2>1, <2>3
  <2> HIDE DEF k
  <2>5. settled = UNION {batches[i].payments : i \in 1 .. k}
    BY <2>4 DEF PaidOnce
  <2>6. settled' = UNION {batches'[i].payments : i \in 1 .. k + 1}
    <3>1. \A i : i \in 1 .. k + 1 <=> (i \in 1 .. k \/ i = k + 1)
      BY <2>4
    <3> QED BY <2>1, <2>2, <2>4, <2>5, <3>1
  <2>7. ASSUME NEW i \in 1 .. k + 1, NEW j \in 1 .. k + 1, i # j
        PROVE  batches'[i].payments \intersect batches'[j].payments = {}
    <3>1. \A x \in 1 .. k : batches[x].payments \intersect P = {}
      BY <2>1, <2>5
    <3>2. \A x, y \in 1 .. k : x # y => batches[x].payments \intersect batches[y].payments = {}
      BY <2>4 DEF PaidOnce
    <3>3. (i \in 1 .. k \/ i = k + 1) /\ (j \in 1 .. k \/ j = k + 1)
      BY <2>4
    <3> QED BY <2>2, <2>4, <2>7, <3>1, <3>2, <3>3
  <2> QED BY <2>4, <2>6, <2>7 DEF PaidOnce
<1> QED BY <1>1, <1>2, SettlesOrNot

(* No payment is paid out twice, for any number of overlapping /settle     *)
(* calls, of retries, aborts and lost answers, in either isolation mode,   *)
(* and one is settled only by a batch (store.RunSettlement).               *)
THEOREM NothingPaidTwice == CoreSpec => []PaidOnce
<1>1. CoreInit => PaidOnce
  BY DEF CoreInit, SInit, PaidOnce
<1> QED BY <1>1, OncePaid, CoreInductive, PTL DEF CoreSpec

(* The journal only grows.                                                 *)
LEMMA CoreGrows == ClientInv /\ SInv /\ [CoreNext]_allvars => Grows
<1> SUFFICES ASSUME ClientInv, SInv, [CoreNext]_allvars
             PROVE  Grows
  OBVIOUS
<1>1. CASE (ClientNext \/ UNCHANGED vars) /\ UNCHANGED svars
  BY <1>1, ClientElsewhere DEF ClientNext, Next
<1>2. ASSUME NEW d \in Settler, CommitBatch(d)
      PROVE  Grows
  BY <1>2, BatchCommits
<1>3. ASSUME NEW d \in Settler, RunSettlement(d) \/ SStep(d) \/ SAbort(d)
      PROVE  journal' = journal \/ CommitBatch(d)
  BY <1>3 DEF SStep, SProgress, RunSettlement, SBeginTx, CandidateMerchants, SLockAccount, SAllLocked,
              ComputeNets, PendingIds, PayOut, RejectBatch, SAbort, SRetry, vars, db
<1> QED BY <1>1, <1>2, <1>3, GrowsNot DEF CoreNext, CoreTerminating, allvars

LEMMA BatchesTyped == SInv => \A i \in DOMAIN batches : batches[i].at \in Nat /\ batches[i].n \in Nat
<1> DEFINE R == [payments : SUBSET (DOMAIN journal), at : Nat, n : Nat]
<1>1. \A b \in R : b.at \in Nat /\ b.n \in Nat
  OBVIOUS
<1>2. SInv => batches \in Seq(R)
  BY DEF SInv, SettlementTypeOK
<1> HIDE DEF R
<1>3. SInv => \A i \in DOMAIN batches : batches[i] \in R
  BY <1>2, SeqOfMore
<1> QED BY <1>1, <1>3

-----------------------------------------------------------------------------
(* What batch b pays m is due.                                             *)
PaysDue(j, b, m) ==
  Total([i \in 1 .. b.n |-> Debited(j[b.at + i], m)], b.n)
    = Due(NetOf(j, b.at, {p \in b.payments : Merchant(j, p) = m}))

(* It stays so as the journal grows.                                       *)
LEMMA PaidStays ==
  ASSUME NEW j, NEW h, Sound(j), DOMAIN j \subseteq DOMAIN h, \A i \in DOMAIN j : h[i] = j[i],
         NEW b, b.at \in Nat, b.n \in Nat, b.at + b.n <= Len(j), b.payments \subseteq 1 .. b.at,
         NEW m, PaysDue(j, b, m)
  PROVE  PaysDue(h, b, m)
<1>1. b.at \in 0 .. Len(j) /\ DOMAIN j = 1 .. Len(j) /\ Len(j) \in Nat /\ j \in Seq(JournalEntry)
  BY DEF Sound
<1>2. /\ \A P : NetOf(h, b.at, P) = NetOf(j, b.at, P)
      /\ \A p \in 1 .. b.at : Merchant(h, p) = Merchant(j, p)
  BY <1>1, NetAgrees
<1>3. {p \in b.payments : Merchant(h, p) = m} = {p \in b.payments : Merchant(j, p) = m}
  BY <1>2
<1>4. [i \in 1 .. b.n |-> Debited(h[b.at + i], m)] = [i \in 1 .. b.n |-> Debited(j[b.at + i], m)]
  <2>1. \A i \in 1 .. b.n : b.at + i \in DOMAIN j
    BY <1>1
  <2>2. \A i \in 1 .. b.n : h[b.at + i] = j[b.at + i]
    BY <2>1
  <2> QED BY <2>2
<1> QED BY <1>2, <1>3, <1>4 DEF PaysDue

(* The payments a batch settles for a merchant are all it has pending, and *)
(* none for others.                                                        *)
LEMMA BatchOfMerchant ==
  ASSUME NEW j, NEW n, NEW S, NEW M, NEW m
  PROVE  {p \in PendingOf(j, n, S, M) : Merchant(j, p) = m}
           = IF m \in M THEN PendingOf(j, n, S, {m}) ELSE {}
BY DEF PendingOf

(* Nothing is owed for no payments.                                        *)
LEMMA NetNothing ==
  ASSUME NEW j, NEW n \in Nat
  PROVE  NetOf(j, n, {}) = 0
<1> DEFINE d == [p \in 1 .. n |-> IF p \in {} THEN StillOwed(j, n, p) ELSE 0]
<1>1. \A p \in 1 .. n : d[p] = 0
  OBVIOUS
<1>2. NetOf(j, n, {}) = Total(d, n)
  BY DEF NetOf
<1> HIDE DEF d
<1> QED BY <1>1, <1>2, TotalNone

(* A batch pays what is due when it commits.                               *)
LEMMA BatchPaysDue ==
  ASSUME ClientInv, SInv, NEW d \in Settler, CommitBatch(d), NEW m \in Account, Sound(journal)
  PROVE  PaysDue(journal', [payments |-> run[d].payments, at |-> Len(journal), n |-> Len(Payouts(d))], m)
<1> DEFINE n == Len(journal)
           N == Len(Payouts(d))
           nets == run[d].nets
           P == run[d].payments
           b == [payments |-> P, at |-> n, n |-> N]
           f == [i \in 1 .. N |-> Debited(journal'[n + i], m)]
           v == View(d).settled
           M == run[d].merchants
<1>1. /\ n \in Nat /\ N \in Nat /\ DOMAIN journal \subseteq DOMAIN journal'
      /\ \A i \in DOMAIN journal : journal'[i] = journal[i]
      /\ \A i \in 1 .. N : journal'[n + i] = Batch(d)[i]
  BY BatchCommits DEF Grows
<1>2. spc[d] = "commit"
  BY DEF CommitBatch
<1>3. /\ Payable64(nets) /\ DOMAIN nets = M
      /\ \A i \in 1 .. N : Batch(d)[i] = Posted(Payouts(d)[i], NoKey)
  BY <1>2, RunPays, BatchFacts
<1>4. /\ nets = [x \in M |-> NetOf(journal, n, PendingOf(journal, n, v, {x}))]
      /\ P = PendingOf(journal, n, v, M)
  BY <1>2 DEF SInv, SettlerInv, NetsCurrent
<1>5. Total(f, N) = IF m \in M /\ nets[m] > 0 THEN nets[m] ELSE 0
  <2>1. Payouts(d) = PayoutsFor(nets)
    BY DEF Payouts
  <2>2. \A i \in 1 .. N : f[i] = Debited(PayoutsFor(nets)[i], m)
    <3>1. \A e : Debited(Posted(e, NoKey), m) = Debited(e, m)
      BY DEF Posted, Debited, DebitOn, AmountOn
    <3> QED BY <1>1, <1>3, <2>1, <3>1
  <2> HIDE DEF f, nets
  <2>3. Total(f, Len(PayoutsFor(nets))) = IF m \in DOMAIN nets /\ nets[m] > 0 THEN nets[m] ELSE 0
    BY <1>3, <2>1, <2>2, PayoutSums
  <2> QED BY <1>3, <2>1, <2>3
<1>6. n \in 0 .. Len(journal)
  BY <1>1
<1>7. /\ NetOf(journal', n, {p \in P : Merchant(journal', p) = m})
           = NetOf(journal, n, {p \in P : Merchant(journal, p) = m})
  <2>1. /\ \A Q : NetOf(journal', n, Q) = NetOf(journal, n, Q)
        /\ \A p \in 1 .. n : Merchant(journal', p) = Merchant(journal, p)
    BY <1>1, <1>6, NetAgrees
  <2>2. P \subseteq 1 .. n
    BY <1>4 DEF PendingOf, Pending
  <2>3. {p \in P : Merchant(journal', p) = m} = {p \in P : Merchant(journal, p) = m}
    BY <2>1, <2>2
  <2> QED BY <2>1, <2>3
<1>8. NetOf(journal, n, {p \in P : Merchant(journal, p) = m}) = IF m \in M THEN nets[m] ELSE 0
  <2>1. P = PendingOf(journal, n, v, M) /\ (m \in M => nets[m] = NetOf(journal, n, PendingOf(journal, n, v, {m})))
    BY <1>4
  <2>2. NetOf(journal, n, {}) = 0
    BY <1>1, NetNothing
  <2> HIDE DEF P, M, n, v, nets
  <2>3. {p \in P : Merchant(journal, p) = m} = IF m \in M THEN PendingOf(journal, n, v, {m}) ELSE {}
    <3>1. {p \in PendingOf(journal, n, v, M) : Merchant(journal, p) = m}
            = IF m \in M THEN PendingOf(journal, n, v, {m}) ELSE {}
      BY BatchOfMerchant
    <3> QED BY <2>1, <3>1
  <2> QED BY <2>1, <2>2, <2>3
<1>9. b.payments = P /\ b.at = n /\ b.n = N
  OBVIOUS
<1>10. PaysDue(journal', b, m)
  <2> HIDE DEF b, P, M, nets, n, N
  <2>1. Total(f, N) = Due(IF m \in M THEN nets[m] ELSE 0)
    BY <1>5 DEF Due
  <2>2. f = [i \in 1 .. N |-> Debited(journal'[n + i], m)]
    OBVIOUS
  <2> HIDE DEF f
  <2> QED BY <1>7, <1>8, <1>9, <2>1, <2>2 DEF PaysDue
<1> QED BY <1>10

LEMMA PaidNetIs == PaidNet <=> \A i \in DOMAIN batches : \A m \in Account : PaysDue(journal, batches[i], m)
BY DEF PaidNet, PaidTo, PaysDue

LEMMA NetPaid == ClientInv /\ SInv /\ PaidNet /\ [CoreNext]_allvars => PaidNet'
<1> SUFFICES ASSUME ClientInv, SInv, PaidNet, [CoreNext]_allvars
             PROVE  PaidNet'
  OBVIOUS
<1>1. Sound(journal) /\ ClientInv' /\ SInv' /\ Sound(journal')
  <2>1. ClientInv' /\ SInv'
    BY CoreKeeps
  <2> QED BY <2>1, JournalIsSound, JournalStaysSound DEF SInv
<1>2. Grows
  BY CoreGrows
<1>3. DOMAIN journal \subseteq DOMAIN journal' /\ \A i \in DOMAIN journal : journal'[i] = journal[i]
  BY <1>2 DEF Grows
<1>4. ASSUME NEW i \in DOMAIN batches, NEW m \in Account
      PROVE  PaysDue(journal', batches[i], m)
  <2>1. PaysDue(journal, batches[i], m)
    BY <1>4, PaidNetIs
  <2>2. /\ batches[i].at + batches[i].n <= Len(journal)
        /\ batches[i].payments \subseteq 1 .. batches[i].at
    BY DEF SInv, BatchesPlaced
  <2>3. batches[i].at \in Nat /\ batches[i].n \in Nat
    BY BatchesTyped
  <2> QED BY <1>1, <1>3, <2>1, <2>2, <2>3, PaidStays
<1>5. \A i \in DOMAIN batches' : \A m \in Account : PaysDue(journal', batches'[i], m)
  <2>1. CASE batches' = batches
    BY <1>4, <2>1
  <2>2. ASSUME NEW d \in Settler, CommitBatch(d), NEW i \in DOMAIN batches', NEW m \in Account
        PROVE  PaysDue(journal', batches'[i], m)
    <3> DEFINE b == [payments |-> run[d].payments, at |-> Len(journal), n |-> Len(Payouts(d))]
    <3>1. batches' = Append(batches, b)
      BY <2>2, BatchMarks
    <3>2. \E R : batches \in Seq(R)
      BY DEF SInv, SettlementTypeOK
    <3>3. PaysDue(journal', b, m)
      BY <1>1, <2>2, BatchPaysDue
    <3> HIDE DEF b
    <3>4. batches'[i] = b \/ (i \in DOMAIN batches /\ batches'[i] = batches[i])
      BY <3>1, <3>2
    <3> QED BY <1>4, <3>3, <3>4
  <2> QED BY <2>1, <2>2, SettlesOrNot
<1>6. PaidNet' <=> \A i \in DOMAIN batches' : \A m \in Account : PaysDue(journal', batches'[i], m)
  BY DEF PaidNet, PaidTo, PaysDue, Due, NetOf, StillOwed, Refunded, Merchant
<1> QED BY <1>5, <1>6

(* A merchant is paid by a batch what its settled payments captured less   *)
(* all their refunds, as they are when the batch commits: no refund slips  *)
(* in between the net and the payout, however many run at once, and none   *)
(* is paid twice (computeNetsLocked and the payouts under lockAccounts).   *)
THEOREM BatchesPayTheNet == CoreSpec => []PaidNet
<1>1. CoreInit => PaidNet
  BY DEF CoreInit, SInit, PaidNet
<1> QED BY <1>1, NetPaid, CoreInductive, PTL DEF CoreSpec

-----------------------------------------------------------------------------
(* Sessions and settlers lock rows in one ascending order, so the one that *)
(* waits for the highest row waits for one that runs.                      *)
LEMMA OneOrder ==
  ASSUME ClientInv, SInv
  PROVE  NoCoreLockCycle
<1> SUFFICES ASSUME NEW S \in SUBSET SessionsAndSettlers, S # {},
                    \A x \in S : \E y \in S : CoreWaitsFor(x, y)
             PROVE  FALSE
  BY DEF NoCoreLockCycle
<1> DEFINE waits(x, a) ==
             /\ rowLock[a] \in S
             /\ \/ x \in Session /\ pc[x] = "lock" /\ IsNext(x, a)
                \/ x \notin Session /\ spc[x] = "lock" /\ SIsNext(x, a)
           claims(x) == x \in Session /\ pc[x] = "claim"
           rows(x) == {a \in Account : waits(x, a)}
           A == {a \in Account : \E x \in S : waits(x, a)}
<1>0. /\ Account \subseteq Nat
      /\ S \subseteq Session \union Settler
      /\ IInv /\ LocksHeld /\ Ascending /\ SLocksHeld /\ \A d \in Settler : SAscending(d)
  <2>1. Account \subseteq Nat
    BY AccountAssumption
  <2>2. S \subseteq Session \union Settler
    BY DEF SessionsAndSettlers
  <2>3. IInv /\ LocksHeld /\ Ascending
    BY DEF ClientInv
  <2>4. SLocksHeld /\ \A d \in Settler : SAscending(d)
    BY DEF SInv, SettlerInv
  <2> QED BY <2>1, <2>2, <2>3, <2>4
(* Who does not wait for a key waits for a row.                            *)
<1>1. ASSUME NEW x \in S, ~claims(x)
      PROVE  \E a \in Account : waits(x, a)
  <2>1. PICK y \in S : CoreWaitsFor(x, y)
    OBVIOUS
  <2> QED BY <1>1, <2>1 DEF CoreWaitsFor, WaitsFor
<1>2. A # {}
  <2>1. PICK x \in S : TRUE
    OBVIOUS
  <2>2. CASE ~claims(x)
    BY <1>1, <2>2
  <2>3. CASE claims(x)
    <3>1. PICK y \in S : CoreWaitsFor(x, y)
      OBVIOUS
    <3>2. keyLock[job[x].key] = y
      BY <2>3, <3>1 DEF CoreWaitsFor, WaitsFor
    <3>3. job[x].key \in Key
      BY <1>0, <2>3 DEF IInv, TypeOK, SessionType, OwnsKey, Job
    <3>4. ~claims(y)
      BY <1>0, <3>2, <3>3 DEF LocksHeld
    <3> QED BY <1>1, <3>4
  <2> QED BY <2>2, <2>3
(* Each waits for one row at a time.                                       *)
<1>3. IsFiniteSet(A)
  <2>1. IsFiniteSet(S)
    <3>1. IsFiniteSet(Session \union Settler)
      BY FiniteAssumption, SettlerAssumption, FS_Union
    <3> QED BY <3>1, FS_Subset DEF SessionsAndSettlers
  <2> DEFINE B == {x \in S : rows(x) # {}}
             row == [x \in B |-> CHOOSE a : a \in rows(x)]
  <2>2. IsFiniteSet(B)
    BY <2>1, FS_Subset
  <2>3. \A x \in B : \A a, b \in rows(x) : a = b
    <3> SUFFICES ASSUME NEW x \in B, NEW a \in rows(x), NEW b \in rows(x)
                 PROVE  a = b
      OBVIOUS
    <3>1. a <= b /\ b <= a
      BY DEF IsNext, SIsNext
    <3>2. a \in Nat /\ b \in Nat
      BY <1>0
    <3> QED BY <3>1, <3>2
  <2>4. row \in Surjection(B, A)
    <3>1. \A x \in B : row[x] \in rows(x)
      OBVIOUS
    <3>2. row \in [B -> A]
      BY <3>1
    <3>3. ASSUME NEW a \in A
          PROVE  \E x \in B : row[x] = a
      <4>1. PICK x \in S : waits(x, a)
        OBVIOUS
      <4>2. x \in B /\ a \in rows(x)
        BY <4>1
      <4>3. row[x] \in rows(x)
        BY <3>1, <4>2
      <4>4. row[x] = a
        BY <2>3, <4>2, <4>3
      <4> QED BY <4>2, <4>4
    <3> QED BY <3>2, <3>3 DEF Surjection
  <2> QED BY <2>2, <2>4, FS_Surjection
<1>4. PICK a \in A : \A b \in A : b <= a
  BY <1>0, <1>2, <1>3, GreatestNumber
<1>5. PICK x \in S : waits(x, a)
  OBVIOUS
<1> DEFINE y == rowLock[a]
<1>6. y \in S /\ a \in Account /\ a \in Nat
  BY <1>0, <1>5
(* The holder of a holds it, and waits for a row above it.                 *)
<1>7. ~claims(y)
  BY <1>0, <1>6 DEF LocksHeld
<1>8. PICK b \in Account : waits(y, b)
  BY <1>1, <1>6, <1>7
<1>9. a < b
  <2>1. CASE y \in Session
    <3>1. a \in DOMAIN seen[y]
      BY <1>0, <1>6, <2>1 DEF LocksHeld
    <3> QED BY <1>0, <1>8, <2>1, <3>1 DEF Ascending, IsNext
  <2>2. CASE y \notin Session
    <3>1. y \in Settler /\ a \in DOMAIN sseen[y]
      BY <1>0, <1>6, <2>2 DEF SLocksHeld
    <3> QED BY <1>0, <1>8, <2>2, <3>1 DEF SAscending, SIsNext
  <2> QED BY <2>1, <2>2
<1>10. b <= a /\ b \in Nat
  BY <1>0, <1>4, <1>6, <1>8
<1> QED BY <1>6, <1>9, <1>10

(* No deadlock, whatever the number of sessions and settlers: rows are     *)
(* locked in ascending order of their ids by postEntryTx and by            *)
(* RunSettlement alike, and a key is claimed before any row.               *)
THEOREM NoCoreDeadlock == CoreSpec => []NoCoreLockCycle
<1> QED BY OneOrder, CoreInductive, PTL

-----------------------------------------------------------------------------
(* A batch refunds nothing, and posts to no row a session has read: the    *)
(* refunds of a payment stay within what it captured, and a refund that    *)
(* was checked stays checked.                                              *)
LEMMA BatchKeepsRefunds ==
  ASSUME ClientInv, SInv, RefundInv, NEW d \in Settler, CommitBatch(d)
  PROVE  RefundInv'
<1> DEFINE n == Len(journal)
           N == Len(Payouts(d))
<1>1. /\ n \in Nat /\ N \in Nat /\ Len(journal') = n + N
      /\ journal' \in Seq(JournalEntry) /\ journal \in Seq(JournalEntry)
      /\ DOMAIN journal = 1 .. n /\ DOMAIN journal' = 1 .. n + N
      /\ \A i \in 1 .. n : journal'[i] = journal[i]
      /\ \A i \in 1 .. n + N : i \in 1 .. n \/ (i - n \in 1 .. N /\ journal'[i] = Batch(d)[i - n])
      /\ \A s \in Session : \A a \in DOMAIN seen[s] : a \notin DOMAIN sseen[d]
      /\ pc' = pc /\ seen' = seen /\ snap' = snap /\ job' = job /\ spc[d] = "commit"
  BY BatchCommits DEF CommitBatch, Grows, ClientInv, IInv, TypeOK, DbType
<1>2. \A i \in 1 .. N : Batch(d)[i].kind = "settlement" /\ LegAccounts(Batch(d)[i]) \subseteq DOMAIN sseen[d]
  <2> SUFFICES ASSUME NEW i \in 1 .. N
               PROVE  Batch(d)[i].kind = "settlement" /\ LegAccounts(Batch(d)[i]) \subseteq DOMAIN sseen[d]
    OBVIOUS
  <2>1. Payable64(run[d].nets) /\ i \in 1 .. Len(PayoutsFor(run[d].nets))
    BY <1>1, RunPays DEF Payouts
  <2>2. Posted(PayoutsFor(run[d].nets)[i], NoKey).kind = "settlement"
    BY <2>1, PayoutPosted
  <2> QED BY <1>1, <2>2, BatchFacts DEF Payouts
<1> HIDE DEF n, N
<1>3. \A i \in n + 1 .. n + N :
        /\ journal'[i].kind = "settlement"
        /\ \A s \in Session : \A a \in DOMAIN seen[s] : a \notin LegAccounts(journal'[i])
  <2> SUFFICES ASSUME NEW i \in n + 1 .. n + N
               PROVE  /\ journal'[i].kind = "settlement"
                      /\ \A s \in Session : \A a \in DOMAIN seen[s] : a \notin LegAccounts(journal'[i])
    OBVIOUS
  <2>1. i \in 1 .. n + N /\ i \notin 1 .. n
    BY <1>1
  <2>2. i - n \in 1 .. N /\ journal'[i] = Batch(d)[i - n]
    BY <1>1, <2>1
  <2>3. journal'[i].kind = "settlement" /\ LegAccounts(journal'[i]) \subseteq DOMAIN sseen[d]
    BY <1>2, <2>2
  <2> QED BY <1>1, <2>3
<1>4. \A p : IsPayment(journal', p) <=> IsPayment(journal, p)
  BY <1>1, <1>3 DEF IsPayment
<1>5. \A p, m : RefundedSoFar(journal', n + N, p, m) = RefundedSoFar(journal, n, p, m)
  <2> SUFFICES ASSUME NEW p, NEW m
               PROVE  RefundedSoFar(journal', n + N, p, m) = RefundedSoFar(journal, n, p, m)
    OBVIOUS
  <2>1. \A i \in n + 1 .. Len(journal') : RefundOf(journal'[i], p, m) = 0
    BY <1>1, <1>3 DEF RefundOf
  <2>2. n \in 0 .. Len(journal')
    BY <1>1
  <2>3. RefundedSoFar(journal', n + N, p, m) = RefundedSoFar(journal', n, p, m)
    BY <1>1, <2>1, <2>2, RefundedSince
  <2>4. Refunds(journal', n, p, m) = Refunds(journal, n, p, m)
    BY <1>1 DEF Refunds
  <2> QED BY <2>3, <2>4 DEF RefundedSoFar, Refunds
<1>6. RefundBound'
  <2> SUFFICES ASSUME NEW p \in DOMAIN journal', IsPayment(journal', p)
               PROVE  RefundedSoFar(journal', Len(journal'), p, MerchantLeg(journal'[p]).acct)
                        <= Captured(journal'[p])
    BY DEF RefundBound
  <2>1. IsPayment(journal, p) /\ p \in DOMAIN journal /\ journal'[p] = journal[p]
    BY <1>1, <1>4 DEF IsPayment
  <2>2. RefundedSoFar(journal, n, p, MerchantLeg(journal[p]).acct) <= Captured(journal[p])
    BY <2>1 DEF RefundInv, RefundBound, n
  <2> QED BY <1>1, <1>5, <2>1, <2>2
<1>7. PaymentsAsked' /\ RefundsFollow'
  <2>1. ASSUME NEW p \in 1 .. n + N, journal'[p].kind \in {"payment", "refund"}
        PROVE  p \in 1 .. n /\ journal'[p] = journal[p]
    <3>1. p \in 1 .. n \/ p \in n + 1 .. n + N
      BY <1>1
    <3> QED BY <1>1, <1>3, <2>1, <3>1
  <2>2. PaymentsAsked'
    BY <1>1, <2>1 DEF RefundInv, PaymentsAsked
  <2>3. RefundsFollow'
    BY <1>1, <2>1 DEF RefundInv, RefundsFollow
  <2> QED BY <2>2, <2>3
<1>8. GuardsMet'
  <2> SUFFICES ASSUME NEW s \in Session, pc[s] \in {"post", "commit"}, job[s].entry.kind = "refund"
               PROVE  GuardMet(s)'
    BY <1>1 DEF GuardsMet
  <2>1. GuardMet(s) /\ IsPayment(journal, job[s].entry.ref)
    BY RefundEntry DEF RefundInv, GuardsMet, ClientInv
  <2>2. job[s].entry.ref \in 1 .. n
    BY <1>1, <2>1 DEF IsPayment
  <2> DEFINE e == job[s].entry
  <2>3. /\ Len(journal) = n /\ Len(journal') = n + N /\ job' = job
        /\ journal'[e.ref] = journal[e.ref]
    BY <1>1, <2>2 DEF n
  <2>4. RefundedSoFar(journal', n + N, e.ref, e.legs[1].acct) = RefundedSoFar(journal, n, e.ref, e.legs[1].acct)
    BY <1>5
  <2> QED BY <2>1, <2>3, <2>4 DEF GuardMet, Captured, MerchantLeg
<1>9. AmountsPositive'
  BY <1>1 DEF RefundInv, AmountsPositive
<1>10. ASSUME NEW s \in Session
       PROVE  SnapCurrent(s)'
  <2>1. SnapCurrent(s)
    BY DEF RefundInv
  <2>2. snap[s] \in Nat
    BY DEF ClientInv, IInv, TypeOK, SessionType
  <2>3. ASSUME Mode = "serializable"
        PROVE  /\ snap[s] <= n + N
               /\ \A a \in DOMAIN seen[s] : \A i \in snap[s] + 1 .. n + N : a \notin LegAccounts(journal'[i])
    <3>1. snap[s] <= n /\ \A a \in DOMAIN seen[s] : \A i \in snap[s] + 1 .. n : a \notin LegAccounts(journal[i])
      BY <2>1, <2>3 DEF SnapCurrent, n
    <3>2. \A i \in snap[s] + 1 .. n + N :
             i \in n + 1 .. n + N \/ (i \in snap[s] + 1 .. n /\ i \in 1 .. n)
      BY <1>1, <2>2
    <3>3. snap[s] <= n + N
      BY <1>1, <2>2, <3>1
    <3> QED BY <1>1, <1>3, <3>1, <3>2, <3>3
  <2> QED BY <1>1, <2>3 DEF SnapCurrent
<1> QED BY <1>6, <1>7, <1>8, <1>9, <1>10 DEF RefundInv

(* Short of its commit, a settlement changes neither the ledger nor what a *)
(* client is doing.                                                        *)
LEMMA QuietSettlement ==
  ASSUME NEW d \in Settler, RunSettlement(d) \/ SStep(d) \/ SAbort(d)
  PROVE  CommitBatch(d) \/ UNCHANGED <<db, cvars, settled>>
<1>1. CASE RunSettlement(d) \/ SBeginTx(d) \/ SAllLocked(d) \/ PendingIds(d) \/ PayOut(d)
  BY <1>1 DEF RunSettlement, SBeginTx, SAllLocked, PendingIds, PayOut, vars, db, locks, local, cvars
<1>2. CASE CandidateMerchants(d) \/ SLockAccount(d) \/ ComputeNets(d)
  BY <1>2 DEF CandidateMerchants, SLockAccount, ComputeNets, SReturn, SRelease, db, cvars
<1>3. CASE RejectBatch(d) \/ SAbort(d) \/ SRetry(d)
  BY <1>3 DEF RejectBatch, SAbort, SRetry, SReturn, SRelease, db, cvars
<1> QED BY <1>1, <1>2, <1>3 DEF SStep, SProgress

(* A client's step or a settlement's keeps the bound.                      *)
LEMMA CoreKeepsRefunds ==
  RefundsFit /\ ClientInv /\ SInv /\ RefundInv /\ [CoreNext]_allvars => RefundInv'
<1> SUFFICES ASSUME RefundsFit, ClientInv, SInv, RefundInv, [CoreNext]_allvars
             PROVE  RefundInv'
  OBVIOUS
<1>1. ASSUME [Next]_vars
      PROVE  RefundInv'
  BY <1>1, NextRefunds DEF ClientInv
<1>2. CASE ClientNext
  BY <1>1, <1>2 DEF ClientNext, Next
<1>3. ASSUME NEW d \in Settler, RunSettlement(d) \/ SStep(d) \/ SAbort(d)
      PROVE  RefundInv'
  <2>1. CASE CommitBatch(d)
    BY <2>1, BatchKeepsRefunds
  <2>2. CASE UNCHANGED <<db, cvars, settled>>
    <3>1. journal' = journal /\ pc' = pc /\ job' = job /\ snap' = snap /\ seen' = seen
      BY <2>2 DEF db, cvars, local
    <3> QED BY <3>1, QuietRefunds
  <2> QED BY <1>3, <2>1, <2>2, QuietSettlement
<1>4. CASE UNCHANGED allvars
  BY <1>1, <1>4 DEF allvars
<1> QED BY <1>2, <1>3, <1>4 DEF CoreNext, CoreTerminating

(* With settlements running too, what is refunded of a payment stays       *)
(* within what it captured (ops.refundGuard).                              *)
THEOREM RefundsNeverExceedBesideBatches == ASSUME RefundsFit PROVE CoreSpec => []RefundBound
<1>1. CoreInit => RefundInv
  BY InitRefunds DEF CoreInit
<1>2. ClientInv /\ SInv /\ RefundInv /\ [CoreNext]_allvars => RefundInv'
  BY RefundsFit, CoreKeepsRefunds
<1>3. RefundInv => RefundBound
  BY DEF RefundInv
<1> QED BY <1>1, <1>2, <1>3, CoreInductive, PTL DEF CoreSpec

-----------------------------------------------------------------------------
(* A merchant with a payout is not the rail of another: no payout of a     *)
(* batch draws on money an earlier one brought.                            *)
LEMMA OtherPayouts ==
  ASSUME NEW nets, Payable64(nets),
         NEW i \in 1 .. Len(PayoutsFor(nets)), NEW j \in 1 .. Len(PayoutsFor(nets)), i # j,
         RightCurrency(PayoutsFor(nets)[j]),
         NEW a, a = Payee(PayoutsFor(nets)[i]), a # Rail(a)
  PROVE  Delta(PayoutsFor(nets)[j], a) = 0
<1> DEFINE P == PayoutsFor(nets)
           m == Payee(P[j])
<1>1. P \in Seq(EntryType) /\ i \in DOMAIN P /\ j \in DOMAIN P
  BY PayoutsFacts
<1>2. /\ m \in Account /\ Rail(m) \in Account /\ nets[m] \in Int64 /\ nets[m] > 0
      /\ P[j] = PayoutEntry(m, nets[m]) /\ a # m
  BY <1>1, PayoutsFacts
<1> HIDE DEF P, m
<1>3. /\ Delta(P[j], a) = (IF a = m THEN -nets[m] ELSE 0) + (IF a = Rail(m) THEN nets[m] ELSE 0)
      /\ CurrencyOf[Rail(m)] = CurrencyOf[m]
  BY <1>2, PayoutLegs DEF P
<1>4. a # Rail(m)
  <2> SUFFICES ASSUME a = Rail(m)
               PROVE  Rail(a) = a
    OBVIOUS
  <2> QED BY <1>3 DEF Rail
<1> QED BY <1>2, <1>3, <1>4 DEF P

(* Each payout of a batch is affordable on the journal before the batch.   *)
LEMMA PayoutsAffordable ==
  ASSUME ClientInv, SInv, NEW d \in Settler, spc[d] = "commit",
         NEW i \in 1 .. Len(Payouts(d)), NEW a \in LegAccounts(Payouts(d)[i]) \ AllowNegative
  PROVE  Derived(journal, a) + Delta(Payouts(d)[i], a) >= 0
<1> DEFINE P == Payouts(d)
           N == Len(P)
           nets == run[d].nets
           D == Deltas(Batch(d), a)
           m == Payee(P[i])
<1>1. /\ Payable64(nets) /\ P = PayoutsFor(nets) /\ i \in DOMAIN P
      /\ a \in DOMAIN sseen[d] /\ Payable(d)
  <2>1. /\ Payable64(nets) /\ P = PayoutsFor(nets)
        /\ i \in DOMAIN P /\ Payable(d) /\ i \in 1 .. Len(PayoutsFor(nets))
    BY RunPays, BatchFacts DEF Payouts, SInv, SettlerInv, StillPayable
  <2>2. LegAccounts(Posted(P[i], NoKey)) = LegAccounts(P[i])
    BY <2>1, PayoutPosted
  <2>3. LegAccounts(Posted(P[i], NoKey)) \subseteq DOMAIN sseen[d]
    BY BatchFacts
  <2> QED BY <2>1, <2>2, <2>3
<1>2. a \in Account /\ sseen[d][a] = Derived(journal, a) /\ Derived(journal, a) \in 0 .. MaxInt
  <2>1. a \in Account /\ a \in Account \ AllowNegative /\ sseen[d][a] = balance[a]
    BY <1>1 DEF SInv, SettlementTypeOK, SettlerInv, SFreshReads
  <2>2. balance[a] = Derived(journal, a)
    BY <2>1 DEF ClientInv, Exact, ExactWhereBounded
  <2>3. balance[a] \in 0 .. MaxInt
    BY <2>1, MaxIntAssumption DEF ClientInv, IInv, NoOverdraft, TypeOK, DbType, Int64
  <2> QED BY <2>1, <2>2, <2>3
<1>3. /\ m \in Account /\ Rail(m) \in Account /\ nets[m] \in Int64 /\ nets[m] > 0
      /\ P[i] = PayoutEntry(m, nets[m])
  BY <1>1, PayoutsFacts
<1>4. nets[m] \in 0 .. MaxInt
  BY <1>3, MaxIntAssumption DEF Int64
<1> HIDE DEF P, m, nets
<1>5. /\ Delta(P[i], a) = (IF a = m THEN -nets[m] ELSE 0) + (IF a = Rail(m) THEN nets[m] ELSE 0)
      /\ a \in {m, Rail(m)}
  BY <1>3, PayoutLegs DEF P
<1>6. CASE a # m \/ a = Rail(m)
  <2>1. Delta(P[i], a) \in 0 .. MaxInt
    BY <1>4, <1>5, <1>6, MaxIntAssumption
  <2> QED BY <1>2, <2>1 DEF P
<1>7. CASE a = m /\ a # Rail(m)
  <2>1. /\ N \in Nat /\ \A j \in 1 .. N : D[j] \in Int /\ D[j] = Delta(P[j], a)
        /\ Total(D, i) \in Int /\ AfterPayouts(d, a, i) = Wrap(sseen[d][a] + Total(D, i))
    BY <1>1, BatchDeltas DEF P
  <2>2. AfterPayouts(d, a, i) >= 0
    BY <1>1 DEF Payable, P
  <2> HIDE DEF D
  <2>3. \A j \in 1 .. i : j # i => D[j] = 0
    <3> SUFFICES ASSUME NEW j \in 1 .. i, j # i
                 PROVE  Delta(P[j], a) = 0
      <4>1. \A j \in 1 .. i : j \in 1 .. N
        BY <2>1 DEF P
      <4> QED BY <2>1, <4>1
    <3>1. j \in 1 .. N /\ j \in DOMAIN P /\ i \in 1 .. N
      BY <1>1, <2>1, BatchFacts DEF P
    <3>2. RightCurrency(P[j])
      BY <1>1, <3>1 DEF Payable, P
    <3> QED BY <1>1, <1>7, <3>1, <3>2, OtherPayouts DEF m
  <2> HIDE DEF N
  <2>4. Total(D, i) = D[i] /\ D[i] = Delta(P[i], a)
    <3>1. i \in Nat /\ i \in 1 .. i /\ i \in 1 .. N
      BY DEF N, P
    <3> QED BY <2>1, <2>3, <3>1, TotalOne
  <2>5. Delta(P[i], a) = -nets[m] /\ Delta(P[i], a) \in Int64
    BY <1>4, <1>5, <1>7, MaxIntAssumption DEF Int64
  <2>6. Wrap(Derived(journal, a) + Delta(P[i], a)) >= 0
    BY <1>2, <2>1, <2>2, <2>4
  <2> QED BY <1>2, <2>5, <2>6, SumFits DEF P
<1> QED BY <1>5, <1>6, <1>7 DEF P

-----------------------------------------------------------------------------
(* The two specifications mean the same by the operators of Ledger,        *)
LEMMA CoreSameTotal ==
  /\ \A d, n : CoreAtomic!Total(d, n) = Total(d, n)
  /\ \A x : CoreAtomic!Wrap(x) = Wrap(x)
BY DEF CoreAtomic!Total, Total, CoreAtomic!Wrap, Wrap

LEMMA CoreSameEntries ==
  /\ \A e, a : CoreAtomic!Delta(e, a) = Delta(e, a)
  /\ \A e : CoreAtomic!LegAccounts(e) = LegAccounts(e)
  /\ \A e : CoreAtomic!Valid(e) <=> Valid(e)
  /\ \A e : CoreAtomic!RightCurrency(e) <=> RightCurrency(e)
  /\ \A e, k : CoreAtomic!Posted(e, k) = Posted(e, k)
<1>1. /\ \A e, a : CoreAtomic!Delta(e, a) = Delta(e, a)
      /\ \A e : CoreAtomic!LegAccounts(e) = LegAccounts(e)
  BY DEF CoreAtomic!Delta, Delta, CoreAtomic!LegAccounts, LegAccounts, CoreAtomic!AmountOn, AmountOn
<1>2. /\ \A e : CoreAtomic!Valid(e) <=> Valid(e)
      /\ \A e : CoreAtomic!RightCurrency(e) <=> RightCurrency(e)
  BY CoreSameTotal DEF CoreAtomic!Valid, Valid, CoreAtomic!RightCurrency, RightCurrency,
       CoreAtomic!Net, Net, CoreAtomic!AmountIn, AmountIn
<1>3. \A e, k : CoreAtomic!Posted(e, k) = Posted(e, k)
  BY DEF CoreAtomic!Posted, Posted
<1> QED BY <1>1, <1>2, <1>3

LEMMA CoreSameSums ==
  /\ \A j, a : CoreAtomic!Derived(j, a) = Derived(j, a)
  /\ \A j, n, p, m : CoreAtomic!RefundedSoFar(j, n, p, m) = RefundedSoFar(j, n, p, m)
<1>1. \A j, a : CoreAtomic!Derived(j, a) = Derived(j, a)
  BY CoreSameTotal, CoreSameEntries DEF CoreAtomic!Derived, Derived
<1>2. \A j, n, p, m : CoreAtomic!RefundedSoFar(j, n, p, m) = RefundedSoFar(j, n, p, m)
  BY CoreSameTotal DEF CoreAtomic!RefundedSoFar, RefundedSoFar, CoreAtomic!RefundOf, RefundOf,
     CoreAtomic!Debited, Debited, CoreAtomic!DebitOn, DebitOn, CoreAtomic!AmountOn, AmountOn
<1> QED BY <1>1, <1>2

LEMMA CoreSameCaptured ==
  /\ \A e : CoreAtomic!MerchantLeg(e) = MerchantLeg(e)
  /\ \A e : CoreAtomic!SourceLeg(e) = SourceLeg(e)
  /\ \A e : CoreAtomic!Captured(e) = Captured(e)
BY DEF CoreAtomic!MerchantLeg, MerchantLeg, CoreAtomic!SourceLeg, SourceLeg,
       CoreAtomic!Captured, Captured

LEMMA CoreSameRequests ==
  /\ \A j, r : CoreAtomic!EntryFor(j, r) = EntryFor(j, r)
  /\ \A j, r, k : CoreAtomic!Refused(j, r, k) <=> Refused(j, r, k)
BY CoreSameCaptured, CoreSameTotal
   DEF CoreAtomic!EntryFor, EntryFor, CoreAtomic!Refused, Refused, CoreAtomic!Entry, Entry,
       CoreAtomic!TwoLegs, TwoLegs, CoreAtomic!FXLegs, FXLegs, CoreAtomic!Leg, Leg,
       CoreAtomic!FXPossible, FXPossible, CoreAtomic!IsPayment, IsPayment,
       CoreAtomic!Convert, Convert, CoreAtomic!Rounded, Rounded, CoreAtomic!Quo, Quo,
       CoreAtomic!NoAccount, NoAccount

(* ... and by those of Netting.                                            *)
LEMMA CoreSamePending ==
  \A j, n, S, M : CoreAtomic!PendingOf(j, n, S, M) = PendingOf(j, n, S, M)
BY CoreSameCaptured DEF CoreAtomic!PendingOf, PendingOf, CoreAtomic!Pending, Pending,
   CoreAtomic!IsPayment, IsPayment, CoreAtomic!Merchant, Merchant

LEMMA CoreSameNets ==
  \A j, n, P : CoreAtomic!NetOf(j, n, P) = NetOf(j, n, P)
<1>1. \A e, p : CoreAtomic!RefundDebits(e, p) = RefundDebits(e, p)
  BY DEF CoreAtomic!RefundDebits, RefundDebits, CoreAtomic!Debits, Debits, CoreAtomic!DebitAt, DebitAt
<1>2. \A j, n, p : CoreAtomic!StillOwed(j, n, p) = StillOwed(j, n, p)
  BY <1>1, CoreSameTotal, CoreSameCaptured
     DEF CoreAtomic!StillOwed, StillOwed, CoreAtomic!Refunded, Refunded
<1> QED BY <1>2, CoreSameTotal DEF CoreAtomic!NetOf, NetOf

LEMMA CoreSamePayouts ==
  \A nets : CoreAtomic!PayoutsFor(nets) = PayoutsFor(nets)
<1>1. \A m, net : CoreAtomic!PayoutEntry(m, net) = PayoutEntry(m, net)
  BY DEF CoreAtomic!PayoutEntry, PayoutEntry, CoreAtomic!Entry, Entry, CoreAtomic!TwoLegs, TwoLegs,
         CoreAtomic!Leg, Leg
<1>2. \A S, i : CoreAtomic!Ranked(S, i) = Ranked(S, i)
  BY DEF CoreAtomic!Ranked, Ranked, CoreAtomic!Cardinality, Cardinality
<1>3. \A S : CoreAtomic!Cardinality(S) = Cardinality(S)
  BY DEF CoreAtomic!Cardinality, Cardinality
<1> QED BY <1>1, <1>2, <1>3 DEF CoreAtomic!PayoutsFor, PayoutsFor

-----------------------------------------------------------------------------
(* postEntryTx would accept the entry on this journal.                     *)
Acceptable(e) ==
  /\ Valid(e) /\ LegAccounts(e) \subseteq Account /\ RightCurrency(e)
  /\ \A a \in LegAccounts(e) \ AllowNegative : Derived(journal, a) + Delta(e, a) >= 0

LEMMA CoreSamePostable ==
  /\ \A e : CoreAtomic!Postable(e) <=> Acceptable(e)
  /\ \A M : CoreAtomic!RailsOf(M) = RailsOf(M)
  /\ CoreAtomic!Int64 = Int64
<1>1. \A e : CoreAtomic!Postable(e) <=> Acceptable(e)
  BY CoreSameSums, CoreSameEntries DEF CoreAtomic!Postable, CoreAtomic!Affordable, Acceptable
<1>2. CoreAtomic!Int64 = Int64
  BY DEF CoreAtomic!Int64, Int64, CoreAtomic!MinInt, MinInt
<1> QED BY <1>1, <1>2 DEF CoreAtomic!RailsOf, RailsOf

(* The commit of a call is an operation of the abstract ledger.            *)
LEMMA CoreCommitIsPost ==
  ASSUME ClientInv, RefundInv, NEW s \in Session, pc[s] = "commit", Publish(s), settled' = settled,
         NEW CONSTANT r, r = job[s].req, NEW CONSTANT k, k = job[s].key
  PROVE  CoreAtomic!Post(r, k)
<1> DEFINE e == EntryFor(journal, r)
<1>1. /\ ~Refused(journal, r, k) /\ Valid(e) /\ RightCurrency(e)
      /\ k # NoKey => KeyedBy[k] = NoRow
      /\ LegAccounts(e) \subseteq Account
      /\ \A a \in LegAccounts(e) \ AllowNegative : Derived(journal, a) + Delta(e, a) >= 0
      /\ e.kind = "refund" =>
           RefundedSoFar(journal, Len(journal), e.ref, MerchantLeg(journal[e.ref]).acct) + e.legs[2].amt
             <= Captured(journal[e.ref])
      /\ journal' = Append(journal, Posted(e, k))
      /\ KeyedBy' = IF k = NoKey THEN KeyedBy ELSE [KeyedBy EXCEPT ![k] = r]
  BY PublishPosts DEF ClientInv
<1>2. CoreAtomic!EntryFor(journal, r) = e
  BY CoreSameRequests
<1> HIDE DEF e
<1>3. CoreAtomic!Postable(e)
  BY <1>1, CoreSamePostable DEF Acceptable
<1>4. e.kind = "refund" => CoreAtomic!WithinCaptured(e)
  BY <1>1, CoreSameSums, CoreSameCaptured DEF CoreAtomic!WithinCaptured
<1> QED BY <1>1, <1>2, <1>3, <1>4, CoreSameRequests, CoreSameEntries DEF CoreAtomic!Post, KeyedBy

(* The commit of a batch settles, in one step, the merchants it has        *)
(* locked: all that is pending for them at that moment, at the net the     *)
(* journal owes them at that moment.                                       *)
LEMMA BatchIsSettle ==
  ASSUME ClientInv, SInv, NEW d \in Settler, CommitBatch(d)
  PROVE  CoreAtomic!Settle(run[d].merchants)
<1> DEFINE n == Len(journal)
           M == run[d].merchants
           v == View(d).settled
           net(m) == NetOf(journal, n, PendingOf(journal, n, settled, {m}))
           owed == [m \in M |-> net(m)]
<1>1. /\ spc[d] = "commit" /\ keyRow' = keyRow
      /\ journal' = journal \o [i \in 1 .. Len(Payouts(d)) |-> Posted(Payouts(d)[i], NoKey)]
  BY DEF CommitBatch
<1>2. /\ settled' = settled \union PendingOf(journal, n, settled, M)
      /\ run[d].payments = PendingOf(journal, n, settled, M)
      /\ run[d].payments \intersect settled = {}
  BY BatchMarks
<1>3. /\ run[d].nets = [m \in M |-> NetOf(journal, n, PendingOf(journal, n, v, {m}))]
      /\ run[d].payments = PendingOf(journal, n, v, M)
  BY <1>1 DEF SInv, SettlerInv, NetsCurrent
<1>4. ASSUME NEW m \in M
      PROVE  PendingOf(journal, n, v, {m}) = PendingOf(journal, n, settled, {m})
  <2> HIDE DEF v, n
  <2>1. \A S : PendingOf(journal, n, S, {m}) = {p \in PendingOf(journal, n, S, M) : Merchant(journal, p) = m}
    BY <1>4 DEF PendingOf
  <2> QED BY <1>2, <1>3, <2>1
<1>5. run[d].nets = owed
  BY <1>3, <1>4
<1>6. Payouts(d) = PayoutsFor(owed) /\ DOMAIN Payouts(d) = 1 .. Len(Payouts(d))
  BY <1>1, <1>5, BatchFacts DEF Payouts
<1>7. owed = [m \in M |-> CoreAtomic!NetOf(journal, n, CoreAtomic!PendingOf(journal, n, settled, {m}))]
  BY CoreSameNets, CoreSamePending
<1> DEFINE P == Payouts(d)
<1> HIDE DEF owed, n, M, P
<1>8. P = CoreAtomic!PayoutsFor([m \in M |-> CoreAtomic!NetOf(journal, n, CoreAtomic!PendingOf(journal, n, settled, {m}))])
  BY <1>6, <1>7, CoreSamePayouts DEF P
<1>9. \A i \in DOMAIN P : CoreAtomic!Postable(P[i])
  <2> SUFFICES ASSUME NEW i \in 1 .. Len(P)
               PROVE  Acceptable(P[i])
    BY <1>6, CoreSamePostable DEF P
  <2>1. Valid(P[i]) /\ RightCurrency(P[i])
    BY <1>1, <1>6 DEF SInv, SettlerInv, StillPayable, Payable, P
  <2>2. LegAccounts(P[i]) \subseteq Account
    <3>1. Batch(d)[i] = Posted(P[i], NoKey) /\ LegAccounts(Batch(d)[i]) \subseteq DOMAIN sseen[d]
      BY <1>1, BatchFacts DEF P
    <3>2. LegAccounts(Posted(P[i], NoKey)) = LegAccounts(P[i])
      BY DEF LegAccounts, Posted
    <3> QED BY <3>1, <3>2 DEF SInv, SettlementTypeOK
  <2>3. \A a \in LegAccounts(P[i]) \ AllowNegative : Derived(journal, a) + Delta(P[i], a) >= 0
    BY <1>1, PayoutsAffordable DEF P
  <2> QED BY <2>1, <2>2, <2>3 DEF Acceptable
<1>12. /\ \A m \in M : CoreAtomic!NetOf(journal, n, CoreAtomic!PendingOf(journal, n, settled, {m})) \in CoreAtomic!Int64
       /\ CoreAtomic!RailsOf(M) \subseteq Account
  <2>1. /\ Payable64(run[d].nets) /\ DOMAIN run[d].nets = M
        /\ M \subseteq Account
    BY <1>1, RunPays DEF SInv, SettlementTypeOK, RunType, M
  <2>2. RailsOf(M) \subseteq Account
    BY <2>1 DEF Payable64, RailsOf, Rail
  <2>3. \A m \in M : run[d].nets[m] \in Int64
    BY <2>1 DEF Payable64
  <2>4. \A m \in M : run[d].nets[m] = CoreAtomic!NetOf(journal, n, CoreAtomic!PendingOf(journal, n, settled, {m}))
    BY <1>5, <1>7
  <2> QED BY <2>2, <2>3, <2>4, CoreSamePostable
<1>10. journal' = journal \o [i \in DOMAIN P |-> CoreAtomic!Posted(P[i], NoKey)]
  BY <1>1, <1>6, CoreSameEntries DEF P
<1>11. settled' = settled \union CoreAtomic!PendingOf(journal, n, settled, M)
  BY <1>2, CoreSamePending
<1> QED BY <1>1, <1>8, <1>9, <1>10, <1>11, <1>12 DEF CoreAtomic!Settle, n, M

(* Every other step is a stutter.                                          *)
LEMMA CoreStepRefines ==
  ASSUME ClientInv, SInv, RefundInv, [CoreNext]_allvars
  PROVE  [CoreAtomic!Next]_(CoreAtomic!avars)
<1> USE DEF CoreAtomic!avars
<1>1. ASSUME journal' = journal, keyRow' = keyRow, settled' = settled
      PROVE  UNCHANGED CoreAtomic!avars
  BY <1>1
<1>2. ASSUME settled' = settled, NEW s \in Session, NEW r \in Request, NEW k \in Key \union {NoKey},
             Refuse(s, r, k) \/ Call(s, r, k)
      PROVE  UNCHANGED CoreAtomic!avars
  BY <1>1, <1>2 DEF Refuse, Call, Send, db
<1>3. ASSUME settled' = settled, NEW s \in Session, CommitTx(s) \/ CommitAnswerLost(s)
      PROVE  CoreAtomic!Next
  <2>1. pc[s] = "commit" /\ Publish(s) /\ job[s] \in Job
    BY <1>3 DEF CommitTx, CommitAnswerLost, ClientInv, IInv, TypeOK, SessionType
  <2>2. PICK r \in Request, k \in Key \union {NoKey} : r = job[s].req /\ k = job[s].key
    BY <2>1 DEF Job
  <2>3. CoreAtomic!Post(r, k)
    BY <1>3, <2>1, <2>2, CoreCommitIsPost
  <2> QED BY <2>3 DEF CoreAtomic!Next
<1>4. ASSUME settled' = settled, NEW s \in Session,
             \/ BeginTx(s) \/ ClaimKey(s) \/ KeyTaken(s) \/ ReadReplay(s) \/ LockAccount(s)
             \/ AllLocked(s) \/ RejectEntry(s) \/ CheckGuard(s) \/ PostLegs(s)
             \/ RejectPosting(s) \/ Retry(s) \/ Exhausted(s) \/ Abort(s)
      PROVE  UNCHANGED CoreAtomic!avars
  <2>1. journal' = journal /\ keyRow' = keyRow
    BY <1>4 DEF BeginTx, ClaimKey, KeyTaken, ReadReplay, LockAccount, AllLocked, RejectEntry,
                CheckGuard, PostLegs, RejectPosting, Retry, Exhausted, Abort, db
  <2> QED BY <1>1, <1>4, <2>1
<1>5. ASSUME NEW d \in Settler, RunSettlement(d) \/ SStep(d) \/ SAbort(d)
      PROVE  [CoreAtomic!Next]_(CoreAtomic!avars)
  <2>1. CASE CommitBatch(d)
    <3>1. CoreAtomic!Settle(run[d].merchants)
      BY <2>1, BatchIsSettle
    <3>2. run[d].merchants \subseteq Account
      BY DEF SInv, SettlementTypeOK, RunType
    <3> QED BY <3>1, <3>2 DEF CoreAtomic!Next
  <2>2. CASE UNCHANGED <<db, cvars, settled>>
    BY <1>1, <2>2 DEF db
  <2> QED BY <1>5, <2>1, <2>2, QuietSettlement
<1>6. CASE UNCHANGED allvars
  BY <1>1, <1>6 DEF allvars, vars, db, svars
<1>7. CASE ClientNext /\ UNCHANGED svars
  <2>1. settled' = settled
    BY <1>7 DEF svars
  <2> QED BY <1>2, <1>3, <1>4, <1>7, <2>1 DEF ClientNext, Step, Progress
<1> QED BY <1>5, <1>6, <1>7 DEF CoreNext, CoreTerminating

(* The whole system, settlements included, implements the abstract ledger: *)
(* for any number of sessions and of settlement runs, in either isolation  *)
(* mode, every commit is one operation, legal on the journal as it is at   *)
(* that moment (runInTx, postEntryTx, RunSettlement).                      *)
THEOREM LedgerIsAtomic == ASSUME RefundsFit PROVE CoreSpec => CoreRefinesAtomic
<1>1. CoreInit => RefundInv
  BY InitRefunds DEF CoreInit
<1>2. ClientInv /\ SInv /\ RefundInv /\ [CoreNext]_allvars => RefundInv'
  BY RefundsFit, CoreKeepsRefunds
<1>3. CoreInit => CoreAtomic!Init
  BY DEF CoreInit, Init, SInit, CoreAtomic!Init
<1>4. ClientInv /\ SInv /\ RefundInv /\ [CoreNext]_allvars => [CoreAtomic!Next]_(CoreAtomic!avars)
  BY CoreStepRefines
<1> QED BY <1>1, <1>2, <1>3, <1>4, CoreInductive, PTL
        DEF CoreSpec, CoreRefinesAtomic, CoreAtomic!Spec

-----------------------------------------------------------------------------
(* What the abstract ledger is good for.  A step of it, in the operators   *)
(* of Ledger: a request that is not refused posts an entry postEntryTx     *)
(* would accept ...                                                        *)
Posts(r, k) ==
  LET e == EntryFor(journal, r) IN
  /\ ~Refused(journal, r, k) /\ Acceptable(e)
  /\ k # NoKey => KeyedBy[k] = NoRow
  /\ e.kind = "refund" =>
       RefundedSoFar(journal, Len(journal), e.ref, MerchantLeg(journal[e.ref]).acct) + e.legs[2].amt
         <= Captured(journal[e.ref])
  /\ journal' = Append(journal, Posted(e, k))
  /\ KeyedBy' = IF k = NoKey THEN KeyedBy ELSE [KeyedBy EXCEPT ![k] = r]

(* ... or a settlement posts payouts it would accept.                      *)
Settles(nets) ==
  /\ Payable64(nets)
  /\ \A i \in 1 .. Len(PayoutsFor(nets)) : Acceptable(PayoutsFor(nets)[i])
  /\ journal' = journal \o [i \in 1 .. Len(PayoutsFor(nets)) |-> Posted(PayoutsFor(nets)[i], NoKey)]
  /\ KeyedBy' = KeyedBy

LEMMA PostIs ==
  ASSUME NEW r \in Request, NEW k \in Key \union {NoKey}, CoreAtomic!Post(r, k)
  PROVE  Posts(r, k)
<1> DEFINE e == EntryFor(journal, r)
<1>1. CoreAtomic!EntryFor(journal, r) = e
  BY CoreSameRequests
<1> HIDE DEF e
<1>2. /\ ~Refused(journal, r, k) /\ Acceptable(e)
      /\ journal' = Append(journal, Posted(e, k))
  BY <1>1, CoreSameRequests, CoreSamePostable, CoreSameEntries DEF CoreAtomic!Post
<1>3. e.kind = "refund" =>
        RefundedSoFar(journal, Len(journal), e.ref, MerchantLeg(journal[e.ref]).acct) + e.legs[2].amt
          <= Captured(journal[e.ref])
  BY <1>1, CoreSameSums, CoreSameCaptured DEF CoreAtomic!Post, CoreAtomic!WithinCaptured
<1>4. /\ k # NoKey => KeyedBy[k] = NoRow
      /\ KeyedBy' = IF k = NoKey THEN KeyedBy ELSE [KeyedBy EXCEPT ![k] = r]
  BY DEF CoreAtomic!Post, KeyedBy
<1> QED BY <1>2, <1>3, <1>4 DEF Posts, e

LEMMA SettleIs ==
  ASSUME IsFiniteSet(Account), NEW M \in SUBSET Account, CoreAtomic!Settle(M)
  PROVE  \E nets : Settles(nets)
<1> DEFINE n == Len(journal)
           nets == [m \in M |-> NetOf(journal, n, PendingOf(journal, n, settled, {m}))]
           P == PayoutsFor(nets)
<1>1. nets = [m \in M |-> CoreAtomic!NetOf(journal, n, CoreAtomic!PendingOf(journal, n, settled, {m}))]
  BY CoreSameNets, CoreSamePending
<1>2. DOMAIN nets = M
  OBVIOUS
<1> HIDE DEF nets
<1>3. /\ RailsOf(M) \subseteq Account
      /\ \A m \in M : nets[m] \in Int64
      /\ \A i \in DOMAIN P : Acceptable(P[i])
      /\ journal' = journal \o [i \in DOMAIN P |-> Posted(P[i], NoKey)]
  BY <1>1, CoreSamePostable, CoreSamePayouts, CoreSameEntries DEF CoreAtomic!Settle
<1>4. Payable64(nets)
  <2>1. IsFiniteSet(M)
    BY FS_Subset
  <2>2. \A m \in M : Rail(m) \in RailsOf(M)
    BY DEF Rail, RailsOf
  <2> QED BY <1>2, <1>3, <2>1, <2>2 DEF Payable64
<1>5. DOMAIN P = 1 .. Len(P)
  BY <1>4, PayoutsFacts
<1>6. KeyedBy' = KeyedBy
  BY DEF CoreAtomic!Settle, KeyedBy
<1> HIDE DEF P
<1>7. /\ \A i \in 1 .. Len(P) : Acceptable(P[i])
      /\ journal' = journal \o [i \in 1 .. Len(P) |-> Posted(P[i], NoKey)]
  BY <1>3, <1>5
<1>8. Settles(nets)
  BY <1>4, <1>6, <1>7 DEF Settles, P
<1> QED BY <1>8

(* No account that must not owe does, by the exact sum of its postings.    *)
NobodyOwes == \A a \in Account \ AllowNegative : Derived(journal, a) >= 0

(* A key is used up by its entry, and has no other.                        *)
KeysOnce ==
  \A i \in DOMAIN journal : journal[i].key # NoKey =>
    /\ KeyedBy[journal[i].key] # NoRow
    /\ \A j \in DOMAIN journal : journal[j].key = journal[i].key => j = i

(* Inductive for the abstract ledger.                                      *)
AbstractInv ==
  /\ journal \in Seq(JournalEntry) /\ \A n \in DOMAIN journal : TwoSided(journal[n])
  /\ JournalSound /\ NobodyOwes /\ RefundBound /\ RefundsFollow /\ KeysOnce

(* What is posted is the entry, under its key.                             *)
LEMMA PostedIs ==
  ASSUME NEW e, NEW k
  PROVE  LET q == Posted(e, k) IN
         /\ q.kind = e.kind /\ q.ref = e.ref /\ q.legs = e.legs /\ q.key = k
         /\ TwoSided(q) <=> TwoSided(e)
         /\ Paired(q) <=> Paired(e)
         /\ RightCurrency(q) <=> RightCurrency(e)
         /\ LegAccounts(q) = LegAccounts(e)
         /\ \A a : Delta(q, a) = Delta(e, a)
         /\ \A p, m : RefundOf(q, p, m) = RefundOf(e, p, m)
<1> DEFINE q == Posted(e, k)
<1>1. q.kind = e.kind /\ q.ref = e.ref /\ q.legs = e.legs /\ q.key = k
  BY DEF Posted
<1> HIDE DEF q
<1>2. /\ TwoSided(q) <=> TwoSided(e)
      /\ Paired(q) <=> Paired(e)
      /\ RightCurrency(q) <=> RightCurrency(e)
      /\ LegAccounts(q) = LegAccounts(e)
  BY <1>1 DEF TwoSided, Paired, Opposite, RightCurrency, LegAccounts
<1>3. \A i, a : AmountOn(q, i, a) = AmountOn(e, i, a)
  BY <1>1 DEF AmountOn
<1>4. \A a : Delta(q, a) = Delta(e, a) /\ Debited(q, a) = Debited(e, a)
  BY <1>3 DEF Delta, Debited, DebitOn
<1>5. \A p, m : RefundOf(q, p, m) = RefundOf(e, p, m)
  BY <1>1, <1>4 DEF RefundOf
<1> QED BY <1>1, <1>2, <1>4, <1>5 DEF q

(* A refund takes its amount from the merchant of the payment it refunds.  *)
LEMMA RefundTakes ==
  ASSUME NEW r \in Request, NEW k, ~Refused(journal, r, k), EntryFor(journal, r).kind = "refund"
  PROVE  LET e == EntryFor(journal, r) IN
         /\ IsPayment(journal, e.ref) /\ e.legs[2].amt \in Int
         /\ RefundOf(e, e.ref, MerchantLeg(journal[e.ref]).acct) = e.legs[2].amt
<1> DEFINE e == EntryFor(journal, r)
           p == journal[r.payment]
           m == MerchantLeg(p).acct
           c == MerchantLeg(p).cur
           src == SourceLeg(p).acct
<1>1. r.amount \in Int /\ r.amount > 0
  BY RequestAssumption, MaxIntAssumption DEF Refused, Int64
<1>2. r.op = "refund" /\ e = Entry("refund", r.payment, TwoLegs(m, src, c, r.amount))
  BY RequestAssumption DEF EntryFor, Entry
<1>3. IsPayment(journal, r.payment)
  BY <1>2 DEF Refused
<1> HIDE DEF e, m, src, c
<1>4. /\ e.ref = r.payment /\ e.kind = "refund" /\ DOMAIN e.legs = 1 .. 2
      /\ e.legs[1].acct = m /\ e.legs[1].amt = -r.amount /\ e.legs[2].amt = r.amount
  BY <1>2 DEF Entry, TwoLegs, Leg
<1>5. /\ DebitOn(e, 1, m) = r.amount /\ DebitOn(e, 2, m) = 0
      /\ DebitOn(e, 3, m) = 0 /\ DebitOn(e, 4, m) = 0
  BY <1>1, <1>4 DEF DebitOn, AmountOn
<1>6. RefundOf(e, e.ref, m) = r.amount
  BY <1>1, <1>4, <1>5 DEF RefundOf, Debited
<1> QED BY <1>1, <1>3, <1>4, <1>6 DEF e, m

(* A request's entry keeps the books: its accounts can bear it, and a      *)
(* refund stays within what is left of its payment.                        *)
LEMMA PostKeepsBooks ==
  ASSUME AbstractInv, NEW r \in Request, NEW k \in Key \union {NoKey}, Posts(r, k)
  PROVE  /\ journal' \in Seq(JournalEntry) /\ (\A n \in DOMAIN journal : TwoSided(journal[n]))'
         /\ JournalSound' /\ NobodyOwes'
<1> DEFINE e == EntryFor(journal, r)
           q == Posted(e, k)
           n == Len(journal)
<1>1. /\ e \in EntryType /\ TwoSided(e) /\ Paired(e)
      /\ Acceptable(e) /\ journal' = Append(journal, q)
  BY EntryForType, EntryForPaired DEF AbstractInv, Posts
<1>2. /\ TwoSided(q) /\ Paired(q) /\ RightCurrency(q) /\ LegAccounts(q) \subseteq Account
      /\ \A a : Delta(q, a) = Delta(e, a)
  <2> HIDE DEF e
  <2> QED BY <1>1, PostedIs DEF Acceptable
<1>3. q \in JournalEntry
  <2> HIDE DEF e
  <2> QED BY <1>1 DEF Posted, EntryType, JournalEntry
<1> HIDE DEF e, q
<1>4. /\ journal \in Seq(JournalEntry) /\ journal' \in Seq(JournalEntry)
      /\ n \in Nat /\ DOMAIN journal = 1 .. n /\ DOMAIN journal' = 1 .. n + 1
      /\ journal'[n + 1] = q /\ \A i \in 1 .. n : journal'[i] = journal[i]
  BY <1>1, <1>3 DEF AbstractInv
<1>5. \A i \in DOMAIN journal' : (i \in DOMAIN journal /\ journal'[i] = journal[i]) \/ journal'[i] = q
  BY <1>4
<1>6. (\A i \in DOMAIN journal : TwoSided(journal[i]))'
  BY <1>2, <1>5 DEF AbstractInv
<1>7. JournalSound'
  BY <1>2, <1>5 DEF AbstractInv, JournalSound
<1>8. NobodyOwes'
  <2> SUFFICES ASSUME NEW a \in Account \ AllowNegative
               PROVE  Derived(journal', a) >= 0
    BY DEF NobodyOwes
  <2>1. Derived(journal', a) = Derived(journal, a) + Delta(e, a) /\ Derived(journal, a) \in Int
    BY <1>1, <1>2, <1>3, <1>4, DerivedAppend, DerivedType
  <2>2. CASE a \in LegAccounts(e)
    BY <1>1, <2>1, <2>2 DEF Acceptable
  <2>3. CASE a \notin LegAccounts(e)
    <3>1. Delta(e, a) = 0
      BY <2>3 DEF Delta, AmountOn, LegAccounts
    <3>2. Derived(journal, a) >= 0
      BY DEF AbstractInv, NobodyOwes
    <3> QED BY <2>1, <3>1, <3>2
  <2> QED BY <2>2, <2>3
<1> QED BY <1>4, <1>6, <1>7, <1>8

LEMMA PostKeepsBounds ==
  ASSUME AbstractInv, NoRow \notin Request,
         NEW r \in Request, NEW k \in Key \union {NoKey}, Posts(r, k)
  PROVE  RefundBound' /\ RefundsFollow' /\ KeysOnce'
<1> DEFINE e == EntryFor(journal, r)
           q == Posted(e, k)
           n == Len(journal)
           Of(j, p) == RefundedSoFar(j, Len(j), p, MerchantLeg(j[p]).acct)
<1>1. /\ e \in EntryType /\ TwoSided(e) /\ journal' = Append(journal, q)
      /\ k # NoKey => KeyedBy[k] = NoRow
      /\ KeyedBy' = IF k = NoKey THEN KeyedBy ELSE [KeyedBy EXCEPT ![k] = r]
  BY EntryForType DEF AbstractInv, Posts
<1>2. e.kind = "refund" =>
        /\ IsPayment(journal, e.ref) /\ e.legs[2].amt \in Int
        /\ RefundOf(e, e.ref, MerchantLeg(journal[e.ref]).acct) = e.legs[2].amt
        /\ Of(journal, e.ref) + e.legs[2].amt <= Captured(journal[e.ref])
  BY RefundTakes DEF Posts
<1> HIDE DEF e
<1>3. q \in JournalEntry
  BY <1>1 DEF Posted, EntryType, JournalEntry
<1>4. /\ TwoSided(q) /\ q.kind = e.kind /\ q.ref = e.ref /\ q.key = k
      /\ \A p, m : RefundOf(q, p, m) = RefundOf(e, p, m)
  BY <1>1, PostedIs
<1> HIDE DEF q
<1>5. /\ journal \in Seq(JournalEntry) /\ journal' \in Seq(JournalEntry)
      /\ n \in Nat /\ DOMAIN journal = 1 .. n /\ DOMAIN journal' = 1 .. n + 1 /\ Len(journal') = n + 1
      /\ journal'[n + 1] = q /\ \A i \in 1 .. n : journal'[i] = journal[i]
  BY <1>1, <1>3 DEF AbstractInv
<1>6. ASSUME NEW p, NEW m
      PROVE  /\ RefundedSoFar(journal', Len(journal'), p, m) =
                  RefundedSoFar(journal, n, p, m) + RefundOf(q, p, m)
             /\ RefundedSoFar(journal, n, p, m) \in Int
  <2>1. RefundedSoFar(Append(journal, q), n + 1, p, m) = RefundedSoFar(journal, n, p, m) + RefundOf(q, p, m)
    BY <1>3, <1>5, RefundedAppend
  <2>2. RefundedSoFar(journal, n, p, m) \in Int
    BY <1>5, RefundedType
  <2> QED BY <1>1, <1>5, <2>1, <2>2
<1>7. RefundBound'
  <2> SUFFICES ASSUME NEW p \in DOMAIN journal', IsPayment(journal', p)
               PROVE  RefundedSoFar(journal', Len(journal'), p, MerchantLeg(journal'[p]).acct)
                        <= Captured(journal'[p])
    BY DEF RefundBound
  <2>1. CASE p \in DOMAIN journal
    <3> DEFINE m == MerchantLeg(journal[p]).acct
    <3>1. journal'[p] = journal[p] /\ IsPayment(journal, p)
      BY <1>5, <2>1 DEF IsPayment
    <3>2. Of(journal, p) <= Captured(journal[p])
      BY <3>1, <2>1 DEF AbstractInv, RefundBound
    <3>3. CASE e.kind = "refund" /\ e.ref = p
      BY <1>2, <1>4, <1>6, <3>1, <3>3
    <3>4. CASE ~(e.kind = "refund" /\ e.ref = p)
      <4>1. RefundOf(q, p, m) = 0
        BY <1>4, <3>4 DEF RefundOf
      <4> QED BY <1>6, <3>1, <3>2, <4>1
    <3> QED BY <3>3, <3>4
  <2>2. CASE p \notin DOMAIN journal
    <3> DEFINE m == MerchantLeg(q).acct
    <3>1. p = n + 1 /\ journal'[p] = q /\ q.kind = "payment"
      BY <1>5, <2>2 DEF IsPayment
    <3>2. Captured(q) > 0
      BY <1>3, <1>4, <3>1, PaymentLegs DEF Captured, JournalEntry
    <3>3. RefundOf(q, p, m) = 0
      BY <3>1 DEF RefundOf
    <3>4. \A i \in 1 .. n : RefundOf(journal[i], p, m) = 0
      BY <1>5, <2>2 DEF RefundOf, AbstractInv, RefundsFollow
    <3>5. RefundedSoFar(journal, n, p, m) = 0
      BY <1>5, <3>4, RefundedNone
    <3>6. Captured(q) \in Int
      <4>1. q.legs \in Seq(Legs)
        BY <1>3 DEF JournalEntry
      <4>2. MerchantLeg(q) \in Legs
        BY <1>4, <3>1, <4>1, PaymentLegs
      <4>3. Captured(q) \in Int64
        BY <4>2 DEF Captured, Legs
      <4> QED BY <4>3, MaxIntAssumption DEF Int64
    <3> QED BY <1>6, <3>1, <3>2, <3>3, <3>5, <3>6
  <2> QED BY <2>1, <2>2
<1>8. RefundsFollow'
  <2>1. q.kind = "refund" => q.ref \in DOMAIN journal
    BY <1>2, <1>4 DEF IsPayment
  <2> QED BY <1>5, <2>1 DEF AbstractInv, RefundsFollow
<1>9. KeysOnce'
  <2>1. \A i \in 1 .. n : journal[i].key # NoKey =>
          /\ journal[i].key \in Key /\ journal[i].key # k
          /\ KeyedBy[journal[i].key] # NoRow
          /\ \A j \in 1 .. n : journal[j].key = journal[i].key => j = i
    <3> SUFFICES ASSUME NEW i \in 1 .. n, journal[i].key # NoKey
                 PROVE  /\ journal[i].key \in Key /\ journal[i].key # k
                        /\ KeyedBy[journal[i].key] # NoRow
                        /\ \A j \in 1 .. n : journal[j].key = journal[i].key => j = i
      OBVIOUS
    <3>1. journal[i] \in JournalEntry
      BY <1>5
    <3>2. journal[i].key \in Key
      BY <3>1 DEF JournalEntry
    <3>3. /\ KeyedBy[journal[i].key] # NoRow
          /\ \A j \in 1 .. n : journal[j].key = journal[i].key => j = i
      BY <1>5 DEF AbstractInv, KeysOnce
    <3> QED BY <1>1, <3>2, <3>3
  <2>2. \A x \in Key : x # k => KeyedBy'[x] = KeyedBy[x]
    BY <1>1 DEF KeyedBy
  <2>3. k # NoKey => KeyedBy'[k] = r
    <3>1. DOMAIN KeyedBy = Key
      BY DEF KeyedBy
    <3> QED BY <1>1, <3>1
  <2>4. ASSUME NEW i \in 1 .. n, journal[i].key # NoKey
        PROVE  /\ KeyedBy'[journal[i].key] # NoRow
               /\ \A j \in 1 .. n + 1 : journal'[j].key = journal[i].key => j = i
    BY <1>4, <1>5, <2>1, <2>2, <2>4
  <2>5. k # NoKey =>
          /\ KeyedBy'[k] # NoRow
          /\ \A j \in 1 .. n + 1 : journal'[j].key = k => j = n + 1
    BY <1>5, <2>1, <2>3
  <2> QED BY <1>4, <1>5, <2>4, <2>5 DEF KeysOnce
<1> QED BY <1>7, <1>8, <1>9

(* Numbers that are not negative do not add up to a negative one.          *)
LEMMA TotalNotNegative ==
  ASSUME NEW n \in Nat, NEW d, \A i \in 1 .. n : d[i] \in Int /\ d[i] >= 0
  PROVE  Total(d, n) >= 0
<1> DEFINE S == {i \in 0 .. n : Total(d, i) >= 0}
<1>1. 0 \in S
  BY TotalZero
<1>2. ASSUME NEW i \in 1 .. n, i - 1 \in S
      PROVE  i \in S
  <2>1. /\ i - 1 \in Nat /\ (i - 1) + 1 = i /\ d[i] \in Int /\ d[i] >= 0
        /\ \A l \in 1 .. i - 1 : d[l] \in Int
        /\ \A l \in 1 .. (i - 1) + 1 : d[l] \in Int
    OBVIOUS
  <2>2. Total(d, i) = Total(d, i - 1) + d[i]
    BY <2>1, TotalNext
  <2>3. Total(d, i - 1) \in Int
    BY <2>1, TotalType
  <2> QED BY <1>2, <2>1, <2>2, <2>3
<1>3. \A i \in 0 .. n : i \in S
  <2> HIDE DEF S
  <2> QED BY <1>1, <1>2, UpTo
<1> QED BY <1>3

(* A settlement adds entries of the journal, one for each payout.          *)
Paid(nets) == [i \in 1 .. Len(PayoutsFor(nets)) |-> Posted(PayoutsFor(nets)[i], NoKey)]

LEMMA PaidFacts ==
  ASSUME NEW nets, Settles(nets)
  PROVE  LET q == Paid(nets) IN
         /\ q \in Seq(JournalEntry) /\ Len(q) = Len(PayoutsFor(nets)) /\ journal' = journal \o q
         /\ \A i \in 1 .. Len(q) :
              /\ q[i].kind = "settlement" /\ q[i].key = NoKey
              /\ TwoSided(q[i]) /\ Paired(q[i]) /\ RightCurrency(q[i])
              /\ LegAccounts(q[i]) \subseteq Account
              /\ \A a : Delta(q[i], a) = Delta(PayoutsFor(nets)[i], a)
<1> DEFINE P == PayoutsFor(nets)
           q == Paid(nets)
<1>1. P \in Seq(EntryType) /\ Payable64(nets)
  BY PayoutsFacts DEF Settles
<1>2. Len(P) \in Nat
  BY <1>1
<1>3. \A i \in 1 .. Len(P) : Acceptable(P[i])
  BY DEF Settles
<1>4. ASSUME NEW i \in 1 .. Len(P)
      PROVE  /\ Posted(P[i], NoKey) \in JournalEntry
             /\ Posted(P[i], NoKey).kind = "settlement" /\ Posted(P[i], NoKey).key = NoKey
             /\ TwoSided(Posted(P[i], NoKey)) /\ Paired(Posted(P[i], NoKey))
             /\ RightCurrency(Posted(P[i], NoKey)) /\ LegAccounts(Posted(P[i], NoKey)) \subseteq Account
             /\ \A a : Delta(Posted(P[i], NoKey), a) = Delta(P[i], a)
  BY <1>1, <1>3, PayoutPosted DEF Acceptable
<1> HIDE DEF P
<1>5. q = [i \in 1 .. Len(P) |-> Posted(P[i], NoKey)]
  BY DEF Paid, P
<1>6. journal' = journal \o q
  BY DEF Settles, Paid
<1> HIDE DEF q
<1>7. q \in Seq(JournalEntry) /\ Len(q) = Len(P)
  BY <1>2, <1>4, <1>5
<1> QED BY <1>4, <1>5, <1>6, <1>7 DEF P, q

(* Nobody owes after it: of the payouts at most one takes from an account, *)
(* and that one the account could bear on its own.                         *)
LEMMA SettleOwesNothing ==
  ASSUME AbstractInv, NEW nets, Settles(nets)
  PROVE  NobodyOwes'
<1> DEFINE P == PayoutsFor(nets)
           q == Paid(nets)
           N == Len(P)
<1> SUFFICES ASSUME NEW a \in Account \ AllowNegative
             PROVE  Derived(journal', a) >= 0
  BY DEF NobodyOwes
<1>1. /\ P \in Seq(EntryType) /\ Payable64(nets) /\ \A i \in 1 .. N : Acceptable(P[i])
  BY PayoutsFacts DEF Settles
<1>2. /\ q \in Seq(JournalEntry) /\ Len(q) = N /\ journal' = journal \o q
      /\ journal \in Seq(JournalEntry) /\ N \in Nat
      /\ \A i \in 1 .. N : Delta(q[i], a) = Delta(P[i], a)
  <2>1. /\ q \in Seq(JournalEntry) /\ Len(q) = N /\ journal' = journal \o q
        /\ \A i \in 1 .. Len(q) : Delta(q[i], a) = Delta(P[i], a)
    BY PaidFacts
  <2>2. N \in Nat
    BY <1>1
  <2> QED BY <2>1, <2>2 DEF AbstractInv
<1> HIDE DEF q
<1> DEFINE D == Deltas(q, a)
<1>3. \A i \in 1 .. N : D[i] \in Int /\ D[i] = Delta(P[i], a)
  BY <1>2, DeltasType
<1>4. /\ Derived(journal', a) = Derived(journal, a) + Total(D, N)
      /\ Derived(journal, a) \in Int /\ Total(D, N) \in Int
  BY <1>2, DerivedJoin
<1>5. Derived(journal, a) >= 0
  BY DEF AbstractInv, NobodyOwes
<1>6. ASSUME NEW i \in 1 .. N
      PROVE  LET m == Payee(P[i]) IN
             /\ LegAccounts(P[i]) = {m, Rail(m)}
             /\ (a # m \/ a = Rail(m)) => Delta(P[i], a) >= 0
  <2> DEFINE m == Payee(P[i])
  <2>1. i \in DOMAIN P
    BY <1>1
  <2>2. /\ m \in Account /\ Rail(m) \in Account /\ nets[m] \in Int64 /\ nets[m] > 0
        /\ P[i] = PayoutEntry(m, nets[m])
    BY <1>1, <2>1, PayoutsFacts
  <2> HIDE DEF m, P
  <2>3. /\ Delta(P[i], a) = (IF a = m THEN -nets[m] ELSE 0) + (IF a = Rail(m) THEN nets[m] ELSE 0)
        /\ LegAccounts(P[i]) = {m, Rail(m)}
    BY <2>2, PayoutLegs
  <2>4. nets[m] \in Int
    BY <2>2, MaxIntAssumption DEF Int64
  <2> QED BY <2>2, <2>3, <2>4 DEF m
<1>7. CASE \E i \in 1 .. N : a = Payee(P[i]) /\ a # Rail(a)
  <2>1. PICK i \in 1 .. N : a = Payee(P[i]) /\ a # Rail(a)
    BY <1>7
  <2>2. \A j \in 1 .. N : j # i => Delta(P[j], a) = 0
    <3> SUFFICES ASSUME NEW j \in 1 .. N, j # i
                 PROVE  Delta(P[j], a) = 0
      OBVIOUS
    <3>1. RightCurrency(P[j])
      BY <1>1 DEF Acceptable
    <3> QED BY <1>1, <2>1, <3>1, OtherPayouts
  <2> HIDE DEF P, D, N
  <2>3. Total(D, N) = Delta(P[i], a)
    <3>1. /\ N \in Nat /\ i \in 1 .. N /\ D[i] \in Int
          /\ \A j \in 1 .. N : j # i => D[j] = 0
      BY <1>2, <1>3, <2>2
    <3>2. Total(D, N) = D[i]
      BY <3>1, TotalOne
    <3> QED BY <1>3, <3>2
  <2>4. a \in LegAccounts(P[i]) \ AllowNegative
    BY <1>6, <2>1
  <2>5. Derived(journal, a) + Delta(P[i], a) >= 0
    BY <1>1, <2>4 DEF Acceptable
  <2> QED BY <1>4, <2>3, <2>5
<1>8. CASE ~\E i \in 1 .. N : a = Payee(P[i]) /\ a # Rail(a)
  <2> HIDE DEF P, D, N
  <2>1. \A i \in 1 .. N : D[i] \in Int /\ D[i] >= 0
    BY <1>3, <1>6, <1>8
  <2>2. Total(D, N) >= 0
    BY <1>2, <2>1, TotalNotNegative
  <2> QED BY <1>4, <1>5, <2>2
<1> QED BY <1>7, <1>8

(* It refunds nothing and uses no key.                                     *)
LEMMA SettleKeeps ==
  ASSUME AbstractInv, NEW nets, Settles(nets)
  PROVE  AbstractInv'
<1> DEFINE q == Paid(nets)
           n == Len(journal)
           h == journal'
<1>1. /\ q \in Seq(JournalEntry) /\ h = journal \o q /\ journal \in Seq(JournalEntry)
      /\ \A i \in 1 .. Len(q) :
           /\ q[i].kind = "settlement" /\ q[i].key = NoKey
           /\ TwoSided(q[i]) /\ Paired(q[i]) /\ RightCurrency(q[i])
           /\ LegAccounts(q[i]) \subseteq Account
      /\ KeyedBy' = KeyedBy
  BY PaidFacts DEF AbstractInv, Settles
<1> HIDE DEF q
<1>2. /\ h \in Seq(JournalEntry) /\ n \in Nat /\ Len(q) \in Nat /\ Len(h) = n + Len(q)
      /\ DOMAIN journal = 1 .. n /\ DOMAIN h = 1 .. n + Len(q)
      /\ \A i \in 1 .. n : h[i] = journal[i]
      /\ \A i \in 1 .. Len(q) : h[n + i] = q[i]
  BY <1>1, JoinFacts
<1>3. \A i \in n + 1 .. n + Len(q) : i - n \in 1 .. Len(q) /\ h[i] = q[i - n]
  <2> SUFFICES ASSUME NEW i \in n + 1 .. n + Len(q)
               PROVE  i - n \in 1 .. Len(q) /\ h[i] = q[i - n]
    OBVIOUS
  <2>1. i - n \in 1 .. Len(q) /\ n + (i - n) = i
    BY <1>2
  <2> QED BY <1>2, <2>1
<1>4. /\ \A i \in 1 .. n : i \in DOMAIN journal /\ i \in DOMAIN h /\ h[i] = journal[i]
      /\ \A i \in DOMAIN h : i \in 1 .. n \/ i \in n + 1 .. n + Len(q)
      /\ \A i \in n + 1 .. n + Len(q) :
           /\ h[i].kind = "settlement" /\ h[i].key = NoKey
           /\ TwoSided(h[i]) /\ Paired(h[i]) /\ RightCurrency(h[i])
           /\ LegAccounts(h[i]) \subseteq Account
  BY <1>1, <1>2, <1>3
<1>5. (\A i \in DOMAIN journal : TwoSided(journal[i]))'
  BY <1>4 DEF AbstractInv
<1>6. JournalSound'
  BY <1>4 DEF AbstractInv, JournalSound
<1>7. NobodyOwes'
  BY SettleOwesNothing
<1>8. RefundBound'
  <2> SUFFICES ASSUME NEW p \in DOMAIN h, IsPayment(h, p)
               PROVE  RefundedSoFar(h, Len(h), p, MerchantLeg(h[p]).acct) <= Captured(h[p])
    BY DEF RefundBound
  <2> DEFINE m == MerchantLeg(h[p]).acct
  <2>1. p \in 1 .. n /\ h[p] = journal[p] /\ IsPayment(journal, p)
    BY <1>4 DEF IsPayment
  <2>2. RefundedSoFar(journal, n, p, m) <= Captured(journal[p])
    BY <2>1 DEF AbstractInv, RefundBound
  <2> HIDE DEF m
  <2>3. RefundedSoFar(h, Len(h), p, m) = RefundedSoFar(h, n, p, m)
    <3>1. n \in 0 .. Len(h) /\ \A i \in n + 1 .. Len(h) : RefundOf(h[i], p, m) = 0
      BY <1>2, <1>4 DEF RefundOf
    <3> HIDE DEF h, n
    <3> QED BY <1>2, <3>1, RefundedSince
  <2>4. RefundedSoFar(h, n, p, m) = RefundedSoFar(journal, n, p, m)
    <3>1. Refunds(h, n, p, m) = Refunds(journal, n, p, m)
      BY <1>2 DEF Refunds
    <3> QED BY <3>1 DEF RefundedSoFar, Refunds
  <2> QED BY <2>1, <2>2, <2>3, <2>4 DEF m
<1>9. RefundsFollow'
  BY <1>4 DEF AbstractInv, RefundsFollow
<1>10. KeysOnce'
  BY <1>1, <1>4 DEF AbstractInv, KeysOnce
<1> QED BY <1>2, <1>5, <1>6, <1>7, <1>8, <1>9, <1>10 DEF AbstractInv

LEMMA AbstractStep ==
  ASSUME AbstractInv, IsFiniteSet(Account), NoRow \notin Request,
         [CoreAtomic!Next]_(CoreAtomic!avars)
  PROVE  AbstractInv'
<1>1. ASSUME NEW r \in Request, NEW k \in Key \union {NoKey}, CoreAtomic!Post(r, k)
      PROVE  AbstractInv'
  <2>1. Posts(r, k)
    BY <1>1, PostIs
  <2>2. /\ journal' \in Seq(JournalEntry) /\ (\A n \in DOMAIN journal : TwoSided(journal[n]))'
        /\ JournalSound' /\ NobodyOwes'
    BY <2>1, PostKeepsBooks
  <2>3. RefundBound' /\ RefundsFollow' /\ KeysOnce'
    BY <2>1, PostKeepsBounds
  <2> QED BY <2>2, <2>3 DEF AbstractInv
<1>2. ASSUME NEW M \in SUBSET Account, CoreAtomic!Settle(M)
      PROVE  AbstractInv'
  <2>1. PICK nets : Settles(nets)
    BY <1>2, SettleIs
  <2> QED BY <2>1, SettleKeeps
<1>3. CASE UNCHANGED CoreAtomic!avars
  <2>1. journal' = journal /\ KeyedBy' = KeyedBy
    BY <1>3 DEF CoreAtomic!avars, KeyedBy
  <2> QED BY <2>1 DEF AbstractInv, JournalSound, NobodyOwes, RefundBound, RefundsFollow, KeysOnce
<1> QED BY <1>1, <1>2, <1>3 DEF CoreAtomic!Next

(* What users of the ledger are told of its books: the accounts of a       *)
(* currency add up to 0, nobody owes who must not, refunds stay within     *)
(* their payments, every entry balances on rows of its currency, and a key *)
(* counts once.                                                            *)
BooksInOrder ==
  /\ \A c \in Currency :
       LET A == {a \in Account : CurrencyOf[a] = c}
       IN  SetSum([a \in A |-> Derived(journal, a)], A) = 0
  /\ NobodyOwes /\ RefundBound /\ JournalSound /\ KeysOnce

LEMMA AbstractBooks ==
  ASSUME AbstractInv, IsFiniteSet(Account)
  PROVE  BooksInOrder
<1>1. ASSUME NEW c \in Currency, NEW A, A = {a \in Account : CurrencyOf[a] = c}
      PROVE  SetSum([a \in A |-> Derived(journal, a)], A) = 0
  BY <1>1, JournalSums DEF AbstractInv
<1> QED BY <1>1 DEF BooksInOrder, AbstractInv

(* Every ledger that implements AtomicLedger keeps its books in order: the *)
(* guards of Post and Settle (postEntryTx, refundGuard, claimKey) are      *)
(* enough for it, whatever is implemented how.  With LedgerIsAtomic this   *)
(* holds of the code's sessions, locks and retries.                        *)
THEOREM AtomicBooksInOrder ==
  ASSUME IsFiniteSet(Account), NoRow \notin Request
  PROVE  CoreRefinesAtomic => []BooksInOrder
<1>1. CoreAtomic!Init => AbstractInv
  <2> SUFFICES ASSUME CoreAtomic!Init
               PROVE  AbstractInv
    OBVIOUS
  <2>1. journal = << >>
    BY DEF CoreAtomic!Init
  <2>2. NobodyOwes
    BY <2>1, DerivedEmpty DEF NobodyOwes
  <2> QED BY <2>1, <2>2 DEF AbstractInv, JournalSound, RefundBound, RefundsFollow, KeysOnce
<1>2. AbstractInv /\ [CoreAtomic!Next]_(CoreAtomic!avars) => AbstractInv'
  BY IsFiniteSet(Account), NoRow \notin Request, AbstractStep
<1>3. AbstractInv => BooksInOrder
  BY IsFiniteSet(Account), AbstractBooks
<1> QED BY <1>1, <1>2, <1>3, PTL DEF CoreRefinesAtomic, CoreAtomic!Spec
=============================================================================
