-------------------------- MODULE RefinementProofs --------------------------
(***************************************************************************)
(* Every step of Posting is a step of AtomicLedger or a stutter. First:    *)
(* no posting is ever lost, the cached balance of every account is the     *)
(* sum of its postings, however long the journal. The sum is a recursive   *)
(* function; what has to be shown of it by induction is shown by looking   *)
(* at the least number for which it fails. It is modulo 2^64 in general,   *)
(* and exact for the accounts that may not go negative. Then the guard of  *)
(* refunds: those of a payment never exceed what it captured, however      *)
(* many run at once and in either isolation mode, as long as the sum that  *)
(* refundGuard computes is an int64 (RefundsFit). The commit is the step;  *)
(* what was read before it still holds then. Last, conservation: sums over *)
(* sets of accounts, and why those of a currency add up to 0.              *)
(***************************************************************************)
EXTENDS PostingProofs

(* u[0], u[1], ... u[n] are the sums of the first numbers of d.            *)
Sums(u, d, n) == u[0] = 0 /\ \A i \in 1 .. n : u[i] = u[i - 1] + d[i]

LEMMA SumsExist ==
  ASSUME NEW n \in Nat, NEW d, \A i \in 1 .. n : d[i] \in Int
  PROVE  \E u \in [0 .. n -> Int] : Sums(u, d, n)
<1> DEFINE S == {m \in 0 .. n : ~\E u \in [0 .. m -> Int] : Sums(u, d, m)}
<1>1. SUFFICES ASSUME S # {} PROVE FALSE
  OBVIOUS
<1>2. PICK m \in S : \A l \in S : m <= l
  <2>1. S \subseteq Nat
    OBVIOUS
  <2> HIDE DEF S
  <2> QED BY <1>1, <2>1, LeastNumber
<1>3. m # 0
  <2> DEFINE u == [i \in 0 .. 0 |-> 0]
  <2>1. u \in [0 .. 0 -> Int] /\ Sums(u, d, 0)
    BY DEF Sums
  <2> QED BY <2>1
<1>4. m - 1 \in 0 .. n /\ m \in 1 .. n /\ m - 1 \notin S
  BY <1>2, <1>3
<1>5. PICK u \in [0 .. m - 1 -> Int] : Sums(u, d, m - 1)
  BY <1>4
<1> DEFINE v == [i \in 0 .. m |-> IF i = m THEN u[m - 1] + d[m] ELSE u[i]]
<1>6. v \in [0 .. m -> Int] /\ Sums(v, d, m)
  BY <1>4, <1>5 DEF Sums
<1> QED BY <1>2, <1>6

LEMMA SumsAgree ==
  ASSUME NEW n \in Nat, NEW d, NEW e, NEW u, NEW v, NEW m \in Nat, n <= m,
         Sums(u, d, n), Sums(v, e, m), \A i \in 1 .. n : d[i] = e[i]
  PROVE  \A i \in 0 .. n : u[i] = v[i]
<1> DEFINE S == {i \in 0 .. n : u[i] # v[i]}
<1>1. SUFFICES ASSUME S # {} PROVE FALSE
  OBVIOUS
<1>2. PICK i \in S : \A l \in S : i <= l
  <2>1. S \subseteq Nat
    OBVIOUS
  <2> HIDE DEF S
  <2> QED BY <1>1, <2>1, LeastNumber
<1>3. i # 0
  BY DEF Sums
<1>4. i \in 1 .. n /\ i \in 1 .. m /\ i - 1 \in 0 .. n /\ i - 1 \notin S
  BY <1>2, <1>3
<1>5. u[i] = u[i - 1] + d[i] /\ v[i] = v[i - 1] + e[i]
  BY <1>4 DEF Sums
<1> QED BY <1>2, <1>4, <1>5

(* Total is the last of the sums: a number, which depends on the numbers   *)
(* summed alone, and grows by the last of them.                            *)
LEMMA TotalIsSum ==
  ASSUME NEW n \in Nat, NEW d, \A i \in 1 .. n : d[i] \in Int,
         NEW m \in Nat, n <= m, NEW v, NEW e, Sums(v, e, m), \A i \in 1 .. n : d[i] = e[i]
  PROVE  Total(d, n) = v[n]
<1> DEFINE F(f) == [i \in 0 .. n |-> IF i = 0 THEN 0 ELSE f[i - 1] + d[i]]
           upto == CHOOSE f : f = F(f)
<1>1. Total(d, n) = upto[n]
  BY DEF Total
<1>2. PICK u \in [0 .. n -> Int] : Sums(u, d, n)
  BY SumsExist
<1>3. u = F(u)
  <2>1. \A i \in 0 .. n : u[i] = IF i = 0 THEN 0 ELSE u[i - 1] + d[i]
    BY <1>2 DEF Sums
  <2> QED BY <2>1
<1>4. upto = F(upto)
  BY <1>3
<1>5. Sums(upto, d, n)
  <2> HIDE DEF upto
  <2> QED BY <1>4 DEF Sums
<1> HIDE DEF upto
<1>6. \A i \in 0 .. n : upto[i] = v[i]
  BY <1>5, SumsAgree
<1> QED BY <1>1, <1>6

LEMMA TotalType ==
  ASSUME NEW n \in Nat, NEW d, \A i \in 1 .. n : d[i] \in Int
  PROVE  Total(d, n) \in Int
<1>1. PICK u \in [0 .. n -> Int] : Sums(u, d, n)
  BY SumsExist
<1>2. Total(d, n) = u[n]
  BY <1>1, TotalIsSum
<1> QED BY <1>1, <1>2

LEMMA TotalAgrees ==
  ASSUME NEW n \in Nat, NEW d, NEW e, \A i \in 1 .. n : d[i] \in Int /\ d[i] = e[i]
  PROVE  Total(d, n) = Total(e, n)
<1>1. PICK u \in [0 .. n -> Int] : Sums(u, d, n)
  BY SumsExist
<1>2. Total(d, n) = u[n]
  BY <1>1, TotalIsSum
<1>3. \A i \in 1 .. n : e[i] \in Int /\ e[i] = d[i]
  OBVIOUS
<1>4. Total(e, n) = u[n]
  BY <1>1, <1>3, TotalIsSum
<1> QED BY <1>2, <1>4

LEMMA TotalZero ==
  ASSUME NEW d
  PROVE  Total(d, 0) = 0
<1> DEFINE u == [i \in 0 .. 0 |-> 0]
<1>1. Sums(u, d, 0) /\ u[0] = 0
  BY DEF Sums
<1>2. \A i \in 1 .. 0 : d[i] \in Int
  OBVIOUS
<1> HIDE DEF u
<1> QED BY <1>1, <1>2, TotalIsSum

LEMMA TotalNext ==
  ASSUME NEW n \in Nat, NEW d, \A i \in 1 .. n + 1 : d[i] \in Int
  PROVE  Total(d, n + 1) = Total(d, n) + d[n + 1]
<1>1. n + 1 \in Nat /\ \A i \in 1 .. n : d[i] \in Int
  OBVIOUS
<1>2. PICK u \in [0 .. n + 1 -> Int] : Sums(u, d, n + 1)
  BY <1>1, SumsExist
<1>3. Total(d, n + 1) = u[n + 1]
  BY <1>1, <1>2, TotalIsSum
<1>4. Total(d, n) = u[n]
  BY <1>1, <1>2, TotalIsSum
<1>5. n + 1 \in 1 .. n + 1 /\ (n + 1) - 1 = n
  OBVIOUS
<1>6. u[n + 1] = u[n] + d[n + 1]
  BY <1>2, <1>5 DEF Sums
<1> QED BY <1>3, <1>4, <1>6

(* What each entry of a journal adds to account a.                         *)
Deltas(j, a) == [i \in 1 .. Len(j) |-> Delta(j[i], a)]

LEMMA DeltasType ==
  ASSUME NEW j \in Seq(JournalEntry), NEW a
  PROVE  /\ Len(j) \in Nat
         /\ \A i \in 1 .. Len(j) : Deltas(j, a)[i] \in Int /\ Deltas(j, a)[i] = Delta(j[i], a)
<1>1. Len(j) \in Nat
  OBVIOUS
<1>2. ASSUME NEW i \in 1 .. Len(j)
      PROVE  Deltas(j, a)[i] \in Int /\ Deltas(j, a)[i] = Delta(j[i], a)
  <2>1. j[i] \in JournalEntry
    OBVIOUS
  <2>2. j[i].legs \in Seq(Legs)
    BY <2>1 DEF JournalEntry
  <2>3. Delta(j[i], a) \in Int
    BY <2>2, DeltaType
  <2> QED BY <2>3 DEF Deltas
<1> QED BY <1>1, <1>2

(* The sum of the postings is an integer, 0 for an empty journal, and      *)
(* grows by what a new entry adds.                                         *)
LEMMA DerivedType ==
  ASSUME NEW j \in Seq(JournalEntry), NEW a
  PROVE  Derived(j, a) \in Int
BY DeltasType, TotalType DEF Derived, Deltas

LEMMA DerivedEmpty ==
  ASSUME NEW a
  PROVE  Derived(<< >>, a) = 0
BY TotalZero DEF Derived

LEMMA DerivedAppend ==
  ASSUME NEW j \in Seq(JournalEntry), NEW e \in JournalEntry, NEW a
  PROVE  Derived(Append(j, e), a) = Derived(j, a) + Delta(e, a)
<1> DEFINE n == Len(j)
           k == Append(j, e)
<1>1. /\ n \in Nat /\ k \in Seq(JournalEntry) /\ Len(k) = n + 1
      /\ k[n + 1] = e /\ \A i \in 1 .. n : k[i] = j[i]
  OBVIOUS
<1> HIDE DEF k
<1>2. Derived(k, a) = Total(Deltas(k, a), n + 1) /\ Derived(j, a) = Total(Deltas(j, a), n)
  BY <1>1 DEF Derived, Deltas
<1>3. Total(Deltas(k, a), n + 1) = Total(Deltas(k, a), n) + Deltas(k, a)[n + 1]
  BY <1>1, DeltasType, TotalNext
<1>4. Total(Deltas(j, a), n) = Total(Deltas(k, a), n)
  <2>1. \A i \in 1 .. n : Deltas(j, a)[i] \in Int /\ Deltas(j, a)[i] = Deltas(k, a)[i]
    BY <1>1, DeltasType
  <2> QED BY <1>1, <2>1, TotalAgrees
<1>5. Deltas(k, a)[n + 1] = Delta(e, a)
  BY <1>1, DeltasType
<1> QED BY <1>2, <1>3, <1>4, <1>5 DEF k

-----------------------------------------------------------------------------
(* Every leg's row stays locked by a session that posts, as long as no     *)
(* session enters that part of the transaction without it.                 *)
LEMMA RowsStayLocked ==
  ASSUME RowsLocked,
         \A t \in Session : pc'[t] \in {"guard", "post", "commit"} =>
           \/ /\ pc[t] \in {"guard", "post", "commit"}
              /\ seen'[t] = seen[t] /\ job'[t] = job[t]
           \/ LegAccounts(job'[t].entry) \subseteq DOMAIN seen'[t]
  PROVE  RowsLocked'
<1> SUFFICES ASSUME NEW t \in Session, pc'[t] \in {"guard", "post", "commit"}
             PROVE  LegAccounts(job'[t].entry) \subseteq DOMAIN seen'[t]
  BY DEF RowsLocked, LegAccounts
<1>1. CASE /\ pc[t] \in {"guard", "post", "commit"}
           /\ seen'[t] = seen[t] /\ job'[t] = job[t]
  BY <1>1 DEF RowsLocked, LegAccounts
<1> QED BY <1>1

(* The sums do not change when neither balances nor postings do.           *)
LEMMA NoDriftStays ==
  ASSUME NoDrift, balance' = balance, journal' = journal
  PROVE  NoDrift'
BY DEF NoDrift

(* The end of a transaction, with or without a commit.                     *)
LEMMA ReturnRows ==
  ASSUME IInv, RowsLocked, NEW s \in Session, Release(s), job' = job,
         NEW l \in {"idle", "begin"}, Goto(s, l)
  PROVE  RowsLocked'
<1>1. \A t \in Session : pc'[t] = IF t = s THEN l ELSE pc[t]
  BY DEF Goto, IInv, TypeOK, SessionType
<1>2. \A t \in Session \ {s} : seen'[t] = seen[t]
  BY ReleaseFacts
<1> QED BY <1>1, <1>2, RowsStayLocked

(* A commit adds the same to the sum of the postings of an account and to  *)
(* its balance, which is current because its row is locked.                *)
LEMMA PublishDrift ==
  ASSUME IInv, RowsLocked, NoDrift, NEW s \in Session, pc[s] = "commit", Publish(s)
  PROVE  NoDrift'
<1> DEFINE e == job[s].entry
           p == Posted(e, job[s].key)
<1>1. /\ job[s] \in Job /\ journal \in Seq(JournalEntry) /\ journal' = Append(journal, p)
      /\ \A a \in Account : balance'[a] = IF a \in DOMAIN seen[s] THEN NewBalance(s, a) ELSE balance[a]
  BY DEF IInv, TypeOK, DbType, SessionType, Publish
<1>2. e.legs \in Seq(Legs) /\ p \in JournalEntry
  BY <1>1 DEF Job, Posted, JournalEntry
<1> SUFFICES ASSUME NEW a \in Account
             PROVE  balance'[a] = Wrap(Derived(journal', a))
  BY DEF NoDrift
<1>3. Delta(p, a) = Delta(e, a) /\ Delta(e, a) \in Int
  BY <1>2, DeltaType DEF Delta, AmountOn, Posted
<1>4. Derived(journal, a) \in Int /\ balance[a] = Wrap(Derived(journal, a))
  BY <1>1, DerivedType DEF NoDrift
<1>5. Derived(journal', a) = Derived(journal, a) + Delta(e, a)
  <2> HIDE DEF p
  <2> QED BY <1>1, <1>2, <1>3, DerivedAppend
<1>6. CASE a \in DOMAIN seen[s]
  <2>1. seen[s][a] = balance[a]
    BY <1>6 DEF IInv, FreshReads
  <2>2. balance'[a] = Wrap(balance[a] + Delta(e, a))
    BY <1>1, <1>6, <2>1 DEF NewBalance
  <2>3. Wrap(Wrap(Derived(journal, a)) + Delta(e, a)) = Wrap(Derived(journal, a) + Delta(e, a))
    BY <1>3, <1>4, WrapAdd
  <2> QED BY <1>4, <1>5, <2>2, <2>3
<1>7. CASE a \notin DOMAIN seen[s]
  <2>1. a \notin LegAccounts(e)
    BY <1>7 DEF RowsLocked
  <2>2. Delta(e, a) = 0
    BY <2>1 DEF LegAccounts, Delta, AmountOn
  <2>3. Derived(journal', a) = Derived(journal, a)
    BY <1>4, <1>5, <2>2
  <2> QED BY <1>1, <1>4, <1>7, <2>3
<1> QED BY <1>6, <1>7

-----------------------------------------------------------------------------
(* No posting, no balance.                                                 *)
LEMMA InitDrift == Init => RowsLocked /\ NoDrift
<1> SUFFICES ASSUME Init
             PROVE  RowsLocked /\ NoDrift
  OBVIOUS
<1>1. RowsLocked
  BY DEF Init, RowsLocked
<1>2. \A a \in Account : Derived(journal, a) = 0
  BY DerivedEmpty DEF Init
<1>3. Wrap(0) = 0
  BY WrapFits, MaxIntAssumption DEF Int64
<1>4. NoDrift
  BY <1>2, <1>3 DEF Init, NoDrift
<1> QED BY <1>1, <1>4

(* A step of a session keeps the rows of a posting locked and the balances *)
(* equal to the sums, one case per action.                                 *)
LEMMA StepDrift ==
  ASSUME IInv, RowsLocked, NoDrift, NEW s \in Session, Step(s) \/ Abort(s)
  PROVE  RowsLocked' /\ NoDrift'
<1>1. CASE BeginTx(s) \/ ClaimKey(s) \/ KeyTaken(s)
  <2>1. /\ balance' = balance /\ journal' = journal /\ seen' = seen /\ job' = job
        /\ \E l \in {"claim", "replay", "lock"} : Goto(s, l)
    BY <1>1 DEF BeginTx, ClaimKey, KeyTaken, db, local
  <2>2. \A t \in Session : pc'[t] \in {"guard", "post", "commit"} => pc[t] = pc'[t]
    BY <2>1 DEF Goto, IInv, TypeOK, SessionType
  <2> QED BY <2>1, <2>2, RowsStayLocked, NoDriftStays
<1>2. CASE LockAccount(s)
  <2>1. /\ pc[s] = "lock" /\ pc' = pc /\ job' = job /\ balance' = balance /\ journal' = journal
        /\ \A t \in Session \ {s} : seen'[t] = seen[t]
    BY <1>2 DEF LockAccount, db, local, IInv, TypeOK, SessionType
  <2> QED BY <2>1, RowsStayLocked, NoDriftStays
<1>3. CASE AllLocked(s)
  <2>1. /\ balance' = balance /\ journal' = journal /\ seen' = seen /\ job' = job
        /\ \A t \in Session \ {s} : pc'[t] = pc[t]
    BY <1>3 DEF AllLocked, Goto, db, local, IInv, TypeOK, SessionType
  <2>2. LegAccounts(job'[s].entry) \subseteq DOMAIN seen'[s]
    BY <1>3, <2>1 DEF AllLocked, ToLock
  <2> QED BY <2>1, <2>2, RowsStayLocked, NoDriftStays
<1>4. CASE CheckGuard(s) \/ PostLegs(s)
  <2>1. /\ pc[s] \in {"guard", "post"} /\ balance' = balance /\ journal' = journal
        /\ \/ Return(s, Rejected)
           \/ /\ \E l \in {"post", "commit"} : Goto(s, l)
              /\ seen' = seen /\ job' = job
    BY <1>4 DEF CheckGuard, PostLegs, db, local
  <2>2. CASE Return(s, Rejected)
    BY <2>1, <2>2, ReturnRows, NoDriftStays DEF Return
  <2>3. CASE (\E l \in {"post", "commit"} : Goto(s, l)) /\ seen' = seen /\ job' = job
    <3>1. \A t \in Session : t # s => pc'[t] = pc[t]
      BY <2>3 DEF Goto, IInv, TypeOK, SessionType
    <3> QED BY <2>1, <2>3, <3>1, RowsStayLocked, NoDriftStays
  <2> QED BY <2>1, <2>2, <2>3
<1>5. CASE CommitTx(s) \/ CommitAnswerLost(s)
  <2>1. pc[s] = "commit" /\ Publish(s) /\ \E ans : Return(s, ans)
    BY <1>5 DEF CommitTx, CommitAnswerLost
  <2>2. RowsLocked'
    BY <2>1, ReturnRows DEF Return
  <2> QED BY <2>1, <2>2, PublishDrift
<1>6. CASE ReadReplay(s) \/ RejectEntry(s) \/ RejectPosting(s) \/ Exhausted(s) \/ Abort(s)
  <2>1. balance' = balance /\ journal' = journal /\ \E ans : Return(s, ans)
    BY <1>6 DEF ReadReplay, RejectEntry, RejectPosting, Exhausted, Abort, db
  <2> QED BY <2>1, ReturnRows, NoDriftStays DEF Return
<1>7. CASE Retry(s)
  BY <1>7, ReturnRows, NoDriftStays DEF Retry, db
<1> QED BY <1>1, <1>2, <1>3, <1>4, <1>5, <1>6, <1>7 DEF Step, Progress

(* Every step does, given IInv.                                            *)
LEMMA NextDrift == IInv /\ RowsLocked /\ NoDrift /\ [Next]_vars => RowsLocked' /\ NoDrift'
<1> SUFFICES ASSUME IInv, RowsLocked, NoDrift, [Next]_vars
             PROVE  RowsLocked' /\ NoDrift'
  OBVIOUS
<1>1. ASSUME NEW s \in Session, NEW r \in Request, NEW k \in Key \union {NoKey},
             Refuse(s, r, k) \/ Call(s, r, k)
      PROVE  RowsLocked' /\ NoDrift'
  <2>1. /\ balance' = balance /\ journal' = journal /\ seen' = seen /\ pc[s] = "idle"
        /\ pc'[s] \in {"idle", "begin"}
        /\ \A t \in Session \ {s} : pc'[t] = pc[t] /\ job'[t] = job[t]
    BY <1>1 DEF Refuse, Call, Send, Goto, db, IInv, TypeOK, SessionType
  <2> QED BY <2>1, RowsStayLocked, NoDriftStays
<1>2. ASSUME NEW s \in Session, Step(s) \/ Abort(s)
      PROVE  RowsLocked' /\ NoDrift'
  BY <1>2, StepDrift
<1>3. CASE UNCHANGED vars
  <2>1. balance' = balance /\ journal' = journal /\ pc' = pc /\ seen' = seen /\ job' = job
    BY <1>3 DEF vars, db, local
  <2> QED BY <2>1, RowsStayLocked, NoDriftStays
<1> QED BY <1>1, <1>2, <1>3 DEF Next, Terminating

(* The second invariant of migrations/001_init.sql, for any accounts,      *)
(* sessions, keys, requests and either isolation mode: the cached balance  *)
(* of an account is the sum of its postings (modulo 2^64), whatever the    *)
(* interleaving of the sessions, their retries, aborts and lost answers    *)
(* (lockAccounts and the UPDATEs of postEntryTx).                          *)
THEOREM BalancesAreSums == Spec => []NoDrift
<1>1. Init => RowsLocked /\ NoDrift
  BY InitDrift
<1>2. IInv /\ RowsLocked /\ NoDrift /\ [Next]_vars => RowsLocked' /\ NoDrift'
  BY NextDrift
<1> QED BY <1>1, <1>2, Inductive, PTL DEF Spec

-----------------------------------------------------------------------------
(* Overflow.  What an entry adds to one account is an int64: its legs come *)
(* in opposite pairs, and the pairs are in different currencies.           *)
LEMMA PairedDelta ==
  ASSUME NEW e, e.legs \in Seq(Legs), Paired(e), RightCurrency(e), NEW a
  PROVE  Delta(e, a) \in Int64
<1> DEFINE x(i) == AmountOn(e, i, a)
           m(i) == e.legs[i].amt
<1>1. \A i \in 1 .. Len(e.legs) : m(i) \in Int64 /\ (x(i) = 0 \/ x(i) = m(i))
  <2> SUFFICES ASSUME NEW i \in 1 .. Len(e.legs)
               PROVE  m(i) \in Int64 /\ (x(i) = 0 \/ x(i) = m(i))
    OBVIOUS
  <2>1. e.legs[i] \in Legs
    OBVIOUS
  <2> QED BY <2>1 DEF Legs, AmountOn
<1>2. \A i \in 1 .. Len(e.legs) : x(i) = 0 \/ e.legs[i].cur = CurrencyOf[a]
  BY DEF AmountOn, RightCurrency
<1>3. \A i \in Nat \ (1 .. Len(e.legs)) : x(i) = 0
  BY DEF AmountOn
<1>4. Delta(e, a) = x(1) + x(2) + x(3) + x(4)
  BY DEF Delta
<1>5. CASE Len(e.legs) = 2 /\ Opposite(e, 1)
  <2>1. m(1) = -m(2) /\ m(1) \in Int64 /\ m(2) \in Int64
    BY <1>1, <1>5 DEF Opposite
  <2>2. (x(1) = 0 \/ x(1) = m(1)) /\ (x(2) = 0 \/ x(2) = m(2)) /\ x(3) = 0 /\ x(4) = 0
    BY <1>1, <1>3, <1>5
  <2> HIDE DEF x, m
  <2> QED BY <1>4, <2>1, <2>2, MaxIntAssumption DEF Int64
<1>6. CASE /\ Len(e.legs) = 4 /\ Opposite(e, 1) /\ Opposite(e, 3)
           /\ e.legs[1].cur # e.legs[3].cur
  <2>1. /\ m(1) = -m(2) /\ m(1) \in Int64 /\ m(2) \in Int64
        /\ m(3) = -m(4) /\ m(3) \in Int64 /\ m(4) \in Int64
    BY <1>1, <1>6 DEF Opposite
  <2>2. /\ x(1) = 0 \/ x(1) = m(1)
        /\ x(2) = 0 \/ x(2) = m(2)
        /\ x(3) = 0 \/ x(3) = m(3)
        /\ x(4) = 0 \/ x(4) = m(4)
    BY <1>1, <1>6
  <2>3. (x(1) = 0 /\ x(2) = 0) \/ (x(3) = 0 /\ x(4) = 0)
    BY <1>2, <1>6 DEF Opposite
  <2> HIDE DEF x, m
  <2> QED BY <1>4, <2>1, <2>2, <2>3, MaxIntAssumption DEF Int64
<1> QED BY <1>5, <1>6 DEF Paired

(* Every operation builds such an entry.                                   *)
LEMMA EntryForPaired ==
  ASSUME NEW r \in Request, NEW k, ~Refused(journal, r, k)
  PROVE  Paired(EntryFor(journal, r))
<1>1. ASSUME NEW kind, NEW ref, NEW from, NEW to, NEW cur, NEW amount
      PROVE  Paired(Entry(kind, ref, TwoLegs(from, to, cur, amount)))
  BY DEF Paired, Opposite, Entry, TwoLegs, Leg
<1>2. CASE r.op \in {"transfer", "payment"}
  BY <1>1, <1>2 DEF EntryFor
<1>3. CASE r.op = "refund"
  BY <1>1, <1>3 DEF EntryFor
<1>4. CASE r.op = "fx"
  <2>1. CurrencyOf[r.from] # CurrencyOf[r.to]
    BY <1>4 DEF Refused, FXPossible
  <2>2. Paired(Entry("fx", 0, FXLegs(r)))
    BY <2>1 DEF Paired, Opposite, Entry, FXLegs, Leg
  <2> QED BY <1>4, <2>2 DEF EntryFor
<1> QED BY <1>2, <1>3, <1>4, RequestAssumption

(* ExactWhereBounded is inductive with what is known of the entries that   *)
(* sessions are about to post.                                             *)
Exact == EntriesPaired /\ StillRight /\ ExactWhereBounded

(* A step that commits nothing keeps the balances exact if it brings no    *)
(* unchecked entry nearer to the commit.                                   *)
LEMMA QuietExact ==
  ASSUME Exact, balance' = balance, journal' = journal,
         \A t \in Session :
           /\ pc'[t] # "idle" =>
                (pc[t] # "idle" /\ job'[t] = job[t]) \/ Paired(job'[t].entry)
           /\ pc'[t] = "commit" =>
                (pc[t] = "commit" /\ job'[t] = job[t]) \/ RightCurrency(job'[t].entry)
  PROVE  Exact'
<1>1. EntriesPaired'
  BY DEF Exact, EntriesPaired, Paired, Opposite
<1>2. StillRight'
  BY DEF Exact, StillRight, RightCurrency
<1>3. ExactWhereBounded'
  BY DEF Exact, ExactWhereBounded
<1> QED BY <1>1, <1>2, <1>3 DEF Exact

(* The commit: the balance it writes is not negative, so it did not wrap.  *)
LEMMA PublishExact ==
  ASSUME IInv, RowsLocked, Exact, NEW s \in Session, pc[s] = "commit",
         Publish(s), job' = job, Goto(s, "idle")
  PROVE  Exact'
<1> DEFINE e == job[s].entry
           p == Posted(e, job[s].key)
<1>1. /\ job[s] \in Job /\ journal \in Seq(JournalEntry) /\ journal' = Append(journal, p)
      /\ \A a \in Account : balance'[a] = IF a \in DOMAIN seen[s] THEN NewBalance(s, a) ELSE balance[a]
  BY DEF IInv, TypeOK, DbType, SessionType, Publish
<1>2. e.legs \in Seq(Legs) /\ p \in JournalEntry
  BY <1>1 DEF Job, Posted, JournalEntry
<1>3. \A t \in Session : pc'[t] = IF t = s THEN "idle" ELSE pc[t]
  BY DEF Goto, IInv, TypeOK, SessionType
<1>4. EntriesPaired' /\ StillRight'
  BY <1>3 DEF Exact, EntriesPaired, StillRight, Paired, Opposite, RightCurrency
<1>5. ASSUME NEW a \in Account \ AllowNegative
      PROVE  balance'[a] = Derived(journal', a)
  <2>1. Delta(p, a) = Delta(e, a) /\ Delta(e, a) \in Int64
    BY <1>2, PairedDelta DEF Exact, EntriesPaired, StillRight, Delta, AmountOn, Posted
  <2>2. Derived(journal, a) \in Int /\ balance[a] = Derived(journal, a)
    BY <1>1, DerivedType DEF Exact, ExactWhereBounded
  <2>3. Derived(journal', a) = Derived(journal, a) + Delta(e, a)
    <3> HIDE DEF p
    <3> QED BY <1>1, <1>2, <2>1, DerivedAppend
  <2>4. CASE a \in DOMAIN seen[s]
    <3>1. seen[s][a] = balance[a]
      BY <2>4 DEF IInv, FreshReads
    <3>2. balance[a] \in 0 .. MaxInt
      BY MaxIntAssumption DEF IInv, NoOverdraft, TypeOK, DbType, Int64
    <3>3. balance'[a] = Wrap(balance[a] + Delta(e, a)) /\ Wrap(balance[a] + Delta(e, a)) >= 0
      BY <1>1, <2>4, <3>1 DEF NewBalance, IInv, StillCovered, Covered
    <3> QED BY <2>1, <2>2, <2>3, <3>2, <3>3, SumFits
  <2>5. CASE a \notin DOMAIN seen[s]
    <3>1. a \notin LegAccounts(e)
      BY <2>5 DEF RowsLocked
    <3>2. Delta(e, a) = 0
      BY <3>1 DEF LegAccounts, Delta, AmountOn
    <3> QED BY <1>1, <2>2, <2>3, <2>5, <3>2
  <2> QED BY <2>4, <2>5
<1> QED BY <1>4, <1>5 DEF Exact, ExactWhereBounded

(* Nothing is posted at first.                                             *)
LEMMA InitExact == Init => Exact
<1> SUFFICES ASSUME Init
             PROVE  Exact
  OBVIOUS
<1>1. EntriesPaired /\ StillRight
  BY DEF Init, EntriesPaired, StillRight
<1>2. \A a \in Account : Derived(journal, a) = 0
  BY DerivedEmpty DEF Init
<1>3. ExactWhereBounded
  BY <1>2 DEF Init, ExactWhereBounded
<1> QED BY <1>1, <1>3 DEF Exact

(* A step of a session: only PostLegs brings an entry to the commit.       *)
LEMMA StepExact ==
  ASSUME IInv, RowsLocked, Exact, NEW s \in Session, Step(s) \/ Abort(s)
  PROVE  Exact'
<1>1. CASE CommitTx(s) \/ CommitAnswerLost(s)
  BY <1>1, PublishExact DEF CommitTx, CommitAnswerLost, Return
<1>2. CASE PostLegs(s)
  <2>1. /\ RightCurrency(job[s].entry) /\ pc[s] # "idle" /\ job' = job
        /\ balance' = balance /\ journal' = journal
        /\ \A t \in Session \ {s} : pc'[t] = pc[t]
    BY <1>2 DEF PostLegs, Goto, db, local, IInv, TypeOK, SessionType
  <2>2. RightCurrency(job'[s].entry)
    BY <2>1
  <2> QED BY <2>1, <2>2, QuietExact
<1>3. CASE LockAccount(s)
  BY <1>3, QuietExact DEF LockAccount, db, local
<1>4. CASE BeginTx(s) \/ ClaimKey(s) \/ KeyTaken(s) \/ AllLocked(s) \/ Retry(s)
  <2>1. /\ job' = job /\ balance' = balance /\ journal' = journal /\ pc[s] # "idle"
        /\ \E l \in {"begin", "claim", "replay", "lock", "guard", "post"} : Goto(s, l)
    BY <1>4 DEF BeginTx, ClaimKey, KeyTaken, AllLocked, Retry, SerializationFailure, InTx, db, local
  <2>2. pc'[s] # "commit" /\ \A t \in Session \ {s} : pc'[t] = pc[t]
    BY <2>1 DEF Goto, IInv, TypeOK, SessionType
  <2> QED BY <2>1, <2>2, QuietExact
<1>5. CASE CheckGuard(s)
  <2>1. /\ job' = job /\ balance' = balance /\ journal' = journal /\ pc[s] # "idle"
        /\ \E l \in {"idle", "post"} : Goto(s, l)
    BY <1>5 DEF CheckGuard, Return, db, local
  <2>2. pc'[s] # "commit" /\ \A t \in Session \ {s} : pc'[t] = pc[t]
    BY <2>1 DEF Goto, IInv, TypeOK, SessionType
  <2> QED BY <2>1, <2>2, QuietExact
<1>6. CASE ReadReplay(s) \/ RejectEntry(s) \/ RejectPosting(s) \/ Exhausted(s) \/ Abort(s)
  <2>1. /\ job' = job /\ balance' = balance /\ journal' = journal /\ Goto(s, "idle")
    BY <1>6 DEF ReadReplay, RejectEntry, RejectPosting, Exhausted, Abort, Return, db
  <2>2. pc'[s] = "idle" /\ \A t \in Session \ {s} : pc'[t] = pc[t]
    BY <2>1 DEF Goto, IInv, TypeOK, SessionType
  <2> QED BY <2>1, <2>2, QuietExact
<1> QED BY <1>1, <1>2, <1>3, <1>4, <1>5, <1>6 DEF Step, Progress

(* Every step keeps the balances exact; a new call carries paired legs.    *)
LEMMA NextExact == IInv /\ RowsLocked /\ Exact /\ [Next]_vars => Exact'
<1> SUFFICES ASSUME IInv, RowsLocked, Exact, [Next]_vars
             PROVE  Exact'
  OBVIOUS
<1>1. ASSUME NEW s \in Session, NEW r \in Request, NEW k \in Key \union {NoKey}, Refuse(s, r, k)
      PROVE  Exact'
  <2>1. /\ balance' = balance /\ journal' = journal /\ pc' = pc /\ pc[s] = "idle"
        /\ \A t \in Session \ {s} : job'[t] = job[t]
    BY <1>1 DEF Refuse, Send, db, IInv, TypeOK, SessionType
  <2> QED BY <2>1, QuietExact
<1>2. ASSUME NEW s \in Session, NEW r \in Request, NEW k \in Key \union {NoKey}, Call(s, r, k)
      PROVE  Exact'
  <2>1. /\ balance' = balance /\ journal' = journal
        /\ job'[s].entry = EntryFor(journal, r) /\ pc'[s] = "begin"
        /\ \A t \in Session \ {s} : pc'[t] = pc[t] /\ job'[t] = job[t]
    BY <1>2 DEF Call, Send, Goto, db, IInv, TypeOK, SessionType
  <2>2. Paired(job'[s].entry)
    BY <1>2, <2>1, EntryForPaired DEF Call
  <2> QED BY <2>1, <2>2, QuietExact
<1>3. ASSUME NEW s \in Session, Step(s) \/ Abort(s)
      PROVE  Exact'
  BY <1>3, StepExact
<1>4. CASE UNCHANGED vars
  <2>1. balance' = balance /\ journal' = journal /\ pc' = pc /\ job' = job
    BY <1>4 DEF vars, db, local
  <2> QED BY <2>1, QuietExact
<1> QED BY <1>1, <1>2, <1>3, <1>4 DEF Next, Terminating

(* A step commits an entry or nothing.                                     *)
LEMMA CommitOrNothing ==
  ASSUME [Next]_vars
  PROVE  \/ UNCHANGED db
         \/ \E s \in Session : pc[s] = "commit" /\ Publish(s) /\ \E ans : Return(s, ans)
<1>1. ASSUME NEW s \in Session, NEW r \in Request, NEW k \in Key \union {NoKey},
             Refuse(s, r, k) \/ Call(s, r, k)
      PROVE  UNCHANGED db
  BY <1>1 DEF Refuse, Call, Send
<1>2. ASSUME NEW s \in Session, CommitTx(s) \/ CommitAnswerLost(s)
      PROVE  pc[s] = "commit" /\ Publish(s) /\ \E ans : Return(s, ans)
  BY <1>2 DEF CommitTx, CommitAnswerLost
<1>3. ASSUME NEW s \in Session,
             \/ BeginTx(s) \/ ClaimKey(s) \/ KeyTaken(s) \/ ReadReplay(s) \/ LockAccount(s)
             \/ AllLocked(s) \/ RejectEntry(s) \/ CheckGuard(s) \/ PostLegs(s)
             \/ RejectPosting(s) \/ Retry(s) \/ Exhausted(s) \/ Abort(s)
      PROVE  UNCHANGED db
  BY <1>3 DEF BeginTx, ClaimKey, KeyTaken, ReadReplay, LockAccount, AllLocked, RejectEntry,
              CheckGuard, PostLegs, RejectPosting, Retry, Exhausted, Abort
<1>4. CASE UNCHANGED vars
  BY <1>4 DEF vars
<1> QED BY <1>1, <1>2, <1>3, <1>4 DEF Next, Step, Progress, Terminating

(* Every entry that is committed is sound, as its checks still hold.       *)
LEMMA NextJournal == IInv /\ RowsLocked /\ Exact /\ JournalSound /\ [Next]_vars => JournalSound'
<1> SUFFICES ASSUME IInv, RowsLocked, Exact, JournalSound, [Next]_vars
             PROVE  JournalSound'
  OBVIOUS
<1>1. CASE UNCHANGED db
  BY <1>1 DEF JournalSound, LegAccounts, RightCurrency, Paired, Opposite, db
<1>2. ASSUME NEW s \in Session, pc[s] = "commit", Publish(s)
      PROVE  JournalSound'
  <2> DEFINE e == job[s].entry
             p == Posted(e, job[s].key)
  <2>1. /\ journal \in Seq(JournalEntry) /\ journal' = Append(journal, p)
        /\ DOMAIN journal' = DOMAIN journal \union {Len(journal) + 1}
        /\ journal'[Len(journal) + 1] = p
        /\ \A n \in DOMAIN journal : journal'[n] = journal[n]
    BY <1>2 DEF IInv, TypeOK, DbType, Publish
  <2>2. LegAccounts(e) \subseteq Account /\ RightCurrency(e) /\ Paired(e)
    BY <1>2 DEF RowsLocked, IInv, TypeOK, SessionType, Exact, EntriesPaired, StillRight
  <2>3. LegAccounts(p) \subseteq Account /\ RightCurrency(p) /\ Paired(p)
    BY <2>2 DEF Posted, LegAccounts, RightCurrency, Paired, Opposite
  <2> HIDE DEF p
  <2>4. ASSUME NEW n \in DOMAIN journal'
        PROVE  LegAccounts(journal'[n]) \subseteq Account /\ RightCurrency(journal'[n]) /\ Paired(journal'[n])
    <3>1. journal'[n] = p \/ (n \in DOMAIN journal /\ journal'[n] = journal[n])
      BY <2>1
    <3> QED BY <2>3, <3>1 DEF JournalSound
  <2> QED BY <2>4 DEF JournalSound, LegAccounts, RightCurrency, Paired, Opposite
<1> QED BY <1>1, <1>2, CommitOrNothing

(* int64 overflow never corrupts an account that must not go negative, for *)
(* any amounts and any interleaving: its cached balance is the exact sum   *)
(* of its postings (the no-negative check of postEntryTx comes after the   *)
(* addition).                                                              *)
THEOREM BoundedBalancesAreExact == Spec => []ExactWhereBounded
<1>1. Init => RowsLocked /\ NoDrift /\ Exact
  BY InitDrift, InitExact
<1>2. IInv /\ RowsLocked /\ NoDrift /\ Exact /\ [Next]_vars => RowsLocked' /\ NoDrift' /\ Exact'
  BY NextDrift, NextExact
<1>3. Exact => ExactWhereBounded
  BY DEF Exact
<1> QED BY <1>1, <1>2, <1>3, Inductive, PTL DEF Spec

-----------------------------------------------------------------------------
(* What one entry adds to the refunds of a payment is a number, 0 if it    *)
(* does not touch the merchant.                                            *)
LEMMA RefundOfType ==
  ASSUME NEW e, e.legs \in Seq(Legs), NEW p, NEW m
  PROVE  /\ RefundOf(e, p, m) \in Int
         /\ m \notin LegAccounts(e) => RefundOf(e, p, m) = 0
<1>1. \A i \in Nat : AmountOn(e, i, m) \in Int
  BY AmountOnType
<1>2. m \notin LegAccounts(e) => \A i \in Nat : AmountOn(e, i, m) = 0
  BY DEF LegAccounts, AmountOn
<1>3. \A i \in Nat : DebitOn(e, i, m) \in Int /\ (AmountOn(e, i, m) = 0 => DebitOn(e, i, m) = 0)
  BY <1>1 DEF DebitOn
<1>4. Debited(e, m) \in Int /\ (m \notin LegAccounts(e) => Debited(e, m) = 0)
  BY <1>2, <1>3 DEF Debited
<1> QED BY <1>4 DEF RefundOf

(* What each of the first n entries adds.                                  *)
Refunds(j, n, p, m) == [i \in 1 .. n |-> RefundOf(j[i], p, m)]

(* Each of them is a number.                                               *)
LEMMA RefundsType ==
  ASSUME NEW j \in Seq(JournalEntry), NEW n \in 0 .. Len(j), NEW p, NEW m
  PROVE  /\ n \in Nat
         /\ \A i \in 1 .. n : /\ Refunds(j, n, p, m)[i] \in Int
                              /\ Refunds(j, n, p, m)[i] = RefundOf(j[i], p, m)
<1>1. n \in Nat
  OBVIOUS
<1>2. ASSUME NEW i \in 1 .. n
      PROVE  RefundOf(j[i], p, m) \in Int
  <2>1. j[i] \in JournalEntry
    OBVIOUS
  <2> QED BY <2>1, RefundOfType DEF JournalEntry
<1> QED BY <1>1, <1>2 DEF Refunds

(* The refunds so far are a number.                                        *)
LEMMA RefundedType ==
  ASSUME NEW j \in Seq(JournalEntry), NEW n \in 0 .. Len(j), NEW p, NEW m
  PROVE  RefundedSoFar(j, n, p, m) \in Int
BY RefundsType, TotalType DEF RefundedSoFar, Refunds

(* They grow by what an entry adds.                                        *)
LEMMA RefundedNext ==
  ASSUME NEW j \in Seq(JournalEntry), NEW n \in 0 .. Len(j), n # Len(j), NEW p, NEW m
  PROVE  RefundedSoFar(j, n + 1, p, m) = RefundedSoFar(j, n, p, m) + RefundOf(j[n + 1], p, m)
<1> DEFINE d(k) == Refunds(j, k, p, m)
<1>1. n \in Nat /\ n + 1 \in 0 .. Len(j) /\ n + 1 \in 1 .. n + 1
  OBVIOUS
<1>2. /\ \A i \in 1 .. n : d(n)[i] \in Int /\ d(n)[i] = RefundOf(j[i], p, m)
      /\ \A i \in 1 .. n + 1 : d(n + 1)[i] \in Int /\ d(n + 1)[i] = RefundOf(j[i], p, m)
  BY <1>1, RefundsType
<1>3. RefundedSoFar(j, n + 1, p, m) = Total(d(n + 1), n + 1) /\ RefundedSoFar(j, n, p, m) = Total(d(n), n)
  BY DEF RefundedSoFar, Refunds
<1> HIDE DEF d
<1>4. Total(d(n + 1), n + 1) = Total(d(n + 1), n) + d(n + 1)[n + 1]
  BY <1>1, <1>2, TotalNext
<1>5. Total(d(n), n) = Total(d(n + 1), n)
  BY <1>1, <1>2, TotalAgrees
<1> QED BY <1>1, <1>2, <1>3, <1>4, <1>5

(* Entries that refund nothing of the payment do not change the sum.       *)
LEMMA RefundedSince ==
  ASSUME NEW j \in Seq(JournalEntry), NEW n \in 0 .. Len(j), NEW p, NEW m,
         \A i \in n + 1 .. Len(j) : RefundOf(j[i], p, m) = 0
  PROVE  RefundedSoFar(j, Len(j), p, m) = RefundedSoFar(j, n, p, m)
<1> DEFINE S == {k \in n .. Len(j) : RefundedSoFar(j, k, p, m) # RefundedSoFar(j, n, p, m)}
<1>1. SUFFICES ASSUME S # {} PROVE FALSE
  OBVIOUS
<1>2. PICK k \in S : \A l \in S : k <= l
  <2>1. S \subseteq Nat
    OBVIOUS
  <2> HIDE DEF S
  <2> QED BY <1>1, <2>1, LeastNumber
<1>3. k # n
  OBVIOUS
<1>4. /\ k - 1 \in n .. Len(j) /\ k - 1 \in 0 .. Len(j) /\ k - 1 # Len(j)
      /\ k \in n + 1 .. Len(j) /\ (k - 1) + 1 = k /\ k - 1 \notin S
  BY <1>2, <1>3
<1>5. RefundedSoFar(j, k - 1, p, m) = RefundedSoFar(j, n, p, m)
  BY <1>4
<1>6. RefundedSoFar(j, k, p, m) = RefundedSoFar(j, k - 1, p, m) + RefundOf(j[k], p, m)
  BY <1>4, RefundedNext
<1>7. RefundOf(j[k], p, m) = 0 /\ RefundedSoFar(j, k - 1, p, m) \in Int
  BY <1>4, RefundedType
<1>8. RefundedSoFar(j, k, p, m) = RefundedSoFar(j, n, p, m)
  BY <1>5, <1>6, <1>7
<1> QED BY <1>2, <1>8

(* None at all sum to 0.                                                   *)
LEMMA RefundedNone ==
  ASSUME NEW j \in Seq(JournalEntry), NEW p, NEW m, \A i \in 1 .. Len(j) : RefundOf(j[i], p, m) = 0
  PROVE  RefundedSoFar(j, Len(j), p, m) = 0
<1>1. 0 \in 0 .. Len(j) /\ \A i \in 0 + 1 .. Len(j) : RefundOf(j[i], p, m) = 0
  OBVIOUS
<1>2. RefundedSoFar(j, Len(j), p, m) = RefundedSoFar(j, 0, p, m)
  BY <1>1, RefundedSince
<1>3. RefundedSoFar(j, 0, p, m) = 0
  BY TotalZero DEF RefundedSoFar
<1> QED BY <1>2, <1>3

(* A commit appends one entry.                                             *)
LEMMA RefundedAppend ==
  ASSUME NEW j \in Seq(JournalEntry), NEW e \in JournalEntry, NEW p, NEW m
  PROVE  RefundedSoFar(Append(j, e), Len(j) + 1, p, m) =
           RefundedSoFar(j, Len(j), p, m) + RefundOf(e, p, m)
<1> DEFINE n == Len(j)
           k == Append(j, e)
<1>1. /\ n \in Nat /\ k \in Seq(JournalEntry) /\ Len(k) = n + 1
      /\ k[n + 1] = e /\ \A i \in 1 .. n : k[i] = j[i]
  OBVIOUS
<1> HIDE DEF k
<1>2. RefundedSoFar(k, n + 1, p, m) = RefundedSoFar(k, n, p, m) + RefundOf(e, p, m)
  BY <1>1, RefundedNext
<1>3. RefundedSoFar(k, n, p, m) = RefundedSoFar(j, n, p, m)
  <2>1. Refunds(k, n, p, m) = Refunds(j, n, p, m)
    BY <1>1 DEF Refunds
  <2> QED BY <2>1 DEF RefundedSoFar, Refunds
<1> QED BY <1>2, <1>3 DEF k

-----------------------------------------------------------------------------
(* What a call carries: a payment captures what was asked.                 *)
LEMMA PaymentEntry ==
  ASSUME IInv, AnswerInv, RefundInv, NEW s \in Session, pc[s] # "idle",
         job[s].entry.kind = "payment"
  PROVE  job[s].req.op = "payment" /\ Captured(job[s].entry) = job[s].req.amount
<1> DEFINE r == job[s].req
           e == job[s].entry
<1>1. e = EntryFor(journal, r) /\ r \in Request /\ r.amount > 0
  BY DEF AnswerInv, EntriesCurrent, RefundInv, AmountsPositive, IInv, TypeOK, SessionType, Job
<1>2. r.amount \in Int
  BY <1>1, RequestAssumption, MaxIntAssumption DEF Int64
<1>3. r.op = "payment" /\ e = Entry(r.op, 0, TwoLegs(r.from, r.to, r.cur, r.amount))
  BY <1>1, RequestAssumption DEF EntryFor, Entry
<1> HIDE DEF e
<1>4. /\ {e.legs[i] : i \in DOMAIN e.legs} = {Leg(r.from, r.cur, -r.amount), Leg(r.to, r.cur, r.amount)}
      /\ Leg(r.from, r.cur, -r.amount).amt = -r.amount
      /\ Leg(r.to, r.cur, r.amount).amt = r.amount
  BY <1>3 DEF Entry, TwoLegs, Leg
<1>5. MerchantLeg(e) = Leg(r.to, r.cur, r.amount)
  BY <1>1, <1>2, <1>4 DEF MerchantLeg
<1> QED BY <1>3, <1>4, <1>5 DEF Captured, e

(* A refund takes it from the merchant of its payment.                     *)
LEMMA RefundEntry ==
  ASSUME IInv, AnswerInv, RefundInv, NEW s \in Session, pc[s] # "idle",
         job[s].entry.kind = "refund"
  PROVE  LET e == job[s].entry
             m == e.legs[1].acct
         IN  /\ IsPayment(journal, e.ref) /\ m = MerchantLeg(journal[e.ref]).acct
             /\ m \in LegAccounts(e)
             /\ job[s].req.op = "refund" /\ RefundOf(e, e.ref, m) = job[s].req.amount
<1> DEFINE r == job[s].req
           e == job[s].entry
           p == journal[r.payment]
           m == MerchantLeg(p).acct
           c == MerchantLeg(p).cur
           src == SourceLeg(p).acct
<1>1. e = EntryFor(journal, r) /\ r \in Request /\ r.amount > 0 /\ Pinned(r)
  BY DEF AnswerInv, EntriesCurrent, RefundInv, AmountsPositive, IInv, TypeOK, SessionType, Job
<1>2. r.amount \in Int
  BY <1>1, RequestAssumption, MaxIntAssumption DEF Int64
<1>3. r.op = "refund" /\ e = Entry("refund", r.payment, TwoLegs(m, src, c, r.amount))
  BY <1>1, RequestAssumption DEF EntryFor, Entry
<1> HIDE DEF e, m, src, c
<1>4. /\ e.ref = r.payment /\ e.kind = "refund" /\ DOMAIN e.legs = 1 .. 2
      /\ e.legs[1].acct = m /\ e.legs[1].amt = -r.amount /\ e.legs[2].amt = r.amount
  BY <1>3 DEF Entry, TwoLegs, Leg
<1>5. /\ DebitOn(e, 1, m) = r.amount /\ DebitOn(e, 2, m) = 0
      /\ DebitOn(e, 3, m) = 0 /\ DebitOn(e, 4, m) = 0
  BY <1>1, <1>2, <1>4 DEF DebitOn, AmountOn
<1>6. RefundOf(e, e.ref, m) = r.amount
  BY <1>2, <1>4, <1>5 DEF RefundOf, Debited
<1>7. IsPayment(journal, e.ref)
  BY <1>1, <1>3, <1>4 DEF Pinned
<1>8. m \in LegAccounts(e)
  <2>1. 1 \in DOMAIN e.legs
    BY <1>4
  <2> QED BY <1>4, <2>1 DEF LegAccounts
<1> QED BY <1>3, <1>4, <1>6, <1>7, <1>8 DEF e, m

-----------------------------------------------------------------------------
(* A step that commits nothing keeps the bound if no refund comes to the   *)
(* posting unchecked and no row is locked that changed since the snapshot. *)
LEMMA QuietRefunds ==
  ASSUME RefundInv, journal' = journal,
         \A t \in Session :
           /\ pc'[t] \in {"post", "commit"} /\ job'[t].entry.kind = "refund" =>
                \/ pc[t] \in {"post", "commit"} /\ job'[t] = job[t]
                \/ GuardMet(t)'
           /\ pc'[t] # "idle" => (pc[t] # "idle" /\ job'[t] = job[t]) \/ job'[t].req.amount > 0
           /\ \/ snap'[t] = snap[t] /\ DOMAIN seen'[t] \subseteq DOMAIN seen[t]
              \/ SnapCurrent(t)'
  PROVE  RefundInv'
<1>1. RefundBound' /\ PaymentsAsked' /\ RefundsFollow'
  BY DEF RefundInv, RefundBound, PaymentsAsked, RefundsFollow, IsPayment
<1>2. GuardsMet'
  <2> SUFFICES ASSUME NEW t \in Session, pc'[t] \in {"post", "commit"},
                      job'[t].entry.kind = "refund"
               PROVE  GuardMet(t)'
    BY DEF GuardsMet
  <2>1. CASE pc[t] \in {"post", "commit"} /\ job'[t] = job[t]
    BY <2>1 DEF RefundInv, GuardsMet, GuardMet
  <2> QED BY <2>1
<1>3. AmountsPositive'
  BY DEF RefundInv, AmountsPositive
<1>4. ASSUME NEW t \in Session
      PROVE  SnapCurrent(t)'
  <2>1. CASE snap'[t] = snap[t] /\ DOMAIN seen'[t] \subseteq DOMAIN seen[t]
    BY <2>1 DEF RefundInv, SnapCurrent, LegAccounts
  <2> QED BY <2>1
<1> QED BY <1>1, <1>2, <1>3, <1>4 DEF RefundInv

(* A transaction that ends without a commit.                               *)
LEMMA ReleaseRefunds ==
  ASSUME IInv, RefundInv, NEW s \in Session, Release(s), job' = job, journal' = journal,
         NEW l \in {"idle", "begin"}, Goto(s, l), pc[s] # "idle"
  PROVE  RefundInv'
<1>1. \A t \in Session : pc'[t] = IF t = s THEN l ELSE pc[t]
  BY DEF Goto, IInv, TypeOK, SessionType
<1>2. /\ DOMAIN seen'[s] = {} /\ \A t \in Session \ {s} : seen'[t] = seen[t]
      /\ \A t \in Session : snap'[t] = IF t = s THEN 0 ELSE snap[t]
  BY ReleaseFacts DEF Release, IInv, TypeOK, SessionType
<1>3. SnapCurrent(s)'
  <2>1. Len(journal') \in Nat
    BY DEF IInv, TypeOK, DbType
  <2> QED BY <1>2, <2>1 DEF SnapCurrent
<1> QED BY <1>1, <1>2, <1>3, QuietRefunds

(* refundGuard sees every refund of the payment that has committed: those  *)
(* its snapshot misses would have changed the merchant's row.              *)
LEMMA GuardSeesAll ==
  ASSUME IInv, AnswerInv, RowsLocked, RefundInv, NEW s \in Session, pc[s] = "guard",
         job[s].entry.kind = "refund"
  PROVE  LET e == job[s].entry IN
         RefundedSoFar(journal, Len(journal), e.ref, e.legs[1].acct) =
           RefundedSoFar(journal, Visible(s), e.ref, e.legs[1].acct)
<1> DEFINE e == job[s].entry
           m == e.legs[1].acct
<1>1. journal \in Seq(JournalEntry) /\ Len(journal) \in Nat /\ snap[s] \in Nat
  BY DEF IInv, TypeOK, DbType, SessionType
<1>2. m \in DOMAIN seen[s]
  BY RefundEntry DEF RowsLocked
<1>3. CASE Mode = "serializable"
  <2>1. snap[s] \in 0 .. Len(journal)
    BY <1>1, <1>3 DEF RefundInv, SnapCurrent
  <2>2. \A i \in snap[s] + 1 .. Len(journal) : RefundOf(journal[i], e.ref, m) = 0
    <3> SUFFICES ASSUME NEW i \in snap[s] + 1 .. Len(journal)
                 PROVE  RefundOf(journal[i], e.ref, m) = 0
      OBVIOUS
    <3>1. m \notin LegAccounts(journal[i])
      BY <1>2, <1>3 DEF RefundInv, SnapCurrent
    <3>2. journal[i] \in JournalEntry
      BY <1>1, <2>1
    <3> QED BY <3>1, <3>2, RefundOfType DEF JournalEntry
  <2> QED BY <1>1, <1>3, <2>1, <2>2, RefundedSince DEF Visible
<1>4. CASE Mode # "serializable"
  BY <1>4 DEF Visible
<1> QED BY <1>3, <1>4

(* What it then lets through stays within the captured amount.             *)
LEMMA GuardLetsThrough ==
  ASSUME IInv, AnswerInv, RowsLocked, RefundInv, RefundsFit, NEW s \in Session,
         pc[s] = "guard", CheckGuard(s), pc'[s] = "post", job[s].entry.kind = "refund"
  PROVE  GuardMet(s)
<1> DEFINE e == job[s].entry
           m == e.legs[1].acct
           x == job[s].req.amount
           prior == RefundedSoFar(journal, Visible(s), e.ref, m)
           all == RefundedSoFar(journal, Len(journal), e.ref, m)
<1>1. prior \in Int64 /\ ~(Wrap(prior + x) > Captured(journal[e.ref]))
  <2>1. ~Return(s, Rejected)
    BY DEF Return, Goto, IInv, TypeOK, SessionType
  <2> QED BY <2>1 DEF CheckGuard
<1>2. prior = all
  BY GuardSeesAll
<1>3. IsPayment(journal, e.ref) /\ m = MerchantLeg(journal[e.ref]).acct /\ job[s].req.op = "refund"
  BY RefundEntry
<1>4. all <= Captured(journal[e.ref])
  BY <1>3 DEF RefundInv, RefundBound, IsPayment
<1>5. PICK r \in Request : r.op = "payment" /\ Captured(journal[e.ref]) = r.amount
  BY <1>3 DEF RefundInv, PaymentsAsked, IsPayment
<1>6. job[s].req \in Request /\ x > 0
  BY DEF RefundInv, AmountsPositive, IInv, TypeOK, SessionType, Job
<1>7. r.amount \in Int64 /\ x \in Int64 /\ r.amount + x <= MaxInt
  BY <1>3, <1>5, <1>6, RequestAssumption DEF RefundsFit
<1> HIDE DEF prior, all, x, m, e
<1>8. prior + x \in Int64
  BY <1>1, <1>2, <1>4, <1>5, <1>6, <1>7, MaxIntAssumption DEF Int64
<1>9. Wrap(prior + x) = prior + x
  BY <1>8, WrapFits
<1>10. all + x <= Captured(journal[e.ref])
  BY <1>1, <1>2, <1>5, <1>7, <1>8, <1>9, MaxIntAssumption DEF Int64
<1> QED BY <1>10 DEF GuardMet, all, x, m, e

-----------------------------------------------------------------------------
(* The commit.  No other transaction that posts has locked a row of this   *)
(* one, so what it computed still holds; and the refund that commits has   *)
(* met its guard.                                                          *)
LEMMA PublishRefunds ==
  ASSUME IInv, AnswerInv, RowsLocked, RefundInv, NEW s \in Session,
         pc[s] = "commit", Publish(s), NEW ans, Return(s, ans)
  PROVE  RefundInv'
<1> DEFINE e == job[s].entry
           k == Posted(e, job[s].key)
           n == Len(journal)
           x == job[s].req.amount
<1>1. /\ job' = job /\ \A t \in Session : pc'[t] = IF t = s THEN "idle" ELSE pc[t]
      /\ Release(s)
  BY DEF Return, Goto, IInv, TypeOK, SessionType
<1>2. /\ job[s] \in Job /\ journal \in Seq(JournalEntry) /\ journal' = Append(journal, k)
      /\ n \in Nat
  BY DEF IInv, TypeOK, DbType, SessionType, Publish
<1>3. k \in JournalEntry /\ k.kind = e.kind /\ k.ref = e.ref /\ k.legs = e.legs
  BY <1>2 DEF Job, Posted, JournalEntry
<1> HIDE DEF k
<1>4. /\ Len(journal') = n + 1 /\ DOMAIN journal' = DOMAIN journal \union {n + 1}
      /\ DOMAIN journal = 1 .. n
      /\ journal'[n + 1] = k /\ \A i \in DOMAIN journal : journal'[i] = journal[i]
  BY <1>2, <1>3
<1>5. \A p, m : RefundedSoFar(journal', Len(journal'), p, m) =
                  RefundedSoFar(journal, n, p, m) + RefundOf(k, p, m)
  BY <1>2, <1>3, <1>4, RefundedAppend
<1>6. \A p, m : RefundedSoFar(journal, n, p, m) \in Int /\ RefundOf(k, p, m) \in Int
  <2>1. n \in 0 .. Len(journal)
    BY <1>2
  <2>2. k.legs \in Seq(Legs)
    BY <1>3 DEF JournalEntry
  <2>3. \A p, m : RefundedSoFar(journal, n, p, m) \in Int
    <3> HIDE DEF n
    <3> QED BY <1>2, <2>1, RefundedType
  <2>4. \A p, m : RefundOf(k, p, m) \in Int
    BY <2>2, RefundOfType
  <2> QED BY <2>3, <2>4
<1>7. \A p, m : RefundOf(k, p, m) = RefundOf(e, p, m)
  BY <1>3 DEF RefundOf, Debited, DebitOn, AmountOn
<1>8. LegAccounts(k) = LegAccounts(e) /\ LegAccounts(e) \subseteq DOMAIN seen[s]
  BY <1>3 DEF LegAccounts, RowsLocked
<1>9. ASSUME NEW p \in DOMAIN journal', IsPayment(journal', p)
      PROVE  RefundedSoFar(journal', Len(journal'), p, MerchantLeg(journal'[p]).acct)
               <= Captured(journal'[p])
  <2> DEFINE m == MerchantLeg(journal'[p]).acct
  <2>1. CASE p \in DOMAIN journal
    <3>1. /\ journal'[p] = journal[p] /\ IsPayment(journal, p)
          /\ RefundedSoFar(journal, n, p, m) <= Captured(journal[p])
      BY <1>4, <1>9, <2>1 DEF IsPayment, RefundInv, RefundBound
    <3>2. CASE k.kind = "refund" /\ k.ref = p
      <4>1. e.kind = "refund" /\ GuardMet(s)
        BY <1>3, <3>2 DEF RefundInv, GuardsMet
      <4>2. e.ref = p /\ m = e.legs[1].acct /\ RefundOf(e, p, m) = x
        BY <1>3, <3>1, <3>2, <4>1, RefundEntry
      <4>3. RefundedSoFar(journal, n, p, m) + x <= Captured(journal[p])
        BY <4>1, <4>2 DEF GuardMet
      <4> QED BY <1>5, <1>7, <3>1, <4>2, <4>3
    <3>3. CASE ~(k.kind = "refund" /\ k.ref = p)
      <4>1. RefundOf(k, p, m) = 0
        BY <3>3 DEF RefundOf
      <4> QED BY <1>5, <1>6, <3>1, <4>1
    <3> QED BY <3>2, <3>3
  <2>2. CASE p = n + 1
    <3>1. k.kind = "payment" /\ journal'[p] = k
      BY <1>4, <1>9, <2>2 DEF IsPayment
    <3>2. \A i \in 1 .. n : RefundOf(journal[i], p, m) = 0
      BY <1>2, <1>4, <2>2 DEF RefundInv, RefundsFollow, RefundOf
    <3>3. RefundedSoFar(journal, n, p, m) = 0 /\ RefundOf(k, p, m) = 0
      BY <1>2, <3>1, <3>2, RefundedNone DEF RefundOf
    <3>4. Captured(k) > 0
      <4>1. Captured(e) = x /\ x > 0
        BY <1>3, <3>1, PaymentEntry DEF RefundInv, AmountsPositive
      <4> QED BY <1>3, <4>1 DEF Captured, MerchantLeg
    <3>5. Captured(k) \in Int
      <4>1. k.legs \in Seq(Legs) /\ TwoSided(k)
        BY <1>3, <3>1 DEF JournalEntry, IInv, PaymentShape, TwoSided
      <4>2. MerchantLeg(k) \in Legs
        BY <3>1, <4>1, PaymentLegs
      <4>3. MerchantLeg(k).amt \in Int64
        BY <4>2 DEF Legs
      <4> QED BY <4>3, MaxIntAssumption DEF Captured, Int64
    <3> HIDE DEF m
    <3>6. RefundedSoFar(journal', Len(journal'), p, m) = 0
      BY <1>5, <3>3
    <3> QED BY <3>1, <3>4, <3>5, <3>6 DEF m
  <2> QED BY <1>4, <2>1, <2>2
<1>10. PaymentsAsked'
  <2> SUFFICES ASSUME NEW p \in DOMAIN journal', journal'[p].kind = "payment"
               PROVE  \E r \in Request : r.op = "payment" /\ Captured(journal'[p]) = r.amount
    BY DEF PaymentsAsked, Captured, MerchantLeg
  <2>1. CASE p \in DOMAIN journal
    BY <1>4, <2>1 DEF RefundInv, PaymentsAsked
  <2>2. CASE p = n + 1
    <3>1. Captured(k) = Captured(e)
      BY <1>3 DEF Captured, MerchantLeg
    <3>2. job[s].req \in Request
      BY <1>2 DEF Job
    <3> QED BY <1>3, <1>4, <2>2, <3>1, <3>2, PaymentEntry
  <2> QED BY <1>4, <2>1, <2>2
<1>11. RefundsFollow'
  <2>1. k.kind = "refund" => k.ref \in DOMAIN journal
    BY <1>3, RefundEntry DEF IsPayment
  <2> QED BY <1>4, <2>1 DEF RefundInv, RefundsFollow
<1>12. ASSUME NEW t \in Session \ {s}
       PROVE  DOMAIN seen[t] \intersect LegAccounts(k) = {}
  BY <1>8 DEF IInv, FreshReads
<1>13. GuardsMet'
  <2> SUFFICES ASSUME NEW t \in Session, pc'[t] \in {"post", "commit"},
                      job'[t].entry.kind = "refund"
               PROVE  GuardMet(t)'
    BY DEF GuardsMet
  <2> DEFINE g == job[t].entry
             m == g.legs[1].acct
  <2>1. t # s /\ pc[t] \in {"post", "commit"} /\ job'[t] = job[t] /\ g.kind = "refund"
    BY <1>1
  <2>2. GuardMet(t)
    BY <2>1 DEF RefundInv, GuardsMet
  <2>3. g.ref \in DOMAIN journal /\ m \in DOMAIN seen[t]
    BY <2>1, RefundEntry DEF IsPayment, RowsLocked
  <2>4. RefundOf(k, g.ref, m) = 0
    BY <1>3, <1>12, <2>1, <2>3, RefundOfType DEF JournalEntry
  <2>5. RefundedSoFar(journal', Len(journal'), g.ref, m) = RefundedSoFar(journal, n, g.ref, m)
    BY <1>5, <1>6, <2>4
  <2>6. journal'[g.ref] = journal[g.ref]
    BY <1>4, <2>3
  <2> QED BY <2>1, <2>2, <2>5, <2>6 DEF GuardMet
<1>14. AmountsPositive'
  BY <1>1 DEF RefundInv, AmountsPositive
<1>15. ASSUME NEW t \in Session
       PROVE  SnapCurrent(t)'
  <2>1. CASE t = s
    <3>1. DOMAIN seen'[s] = {} /\ snap'[s] = 0
      BY <1>1, ReleaseFacts DEF Release, IInv, TypeOK, SessionType
    <3> QED BY <1>2, <1>4, <2>1, <3>1 DEF SnapCurrent
  <2>2. CASE t # s
    <3>1. seen'[t] = seen[t] /\ snap'[t] = snap[t] /\ snap[t] \in Nat
      BY <1>1, <2>2, ReleaseFacts DEF Release, IInv, TypeOK, SessionType
    <3>2. SnapCurrent(t)
      BY DEF RefundInv
    <3> SUFFICES ASSUME Mode = "serializable"
                 PROVE  /\ snap'[t] <= Len(journal')
                        /\ \A a \in DOMAIN seen'[t] : \A i \in snap'[t] + 1 .. Len(journal') :
                             a \notin LegAccounts(journal'[i])
      BY DEF SnapCurrent, LegAccounts
    <3>3. snap[t] <= n
      BY <3>2 DEF SnapCurrent
    <3>4. ASSUME NEW a \in DOMAIN seen[t], NEW i \in snap[t] + 1 .. n + 1
          PROVE  a \notin LegAccounts(journal'[i])
      <4>1. CASE i = n + 1
        BY <1>4, <1>12, <2>2, <4>1
      <4>2. CASE i # n + 1
        <5>1. i \in snap[t] + 1 .. n /\ journal'[i] = journal[i]
          BY <1>2, <1>4, <3>1, <4>2
        <5> QED BY <3>2, <5>1 DEF SnapCurrent
      <4> QED BY <4>1, <4>2
    <3> QED BY <1>2, <1>4, <3>1, <3>3, <3>4
  <2> QED BY <2>1, <2>2
<1>16. RefundBound'
  BY <1>9 DEF RefundBound, IsPayment, MerchantLeg, Captured
<1> QED BY <1>10, <1>11, <1>13, <1>14, <1>15, <1>16 DEF RefundInv

-----------------------------------------------------------------------------
(* A session moves on within its transaction; only what it may have to     *)
(* show at the posting is asked of it.                                     *)
LEMMA MoveRefunds ==
  ASSUME IInv, RefundInv, NEW s \in Session, pc[s] # "idle", NEW l, Goto(s, l),
         journal' = journal, job' = job, snap' = snap, seen' = seen,
         l \in {"post", "commit"} /\ job[s].entry.kind = "refund" =>
           pc[s] \in {"post", "commit"} \/ GuardMet(s)
  PROVE  RefundInv'
<1>1. \A t \in Session : pc'[t] = IF t = s THEN l ELSE pc[t]
  BY DEF Goto, IInv, TypeOK, SessionType
<1>2. GuardMet(s) => GuardMet(s)'
  BY DEF GuardMet
<1> QED BY <1>1, <1>2, QuietRefunds

(* One case per action.                                                    *)
LEMMA StepRefunds ==
  ASSUME IInv, AnswerInv, RowsLocked, RefundInv, RefundsFit,
         NEW s \in Session, Step(s) \/ Abort(s)
  PROVE  RefundInv'
<1>1. CASE BeginTx(s)
  <2>1. /\ journal' = journal /\ job' = job /\ seen' = seen /\ pc[s] = "begin"
        /\ \A t \in Session \ {s} : pc'[t] = pc[t] /\ snap'[t] = snap[t]
        /\ pc'[s] \in {"lock", "claim"}
        /\ Mode = "serializable" => snap'[s] = Len(journal)
    BY <1>1 DEF BeginTx, Goto, db, local, IInv, TypeOK, SessionType
  <2>2. Len(journal) \in Nat
    BY DEF IInv, TypeOK, DbType
  <2>3. SnapCurrent(s)'
    BY <2>1, <2>2 DEF SnapCurrent
  <2> QED BY <2>1, <2>3, QuietRefunds
<1>2. CASE ClaimKey(s) \/ KeyTaken(s)
  <2>1. /\ journal' = journal /\ job' = job /\ snap' = snap /\ seen' = seen
        /\ pc[s] # "idle" /\ \E l \in {"lock", "replay"} : Goto(s, l)
    BY <1>2 DEF ClaimKey, KeyTaken, db, local
  <2> QED BY <2>1, MoveRefunds
<1>3. CASE LockAccount(s)
  <2>1. /\ journal' = journal /\ job' = job /\ snap' = snap /\ pc' = pc /\ pc[s] = "lock"
        /\ \A t \in Session \ {s} : seen'[t] = seen[t]
    BY <1>3 DEF LockAccount, db, local, IInv, TypeOK, SessionType
  <2>2. PICK a \in Account :
          ~StaleRow(s, a) /\ DOMAIN seen'[s] = DOMAIN seen[s] \union {a}
    BY <1>3 DEF LockAccount, IInv, TypeOK, SessionType
  <2>3. SnapCurrent(s)
    BY DEF RefundInv
  <2>4. SnapCurrent(s)'
    BY <2>1, <2>2, <2>3 DEF SnapCurrent, StaleRow, LegAccounts
  <2> QED BY <2>1, <2>4, QuietRefunds
<1>4. CASE AllLocked(s)
  <2>1. /\ journal' = journal /\ job' = job /\ snap' = snap /\ seen' = seen /\ pc[s] # "idle"
        /\ \/ Goto(s, "guard")
           \/ Goto(s, "post") /\ job[s].entry.kind # "refund"
    BY <1>4 DEF AllLocked, db, local
  <2> QED BY <2>1, MoveRefunds
<1>5. CASE CheckGuard(s)
  <2>1. journal' = journal /\ pc[s] = "guard"
    BY <1>5 DEF CheckGuard, db
  <2>2. CASE Return(s, Rejected)
    BY <2>1, <2>2, ReleaseRefunds DEF Return
  <2>3. CASE Goto(s, "post") /\ UNCHANGED <<locks, seen, snap, local, reply>>
    <3>1. pc'[s] = "post" /\ job' = job /\ snap' = snap /\ seen' = seen
      BY <2>3 DEF Goto, local, IInv, TypeOK, SessionType
    <3>2. job[s].entry.kind = "refund" => GuardMet(s)
      BY <1>5, <2>1, <3>1, GuardLetsThrough
    <3> QED BY <2>1, <2>3, <3>1, <3>2, MoveRefunds
  <2> QED BY <1>5, <2>2, <2>3 DEF CheckGuard
<1>6. CASE PostLegs(s)
  <2>1. /\ journal' = journal /\ job' = job /\ snap' = snap /\ seen' = seen
        /\ pc[s] = "post" /\ Goto(s, "commit")
    BY <1>6 DEF PostLegs, db, local
  <2> QED BY <2>1, MoveRefunds
<1>7. CASE CommitTx(s) \/ CommitAnswerLost(s)
  BY <1>7, PublishRefunds DEF CommitTx, CommitAnswerLost
<1>8. CASE ReadReplay(s) \/ RejectEntry(s) \/ RejectPosting(s) \/ Exhausted(s) \/ Abort(s)
  <2>1. journal' = journal /\ pc[s] # "idle" /\ \E ans : Return(s, ans)
    BY <1>8 DEF ReadReplay, RejectEntry, RejectPosting, Exhausted, Abort,
                SerializationFailure, InTx, db
  <2> QED BY <2>1, ReleaseRefunds DEF Return
<1>9. CASE Retry(s)
  <2>1. journal' = journal /\ job' = job /\ pc[s] # "idle" /\ Release(s) /\ Goto(s, "begin")
    BY <1>9 DEF Retry, SerializationFailure, InTx, db
  <2> QED BY <2>1, ReleaseRefunds
<1> QED BY <1>1, <1>2, <1>3, <1>4, <1>5, <1>6, <1>7, <1>8, <1>9 DEF Step, Progress

(* Every step of the system does; a refund of nothing is refused.          *)
LEMMA NextRefunds ==
  RefundsFit /\ IInv /\ AnswerInv /\ RowsLocked /\ RefundInv /\ [Next]_vars => RefundInv'
<1> SUFFICES ASSUME RefundsFit, IInv, AnswerInv, RowsLocked, RefundInv, [Next]_vars
             PROVE  RefundInv'
  OBVIOUS
<1>1. ASSUME NEW s \in Session, NEW r \in Request, NEW k \in Key \union {NoKey},
             Refuse(s, r, k) \/ Call(s, r, k)
      PROVE  RefundInv'
  <2>1. /\ journal' = journal /\ snap' = snap /\ seen' = seen
        /\ \A t \in Session \ {s} : pc'[t] = pc[t] /\ job'[t] = job[t]
        /\ pc'[s] = "idle" \/ (pc'[s] = "begin" /\ job'[s].req = r /\ ~(r.amount <= 0))
    BY <1>1 DEF Refuse, Call, Send, Goto, Refused, db, IInv, TypeOK, SessionType
  <2>2. r.amount \in Int
    BY RequestAssumption, MaxIntAssumption DEF Int64
  <2> QED BY <2>1, <2>2, QuietRefunds
<1>2. ASSUME NEW s \in Session, Step(s) \/ Abort(s)
      PROVE  RefundInv'
  BY <1>2, StepRefunds
<1>3. CASE UNCHANGED vars
  <2>1. journal' = journal /\ pc' = pc /\ job' = job /\ snap' = snap /\ seen' = seen
    BY <1>3 DEF vars, db, local
  <2> QED BY <2>1, QuietRefunds
<1> QED BY <1>1, <1>2, <1>3 DEF Next, Terminating

(* There is nothing to refund at first.                                    *)
LEMMA InitRefunds == Init => RefundInv
<1> SUFFICES ASSUME Init
             PROVE  RefundInv
  OBVIOUS
<1>1. RefundBound /\ PaymentsAsked /\ RefundsFollow /\ GuardsMet /\ AmountsPositive
  BY DEF Init, RefundBound, PaymentsAsked, RefundsFollow, GuardsMet, AmountsPositive, IsPayment
<1>2. ASSUME NEW s \in Session
      PROVE  SnapCurrent(s)
  <2>1. snap[s] = 0 /\ Len(journal) = 0 /\ DOMAIN seen[s] = {}
    BY DEF Init, NoRows
  <2> QED BY <2>1 DEF SnapCurrent
<1> QED BY <1>1, <1>2 DEF RefundInv

(* No over-refund, for any number of concurrent refunds of any payments,   *)
(* in either isolation mode: the guard of ops.Refund, evaluated under the  *)
(* row locks, bounds what is refunded by what was captured (unless         *)
(* prior + amount overflows, which RefundsFit excludes).                   *)
THEOREM RefundsNeverExceed == ASSUME RefundsFit PROVE Spec => []RefundBound
<1>1. Init => RowsLocked /\ NoDrift /\ RefundInv
  BY InitDrift, InitRefunds
<1>2. IInv /\ AnswerInv /\ RowsLocked /\ NoDrift /\ RefundInv /\ [Next]_vars
        => RowsLocked' /\ NoDrift' /\ RefundInv'
  BY RefundsFit, NextDrift, NextRefunds
<1>3. RefundInv => RefundBound
  BY DEF RefundInv
<1> QED BY <1>1, <1>2, <1>3, Inductive, AnswersInductive, PTL DEF Spec

-----------------------------------------------------------------------------
(* The two specifications mean the same by the operators of Ledger: of the *)
(* sum of a column and of wrap-around,                                     *)
LEMMA SameTotal ==
  /\ \A d, n : Atomic!Total(d, n) = Total(d, n)
  /\ \A x : Atomic!Wrap(x) = Wrap(x)
BY DEF Atomic!Total, Total, Atomic!Wrap, Wrap

(* ... of what an entry does to an account.                                *)
LEMMA SameDelta ==
  /\ \A e, a : Atomic!Delta(e, a) = Delta(e, a)
  /\ \A e : Atomic!LegAccounts(e) = LegAccounts(e)
BY DEF Atomic!Delta, Delta, Atomic!LegAccounts, LegAccounts, Atomic!AmountOn, AmountOn

(* ... of Entry.Validate and the currency check.                           *)
LEMMA SameValid ==
  /\ \A e : Atomic!Valid(e) <=> Valid(e)
  /\ \A e : Atomic!RightCurrency(e) <=> RightCurrency(e)
BY SameTotal DEF Atomic!Valid, Valid, Atomic!RightCurrency, RightCurrency,
       Atomic!Net, Net, Atomic!AmountIn, AmountIn

(* ... of the sum of the postings.                                         *)
LEMMA SameDerived ==
  \A j, a : Atomic!Derived(j, a) = Derived(j, a)
BY SameTotal, SameDelta DEF Atomic!Derived, Derived

(* ... of GetPaymentLegs.                                                  *)
LEMMA SameCaptured ==
  /\ \A e : Atomic!MerchantLeg(e) = MerchantLeg(e)
  /\ \A e : Atomic!SourceLeg(e) = SourceLeg(e)
  /\ \A e : Atomic!Captured(e) = Captured(e)
BY DEF Atomic!MerchantLeg, MerchantLeg, Atomic!SourceLeg, SourceLeg, Atomic!Captured, Captured

(* ... of the refunds so far.                                              *)
LEMMA SameRefunded ==
  \A j, n, p, m : Atomic!RefundedSoFar(j, n, p, m) = RefundedSoFar(j, n, p, m)
BY SameTotal DEF Atomic!RefundedSoFar, RefundedSoFar, Atomic!RefundOf, RefundOf,
     Atomic!Debited, Debited, Atomic!DebitOn, DebitOn, Atomic!AmountOn, AmountOn

(* ... of what is inserted.                                                *)
LEMMA SamePosted ==
  \A e, k : Atomic!Posted(e, k) = Posted(e, k)
BY DEF Atomic!Posted, Posted

(* ... of what each operation accepts and builds.                          *)
LEMMA SameEntries ==
  /\ \A j, r : Atomic!EntryFor(j, r) = EntryFor(j, r)
  /\ \A j, r, k : Atomic!Refused(j, r, k) <=> Refused(j, r, k)
BY SameCaptured, SameTotal
   DEF Atomic!EntryFor, EntryFor, Atomic!Refused, Refused, Atomic!Entry, Entry,
       Atomic!TwoLegs, TwoLegs, Atomic!FXLegs, FXLegs, Atomic!Leg, Leg,
       Atomic!FXPossible, FXPossible, Atomic!IsPayment, IsPayment,
       Atomic!Convert, Convert, Atomic!Rounded, Rounded, Atomic!Quo, Quo,
       Atomic!NoAccount, NoAccount

-----------------------------------------------------------------------------
(* What is acceptable stays so as the journal grows.                       *)
LEMMA AcceptedStable ==
  ASSUME Grows, NEW r, NEW k, ~Refused(journal, r, k)
  PROVE  ~Refused(journal', r, k)
BY DEF Grows, Refused, IsPayment

(* A step keeps requests acceptable and postings valid if the calls that   *)
(* begin are acceptable, and only valid entries come to the posting.       *)
LEMMA QuietAccepted ==
  ASSUME NotRefused, StillValid, Grows,
         \A t \in Session :
           /\ pc'[t] # "idle" =>
                \/ pc[t] # "idle" /\ job'[t] = job[t]
                \/ ~Refused(journal, job'[t].req, job'[t].key)
           /\ pc'[t] \in {"guard", "post", "commit"} =>
                /\ job'[t] = job[t]
                /\ pc[t] \in {"guard", "post", "commit"} \/ Valid(job[t].entry)
  PROVE  NotRefused' /\ StillValid'
<1>1. ASSUME NEW t \in Session, pc'[t] # "idle"
      PROVE  ~Refused(journal', job'[t].req, job'[t].key)
  <2>1. ~Refused(journal, job'[t].req, job'[t].key)
    BY <1>1 DEF NotRefused
  <2> QED BY <2>1, AcceptedStable
<1>2. ASSUME NEW t \in Session, pc'[t] \in {"guard", "post", "commit"}
      PROVE  Valid(job'[t].entry)
  BY <1>2 DEF StillValid
<1>3. NotRefused'
  BY <1>1 DEF NotRefused, Refused, IsPayment
<1>4. StillValid'
  BY <1>2 DEF StillValid, Valid, Net, AmountIn
<1> QED BY <1>3, <1>4

(* The journal as it was is a growth of it.                                *)
LEMMA GrowsNot == journal' = journal => Grows
BY DEF Grows

(* One case per kind of step.                                              *)
LEMMA StepAccepted ==
  ASSUME IInv, NotRefused, StillValid, NEW s \in Session, Step(s) \/ Abort(s)
  PROVE  NotRefused' /\ StillValid'
<1>1. CASE BeginTx(s) \/ ClaimKey(s) \/ KeyTaken(s) \/ LockAccount(s)
  <2>1. /\ journal' = journal /\ job' = job /\ pc[s] # "idle"
        /\ \A t \in Session \ {s} : pc'[t] = pc[t]
        /\ pc'[s] \in {"claim", "replay", "lock"}
    BY <1>1 DEF BeginTx, ClaimKey, KeyTaken, LockAccount, Goto, db, local, IInv, TypeOK, SessionType
  <2> QED BY <2>1, GrowsNot, QuietAccepted
<1>2. CASE AllLocked(s)
  <2>1. /\ journal' = journal /\ job' = job /\ pc[s] # "idle" /\ Valid(job[s].entry)
        /\ \A t \in Session \ {s} : pc'[t] = pc[t]
    BY <1>2 DEF AllLocked, Goto, db, local, IInv, TypeOK, SessionType
  <2> QED BY <2>1, GrowsNot, QuietAccepted
<1>3. CASE CheckGuard(s) \/ PostLegs(s)
  <2>1. /\ journal' = journal /\ job' = job /\ pc[s] \in {"guard", "post"}
        /\ \A t \in Session \ {s} : pc'[t] = pc[t]
    BY <1>3 DEF CheckGuard, PostLegs, Return, Goto, db, local, IInv, TypeOK, SessionType
  <2> QED BY <2>1, GrowsNot, QuietAccepted
<1>4. CASE CommitTx(s) \/ CommitAnswerLost(s)
  <2>1. /\ Publish(s) /\ job' = job /\ pc'[s] = "idle"
        /\ \A t \in Session \ {s} : pc'[t] = pc[t]
    BY <1>4 DEF CommitTx, CommitAnswerLost, Return, Goto, IInv, TypeOK, SessionType
  <2>2. Grows
    BY <2>1 DEF Publish, Grows, IInv, TypeOK, DbType
  <2> QED BY <2>1, <2>2, QuietAccepted
<1>5. CASE \/ ReadReplay(s) \/ RejectEntry(s) \/ RejectPosting(s) \/ Exhausted(s) \/ Abort(s)
           \/ Retry(s)
  <2>1. /\ journal' = journal /\ job' = job /\ pc[s] # "idle" /\ pc'[s] \in {"idle", "begin"}
        /\ \A t \in Session \ {s} : pc'[t] = pc[t]
    BY <1>5 DEF ReadReplay, RejectEntry, RejectPosting, Exhausted, Abort, Retry, Return, Goto,
                SerializationFailure, InTx, db, IInv, TypeOK, SessionType
  <2> QED BY <2>1, GrowsNot, QuietAccepted
<1> QED BY <1>1, <1>2, <1>3, <1>4, <1>5 DEF Step, Progress

(* Every step of the system keeps both.                                    *)
LEMMA NextAccepted == IInv /\ NotRefused /\ StillValid /\ [Next]_vars => NotRefused' /\ StillValid'
<1> SUFFICES ASSUME IInv, NotRefused, StillValid, [Next]_vars
             PROVE  NotRefused' /\ StillValid'
  OBVIOUS
<1>1. ASSUME NEW s \in Session, NEW r \in Request, NEW k \in Key \union {NoKey}, Refuse(s, r, k)
      PROVE  NotRefused' /\ StillValid'
  <2>1. /\ journal' = journal /\ pc' = pc /\ pc[s] = "idle"
        /\ \A t \in Session \ {s} : job'[t] = job[t]
    BY <1>1 DEF Refuse, Send, db, IInv, TypeOK, SessionType
  <2> QED BY <2>1, GrowsNot, QuietAccepted
<1>2. ASSUME NEW s \in Session, NEW r \in Request, NEW k \in Key \union {NoKey}, Call(s, r, k)
      PROVE  NotRefused' /\ StillValid'
  <2>1. /\ journal' = journal /\ pc'[s] = "begin" /\ ~Refused(journal, r, k)
        /\ job'[s].req = r /\ job'[s].key = k
        /\ \A t \in Session \ {s} : pc'[t] = pc[t] /\ job'[t] = job[t]
    BY <1>2 DEF Call, Send, Goto, db, IInv, TypeOK, SessionType
  <2> QED BY <2>1, GrowsNot, QuietAccepted
<1>3. ASSUME NEW s \in Session, Step(s) \/ Abort(s)
      PROVE  NotRefused' /\ StillValid'
  BY <1>3, StepAccepted
<1>4. CASE UNCHANGED vars
  <2>1. journal' = journal /\ pc' = pc /\ job' = job
    BY <1>4 DEF vars, db, local
  <2> QED BY <2>1, GrowsNot, QuietAccepted
<1> QED BY <1>1, <1>2, <1>3, <1>4 DEF Next, Terminating

-----------------------------------------------------------------------------
(* A commit posts what its request stands for, once for its key, with all  *)
(* the checks of the operation true at that moment.                        *)
KeyedBy == [x \in Key |-> IF keyRow[x] = NoRow THEN NoRow ELSE keyRow[x].req]

LEMMA PublishPosts ==
  ASSUME IInv, AnswerInv, RowsLocked, Exact, RefundInv, NotRefused, StillValid,
         NEW s \in Session, pc[s] = "commit", Publish(s),
         NEW CONSTANT r, r = job[s].req, NEW CONSTANT k, k = job[s].key
  PROVE  LET e == EntryFor(journal, r) IN
         /\ ~Refused(journal, r, k) /\ Valid(e) /\ RightCurrency(e)
         /\ k # NoKey => KeyedBy[k] = NoRow
         /\ LegAccounts(e) \subseteq Account
         /\ \A a \in LegAccounts(e) \ AllowNegative : Derived(journal, a) + Delta(e, a) >= 0
         /\ e.kind = "refund" =>
              RefundedSoFar(journal, Len(journal), e.ref, MerchantLeg(journal[e.ref]).acct) + e.legs[2].amt
                <= Captured(journal[e.ref])
         /\ journal' = Append(journal, Posted(e, k))
         /\ KeyedBy' = IF k = NoKey THEN KeyedBy ELSE [KeyedBy EXCEPT ![k] = r]
<1> DEFINE e == job[s].entry
           keyed == [x \in Key |-> IF keyRow[x] = NoRow THEN NoRow ELSE keyRow[x].req]
<1>1. job[s] \in Job /\ e = EntryFor(journal, r) /\ k \in Key \union {NoKey} /\ e.legs \in Seq(Legs)
  BY DEF AnswerInv, EntriesCurrent, IInv, TypeOK, SessionType, Job
<1>2. ~Refused(journal, r, k) /\ Valid(e)
  BY DEF NotRefused, StillValid
<1>3. k # NoKey => keyed[k] = NoRow
  BY <1>1 DEF IInv, OwnsKey
<1>4. LegAccounts(e) \subseteq DOMAIN seen[s] /\ DOMAIN seen[s] \subseteq Account
  BY DEF RowsLocked, IInv, TypeOK, SessionType
<1>5. RightCurrency(e)
  BY DEF Exact, StillRight
<1>6. ASSUME NEW a \in LegAccounts(e) \ AllowNegative
      PROVE  Derived(journal, a) + Delta(e, a) >= 0
  <2>1. a \in DOMAIN seen[s] /\ a \in Account \ AllowNegative
    BY <1>4
  <2>2. seen[s][a] = balance[a] /\ balance[a] = Derived(journal, a)
    BY <2>1 DEF IInv, FreshReads, Exact, ExactWhereBounded
  <2>3. balance[a] \in 0 .. MaxInt
    BY <2>1, MaxIntAssumption DEF IInv, NoOverdraft, TypeOK, DbType, Int64
  <2>4. Wrap(balance[a] + Delta(e, a)) >= 0
    BY <2>1, <2>2 DEF IInv, StillCovered, Covered, NewBalance
  <2>5. Delta(e, a) \in Int64
    BY <1>1, <1>5, PairedDelta DEF Exact, EntriesPaired
  <2> QED BY <2>2, <2>3, <2>4, <2>5, SumFits
<1>7. ASSUME e.kind = "refund"
      PROVE  /\ RefundedSoFar(journal, Len(journal), e.ref, MerchantLeg(journal[e.ref]).acct) + e.legs[2].amt
                  <= Captured(journal[e.ref])
  <2>1. GuardMet(s) /\ e.legs[1].acct = MerchantLeg(journal[e.ref]).acct
    BY <1>7, RefundEntry DEF RefundInv, GuardsMet
  <2>2. e.legs[2].amt = r.amount
    <3>1. r.op = "refund" /\ r \in Request
      BY <1>1, <1>7, RefundEntry DEF Job
    <3> QED BY <1>1, <3>1 DEF EntryFor, Entry, TwoLegs, Leg
  <2> QED BY <2>1, <2>2 DEF GuardMet
<1>8. journal' = Append(journal, Posted(e, k))
  BY DEF Publish
<1>9. [x \in Key |-> IF keyRow'[x] = NoRow THEN NoRow ELSE keyRow'[x].req]
        = IF k = NoKey THEN keyed ELSE [keyed EXCEPT ![k] = r]
  <2>1. CASE k = NoKey
    BY <2>1 DEF Publish
  <2>2. CASE k # NoKey
    <3>1. \A x \in Key : keyRow'[x] = IF x = k THEN KeyRow(r, Len(journal) + 1) ELSE keyRow[x]
      BY <1>1, <2>2 DEF Publish, IInv, TypeOK, DbType
    <3>2. KeyRow(r, Len(journal) + 1) # NoRow /\ KeyRow(r, Len(journal) + 1).req = r
      BY DEF KeyRow, NoRow, IInv, TypeOK, DbType
    <3> QED BY <1>1, <2>2, <3>1, <3>2
  <2> QED BY <2>1, <2>2
<1> HIDE DEF e
<1>10. KeyedBy = keyed /\ KeyedBy' = [x \in Key |-> IF keyRow'[x] = NoRow THEN NoRow ELSE keyRow'[x].req]
  BY DEF KeyedBy
<1>11. k # NoKey => KeyedBy[k] = NoRow
  BY <1>3, <1>10
<1>12. KeyedBy' = IF k = NoKey THEN KeyedBy ELSE [KeyedBy EXCEPT ![k] = r]
  BY <1>9, <1>10
<1> QED BY <1>1, <1>2, <1>4, <1>5, <1>6, <1>7, <1>8, <1>11, <1>12 DEF e

(* That is an operation of the abstract ledger.                            *)
LEMMA PublishIsPost ==
  ASSUME IInv, AnswerInv, RowsLocked, Exact, RefundInv, NotRefused, StillValid,
         NEW s \in Session, pc[s] = "commit", Publish(s),
         NEW CONSTANT r, r = job[s].req, NEW CONSTANT k, k = job[s].key
  PROVE  Atomic!Post(r, k)
<1> DEFINE e == EntryFor(journal, r)
<1>1. /\ ~Refused(journal, r, k) /\ Valid(e) /\ RightCurrency(e)
      /\ k # NoKey => KeyedBy[k] = NoRow
      /\ LegAccounts(e) \subseteq Account
      /\ \A a \in LegAccounts(e) \ AllowNegative : Derived(journal, a) + Delta(e, a) >= 0
      /\ e.kind = "refund" =>
           RefundedSoFar(journal, Len(journal), e.ref, MerchantLeg(journal[e.ref]).acct) + e.legs[2].amt
             <= Captured(journal[e.ref])
      /\ journal' = Append(journal, Posted(e, k))
      /\ KeyedBy' = IF k = NoKey THEN KeyedBy ELSE [KeyedBy EXCEPT ![k] = r]
  BY PublishPosts
<1>2. Atomic!EntryFor(journal, r) = e
  BY SameEntries
<1> HIDE DEF e
<1>3. Atomic!Affordable(e)
  BY <1>1, SameDerived, SameDelta DEF Atomic!Affordable
<1>4. e.kind = "refund" => Atomic!WithinCaptured(e)
  BY <1>1, SameRefunded, SameCaptured DEF Atomic!WithinCaptured
<1>5. Atomic!Postable(e)
  BY <1>1, <1>3, SameValid, SameDelta DEF Atomic!Postable
<1> QED
  BY <1>1, <1>2, <1>4, <1>5, SameEntries, SamePosted DEF Atomic!Post, KeyedBy

(* Every other step is a stutter of it.                                    *)
LEMMA StepRefines ==
  ASSUME IInv, AnswerInv, RowsLocked, Exact, RefundInv, NotRefused, StillValid, [Next]_vars
  PROVE  [Atomic!Next]_(Atomic!avars)
<1> USE DEF Atomic!avars
<1>1. ASSUME journal' = journal, keyRow' = keyRow
      PROVE  UNCHANGED Atomic!avars
  BY <1>1
<1>2. ASSUME NEW s \in Session, NEW r \in Request, NEW k \in Key \union {NoKey},
             Refuse(s, r, k) \/ Call(s, r, k)
      PROVE  UNCHANGED Atomic!avars
  BY <1>1, <1>2 DEF Refuse, Call, Send, db
<1>3. ASSUME NEW s \in Session, CommitTx(s) \/ CommitAnswerLost(s)
      PROVE  Atomic!Next
  <2>1. pc[s] = "commit" /\ Publish(s) /\ job[s] \in Job
    BY <1>3 DEF CommitTx, CommitAnswerLost, IInv, TypeOK, SessionType
  <2>2. PICK r \in Request, k \in Key \union {NoKey} : r = job[s].req /\ k = job[s].key
    BY <2>1 DEF Job
  <2>3. Atomic!Post(r, k)
    BY <2>1, <2>2, PublishIsPost
  <2> QED BY <2>3 DEF Atomic!Next
<1>4. ASSUME NEW s \in Session,
             \/ BeginTx(s) \/ ClaimKey(s) \/ KeyTaken(s) \/ ReadReplay(s) \/ LockAccount(s)
             \/ AllLocked(s) \/ RejectEntry(s) \/ CheckGuard(s) \/ PostLegs(s)
             \/ RejectPosting(s) \/ Retry(s) \/ Exhausted(s) \/ Abort(s)
      PROVE  UNCHANGED Atomic!avars
  <2>1. journal' = journal /\ keyRow' = keyRow
    BY <1>4 DEF BeginTx, ClaimKey, KeyTaken, ReadReplay, LockAccount, AllLocked, RejectEntry,
                CheckGuard, PostLegs, RejectPosting, Retry, Exhausted, Abort, db
  <2> QED BY <1>1, <2>1
<1>5. CASE UNCHANGED vars
  BY <1>1, <1>5 DEF vars, db
<1> QED BY <1>2, <1>3, <1>4, <1>5 DEF Next, Step, Progress, Terminating

(* An empty ledger is one.                                                 *)
LEMMA InitRefines == Init => Atomic!Init
BY DEF Init, Atomic!Init

(* LedgerCore's posting path is linearizable: for any number of sessions,  *)
(* in either isolation mode, with retries, aborts and lost answers, every  *)
(* commit is one transfer, payment, refund or conversion on the journal as *)
(* it is at that moment, with all its checks true then, at most one for a  *)
(* key (runInTx, PostEntryIdempotentGuarded, postEntryTx).                 *)
THEOREM PostingIsAtomic == ASSUME RefundsFit PROVE Spec => RefinesAtomic
<1> DEFINE I == RowsLocked /\ NoDrift /\ Exact /\ RefundInv /\ NotRefused /\ StillValid
<1>1. Init => I
  BY InitDrift, InitExact, InitRefunds DEF Init, NotRefused, StillValid
<1>2. IInv /\ AnswerInv /\ I /\ [Next]_vars => I'
  BY RefundsFit, NextDrift, NextExact, NextRefunds, NextAccepted
<1>3. IInv /\ AnswerInv /\ I /\ [Next]_vars => [Atomic!Next]_(Atomic!avars)
  BY StepRefines
<1>4. Init => Atomic!Init
  BY InitRefines
<1> HIDE DEF I
<1> QED BY <1>1, <1>2, <1>3, <1>4, Inductive, AnswersInductive, PTL DEF Spec, RefinesAtomic, Atomic!Spec
-----------------------------------------------------------------------------
(* Sums over a set of accounts, as SumBalancesByCurrency takes them.  The  *)
(* fold over a set is a recursive function on its subsets; what is shown   *)
(* of it by induction is shown of a set of subsets, G.                     *)
Pick(s) == CHOOSE x \in s : TRUE

LEMMA SubsetInduction ==
  ASSUME NEW A, IsFiniteSet(A), NEW G,
         \A s \in SUBSET A : (\A t \in SUBSET s : t # s => t \in G) => s \in G
  PROVE  \A s \in SUBSET A : s \in G
<1> DEFINE B == {s \in SUBSET A : s \notin G}
           C == {Cardinality(s) : s \in B}
<1>1. SUFFICES ASSUME B # {}
               PROVE  FALSE
  OBVIOUS
<1>2. \A s \in SUBSET A : IsFiniteSet(s) /\ Cardinality(s) \in Nat
  BY FS_Subset, FS_CardinalityType
<1>3. C \subseteq Nat /\ C # {}
  BY <1>1, <1>2
<1>4. PICK c \in C : \A d \in C : c <= d
  BY <1>3, LeastNumber
<1>5. PICK s \in B : c = Cardinality(s)
  OBVIOUS
<1>6. ASSUME NEW t \in SUBSET s, t # s
      PROVE  t \in G
  <2>1. Cardinality(t) \in Nat /\ Cardinality(s) \in Nat /\ Cardinality(t) <= Cardinality(s)
        /\ Cardinality(t) # Cardinality(s)
    BY <1>2, <1>5, <1>6, FS_Subset
  <2>2. t \notin B
    BY <1>4, <1>5, <2>1
  <2> QED BY <1>5, <2>2
<1> QED BY <1>5, <1>6

(* g adds up f over every subset of A, one element after the other.        *)
Adds(g, f, A) ==
  g = [s \in SUBSET A |-> IF s = {} THEN 0 ELSE f[Pick(s)] + g[s \ {Pick(s)}]]

(* Two such functions agree where both are defined.                        *)
LEMMA AddsAgree ==
  ASSUME NEW A, IsFiniteSet(A), NEW B, NEW f, NEW g, NEW h, Adds(g, f, A), Adds(h, f, B), A \subseteq B
  PROVE  \A s \in SUBSET A : g[s] = h[s]
<1> DEFINE G == {s \in SUBSET A : g[s] = h[s]}
<1>1. ASSUME NEW s \in SUBSET A, \A t \in SUBSET s : t # s => t \in G
      PROVE  s \in G
  <2>1. /\ g[s] = IF s = {} THEN 0 ELSE f[Pick(s)] + g[s \ {Pick(s)}]
        /\ h[s] = IF s = {} THEN 0 ELSE f[Pick(s)] + h[s \ {Pick(s)}]
    BY DEF Adds
  <2>2. CASE s = {}
    BY <2>1, <2>2
  <2>3. CASE s # {}
    <3>1. Pick(s) \in s
      BY <2>3 DEF Pick
    <3>2. s \ {Pick(s)} \in G
      BY <1>1, <3>1
    <3> QED BY <2>1, <2>3, <3>2
  <2> QED BY <2>2, <2>3
<1> HIDE DEF G
<1>2. \A s \in SUBSET A : s \in G
  BY <1>1, SubsetInduction
<1> QED BY <1>2 DEF G

(* There is one.                                                           *)
LEMMA AddsExist ==
  ASSUME NEW A, IsFiniteSet(A), NEW f
  PROVE  \E g : Adds(g, f, A)
<1> DEFINE G == {s \in SUBSET A : \E g : Adds(g, f, s)}
<1>1. ASSUME NEW s \in SUBSET A, \A t \in SUBSET s : t # s => t \in G
      PROVE  s \in G
  <2> DEFINE by(t) == CHOOSE g : Adds(g, f, t)
             rest(t) == t \ {Pick(t)}
             g == [t \in SUBSET s |-> IF t = {} THEN 0 ELSE f[Pick(t)] + by(rest(t))[rest(t)]]
  <2>1. \A t \in SUBSET s : t # s => Adds(by(t), f, t)
    BY <1>1
  <2>2. \A t \in SUBSET s : t # {} => rest(t) \in SUBSET s /\ rest(t) # s /\ rest(t) \subseteq t /\ Pick(t) \in t
    BY DEF Pick
  <2> HIDE DEF by
  <2>3. ASSUME NEW t \in SUBSET s, t # {}
        PROVE  g[rest(t)] = by(rest(t))[rest(t)]
    <3> DEFINE u == rest(t)
    <3>1. u \in SUBSET s /\ u # s /\ Adds(by(u), f, u)
      BY <2>1, <2>2, <2>3
    <3> HIDE DEF u
    <3>2. by(u)[u] = IF u = {} THEN 0 ELSE f[Pick(u)] + by(u)[rest(u)]
      BY <3>1 DEF Adds
    <3>3. g[u] = IF u = {} THEN 0 ELSE f[Pick(u)] + by(rest(u))[rest(u)]
      BY <3>1
    <3>4. ASSUME u # {}
          PROVE  by(u)[rest(u)] = by(rest(u))[rest(u)]
      <4> DEFINE w == rest(u)
      <4>1. w \in SUBSET s /\ w # s /\ w \subseteq u /\ Adds(by(w), f, w)
        BY <2>1, <2>2, <3>1, <3>4
      <4>2. IsFiniteSet(w)
        BY <4>1, FS_Subset
      <4> HIDE DEF w
      <4>3. \A x \in SUBSET w : by(w)[x] = by(u)[x]
        BY <3>1, <4>1, <4>2, AddsAgree
      <4>4. w \in SUBSET w
        OBVIOUS
      <4>5. by(w)[w] = by(u)[w]
        BY <4>3, <4>4
      <4> QED BY <4>5 DEF w
    <3>5. g[u] = by(u)[u]
      BY <3>2, <3>3, <3>4
    <3> QED BY <3>5 DEF u
  <2>4. g = [t \in SUBSET s |-> IF t = {} THEN 0 ELSE f[Pick(t)] + g[rest(t)]]
    BY <2>3
  <2> HIDE DEF g
  <2>5. Adds(g, f, s)
    BY <2>4 DEF Adds
  <2> QED BY <2>5
<1> HIDE DEF G
<1>2. A \in G
  BY <1>1, SubsetInduction
<1> QED BY <1>2 DEF G

SetSum(f, A) == MapThenSumSet(LAMBDA a : f[a], A)

(* The sum over a set adds one of its elements to the sum over the rest.   *)
LEMMA SetSumIs ==
  ASSUME NEW A, IsFiniteSet(A), NEW f, NEW g, Adds(g, f, A)
  PROVE  SetSum(f, A) = g[A]
<1> DEFINE iter == CHOOSE i : i = [s \in SUBSET A |-> IF s = {} THEN 0 ELSE f[CHOOSE x \in s : TRUE] + i[s \ {CHOOSE x \in s : TRUE}]]
<1>1. SetSum(f, A) = iter[A]
  BY DEF SetSum, MapThenSumSet, MapThenFoldSet
<1>2. Adds(iter, f, A)
  BY DEF Adds, Pick
<1> HIDE DEF iter
<1>3. iter[A] = g[A]
  BY <1>2, AddsAgree
<1> QED BY <1>1, <1>3

LEMMA SetSumStep ==
  ASSUME NEW A, IsFiniteSet(A), NEW f
  PROVE  /\ SetSum(f, {}) = 0
         /\ \A s \in SUBSET A : s # {} =>
              /\ Pick(s) \in s /\ s \ {Pick(s)} \in SUBSET s /\ s \ {Pick(s)} # s
              /\ SetSum(f, s) = f[Pick(s)] + SetSum(f, s \ {Pick(s)})
<1>1. PICK g : Adds(g, f, A)
  BY AddsExist
<1>2. ASSUME NEW s \in SUBSET A
      PROVE  SetSum(f, s) = g[s]
  <2>1. IsFiniteSet(s)
    BY FS_Subset
  <2>2. PICK h : Adds(h, f, s)
    BY <2>1, AddsExist
  <2>3. SetSum(f, s) = h[s]
    BY <2>1, <2>2, SetSumIs
  <2>4. s \in SUBSET s /\ s \subseteq A
    OBVIOUS
  <2>5. h[s] = g[s]
    BY <1>1, <2>1, <2>2, <2>4, AddsAgree
  <2> QED BY <2>3, <2>5
<1>3. \A s \in SUBSET A : g[s] = IF s = {} THEN 0 ELSE f[Pick(s)] + g[s \ {Pick(s)}]
  BY <1>1 DEF Adds
<1>4. SetSum(f, {}) = 0
  <2>1. {} \in SUBSET A
    OBVIOUS
  <2> QED BY <1>2, <1>3, <2>1
<1>5. ASSUME NEW s \in SUBSET A, s # {}
      PROVE  /\ Pick(s) \in s /\ s \ {Pick(s)} \in SUBSET s /\ s \ {Pick(s)} # s
             /\ SetSum(f, s) = f[Pick(s)] + SetSum(f, s \ {Pick(s)})
  <2>1. Pick(s) \in s
    BY <1>5 DEF Pick
  <2>2. s \ {Pick(s)} \in SUBSET A
    OBVIOUS
  <2>3. SetSum(f, s) = f[Pick(s)] + SetSum(f, s \ {Pick(s)})
    BY <1>2, <1>3, <1>5, <2>2
  <2> QED BY <2>1, <2>3
<1> QED BY <1>4, <1>5

LEMMA SetSumRest ==
  ASSUME NEW A, IsFiniteSet(A), NEW f, NEW s \in SUBSET A, s # {}, NEW x, x = Pick(s), NEW t, t = s \ {x}
  PROVE  /\ x \in s /\ t \in SUBSET s /\ t # s /\ x \notin t /\ t = s \ {x}
         /\ SetSum(f, s) = f[x] + SetSum(f, t)
BY SetSumStep

(* A sum of numbers is a number, of zeros 0, and the sum of two columns is *)
(* the sum of their sums.                                                  *)
LEMMA SetSumType ==
  ASSUME NEW A, IsFiniteSet(A), NEW f, \A a \in A : f[a] \in Int
  PROVE  \A s \in SUBSET A : SetSum(f, s) \in Int
<1> DEFINE G == {s \in SUBSET A : SetSum(f, s) \in Int}
<1>1. ASSUME NEW s \in SUBSET A, \A t \in SUBSET s : t # s => t \in G
      PROVE  s \in G
  <2>1. CASE s = {}
    BY <2>1, SetSumStep
  <2>2. CASE s # {}
    <3> DEFINE x == Pick(s)
               t == s \ {x}
    <3>1. x \in s /\ t \in SUBSET s /\ t # s /\ SetSum(f, s) = f[x] + SetSum(f, t)
      BY <2>2, SetSumRest
    <3> HIDE DEF x, t
    <3>2. SetSum(f, t) \in Int
      BY <1>1, <3>1
    <3> QED BY <3>1, <3>2
  <2> QED BY <2>1, <2>2
<1> HIDE DEF G
<1>2. \A s \in SUBSET A : s \in G
  BY <1>1, SubsetInduction
<1> QED BY <1>2 DEF G

LEMMA SetSumZero ==
  ASSUME NEW A, IsFiniteSet(A), NEW f, \A a \in A : f[a] = 0
  PROVE  \A s \in SUBSET A : SetSum(f, s) = 0
<1> DEFINE G == {s \in SUBSET A : SetSum(f, s) = 0}
<1>1. ASSUME NEW s \in SUBSET A, \A t \in SUBSET s : t # s => t \in G
      PROVE  s \in G
  <2>1. CASE s = {}
    BY <2>1, SetSumStep
  <2>2. CASE s # {}
    <3> DEFINE x == Pick(s)
               t == s \ {x}
    <3>1. x \in s /\ t \in SUBSET s /\ t # s /\ SetSum(f, s) = f[x] + SetSum(f, t)
      BY <2>2, SetSumRest
    <3> HIDE DEF x, t
    <3>2. SetSum(f, t) = 0
      BY <1>1, <3>1
    <3> QED BY <3>1, <3>2
  <2> QED BY <2>1, <2>2
<1> HIDE DEF G
<1>2. \A s \in SUBSET A : s \in G
  BY <1>1, SubsetInduction
<1> QED BY <1>2 DEF G

LEMMA SetSumPlus ==
  ASSUME NEW A, IsFiniteSet(A), NEW f, NEW g, NEW h,
         \A a \in A : f[a] \in Int /\ g[a] \in Int /\ h[a] = f[a] + g[a]
  PROVE  SetSum(h, A) = SetSum(f, A) + SetSum(g, A)
<1> DEFINE G == {s \in SUBSET A : SetSum(h, s) = SetSum(f, s) + SetSum(g, s)}
<1>1. \A s \in SUBSET A : SetSum(f, s) \in Int /\ SetSum(g, s) \in Int
  BY SetSumType
<1>2. ASSUME NEW s \in SUBSET A, \A t \in SUBSET s : t # s => t \in G
      PROVE  s \in G
  <2>1. CASE s = {}
    BY <2>1, SetSumStep
  <2>2. CASE s # {}
    <3> DEFINE x == Pick(s)
               t == s \ {x}
    <3>0. x = Pick(s) /\ t = s \ {x}
      OBVIOUS
    <3> HIDE DEF x, t
    <3>1. x \in s /\ t \in SUBSET s /\ t # s /\ SetSum(f, s) = f[x] + SetSum(f, t)
      BY <2>2, <3>0, SetSumRest
    <3>2. SetSum(g, s) = g[x] + SetSum(g, t)
      BY <2>2, <3>0, SetSumRest
    <3>3. SetSum(h, s) = h[x] + SetSum(h, t)
      BY <2>2, <3>0, SetSumRest
    <3>4. SetSum(h, t) = SetSum(f, t) + SetSum(g, t) /\ SetSum(f, t) \in Int /\ SetSum(g, t) \in Int
      BY <1>1, <1>2, <3>1
    <3> QED BY <3>1, <3>2, <3>3, <3>4
  <2> QED BY <2>1, <2>2
<1> HIDE DEF G
<1>3. A \in G
  BY <1>2, SubsetInduction
<1> QED BY <1>3 DEF G

(* One number among zeros is the sum.                                      *)
LEMMA SetSumOne ==
  ASSUME NEW A, IsFiniteSet(A), NEW f, NEW x, f[x] \in Int, \A a \in A : a # x => f[a] = 0
  PROVE  SetSum(f, A) = IF x \in A THEN f[x] ELSE 0
<1> DEFINE G == {s \in SUBSET A : SetSum(f, s) = IF x \in s THEN f[x] ELSE 0}
<1>1. ASSUME NEW s \in SUBSET A, \A t \in SUBSET s : t # s => t \in G
      PROVE  s \in G
  <2>1. CASE s = {}
    BY <2>1, SetSumStep
  <2>2. CASE s # {}
    <3> DEFINE y == Pick(s)
               t == s \ {y}
    <3>1. y \in s /\ t \in SUBSET s /\ t # s /\ SetSum(f, s) = f[y] + SetSum(f, t) /\ y \notin t
      BY <2>2, SetSumRest
    <3>2. x \in t <=> x \in s /\ x # y
      OBVIOUS
    <3> HIDE DEF y, t
    <3>3. SetSum(f, t) = IF x \in t THEN f[x] ELSE 0
      BY <1>1, <3>1
    <3> QED BY <3>1, <3>2, <3>3
  <2> QED BY <2>1, <2>2
<1> HIDE DEF G
<1>2. A \in G
  BY <1>1, SubsetInduction
<1> QED BY <1>2 DEF G

(* Numbers may wrap before they are summed.                                *)
LEMMA SetSumWrap ==
  ASSUME NEW A, IsFiniteSet(A), NEW f, NEW g, \A a \in A : f[a] \in Int /\ g[a] = Wrap(f[a])
  PROVE  Wrap(SetSum(g, A)) = Wrap(SetSum(f, A))
<1> DEFINE G == {s \in SUBSET A : Wrap(SetSum(g, s)) = Wrap(SetSum(f, s))}
<1>0. \A a \in A : g[a] \in Int
  BY WrapType, MaxIntAssumption DEF Int64
<1>1. \A s \in SUBSET A : SetSum(f, s) \in Int /\ SetSum(g, s) \in Int
  BY <1>0, SetSumType
<1>2. ASSUME NEW s \in SUBSET A, \A t \in SUBSET s : t # s => t \in G
      PROVE  s \in G
  <2>1. CASE s = {}
    BY <2>1, SetSumStep
  <2>2. CASE s # {}
    <3> DEFINE x == Pick(s)
               t == s \ {x}
               y == SetSum(f, t)
               z == SetSum(g, t)
    <3>0. x \in s /\ t \in SUBSET s /\ t # s /\ SetSum(f, s) = f[x] + y
      BY <2>2, SetSumRest
    <3>1. SetSum(f, s) = f[x] + y /\ SetSum(g, s) = g[x] + z
      BY <2>2, SetSumRest
    <3> HIDE DEF x, t
    <3>2. y \in Int /\ z \in Int /\ f[x] \in Int /\ g[x] \in Int /\ g[x] = Wrap(f[x])
      BY <1>0, <1>1, <3>0
    <3>3. Wrap(z) = Wrap(y)
      BY <1>2, <3>0
    <3> HIDE DEF y, z
    <3>4. Wrap(g[x] + z) = Wrap(f[x] + z)
      BY <3>2, WrapAdd
    <3>5. Wrap(Wrap(z) + f[x]) = Wrap(z + f[x]) /\ Wrap(Wrap(y) + f[x]) = Wrap(y + f[x])
      BY <3>2, WrapAdd
    <3>6. z + f[x] = f[x] + z /\ y + f[x] = f[x] + y
      BY <3>2
    <3> QED BY <3>1, <3>3, <3>4, <3>5, <3>6
  <2> QED BY <2>1, <2>2
<1> HIDE DEF G
<1>3. A \in G
  BY <1>2, SubsetInduction
<1> QED BY <1>3 DEF G

(* What an entry does to the accounts of a currency is what its legs in    *)
(* that currency add up to: nothing, for opposite pairs.                   *)
LEMMA PairedNet ==
  ASSUME NEW e, e.legs \in Seq(Legs), Paired(e), NEW c
  PROVE  Net(e, c) = 0
<1> DEFINE x(i) == AmountIn(e, i, c)
<1>1. \A i \in Nat : x(i) \in Int
  <2> SUFFICES ASSUME NEW i \in Nat, i \in DOMAIN e.legs
               PROVE  e.legs[i].amt \in Int
    BY DEF AmountIn
  <2>1. e.legs[i] \in Legs
    OBVIOUS
  <2> QED BY <2>1, MaxIntAssumption DEF Legs, Int64
<1>2. \A i \in Nat : Opposite(e, i) /\ i \in DOMAIN e.legs /\ i + 1 \in DOMAIN e.legs => x(i) = -x(i + 1)
  <2> SUFFICES ASSUME NEW i \in Nat, Opposite(e, i), i \in DOMAIN e.legs, i + 1 \in DOMAIN e.legs
               PROVE  x(i) = -x(i + 1)
    OBVIOUS
  <2> QED BY DEF Opposite, AmountIn
<1>3. \A i \in Nat : i \notin DOMAIN e.legs => x(i) = 0
  BY DEF AmountIn
<1>4. Net(e, c) = x(1) + x(2) + x(3) + x(4)
  BY DEF Net
<1> HIDE DEF x
<1>5. x(1) \in Int /\ x(2) \in Int /\ x(3) \in Int /\ x(4) \in Int
  BY <1>1
<1>6. CASE Len(e.legs) = 2 /\ Opposite(e, 1)
  <2>1. DOMAIN e.legs = 1 .. 2
    BY <1>6
  <2>2. x(3) = 0 /\ x(4) = 0
    BY <1>3, <2>1
  <2>3. x(1) = -x(1 + 1)
    BY <1>2, <1>6, <2>1
  <2> QED BY <1>4, <1>5, <2>2, <2>3
<1>7. CASE Len(e.legs) = 4 /\ Opposite(e, 1) /\ Opposite(e, 3)
  <2>1. DOMAIN e.legs = 1 .. 4
    BY <1>7
  <2>2. x(1) = -x(1 + 1) /\ x(3) = -x(3 + 1)
    BY <1>2, <1>7, <2>1
  <2> QED BY <1>4, <1>5, <2>2
<1> QED BY <1>6, <1>7 DEF Paired

LEMMA LegSum ==
  ASSUME NEW e, e.legs \in Seq(Legs), LegAccounts(e) \subseteq Account, RightCurrency(e),
         NEW c, NEW A, IsFiniteSet(A), A = {a \in Account : CurrencyOf[a] = c}, NEW i \in Nat
  PROVE  SetSum([a \in A |-> AmountOn(e, i, a)], A) = AmountIn(e, i, c)
<1> DEFINE f == [a \in A |-> AmountOn(e, i, a)]
           x == e.legs[i].acct
<1>1. CASE i \in DOMAIN e.legs /\ x \in A
  <2>1. /\ f[x] = e.legs[i].amt /\ f[x] \in Int /\ \A a \in A : a # x => f[a] = 0
        /\ AmountIn(e, i, c) = f[x]
    <3>1. e.legs[i] \in Legs /\ e.legs[i].cur = c
      BY <1>1 DEF RightCurrency
    <3> QED BY <1>1, <3>1, MaxIntAssumption DEF AmountOn, AmountIn, Legs, Int64
  <2> HIDE DEF f, x
  <2>2. SetSum(f, A) = f[x]
    BY <1>1, <2>1, SetSumOne
  <2> QED BY <2>1, <2>2 DEF f
<1>2. CASE ~(i \in DOMAIN e.legs /\ x \in A)
  <2>1. /\ \A a \in A : f[a] = 0
        /\ AmountIn(e, i, c) = 0
    <3>1. i \in DOMAIN e.legs => x \in Account /\ e.legs[i].cur = CurrencyOf[x]
      BY DEF LegAccounts, RightCurrency
    <3> QED BY <1>2, <3>1 DEF AmountOn, AmountIn
  <2> HIDE DEF f
  <2>2. SetSum(f, A) = 0
    BY <2>1, SetSumZero
  <2> QED BY <2>1, <2>2 DEF f
<1> QED BY <1>1, <1>2

LEMMA EntrySum ==
  ASSUME NEW e, e.legs \in Seq(Legs), LegAccounts(e) \subseteq Account, RightCurrency(e),
         NEW c, NEW A, IsFiniteSet(A), A = {a \in Account : CurrencyOf[a] = c}
  PROVE  SetSum([a \in A |-> Delta(e, a)], A) = Net(e, c)
<1> DEFINE f(i) == [a \in A |-> AmountOn(e, i, a)]
           f2 == [a \in A |-> f(1)[a] + f(2)[a]]
           f3 == [a \in A |-> f2[a] + f(3)[a]]
           f4 == [a \in A |-> f3[a] + f(4)[a]]
<1>1. \A i \in Nat : SetSum(f(i), A) = AmountIn(e, i, c)
  BY LegSum
<1>2. \A i \in 1 .. 4 : \A a \in A : f(i)[a] \in Int
  <2> SUFFICES ASSUME NEW i \in 1 .. 4, NEW a \in A
               PROVE  AmountOn(e, i, a) \in Int
    OBVIOUS
  <2> QED BY AmountOnType
<1>3. [a \in A |-> Delta(e, a)] = f4
  BY DEF Delta
<1> HIDE DEF f
<1>4. \A a \in A : f(1)[a] \in Int /\ f(2)[a] \in Int /\ f(3)[a] \in Int /\ f(4)[a] \in Int
  BY <1>2
<1>5. \A a \in A : f2[a] \in Int /\ f2[a] = f(1)[a] + f(2)[a]
  BY <1>4
<1>6. SetSum(f2, A) = SetSum(f(1), A) + SetSum(f(2), A)
  <2> HIDE DEF f2
  <2> QED BY <1>4, <1>5, SetSumPlus
<1> HIDE DEF f2
<1>7. \A a \in A : f3[a] \in Int /\ f3[a] = f2[a] + f(3)[a]
  BY <1>4, <1>5
<1>8. SetSum(f3, A) = SetSum(f2, A) + SetSum(f(3), A)
  <2> HIDE DEF f3
  <2> QED BY <1>4, <1>5, <1>7, SetSumPlus
<1> HIDE DEF f3
<1>9. \A a \in A : f4[a] = f3[a] + f(4)[a]
  BY <1>4, <1>7
<1>10. SetSum(f4, A) = SetSum(f3, A) + SetSum(f(4), A)
  <2> HIDE DEF f4
  <2> QED BY <1>4, <1>7, <1>9, SetSumPlus
<1> HIDE DEF f4
<1> QED BY <1>1, <1>3, <1>6, <1>8, <1>10 DEF Net

(* So the sums of the postings of all accounts of a currency add up to 0.  *)
LEMMA DerivedSum ==
  ASSUME NEW j \in Seq(JournalEntry), NEW A, IsFiniteSet(A),
         \A i \in 1 .. Len(j) : SetSum([a \in A |-> Delta(j[i], a)], A) = 0
  PROVE  SetSum([a \in A |-> Derived(j, a)], A) = 0
<1> DEFINE F(n) == [a \in A |-> Total(Deltas(j, a), n)]
           S == {n \in 0 .. Len(j) : SetSum(F(n), A) # 0}
<1>1. [a \in A |-> Derived(j, a)] = F(Len(j))
  BY DEF Derived, Deltas
<1>2. Len(j) \in Nat
  OBVIOUS
<1>3. ASSUME S # {}
      PROVE  FALSE
  <2>1. PICK n \in S : \A k \in S : n <= k
    <3>1. S \subseteq Nat
      OBVIOUS
    <3> HIDE DEF S
    <3> QED BY <1>3, <3>1, LeastNumber
  <2>2. n # 0
    <3>1. \A a \in A : F(0)[a] = 0
      BY TotalZero
    <3> HIDE DEF F
    <3> QED BY <2>1, <3>1, SetSumZero
  <2>3. n - 1 \in 0 .. Len(j) /\ n \in 1 .. Len(j) /\ n - 1 \notin S /\ n - 1 \in Nat /\ (n - 1) + 1 = n
    BY <1>2, <2>1, <2>2
  <2> DEFINE D == [a \in A |-> Delta(j[n], a)]
  <2>4. \A a \in A : F(n - 1)[a] \in Int /\ D[a] \in Int /\ F(n)[a] = F(n - 1)[a] + D[a]
    <3> SUFFICES ASSUME NEW a \in A
                 PROVE  LET d == Deltas(j, a) IN
                        /\ Total(d, n - 1) \in Int /\ Delta(j[n], a) \in Int
                        /\ Total(d, n) = Total(d, n - 1) + Delta(j[n], a)
      OBVIOUS
    <3> DEFINE d == Deltas(j, a)
    <3>1. \A i \in 1 .. Len(j) : d[i] \in Int /\ d[i] = Delta(j[i], a)
      BY DeltasType
    <3>2. (\A i \in 1 .. n - 1 : d[i] \in Int) /\ (\A i \in 1 .. (n - 1) + 1 : d[i] \in Int)
      BY <1>2, <2>3, <3>1
    <3> HIDE DEF d
    <3>3. Total(d, n - 1) \in Int /\ Total(d, (n - 1) + 1) = Total(d, n - 1) + d[(n - 1) + 1]
      BY <2>3, <3>2, TotalType, TotalNext
    <3> QED BY <2>3, <3>1, <3>3 DEF d
  <2>5. SetSum(F(n - 1), A) = 0 /\ SetSum(D, A) = 0
    BY <2>3
  <2> HIDE DEF F, D
  <2>6. SetSum(F(n), A) = SetSum(F(n - 1), A) + SetSum(D, A)
    BY <2>4, SetSumPlus
  <2> QED BY <2>1, <2>5, <2>6
<1>4. SetSum(F(Len(j)), A) = 0
  BY <1>2, <1>3
<1> QED BY <1>1, <1>4

(* Conservation, of the journal and of the balances.                       *)
LEMMA JournalSums ==
  ASSUME journal \in Seq(JournalEntry), JournalSound, IsFiniteSet(Account),
         NEW c, NEW A, A = {a \in Account : CurrencyOf[a] = c}
  PROVE  IsFiniteSet(A) /\ SetSum([a \in A |-> Derived(journal, a)], A) = 0
<1>1. IsFiniteSet(A)
  <2>1. A \in SUBSET Account
    OBVIOUS
  <2> QED BY <2>1, FS_Subset
<1>2. ASSUME NEW i \in 1 .. Len(journal)
      PROVE  SetSum([a \in A |-> Delta(journal[i], a)], A) = 0
  <2>0. i \in DOMAIN journal /\ journal[i] \in JournalEntry
    OBVIOUS
  <2>1. /\ journal[i].legs \in Seq(Legs) /\ LegAccounts(journal[i]) \subseteq Account
        /\ RightCurrency(journal[i]) /\ Paired(journal[i])
    <3>1. journal[i].legs \in Seq(Legs)
      BY <2>0 DEF JournalEntry
    <3> QED BY <2>0, <3>1 DEF JournalSound
  <2>2. Net(journal[i], c) = 0
    BY <2>1, PairedNet
  <2>3. SetSum([a \in A |-> Delta(journal[i], a)], A) = Net(journal[i], c)
    BY <1>1, <2>1, EntrySum
  <2> QED BY <2>2, <2>3
<1> QED BY <1>1, <1>2, DerivedSum

LEMMA JournalConserves ==
  ASSUME TypeOK, NoDrift, JournalSound, IsFiniteSet(Account)
  PROVE  ConservedBalances
<1> SUFFICES ASSUME NEW c \in Currency
             PROVE  Wrap(MapThenSumSet(LAMBDA a : balance[a], {a \in Account : CurrencyOf[a] = c})) = 0
  BY DEF ConservedBalances
<1> DEFINE A == {a \in Account : CurrencyOf[a] = c}
           f == [a \in A |-> Derived(journal, a)]
<1>1. journal \in Seq(JournalEntry)
  BY DEF TypeOK, DbType
<1>2. IsFiniteSet(A) /\ SetSum(f, A) = 0
  BY <1>1, JournalSums
<1>3. \A a \in A : f[a] \in Int /\ balance[a] = Wrap(f[a])
  <2> SUFFICES ASSUME NEW a \in A
               PROVE  Derived(journal, a) \in Int /\ balance[a] = Wrap(Derived(journal, a))
    OBVIOUS
  <2> QED BY <1>1, DerivedType DEF NoDrift
<1> HIDE DEF A, f
<1>4. Wrap(SetSum(balance, A)) = Wrap(0)
  BY <1>2, <1>3, SetSumWrap
<1>5. Wrap(0) = 0
  BY WrapFits, MaxIntAssumption DEF Int64
<1>6. SetSum(balance, A) = MapThenSumSet(LAMBDA a : balance[a], A)
  BY DEF SetSum
<1> QED BY <1>4, <1>5, <1>6 DEF A

(* What a look at the whole ledger relies on.                              *)
Consistent == IInv /\ RowsLocked /\ NoDrift /\ Exact /\ JournalSound

LEMMA LedgerConsistent == Spec => []Consistent
<1> DEFINE I == RowsLocked /\ NoDrift /\ Exact /\ JournalSound
<1>1. Init => I
  BY InitDrift, InitExact DEF Init, JournalSound
<1>2. IInv /\ I /\ [Next]_vars => I'
  BY NextDrift, NextExact, NextJournal
<1>3. IInv /\ I => Consistent
  BY DEF Consistent
<1> HIDE DEF I
<1> QED BY <1>1, <1>2, <1>3, Inductive, PTL DEF Spec

(* No money is created or lost: at every moment the balances of all        *)
(* accounts of a currency add up to 0, as numbers of 64 bits, for the      *)
(* balances are the sums of the postings and the legs of every entry are   *)
(* opposite pairs (Entry.Validate, postEntryTx, SumBalancesByCurrency).    *)
THEOREM BalancesConserved == ASSUME IsFiniteSet(Account) PROVE Spec => []ConservedBalances
<1>1. Consistent => ConservedBalances
  BY IsFiniteSet(Account), JournalConserves DEF Consistent, IInv
<1> QED BY <1>1, LedgerConsistent, PTL
=============================================================================
