-------------------------- MODULE ReconcileProofs --------------------------
(***************************************************************************)
(* What the reconciliation reports beside running postings: its two checks *)
(* made in one statement never fail, and what it reports as drift was      *)
(* posted to since it began.  The first holds since the legs of every      *)
(* entry in the journal are opposite pairs.  For the second, NoDrift says  *)
(* what the balances were at the first query and are at the second; an     *)
(* account that differs has moved in between, and only a commit moves it.  *)
(* Then the statement of an account, whose lines are the postings of the   *)
(* journal one entry after the other, turned round and cut off: the sum is *)
(* the same from either end, and the order tells what is missing.          *)
(***************************************************************************)
EXTENDS Reconcile, RefinementProofs, SequenceTheorems

-----------------------------------------------------------------------------
(* Nothing a reader does is a step of the ledger.                          *)
THEOREM ReadersOnlyRead == RecSpec => Spec
<1>1. Init /\ RInit => Init
  OBVIOUS
<1>2. [ \/ Next /\ UNCHANGED rvars
        \/ Begin \/ ReadAccount
        \/ ReconcileStep ]_recvars => [Next]_vars
  BY DEF recvars, Begin, ReadAccount, ReconcileStep, ReadUnbalanced, ReadStored, ReadDerived,
         ReadConservation, ReadCounts, ReadLines, QueryFails, RGoto
<1> QED BY <1>1, <1>2, PTL DEF RecSpec, Spec

-----------------------------------------------------------------------------
(* Both checks on the journal find every entry balanced.                   *)
LEMMA NetsZero ==
  ASSUME Consistent, NEW n \in DOMAIN journal, NEW c
  PROVE  Net(journal[n], c) = 0
<1>1. journal[n] \in JournalEntry
  BY DEF Consistent, IInv, TypeOK, DbType
<1>2. journal[n].legs \in Seq(Legs)
  BY <1>1 DEF JournalEntry
<1>3. Paired(journal[n])
  BY DEF Consistent, JournalSound
<1> QED BY <1>2, <1>3, PairedNet

LEMMA NoneUnbalanced ==
  ASSUME Consistent
  PROVE  Unbalanced = {} /\ Conserved
<1>1. Unbalanced = {}
  BY NetsZero DEF Unbalanced
<1>2. ASSUME NEW c \in CurrencyCode
      PROVE  MapThenSumSet(LAMBDA n : Net(journal[n], c), DOMAIN journal) = 0
  <2> DEFINE A == DOMAIN journal
             f == [n \in A |-> Net(journal[n], c)]
  <2>1. IsFiniteSet(A)
    <3>1. A = 1 .. Len(journal) /\ Len(journal) \in Nat
      BY DEF Consistent, IInv, TypeOK, DbType
    <3> QED BY <3>1, FS_Interval
  <2>2. \A n \in A : f[n] = 0
    BY NetsZero
  <2>3. SetSum(f, A) = 0
    <3> HIDE DEF A, f
    <3> QED BY <2>1, <2>2, SetSumZero
  <2>4. SetSum(f, A) = MapThenSumSet(LAMBDA n : Net(journal[n], c), A)
    BY DEF SetSum, MapThenSumSet, MapThenFoldSet
  <2> QED BY <2>3, <2>4
<1> QED BY <1>1, <1>2 DEF Conserved

-----------------------------------------------------------------------------
(* An account whose balance a step changes is in the entry it commits.     *)
LEMMA DeltaElsewhere ==
  ASSUME NEW e, NEW a, a \notin LegAccounts(e)
  PROVE  Delta(e, a) = 0
<1>1. \A i : AmountOn(e, i, a) = 0
  BY DEF LegAccounts, AmountOn
<1> QED BY <1>1 DEF Delta

LEMMA MovedByCommit ==
  ASSUME Consistent, Consistent', [Next]_vars
  PROVE  /\ Len(journal) \in Nat /\ Len(journal') \in Nat /\ Len(journal) <= Len(journal')
         /\ \A n \in 1 .. Len(journal) : journal'[n] = journal[n]
         /\ \A a \in Account : balance'[a] = balance[a]
              \/ \E n \in Len(journal) + 1 .. Len(journal') : a \in LegAccounts(journal'[n])
<1>1. journal \in Seq(JournalEntry) /\ journal' \in Seq(JournalEntry)
  BY DEF Consistent, IInv, TypeOK, DbType
<1>2. CASE UNCHANGED db
  BY <1>1, <1>2 DEF db
<1>3. ASSUME NEW s \in Session, Publish(s)
      PROVE  \E e : journal' = Append(journal, e)
  BY <1>3 DEF Publish
<1>4. ASSUME NEW e, journal' = Append(journal, e)
      PROVE  /\ Len(journal) \in Nat /\ Len(journal') \in Nat /\ Len(journal) <= Len(journal')
             /\ \A n \in 1 .. Len(journal) : journal'[n] = journal[n]
             /\ \A a \in Account : balance'[a] = balance[a]
                  \/ \E n \in Len(journal) + 1 .. Len(journal') : a \in LegAccounts(journal'[n])
  <2>1. /\ Len(journal) \in Nat /\ Len(journal') = Len(journal) + 1
        /\ journal'[Len(journal) + 1] = e /\ \A n \in 1 .. Len(journal) : journal'[n] = journal[n]
    BY <1>1, <1>4
  <2>2. e \in JournalEntry
    BY <1>1, <2>1
  <2>3. ASSUME NEW a \in Account, a \notin LegAccounts(e)
        PROVE  balance'[a] = balance[a]
    <3>1. Derived(journal', a) = Derived(journal, a) + 0
      BY <1>1, <1>4, <2>2, <2>3, DerivedAppend, DeltaElsewhere
    <3>2. Derived(journal, a) \in Int
      BY <1>1, DerivedType
    <3>3. balance[a] = Wrap(Derived(journal, a)) /\ balance'[a] = Wrap(Derived(journal', a))
      BY DEF Consistent, NoDrift
    <3> QED BY <3>1, <3>2, <3>3
  <2>4. Len(journal) + 1 \in Len(journal) + 1 .. Len(journal')
    BY <2>1
  <2> QED BY <2>1, <2>3, <2>4
<1> QED BY <1>2, <1>3, <1>4, CommitOrNothing

(* While the ledger moves on, what was posted to recently remains so, and  *)
(* so is what moves.                                                       *)
LEMMA LedgerKeepsReport ==
  ASSUME Consistent, Consistent', ReportInv, [Next]_vars, UNCHANGED rvars
  PROVE  ReportInv'
<1>1. rep' = rep /\ rpc' = rpc
  BY DEF rvars
<1>2. rep.at \in Nat /\ rep.at <= Len(journal)
  BY DEF ReportInv, ReportType
<1>3. /\ Len(journal) \in Nat /\ Len(journal') \in Nat /\ Len(journal) <= Len(journal')
      /\ \A n \in 1 .. Len(journal) : journal'[n] = journal[n]
      /\ \A a \in Account : balance'[a] = balance[a]
           \/ \E n \in Len(journal) + 1 .. Len(journal') : a \in LegAccounts(journal'[n])
  BY MovedByCommit
<1>4. ASSUME NEW a, Recent(a)
      PROVE  Recent(a)'
  <2>1. PICK n \in rep.at + 1 .. Len(journal) : a \in LegAccounts(journal[n])
    BY <1>4 DEF Recent
  <2>2. n \in 1 .. Len(journal) /\ n \in rep.at + 1 .. Len(journal')
    BY <1>2, <1>3
  <2>3. a \in LegAccounts(journal'[n])
    BY <1>3, <2>1, <2>2 DEF LegAccounts
  <2> QED BY <1>1, <2>2, <2>3 DEF Recent, LegAccounts
<1>5. ASSUME NEW a \in Account, balance'[a] # balance[a]
      PROVE  Recent(a)'
  <2>1. PICK n \in Len(journal) + 1 .. Len(journal') : a \in LegAccounts(journal'[n])
    BY <1>3, <1>5
  <2>2. n \in rep.at + 1 .. Len(journal')
    BY <1>2, <1>3
  <2> QED BY <1>1, <2>1, <2>2 DEF Recent, LegAccounts
<1>6. ReportType' /\ JournalChecksHold'
  BY <1>1 DEF ReportInv, ReportType, JournalChecksHold
<1>7. rep'.at <= Len(journal')
  BY <1>1, <1>2, <1>3
<1>8. DriftIsRecent'
  BY <1>1, <1>4 DEF ReportInv, DriftIsRecent
<1>9. (rpc = "derived" => \A a \in Account : rep.stored[a] = balance[a] \/ Recent(a))'
  BY <1>1, <1>4, <1>5 DEF ReportInv
<1> QED BY <1>6, <1>7, <1>8, <1>9 DEF ReportInv

-----------------------------------------------------------------------------
(* The queries of the reconciliation, one after the other.                 *)
LEMMA NoReportHolds ==
  /\ NoReport \in
       [at : Nat, unbalanced : SUBSET Nat, stored : {NoRows} \union [Account -> Int64],
        drift : SUBSET Account, conserved : BOOLEAN, ok : BOOLEAN]
  /\ NoReport.at = 0 /\ NoReport.unbalanced = {} /\ NoReport.drift = {} /\ NoReport.conserved
BY DEF NoReport

LEMMA ReportStarts ==
  ASSUME NEW n \in Nat, NEW r, r = [NoReport EXCEPT !.at = n]
  PROVE  /\ r \in
              [at : Nat, unbalanced : SUBSET Nat, stored : {NoRows} \union [Account -> Int64],
               drift : SUBSET Account, conserved : BOOLEAN, ok : BOOLEAN]
         /\ r.at = n /\ r.unbalanced = {} /\ r.drift = {} /\ r.conserved
BY DEF NoReport

LEMMA NewReportKeeps ==
  ASSUME Consistent, Begin \/ ReadAccount \/ QueryFails
  PROVE  ReportInv'
<1>1. Len(journal) \in Nat /\ journal' = journal /\ rpc' # "derived"
  BY DEF Begin, ReadAccount, QueryFails, RGoto, vars, db, Consistent, IInv, TypeOK, DbType
<1>2. rep' = NoReport \/ rep' = [NoReport EXCEPT !.at = Len(journal)]
  BY DEF Begin, ReadAccount, QueryFails
<1>3. /\ ReportType' /\ rep'.at <= Len(journal') /\ rep'.drift = {}
      /\ rep'.unbalanced = {} /\ rep'.conserved
  <2> DEFINE n == Len(journal)
  <2>1. n \in Nat /\ 0 <= n /\ journal' = journal
    BY <1>1
  <2> HIDE DEF n
  <2>2. CASE rep' = NoReport
    BY <2>1, <2>2, NoReportHolds DEF ReportType, n
  <2>3. CASE rep' = [NoReport EXCEPT !.at = n]
    BY <2>1, <2>3, ReportStarts DEF ReportType, n
  <2> QED BY <1>2, <2>2, <2>3 DEF n
<1> QED BY <1>1, <1>3 DEF ReportInv, DriftIsRecent, JournalChecksHold

LEMMA ReadStoredKeeps ==
  ASSUME Consistent, ReportInv, ReadStored
  PROVE  ReportInv'
<1>1. /\ rep' = [rep EXCEPT !.stored = balance] /\ journal' = journal /\ balance' = balance
      /\ balance \in [Account -> Int64]
  BY DEF ReadStored, RGoto, vars, db, Consistent, IInv, TypeOK, DbType
<1>2. /\ ReportType' /\ rep'.at = rep.at /\ rep'.drift = rep.drift /\ rep'.stored = balance
      /\ rep'.unbalanced = rep.unbalanced /\ rep'.conserved = rep.conserved
  BY <1>1 DEF ReportInv, ReportType
<1> QED BY <1>1, <1>2 DEF ReportInv, DriftIsRecent, JournalChecksHold, Recent

(* An account whose balance is the recomputed sum has not drifted.         *)
LEMMA ReadDerivedKeeps ==
  ASSUME Consistent, ReportInv, ReadDerived
  PROVE  ReportInv'
<1>1. /\ rpc = "derived" /\ Scannable /\ journal' = journal /\ balance' = balance
      /\ rpc' = "conservation"
      /\ rep' = [rep EXCEPT !.drift = {a \in Account : rep.stored[a] # Recomputed[a]}]
  BY DEF ReadDerived, RGoto, vars, db
<1>2. /\ ReportType' /\ rep'.at = rep.at /\ rep'.drift = {a \in Account : rep.stored[a] # Recomputed[a]}
      /\ rep'.unbalanced = rep.unbalanced /\ rep'.conserved = rep.conserved
  BY <1>1 DEF ReportInv, ReportType
<1>3. ASSUME NEW a \in Account, rep.stored[a] # Recomputed[a]
      PROVE  Recent(a)
  <2>1. Recomputed[a] \in Int64 /\ Recomputed[a] = Derived(journal, a)
    BY <1>1 DEF Scannable, Recomputed
  <2>2. balance[a] = Recomputed[a]
    BY <2>1, WrapFits DEF Consistent, NoDrift
  <2> QED BY <1>1, <1>3, <2>2 DEF ReportInv
<1> QED BY <1>1, <1>2, <1>3 DEF ReportInv, DriftIsRecent, JournalChecksHold, Recent

LEMMA OtherQueriesKeep ==
  ASSUME Consistent, ReportInv,
         ReadUnbalanced \/ ReadConservation \/ ReadCounts \/ ReadLines
  PROVE  ReportInv'
<1>1. journal' = journal /\ rpc' # "derived"
  BY DEF ReadUnbalanced, ReadConservation, ReadCounts, ReadLines, RGoto, vars, db
<1>2. /\ ReportType' /\ rep'.at = rep.at /\ rep'.drift = rep.drift
      /\ rep'.unbalanced = {} /\ rep'.conserved = TRUE
  <2>1. CASE ReadUnbalanced
    BY <2>1, NoneUnbalanced DEF ReadUnbalanced, ReportInv, ReportType, JournalChecksHold
  <2>2. CASE ReadConservation
    <3>1. rep' = [rep EXCEPT !.conserved = TRUE]
      BY <2>2, NoneUnbalanced DEF ReadConservation, Conserved
    <3> QED BY <3>1 DEF ReportInv, ReportType, JournalChecksHold
  <2>3. CASE ReadCounts
    BY <2>3 DEF ReadCounts, ReportInv, ReportType, JournalChecksHold
  <2>4. CASE ReadLines
    BY <2>4 DEF ReadLines, ReportInv, ReportType, JournalChecksHold
  <2> QED BY <2>1, <2>2, <2>3, <2>4
<1> QED BY <1>1, <1>2 DEF ReportInv, DriftIsRecent, JournalChecksHold, Recent

LEMMA ReportKept ==
  ASSUME Consistent, Consistent', ReportInv,
         [ \/ Next /\ UNCHANGED rvars
           \/ Begin \/ ReadAccount
           \/ ReconcileStep ]_recvars
  PROVE  ReportInv'
<1>1. CASE [Next]_vars /\ UNCHANGED rvars
  BY <1>1, LedgerKeepsReport
<1>2. CASE UNCHANGED recvars
  BY <1>1, <1>2 DEF recvars
<1> QED BY <1>1, <1>2, NewReportKeeps, ReadStoredKeeps, ReadDerivedKeeps, OtherQueriesKeep
        DEF ReconcileStep

LEMMA ReportBegins == Init /\ RInit => ReportInv
<1> SUFFICES ASSUME Init, RInit
             PROVE  ReportInv
  OBVIOUS
<1>1. rep = NoReport /\ rpc = "idle" /\ Len(journal) = 0
  BY DEF Init, RInit
<1>2. ReportType /\ rep.at <= Len(journal) /\ rep.drift = {} /\ rep.unbalanced = {} /\ rep.conserved
  BY <1>1, NoReportHolds DEF ReportType
<1> QED BY <1>1, <1>2 DEF ReportInv, DriftIsRecent, JournalChecksHold

(* The inductive invariant of a report, in any interleaving with postings. *)
LEMMA ReportInductive == RecSpec => []ReportInv
<1>1. Consistent /\ Consistent' /\ ReportInv
        /\ [ \/ Next /\ UNCHANGED rvars
             \/ Begin \/ ReadAccount
             \/ ReconcileStep ]_recvars
      => ReportInv'
  BY ReportKept
<1> QED BY <1>1, ReportBegins, ReadersOnlyRead, LedgerConsistent, PTL DEF RecSpec

(* The checks of a reconciliation on the journal, the transactions that do *)
(* not balance and the sums per currency, never raise a false alarm beside *)
(* running postings (settle.Reconcile).                                    *)
THEOREM ChecksNeverFail == RecSpec => []JournalChecksHold
BY ReportInductive, PTL DEF ReportInv

(* Drift that a reconciliation reports beside running postings is at worst *)
(* an account an entry was committed to since it began, although the       *)
(* cached balances and the recomputed ones are read at different moments.  *)
THEOREM ReportedDriftIsRecent == RecSpec => []DriftIsRecent
BY ReportInductive, PTL DEF ReportInv

-----------------------------------------------------------------------------
(* What a statement's lines add up to: with one line more, and read from   *)
(* the end.                                                                *)
Lines == Seq([txn : Nat, amt : Int])

Known(lines, at) == [i \in 1 .. Len(lines) |-> IF lines[i].txn <= at THEN lines[i].amt ELSE 0]

LEMMA KnownType ==
  ASSUME NEW s \in Lines, NEW at \in Nat
  PROVE  /\ Len(s) \in Nat /\ KnownSum(s, at) = Total(Known(s, at), Len(s))
         /\ \A i \in 1 .. Len(s) : Known(s, at)[i] \in Int
<1>1. KnownSum(s, at) = Total(Known(s, at), Len(s))
  BY DEF Known, KnownSum
<1>2. Len(s) \in Nat /\ \A i \in 1 .. Len(s) : s[i].txn \in Nat /\ s[i].amt \in Int
  <2> DEFINE L == [txn : Nat, amt : Int]
  <2>1. s \in Seq(L) /\ \A l \in L : l.txn \in Nat /\ l.amt \in Int
    BY DEF Lines
  <2> HIDE DEF L
  <2> QED BY <2>1
<1>3. \A i \in 1 .. Len(s) : Known(s, at)[i] \in Int
  BY <1>2 DEF Known
<1> QED BY <1>1, <1>2, <1>3

LEMMA KnownNext ==
  ASSUME NEW s \in Lines, NEW l \in [txn : Nat, amt : Int], NEW at \in Nat
  PROVE  KnownSum(s \o <<l>>, at) = KnownSum(s, at) + IF l.txn <= at THEN l.amt ELSE 0
<1> DEFINE t == s \o <<l>>
           n == Len(s)
<1>1. /\ t \in Lines /\ n \in Nat /\ Len(t) = n + 1 /\ t[n + 1] = l
      /\ \A i \in 1 .. n : t[i] = s[i]
  BY DEF Lines
<1> HIDE DEF t, n
<1>2. /\ KnownSum(t, at) = Total(Known(t, at), n + 1)
      /\ \A i \in 1 .. n + 1 : Known(t, at)[i] \in Int
  BY <1>1, KnownType
<1>3. KnownSum(s, at) = Total(Known(s, at), n) /\ \A i \in 1 .. n : Known(s, at)[i] \in Int
  BY KnownType DEF n
<1>4. Total(Known(t, at), n + 1) = Total(Known(t, at), n) + Known(t, at)[n + 1]
  BY <1>1, <1>2, TotalNext
<1>5. Known(t, at)[n + 1] = IF l.txn <= at THEN l.amt ELSE 0
  BY <1>1 DEF Known
<1>6. \A i \in 1 .. n : Known(s, at)[i] \in Int /\ Known(s, at)[i] = Known(t, at)[i]
  BY <1>1, <1>3 DEF Known, n
<1>7. Total(Known(s, at), n) = Total(Known(t, at), n)
  BY <1>1, <1>6, TotalAgrees
<1> QED BY <1>2, <1>3, <1>4, <1>5, <1>7 DEF t

LEMMA TotalReverse ==
  ASSUME NEW n \in Nat, NEW d, NEW r, \A i \in 1 .. n : d[i] \in Int /\ r[i] = d[n - i + 1]
  PROVE  Total(r, n) = Total(d, n)
<1>1. \A i \in 1 .. n : r[i] \in Int
  <2> TAKE i \in 1 .. n
  <2>1. n - i + 1 \in 1 .. n
    OBVIOUS
  <2> QED BY <2>1
<1> DEFINE S == {m \in 0 .. n : Total(r, m) + Total(d, n - m) # Total(d, n)}
<1>2. S = {}
  <2>1. SUFFICES ASSUME S # {} PROVE FALSE
    OBVIOUS
  <2>2. PICK m \in S : \A l \in S : m <= l
    <3>1. S \subseteq Nat
      OBVIOUS
    <3> HIDE DEF S
    <3> QED BY <2>1, <3>1, LeastNumber
  <2>3. Total(d, n) \in Int
    BY TotalType
  <2>4. m # 0
    BY <2>2, <2>3, TotalZero
  <2> DEFINE k == m - 1
             j == n - m
  <2>5. /\ k \in Nat /\ j \in Nat /\ m = k + 1 /\ n - k = j + 1 /\ k + 1 <= n /\ j + 1 <= n
        /\ k \in 0 .. n /\ k \notin S /\ n - (k + 1) + 1 = j + 1
    BY <2>2, <2>4
  <2> HIDE DEF k
  <2>6. Total(r, k) + Total(d, j + 1) = Total(d, n)
    BY <2>5
  <2> HIDE DEF j
  <2>7. Total(r, k + 1) = Total(r, k) + r[k + 1]
    BY <1>1, <2>5, TotalNext
  <2>8. Total(d, j + 1) = Total(d, j) + d[j + 1]
    BY <2>5, TotalNext
  <2>9. r[k + 1] = d[j + 1]
    BY <2>5
  <2>10. Total(r, k) \in Int /\ Total(d, j) \in Int /\ r[k + 1] \in Int
    BY <1>1, <2>5, TotalType
  <2>11. Total(r, m) + Total(d, j) # Total(d, n)
    BY <2>2 DEF j
  <2> QED BY <2>5, <2>6, <2>7, <2>8, <2>9, <2>10, <2>11
<1>3. n \in 0 .. n /\ n - n = 0
  OBVIOUS
<1>4. Total(r, n) + Total(d, 0) = Total(d, n)
  BY <1>2, <1>3
<1> QED BY <1>1, <1>4, TotalZero, TotalType

-----------------------------------------------------------------------------
(* The postings of account a are listed entry by entry: in order, none     *)
(* left out, and those of the first entries add up to what these entries   *)
(* add to the balance.                                                     *)
InOrder(s, n) ==
  /\ s \in Lines
  /\ \A i \in 1 .. Len(s) : s[i].txn \in 1 .. n
  /\ \A i, k \in 1 .. Len(s) : i < k => s[i].txn <= s[k].txn

Lists(s, n) == \E i \in 1 .. Len(s) : s[i].txn = n

Least(x, y) == IF x < y THEN x ELSE y

Listing(s, n, a) ==
  /\ InOrder(s, n)
  /\ \A m \in 1 .. n : a \in LegAccounts(journal[m]) => Lists(s, m)
  /\ \A at \in Nat : KnownSum(s, at) = Total(Deltas(journal, a), Least(n, at))

On(e, i, a) == i \in DOMAIN e.legs /\ e.legs[i].acct = a

Added(n, i, a, at) == IF n <= at THEN AmountOn(journal[n], i, a) ELSE 0

Extends(t, s, n, i, a) ==
  /\ InOrder(t, n) /\ LineOf(n, i, a) \in Lines
  /\ \A m : Lists(s, m) => Lists(t, m)
  /\ On(journal[n], i, a) => Lists(t, n)
  /\ \A at \in Nat : KnownSum(t, at) = KnownSum(s, at) + Added(n, i, a, at)

LEMMA LineNext ==
  ASSUME NEW n \in 1 .. Len(journal), journal \in Seq(JournalEntry), NEW i \in Nat, NEW a,
         NEW s, InOrder(s, n), NEW t, t = s \o LineOf(n, i, a)
  PROVE  Extends(t, s, n, i, a)
<1> DEFINE on == i \in DOMAIN journal[n].legs /\ journal[n].legs[i].acct = a
<1> USE DEF Extends, On, Added
<1>1. n \in Nat /\ s \in Lines
  BY DEF InOrder
<1>2. CASE ~on
  <2>1. LineOf(n, i, a) = << >> /\ AmountOn(journal[n], i, a) = 0
    BY <1>2 DEF LineOf, AmountOn
  <2>2. t = s /\ << >> \in Lines
    BY <1>1, <2>1 DEF Lines
  <2>3. \A at \in Nat : KnownSum(s, at) \in Int
    BY <1>1, KnownType, TotalType
  <2> QED BY <1>2, <2>1, <2>2, <2>3
<1>3. CASE on
  <2> DEFINE l == [txn |-> n, amt |-> journal[n].legs[i].amt]
  <2>1. journal[n] \in JournalEntry
    OBVIOUS
  <2>2. journal[n].legs \in Seq(Legs)
    BY <2>1 DEF JournalEntry
  <2>3. journal[n].legs[i] \in Legs
    BY <1>3, <2>2
  <2>4. journal[n].legs[i].amt \in Int
    BY <2>3 DEF Legs, Int64
  <2>5. /\ l \in [txn : Nat, amt : Int] /\ l.txn = n /\ l.amt = AmountOn(journal[n], i, a)
        /\ LineOf(n, i, a) = <<l>>
    BY <1>1, <1>3, <2>4 DEF AmountOn, LineOf
  <2> HIDE DEF l
  <2>6. /\ t = s \o <<l>> /\ <<l>> \in Lines
        /\ t \in Lines /\ Len(s) \in Nat /\ Len(t) = Len(s) + 1 /\ t[Len(s) + 1] = l
        /\ \A k \in 1 .. Len(s) : t[k] = s[k]
    BY <1>1, <2>5 DEF Lines
  <2>7. \A at \in Nat : KnownSum(t, at) = KnownSum(s, at) + IF n <= at THEN AmountOn(journal[n], i, a) ELSE 0
    BY <1>1, <2>5, <2>6, KnownNext
  <2>8. InOrder(t, n)
    <3>1. \A k \in 1 .. Len(t) : t[k].txn \in 1 .. n
      BY <1>1, <2>5, <2>6 DEF InOrder
    <3>2. ASSUME NEW j \in 1 .. Len(t), NEW k \in 1 .. Len(t), j < k
          PROVE  t[j].txn <= t[k].txn
      <4>1. CASE k = Len(s) + 1
        BY <1>1, <2>5, <2>6, <3>1, <4>1
      <4>2. CASE k # Len(s) + 1
        <5>1. j \in 1 .. Len(s) /\ k \in 1 .. Len(s)
          BY <2>6, <3>2, <4>2
        <5> QED BY <2>6, <3>2, <5>1 DEF InOrder
      <4> QED BY <4>1, <4>2
    <3> QED BY <2>6, <3>1, <3>2 DEF InOrder
  <2>9. \A m : Lists(s, m) => Lists(t, m)
    BY <2>6 DEF Lists
  <2>10. Lists(t, n)
    <3>1. Len(s) + 1 \in 1 .. Len(t)
      BY <2>6
    <3> QED BY <2>5, <2>6, <3>1 DEF Lists
  <2> QED BY <2>5, <2>6, <2>7, <2>8, <2>9, <2>10
<1> QED BY <1>2, <1>3

LEMMA LeastNext ==
  ASSUME NEW n \in Nat, NEW at \in Nat, NEW d, \A i \in 1 .. n + 1 : d[i] \in Int
  PROVE  Total(d, Least(n + 1, at)) =
           Total(d, Least(n, at)) + IF n + 1 <= at THEN d[n + 1] ELSE 0
<1>1. CASE n + 1 <= at
  <2>1. Least(n + 1, at) = n + 1 /\ Least(n, at) = n
    BY <1>1 DEF Least
  <2> QED BY <1>1, <2>1, TotalNext
<1>2. CASE ~(n + 1 <= at)
  <2>1. Least(n + 1, at) = at /\ Least(n, at) = at /\ at <= n
    BY <1>2 DEF Least
  <2>2. Total(d, at) \in Int
    BY <2>1, TotalType
  <2> QED BY <1>2, <2>1, <2>2
<1> QED BY <1>1, <1>2

LEMMA LinesJoined ==
  ASSUME NEW s \in Lines, NEW n, NEW a, LineOf(n, 1, a) \in Lines, LineOf(n, 2, a) \in Lines,
         LineOf(n, 3, a) \in Lines, LineOf(n, 4, a) \in Lines
  PROVE  s \o LinesOf(n, a) =
           s \o LineOf(n, 1, a) \o LineOf(n, 2, a) \o LineOf(n, 3, a) \o LineOf(n, 4, a)
<1> DEFINE T == [txn : Nat, amt : Int]
           p == LineOf(n, 1, a)
           q == LineOf(n, 2, a)
           r == LineOf(n, 3, a)
           u == LineOf(n, 4, a)
           v == s \o (p \o q \o r \o u)
           w == s \o p \o q \o r \o u
           pq == Len(p) + Len(q)
<1>1. s \in Seq(T) /\ p \in Seq(T) /\ q \in Seq(T) /\ r \in Seq(T) /\ u \in Seq(T)
  BY DEF Lines
<1> HIDE DEF T, p, q, r, u
<1>2. /\ Len(s) \in Nat /\ Len(p) \in Nat /\ Len(q) \in Nat /\ Len(r) \in Nat /\ Len(u) \in Nat
      /\ p \o q \in Seq(T) /\ Len(p \o q) = pq
      /\ s \o p \in Seq(T) /\ Len(s \o p) = Len(s) + Len(p)
  BY <1>1
<1>3. /\ p \o q \o r \in Seq(T) /\ Len(p \o q \o r) = pq + Len(r)
      /\ s \o p \o q \in Seq(T) /\ Len(s \o p \o q) = Len(s) + pq
  BY <1>1, <1>2
<1>4. /\ p \o q \o r \o u \in Seq(T) /\ Len(p \o q \o r \o u) = pq + Len(r) + Len(u)
      /\ s \o p \o q \o r \in Seq(T) /\ Len(s \o p \o q \o r) = Len(s) + pq + Len(r)
  BY <1>1, <1>2, <1>3
<1>5. /\ v \in Seq(T) /\ w \in Seq(T)
      /\ Len(v) = Len(s) + pq + Len(r) + Len(u) /\ Len(w) = Len(v)
  BY <1>1, <1>2, <1>3, <1>4
<1>6. ASSUME NEW i \in 1 .. Len(v)
      PROVE  v[i] = w[i]
  <2>1. CASE i <= Len(s)
    BY <1>1, <1>2, <1>3, <1>4, <1>5, <2>1
  <2>2. CASE Len(s) < i /\ i <= Len(s) + Len(p)
    BY <1>1, <1>2, <1>3, <1>4, <1>5, <2>2
  <2>3. CASE Len(s) + Len(p) < i /\ i <= Len(s) + pq
    BY <1>1, <1>2, <1>3, <1>4, <1>5, <2>3
  <2>4. CASE Len(s) + pq < i /\ i <= Len(s) + pq + Len(r)
    BY <1>1, <1>2, <1>3, <1>4, <1>5, <2>4
  <2>5. CASE Len(s) + pq + Len(r) < i
    BY <1>1, <1>2, <1>3, <1>4, <1>5, <2>5
  <2> QED BY <1>2, <1>5, <2>1, <2>2, <2>3, <2>4, <2>5
<1> HIDE DEF v, w
<1>7. v = w
  BY <1>5, <1>6, SeqEqual
<1> QED BY <1>7 DEF LinesOf, p, q, r, u, v, w

LEMMA EntryNext ==
  ASSUME journal \in Seq(JournalEntry), NEW n \in Nat, n + 1 \in 1 .. Len(journal), NEW a,
         DOMAIN journal[n + 1].legs \subseteq 1 .. 4,
         NEW s, Listing(s, n, a)
  PROVE  Listing(s \o LinesOf(n + 1, a), n + 1, a)
<1> DEFINE k  == n + 1
           e  == journal[k]
           L(i) == LineOf(k, i, a)
           s1 == s  \o L(1)
           s2 == s1 \o L(2)
           s3 == s2 \o L(3)
           s4 == s3 \o L(4)
<1>1. InOrder(s, k)
  BY DEF Listing, InOrder
<1>2. Extends(s1, s, k, 1, a)
  BY <1>1, LineNext
<1>3. Extends(s2, s1, k, 2, a)
  <2>1. InOrder(s1, k)
    BY <1>2 DEF Extends
  <2> HIDE DEF s1
  <2> QED BY <2>1, LineNext
<1>4. Extends(s3, s2, k, 3, a)
  <2>1. InOrder(s2, k)
    BY <1>3 DEF Extends
  <2> HIDE DEF s2
  <2> QED BY <2>1, LineNext
<1>5. Extends(s4, s3, k, 4, a)
  <2>1. InOrder(s3, k)
    BY <1>4 DEF Extends
  <2> HIDE DEF s3
  <2> QED BY <2>1, LineNext
<1>6. s \o LinesOf(k, a) = s4
  <2> s \in Lines
    BY <1>1 DEF InOrder
  <2> QED BY <1>2, <1>3, <1>4, <1>5, LinesJoined DEF Extends
<1>7. ASSUME NEW m \in 1 .. k, a \in LegAccounts(journal[m])
      PROVE  Lists(s4, m)
  <2>1. CASE m \in 1 .. n
    <3>1. Lists(s, m)
      BY <1>7, <2>1 DEF Listing
    <3> HIDE DEF s1, s2, s3, s4
    <3> QED BY <3>1, <1>2, <1>3, <1>4, <1>5 DEF Extends
  <2>2. CASE m = k
    <3>1. PICK i \in 1 .. 4 : On(e, i, a)
      BY <1>7, <2>2 DEF LegAccounts, On
    <3>2. i = 1 \/ i = 2 \/ i = 3 \/ i = 4
      OBVIOUS
    <3> HIDE DEF s1, s2, s3, s4, k
    <3> QED BY <2>2, <3>1, <3>2, <1>2, <1>3, <1>4, <1>5 DEF Extends
  <2> QED BY <2>1, <2>2
<1>8. ASSUME NEW at \in Nat
      PROVE  KnownSum(s4, at) = Total(Deltas(journal, a), Least(k, at))
  <2> DEFINE d == Deltas(journal, a)
  <2>1. \A i \in 1 .. k : d[i] \in Int /\ d[i] = Delta(journal[i], a)
    BY DeltasType
  <2>2. \A i : AmountOn(e, i, a) \in Int
    <3>1. e \in JournalEntry
      OBVIOUS
    <3>2. e.legs \in Seq(Legs)
      BY <3>1 DEF JournalEntry
    <3>3. \A i \in DOMAIN e.legs : e.legs[i].amt \in Int
      <4>1. \A l \in Legs : l.amt \in Int
        BY DEF Legs, Int64
      <4> HIDE DEF e
      <4> QED BY <3>2, <4>1
    <3> QED BY <3>3 DEF AmountOn
  <2>3. KnownSum(s, at) \in Int /\ KnownSum(s, at) = Total(d, Least(n, at))
    <3>1. s \in Lines
      BY <1>1 DEF InOrder
    <3> QED BY <3>1, KnownType, TotalType DEF Listing
  <2>4. /\ Added(k, 1, a, at) \in Int /\ Added(k, 2, a, at) \in Int
        /\ Added(k, 3, a, at) \in Int /\ Added(k, 4, a, at) \in Int
        /\ Added(k, 1, a, at) + Added(k, 2, a, at) + Added(k, 3, a, at) + Added(k, 4, a, at) =
             IF k <= at THEN Delta(e, a) ELSE 0
    BY <2>2 DEF Delta, Added
  <2>5. KnownSum(s4, at) = KnownSum(s, at) + IF k <= at THEN Delta(e, a) ELSE 0
    <3>1. /\ KnownSum(s1, at) = KnownSum(s, at) + Added(k, 1, a, at)
          /\ KnownSum(s2, at) = KnownSum(s1, at) + Added(k, 2, a, at)
          /\ KnownSum(s3, at) = KnownSum(s2, at) + Added(k, 3, a, at)
          /\ KnownSum(s4, at) = KnownSum(s3, at) + Added(k, 4, a, at)
      BY <1>2, <1>3, <1>4, <1>5 DEF Extends
    <3> HIDE DEF s1, s2, s3, s4, k, e, d
    <3>2. KnownSum(s, at) \in Int
      BY <2>3
    <3>3. /\ KnownSum(s1, at) \in Int /\ KnownSum(s2, at) \in Int
          /\ KnownSum(s3, at) \in Int /\ KnownSum(s4, at) \in Int
      BY ONLY <2>4, <3>1, <3>2
    <3> QED BY ONLY <2>4, <3>1, <3>2, <3>3
  <2>6. Total(d, Least(k, at)) = Total(d, Least(n, at)) + IF k <= at THEN d[k] ELSE 0
    <3>1. \A i \in 1 .. n + 1 : d[i] \in Int
      BY <2>1
    <3> HIDE DEF d
    <3>2. Total(d, Least(n + 1, at)) = Total(d, Least(n, at)) + IF n + 1 <= at THEN d[n + 1] ELSE 0
      BY ONLY n \in Nat, at \in Nat, <3>1, LeastNext
    <3> QED BY <3>2
  <2>7. d[k] = Delta(e, a)
    BY <2>1
  <2>8. KnownSum(s4, at) = Total(d, Least(k, at))
    <3> HIDE DEF d, s4, k, e
    <3> QED BY <2>3, <2>5, <2>6, <2>7
  <2> QED BY <2>8
<1> HIDE DEF s4
<1> QED BY <1>5, <1>6, <1>7, <1>8 DEF Listing, Extends

(* FlattenSeq joins one sequence after the other, by a recursion that has  *)
(* a solution.                                                             *)
Joins(f, q, n) ==
  f = [i \in 1 .. n |-> IF i = 1 THEN q[i] ELSE f[i - 1] \o q[i]]

LEMMA JoinsExist ==
  ASSUME NEW q, NEW n \in Nat
  PROVE  \E f : Joins(f, q, n)
<1> DEFINE S == {m \in 0 .. n : ~\E f : Joins(f, q, m)}
<1>1. SUFFICES ASSUME S # {} PROVE FALSE
  OBVIOUS
<1>2. PICK m \in S : \A l \in S : m <= l
  <2>1. S \subseteq Nat
    OBVIOUS
  <2> HIDE DEF S
  <2> QED BY <1>1, <2>1, LeastNumber
<1>3. m # 0
  <2> DEFINE f == [i \in 1 .. 0 |-> q[i]]
  <2>1. Joins(f, q, 0)
    BY DEF Joins
  <2> QED BY <2>1
<1>4. m \in 1 .. n /\ m - 1 \in 0 .. n /\ m - 1 \notin S
  BY <1>2, <1>3
<1>5. PICK f : Joins(f, q, m - 1)
  BY <1>4
<1> DEFINE g == [i \in 1 .. m |-> IF i = 1 THEN q[1] ELSE f[i - 1] \o q[i]]
<1>6. Joins(g, q, m)
  <2>1. ASSUME NEW i \in 1 .. m, i # 1
        PROVE  g[i - 1] = f[i - 1]
    <3>1. i - 1 \in 1 .. m - 1
      BY <1>4, <2>1
    <3>2. f[i - 1] = IF i - 1 = 1 THEN q[i - 1] ELSE f[i - 1 - 1] \o q[i - 1]
      BY <1>5, <3>1 DEF Joins
    <3>3. g[i - 1] = IF i - 1 = 1 THEN q[1] ELSE f[i - 1 - 1] \o q[i - 1]
      BY <1>4, <3>1
    <3> QED BY <3>2, <3>3
  <2>2. \A i \in 1 .. m : g[i] = IF i = 1 THEN q[i] ELSE g[i - 1] \o q[i]
    BY <2>1
  <2> HIDE DEF g
  <2>3. [i \in 1 .. m |-> g[i]] = [i \in 1 .. m |-> IF i = 1 THEN q[i] ELSE g[i - 1] \o q[i]]
    BY <2>2
  <2>4. g = [i \in 1 .. m |-> g[i]]
    BY DEF g
  <2> QED BY <2>3, <2>4 DEF Joins
<1> QED BY <1>2, <1>6

LEMMA FlattenJoins ==
  ASSUME NEW q, NEW n \in Nat, n # 0, Len(q) = n
  PROVE  \E f : /\ FlattenSeq(q) = f[n] /\ f[1] = q[1]
                /\ \A i \in 2 .. n : f[i] = f[i - 1] \o q[i]
<1> DEFINE f == CHOOSE f : Joins(f, q, n)
<1>1. Joins(f, q, n)
  BY JoinsExist
<1>2. FlattenSeq(q) = f[n]
  BY DEF FlattenSeq, Joins
<1> HIDE DEF f
<1>3. 1 \in 1 .. n /\ \A i \in 2 .. n : i \in 1 .. n /\ i # 1
  OBVIOUS
<1>4. \A i \in 1 .. n : f[i] = IF i = 1 THEN q[i] ELSE f[i - 1] \o q[i]
  BY <1>1 DEF Joins
<1> QED BY <1>2, <1>3, <1>4

(* The postings of an account, listed to the end of the journal.           *)
LEMMA PostingsListed ==
  ASSUME journal \in Seq(JournalEntry), NEW a,
         \A n \in 1 .. Len(journal) : DOMAIN journal[n].legs \subseteq 1 .. 4
  PROVE  Listing(PostingsOf(a), Len(journal), a)
<1> DEFINE n == Len(journal)
           q == [i \in DOMAIN journal |-> LinesOf(i, a)]
<1>1. n \in Nat /\ DOMAIN journal = 1 .. n
  OBVIOUS
<1>2. /\ Len(q) = n /\ (n = 0 => q = << >>) /\ \A i \in 1 .. n : q[i] = LinesOf(i, a)
  BY <1>1
<1>3. Listing(<< >>, 0, a)
  <2>1. << >> \in Lines /\ Len(<< >>) = 0
    BY DEF Lines
  <2>2. \A at \in Nat : KnownSum(<< >>, at) = 0
    BY <2>1, KnownType, TotalZero
  <2>3. \A at \in Nat : Least(0, at) = 0
    BY DEF Least
  <2> QED BY <2>1, <2>2, <2>3, TotalZero DEF Listing, InOrder
<1>4. CASE n = 0
  <2>1. PostingsOf(a) = << >>
    BY <1>2, <1>4 DEF PostingsOf, FlattenSeq
  <2> QED BY <1>3, <1>4, <2>1
<1>5. CASE n # 0
  <2> HIDE DEF q
  <2>1. PICK f : /\ FlattenSeq(q) = f[n] /\ f[1] = q[1]
                 /\ \A i \in 2 .. n : f[i] = f[i - 1] \o q[i]
    BY <1>1, <1>2, <1>5, FlattenJoins
  <2> DEFINE S == {i \in 1 .. n : ~Listing(f[i], i, a)}
  <2>2. S = {}
    <3>1. SUFFICES ASSUME S # {} PROVE FALSE
      OBVIOUS
    <3>2. PICK k \in S : \A l \in S : k <= l
      <4>1. S \subseteq Nat
        OBVIOUS
      <4> HIDE DEF S
      <4> QED BY <3>1, <4>1, LeastNumber
    <3>3. CASE k = 1
      <4>1. Listing(<< >> \o LinesOf(1, a), 1, a)
        <5>1. 0 + 1 = 1 /\ 0 + 1 \in 1 .. Len(journal)
          BY <1>1, <1>5
        <5> QED BY <1>3, <5>1, EntryNext
      <4>2. << >> \o LinesOf(1, a) = LinesOf(1, a)
        BY DEF LinesOf, LineOf
      <4> QED BY <1>2, <2>1, <3>2, <3>3, <4>1, <4>2
    <3>4. CASE k # 1
      <4> DEFINE m == k - 1
      <4>1. m \in Nat /\ m + 1 = k /\ k \in 2 .. n /\ m \in 1 .. n /\ m \notin S
        BY <1>1, <3>2, <3>4
      <4>2. Listing(f[m], m, a)
        BY <4>1
      <4> HIDE DEF m
      <4>3. Listing(f[m] \o LinesOf(m + 1, a), m + 1, a)
        BY <4>1, <4>2, EntryNext
      <4>4. f[k] = f[m] \o LinesOf(k, a)
        BY <1>2, <2>1, <4>1 DEF m
      <4> QED BY <3>2, <4>1, <4>3, <4>4
    <3> QED BY <3>3, <3>4
  <2>3. n \in 1 .. n
    BY <1>1, <1>5
  <2>4. Listing(f[n], n, a)
    BY <2>2, <2>3
  <2> QED BY <2>1, <2>4 DEF PostingsOf, q
<1> QED BY <1>4, <1>5

(* What a page of them shows, the newest first.                            *)
Page(s, limit) == SubSeq(Reverse(s), 1, Min({limit, Len(s)}))

LEMMA PageFacts ==
  ASSUME NEW s \in Lines, NEW limit \in Nat
  PROVE  LET p == Page(s, limit) IN
         /\ Len(s) \in Nat /\ Len(p) \in Nat /\ Len(p) <= Len(s)
         /\ Len(p) < limit => Len(p) = Len(s)
         /\ p \in Lines /\ \A i \in 1 .. Len(p) : p[i] = s[Len(s) - i + 1]
<1> DEFINE k == Min({limit, Len(s)})
           r == Reverse(s)
<1>1. Len(s) \in Nat
  BY DEF Lines
<1>2. k \in {limit, Len(s)} /\ k <= Len(s) /\ k <= limit
  <2>1. \E x \in {limit, Len(s)} : \A y \in {limit, Len(s)} : x <= y
    BY <1>1
  <2> QED BY <2>1 DEF Min
<1>3. k \in Nat /\ (k < limit => k = Len(s))
  BY <1>1, <1>2
<1> HIDE DEF k
<1>4. r \in Seq({s[i] : i \in 1 .. Len(s)}) /\ Len(r) = Len(s)
      /\ \A i \in 1 .. Len(s) : r[i] = s[Len(s) - i + 1]
  BY <1>1 DEF Reverse
<1> HIDE DEF r
<1>5. Len(SubSeq(r, 1, k)) = k /\ \A i \in 1 .. k : SubSeq(r, 1, k)[i] = r[i]
  BY <1>1, <1>2, <1>3, <1>4
<1>6. Page(s, limit) = SubSeq(r, 1, k)
  BY DEF Page, k, r
<1>7. \A i \in 1 .. k : SubSeq(r, 1, k)[i] = s[Len(s) - i + 1]
  <2> TAKE i \in 1 .. k
  <2>1. i \in 1 .. Len(s)
    BY <1>1, <1>2, <1>3
  <2>2. SubSeq(r, 1, k)[i] = r[i]
    BY <1>5
  <2> QED BY <1>4, <2>1, <2>2
<1>8. SubSeq(r, 1, k) \in Lines
  <2> DEFINE T == [txn : Nat, amt : Int]
  <2>1. s \in Seq(T)
    BY DEF Lines
  <2> HIDE DEF T
  <2>2. \A i \in 1 .. Len(s) : Len(s) - i + 1 \in 1 .. Len(s)
    BY <1>1
  <2>3. \A i \in 1 .. Len(s) : s[Len(s) - i + 1] \in T
    <3> TAKE i \in 1 .. Len(s)
    <3>1. Len(s) - i + 1 \in 1 .. Len(s)
      BY <2>2
    <3> QED BY <2>1, <3>1
  <2>4. r \in Seq(T)
    <3>1. r \in [1 .. Len(s) -> T]
      BY <2>3 DEF r, Reverse
    <3> QED BY <1>1, <3>1, IsASeq
  <2>5. SubSeq(r, 1, k) \in Seq(T)
    BY <1>1, <1>2, <1>3, <1>4, <2>4
  <2> QED BY <2>5 DEF T, Lines
<1> QED BY <1>1, <1>2, <1>3, <1>5, <1>6, <1>7, <1>8

(* It adds up, and it leaves out the oldest only.                          *)
NewestOf(p, a, at) ==
  LET shown == {p[i].txn : i \in 1 .. Len(p)}
  IN  \A m \in 1 .. at :
        /\ a \in LegAccounts(journal[m])
        /\ \E l \in shown : l < m
        => m \in shown

LEMMA PageAddsUp ==
  ASSUME NEW a, NEW limit \in Nat, NEW n \in Nat, NEW s, Listing(s, n, a),
         NEW at \in 0 .. n, NEW p, p = Page(s, limit)
  PROVE  /\ Len(p) < limit => KnownSum(p, at) = Total(Deltas(journal, a), at)
         /\ NewestOf(p, a, at)
<1> DEFINE shown == {p[i].txn : i \in 1 .. Len(p)}
           N == Len(s)
<1>1. s \in Lines /\ \A i \in 1 .. N : s[i].txn \in Nat
  BY DEF Listing, InOrder
<1>2. /\ N \in Nat /\ Len(p) \in Nat /\ Len(p) <= N
      /\ Len(p) < limit => Len(p) = N
      /\ \A i \in 1 .. Len(p) : p[i] = s[N - i + 1]
  BY <1>1, PageFacts
<1>3. ASSUME Len(p) < limit
      PROVE  KnownSum(p, at) = Total(Deltas(journal, a), at)
  <2>1. Len(p) = N
    BY <1>2, <1>3
  <2>2. KnownSum(p, at) = Total(Known(p, at), N)
    BY <2>1 DEF KnownSum, Known
  <2>3. KnownSum(s, at) = Total(Known(s, at), N) /\ \A i \in 1 .. N : Known(s, at)[i] \in Int
    BY <1>1, KnownType
  <2>4. \A i \in 1 .. N : Known(p, at)[i] = Known(s, at)[N - i + 1]
    <3> TAKE i \in 1 .. N
    <3>1. N - i + 1 \in 1 .. N /\ p[i] = s[N - i + 1]
      BY <1>2, <2>1
    <3> QED BY <2>1, <3>1 DEF Known
  <2>5. Total(Known(p, at), N) = Total(Known(s, at), N)
    BY <1>2, <2>3, <2>4, TotalReverse
  <2>6. at \in Nat /\ Least(n, at) = at
    BY DEF Least
  <2> QED BY <2>2, <2>3, <2>5, <2>6 DEF Listing
<1>4. ASSUME NEW m \in 1 .. at, a \in LegAccounts(journal[m]), NEW l \in shown, l < m
      PROVE  m \in shown
  <2>1. PICK i \in 1 .. Len(p) : p[i].txn = l
    BY <1>4
  <2>2. m \in 1 .. n
    OBVIOUS
  <2>3. PICK k \in 1 .. N : s[k].txn = m
    BY <1>4, <2>2 DEF Listing, Lists
  <2> DEFINE j == N - i + 1
  <2>4. j \in 1 .. N /\ s[j].txn = l
    BY <1>2, <2>1
  <2>5. j < k
    <3>1. SUFFICES ASSUME k < j \/ k = j PROVE FALSE
      <4>1. k \in Int /\ j \in Int
        BY <1>2, <2>3, <2>4
      <4> HIDE DEF j
      <4> QED BY <4>1
    <3>2. CASE k < j
      <4>0. \A x, y \in 1 .. N : x < y => s[x].txn <= s[y].txn
        BY DEF Listing, InOrder
      <4> HIDE DEF j
      <4>1. s[k].txn <= s[j].txn
        BY <2>3, <2>4, <3>2, <4>0
      <4> QED BY <1>1, <1>4, <2>3, <2>4, <4>1
    <3>3. CASE k = j
      BY <1>1, <1>4, <2>3, <2>4, <3>3
    <3> QED BY <3>1, <3>2, <3>3
  <2>6. N - k + 1 \in 1 .. Len(p) /\ N - (N - k + 1) + 1 = k
    BY <1>2, <2>3, <2>4, <2>5
  <2>7. p[N - k + 1].txn = m
    BY <1>2, <2>3, <2>6
  <2> QED BY <2>6, <2>7
<1> QED BY <1>3, <1>4 DEF NewestOf

-----------------------------------------------------------------------------
(* The inductive invariant of a statement: its balance is the sum of the   *)
(* entries there were when it was read.                                    *)
StatementInv ==
  /\ stm \in [acct : Account \union {NoAccount}, limit : Nat, at : Nat, bal : Int, lines : Lines]
  /\ rpc \in {"lines", "listed"} => stm.at \in 0 .. Len(journal)
  /\ rpc = "lines" => stm.bal = Wrap(Total(Deltas(journal, stm.acct), stm.at))
  /\ StatementAddsUp

LEMMA ReadLinesAddsUp ==
  ASSUME Consistent, StatementInv, ReadLines
  PROVE  StatementInv'
<1> DEFINE a == stm.acct
           at == stm.at
           p == Page(PostingsOf(a), stm.limit)
<1>1. /\ rpc = "lines" /\ rpc' = "listed" /\ journal' = journal
      /\ stm' = [stm EXCEPT !.lines = p]
  BY DEF ReadLines, RGoto, vars, db, Page
<1>2. /\ stm.limit \in Nat /\ at \in Nat /\ at \in 0 .. Len(journal)
      /\ stm.bal = Wrap(Total(Deltas(journal, a), at))
  BY <1>1 DEF StatementInv
<1>3. Listing(PostingsOf(a), Len(journal), a) /\ Len(journal) \in Nat
  <2>1. journal \in Seq(JournalEntry)
    BY DEF Consistent, IInv, TypeOK, DbType
  <2>2. \A n \in 1 .. Len(journal) : DOMAIN journal[n].legs \subseteq 1 .. 4
    <3> TAKE n \in 1 .. Len(journal)
    <3>1. journal[n] \in JournalEntry
      BY <2>1
    <3>2. journal[n].legs \in Seq(Legs) /\ Paired(journal[n])
      BY <2>1, <3>1 DEF JournalEntry, Consistent, JournalSound
    <3> QED BY <3>2 DEF Paired
  <2> QED BY <2>1, <2>2, PostingsListed
<1>4. /\ Len(p) < stm.limit => KnownSum(p, at) = Total(Deltas(journal, a), at)
      /\ NewestOf(p, a, at)
  BY <1>2, <1>3, PageAddsUp
<1>5. p \in Lines
  BY <1>2, <1>3, PageFacts DEF Listing, InOrder
<1>6. /\ stm' \in [acct : Account \union {NoAccount}, limit : Nat, at : Nat, bal : Int, lines : Lines]
      /\ stm'.acct = a /\ stm'.at = at /\ stm'.limit = stm.limit /\ stm'.bal = stm.bal
      /\ stm'.lines = p
  <2> HIDE DEF p
  <2> QED BY <1>1, <1>5 DEF StatementInv
<1> HIDE DEF p, at, a
<1>7. StatementAddsUp'
  <2>1. stm'.bal = Wrap(Total(Deltas(journal, a), at))
    BY <1>2, <1>6
  <2>2. Len(p) < stm'.limit => stm'.bal = Wrap(KnownSum(p, at))
    BY <1>4, <1>6, <2>1
  <2>3. \A n \in 1 .. at :
          /\ a \in LegAccounts(journal'[n])
          /\ \E m \in {p[i].txn : i \in 1 .. Len(p)} : m < n
          => n \in {p[i].txn : i \in 1 .. Len(p)}
    BY <1>1, <1>4 DEF NewestOf
  <2> QED BY <1>6, <2>2, <2>3 DEF StatementAddsUp
<1> QED BY <1>1, <1>2, <1>6, <1>7 DEF StatementInv

(* A statement read before a posting says of the journal what it said.     *)
LEMMA LedgerKeepsStatement ==
  ASSUME Consistent, Consistent', StatementInv, [Next]_vars, UNCHANGED rvars
  PROVE  StatementInv'
<1> DEFINE a == stm.acct
           at == stm.at
<1>1. stm' = stm /\ rpc' = rpc
  BY DEF rvars
<1>2. /\ Len(journal) \in Nat /\ Len(journal') \in Nat /\ Len(journal) <= Len(journal')
      /\ \A n \in 1 .. Len(journal) : journal'[n] = journal[n]
      /\ journal \in Seq(JournalEntry) /\ journal' \in Seq(JournalEntry)
  BY MovedByCommit DEF Consistent, IInv, TypeOK, DbType
<1>3. ASSUME rpc \in {"lines", "listed"}
      PROVE  /\ at \in Nat /\ at <= Len(journal) /\ at \in 0 .. Len(journal')
             /\ \A n \in 1 .. at : journal'[n] = journal[n]
             /\ Total(Deltas(journal', a), at) = Total(Deltas(journal, a), at)
  <2>1. at \in Nat /\ at <= Len(journal) /\ at \in 0 .. Len(journal')
    BY <1>2, <1>3 DEF StatementInv
  <2>2. \A n \in 1 .. at : journal'[n] = journal[n]
    BY <1>2, <2>1
  <2>3. \A n \in 1 .. at : /\ Deltas(journal, a)[n] \in Int
                           /\ Deltas(journal, a)[n] = Deltas(journal', a)[n]
    <3> TAKE n \in 1 .. at
    <3>1. n \in 1 .. Len(journal) /\ n \in 1 .. Len(journal')
      BY <1>2, <2>1
    <3>2. Deltas(journal, a)[n] \in Int /\ Deltas(journal, a)[n] = Delta(journal[n], a)
      BY <1>2, <3>1, DeltasType
    <3>3. Deltas(journal', a)[n] = Delta(journal'[n], a)
      BY <1>2, <3>1, DeltasType
    <3> QED BY <2>2, <3>2, <3>3
  <2> QED BY <2>1, <2>2, <2>3, TotalAgrees
<1>4. StatementAddsUp'
  <2>1. SUFFICES ASSUME rpc = "listed" PROVE StatementAddsUp'
    BY <1>1 DEF StatementAddsUp
  <2>2. \A n \in 1 .. at : journal'[n] = journal[n]
    BY <1>3, <2>1
  <2>3. StatementAddsUp
    BY DEF StatementInv
  <2> QED BY <1>1, <2>1, <2>2, <2>3 DEF StatementAddsUp
<1> QED BY <1>1, <1>3, <1>4 DEF StatementInv

LEMMA ReadAccountStarts ==
  ASSUME Consistent, ReadAccount
  PROVE  StatementInv'
<1>1. PICK a \in Account, l \in Limit :
        stm' = [acct  |-> a,
                limit |-> IF l <= 0 \/ l > MaxLimit THEN DefaultLimit ELSE l,
                at    |-> Len(journal),
                bal   |-> balance[a],
                lines |-> << >>]
  BY DEF ReadAccount
<1>2. rpc' = "lines" /\ journal' = journal
  BY DEF ReadAccount, RGoto, vars, db
<1>3. journal \in Seq(JournalEntry) /\ Len(journal) \in Nat /\ balance[a] \in Int
  BY DEF Consistent, IInv, TypeOK, DbType, Int64
<1>4. (IF l <= 0 \/ l > MaxLimit THEN DefaultLimit ELSE l) \in Nat
  BY LimitAssumption
<1>5. << >> \in Lines
  BY DEF Lines
<1>6. balance[a] = Wrap(Total(Deltas(journal, a), Len(journal)))
  BY DEF Consistent, NoDrift, Derived, Deltas
<1>7. stm' \in [acct : Account \union {NoAccount}, limit : Nat, at : Nat, bal : Int, lines : Lines]
  <2> DEFINE m == IF l <= 0 \/ l > MaxLimit THEN DefaultLimit ELSE l
  <2>1. m \in Nat /\ stm' = [acct |-> a, limit |-> m, at |-> Len(journal), bal |-> balance[a], lines |-> << >>]
    BY <1>1, <1>4
  <2> HIDE DEF m
  <2> QED BY <1>3, <1>5, <2>1
<1>8. stm'.acct = a /\ stm'.at = Len(journal) /\ stm'.bal = balance[a]
  BY <1>1
<1>9. stm'.at \in 0 .. Len(journal')
  BY <1>2, <1>3, <1>8
<1>10. stm'.bal = Wrap(Total(Deltas(journal', stm'.acct), stm'.at))
  BY <1>2, <1>6, <1>8
<1> QED BY <1>2, <1>7, <1>9, <1>10 DEF StatementInv, StatementAddsUp

LEMMA StatementKept ==
  ASSUME Consistent, Consistent', StatementInv,
         [ \/ Next /\ UNCHANGED rvars
           \/ Begin \/ ReadAccount
           \/ ReconcileStep ]_recvars
  PROVE  StatementInv'
<1>1. NoStatement \in [acct : Account \union {NoAccount}, limit : Nat, at : Nat, bal : Int, lines : Lines]
  BY DEF NoStatement, Lines
<1>2. CASE [Next]_vars /\ UNCHANGED rvars
  BY <1>2, LedgerKeepsStatement
<1>3. CASE UNCHANGED recvars
  BY <1>2, <1>3 DEF recvars
<1>4. CASE \/ Begin \/ QueryFails \/ ReadUnbalanced \/ ReadStored \/ ReadDerived
           \/ ReadConservation \/ ReadCounts
  <2>1. rpc' \notin {"lines", "listed"} /\ stm' \in {stm, NoStatement}
    BY <1>4 DEF Begin, QueryFails, ReadUnbalanced, ReadStored, ReadDerived, ReadConservation,
                ReadCounts, RGoto
  <2> QED BY <1>1, <2>1 DEF StatementInv, StatementAddsUp
<1> QED BY <1>2, <1>3, <1>4, ReadAccountStarts, ReadLinesAddsUp DEF ReconcileStep

LEMMA StatementBegins == Init /\ RInit => StatementInv
<1> SUFFICES ASSUME RInit
             PROVE  StatementInv
  OBVIOUS
<1>1. stm = NoStatement /\ rpc = "idle"
  BY DEF RInit
<1>2. stm \in [acct : Account \union {NoAccount}, limit : Nat, at : Nat, bal : Int, lines : Lines]
  BY <1>1 DEF NoStatement, Lines
<1> QED BY <1>1, <1>2 DEF StatementInv, StatementAddsUp

LEMMA StatementInductive == RecSpec => []StatementInv
<1>1. Consistent /\ Consistent' /\ StatementInv
        /\ [ \/ Next /\ UNCHANGED rvars
             \/ Begin \/ ReadAccount
             \/ ReconcileStep ]_recvars
      => StatementInv'
  BY StatementKept
<1> QED BY <1>1, StatementBegins, ReadersOnlyRead, LedgerConsistent, PTL DEF RecSpec

(* A statement of an account, whose balance and postings are read at       *)
(* different moments, adds up: without the postings newer than the balance *)
(* a complete one has the balance as its sum modulo 2^64, and one that is  *)
(* cut off lacks the oldest only (store.AccountLedger).                    *)
THEOREM StatementsAddUp == RecSpec => []StatementAddsUp
BY StatementInductive, PTL DEF StatementInv
=============================================================================
