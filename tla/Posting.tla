------------------------------ MODULE Posting -------------------------------
(***************************************************************************)
(* The write path of LedgerCore: the four client operations of internal/   *)
(* ops, run by concurrent backend sessions, each inside the transaction    *)
(* loop of store.runInTx, one SQL statement per step.                      *)
(*                                                                         *)
(* The database is Postgres: balance, journal and keyRow are what has      *)
(* committed, rowLock the FOR UPDATE locks on rows of accounts, keyLock    *)
(* the uncommitted rows of idempotency_keys, on which a second INSERT of   *)
(* the same key waits.  What a transaction has written and not committed   *)
(* is a function of its session's state, and only CommitTx publishes it.   *)
(* The id of a journal entry is its position in commit order.              *)
(***************************************************************************)
EXTENDS Ledger

CONSTANTS
  Session,      \* requests in flight, each with its goroutine and connection
  Holder,       \* everything that can lock a row of accounts
  NoHolder,     \* a row nobody has locked
  Request,      \* the requests clients may send
  Mode,         \* "rowlock" (READ COMMITTED) or "serializable"
  MaxAttempts,  \* maxRetries of store.go: 25
  MaxTxns       \* bound of the model: the length of the journal

ASSUME SessionAssumption ==
  /\ Session \subseteq Holder
  /\ NoHolder \notin Holder

ASSUME FiniteAssumption == IsFiniteSet(Session)

ASSUME ModeAssumption ==
  /\ Mode \in {"rowlock", "serializable"}
  /\ MaxAttempts \in Nat \ {0}
  /\ MaxTxns \in Nat

ASSUME RequestAssumption ==
  \A r \in Request :
    /\ r.op \in {"transfer", "payment", "refund", "fx"}
    /\ r.amount \in Int64
    /\ r.op \in {"transfer", "payment"} =>
         r.from \in Nat /\ r.to \in Nat /\ r.cur \in CurrencyCode
    /\ r.op = "refund" => r.payment \in Nat
    /\ r.op = "fx" =>
         r.from \in Nat /\ r.to \in Nat /\ r.num \in Int64 /\ r.den \in Int64

VARIABLES
  balance,   \* accounts.balance
  journal,   \* transactions with their postings; .key is the key an entry was
             \* posted under, which only the properties look at
  keyRow,    \* idempotency_keys: the request and the transaction of a key
  rowLock,   \* who holds the lock of an account's row
  keyLock,   \* which session has a key's row inserted and not committed
  pc,        \* the next statement of a session
  job,       \* the call a session runs: its request, key and entry
  seen,      \* the rows lockAccounts has locked so far, with the balance read
  snap,      \* serializable: the length of the journal in the snapshot
  attempt,   \* the loop counter of runInTx
  reply      \* the answer to the session's last call

db        == <<balance, journal, keyRow>>
locks     == <<rowLock, keyLock>>
local     == <<job, attempt>>
vars      == <<db, locks, pc, seen, snap, local, reply>>

-----------------------------------------------------------------------------
NoRow  == [txn |-> 0]
KeyRow(r, n) == [req |-> r, txn |-> n]

NoReply        == [status |-> "none", txn |-> 0, replayed |-> FALSE]
OK(n, again)   == [status |-> "ok", txn |-> n, replayed |-> again]
Rejected       == [status |-> "rejected", txn |-> 0, replayed |-> FALSE]
(* "begin: ", "commit: ", "exhausted retries: ", a lost connection or a    *)
(* cancelled context: the client cannot tell what happened.                *)
Failed         == [status |-> "error", txn |-> 0, replayed |-> FALSE]

NoJob  == [key |-> NoKey]
NoRows == [a \in {} |-> 0]

InTx(s) == pc[s] \in {"claim", "replay", "lock", "guard", "post", "commit"}

Active == {s \in Session : pc[s] # "idle"}

(* What a statement of session s sees of the journal: everything committed *)
(* (READ COMMITTED) or its transaction's snapshot.                         *)
Visible(s) == IF Mode = "serializable" THEN snap[s] ELSE Len(journal)

(* A row changed since the snapshot: Postgres answers 40001.               *)
StaleRow(s, a) ==
  /\ Mode = "serializable"
  /\ \E i \in snap[s] + 1 .. Len(journal) : a \in LegAccounts(journal[i])

StaleKey(s) ==
  /\ Mode = "serializable"
  /\ keyRow[job[s].key].txn > snap[s]

(* SELECT ... WHERE id = ANY(ids) ORDER BY id FOR UPDATE: the rows that    *)
(* exist, in ascending order.                                              *)
ToLock(s) == (LegAccounts(job[s].entry) \intersect Account) \ DOMAIN seen[s]

(* Mutant: rows are locked in the order of the legs.                       *)
MutIsNextLeg(s, a) ==
  LET legs == job[s].entry.legs IN
  \E i \in DOMAIN legs :
    /\ legs[i].acct = a /\ a \in ToLock(s)
    /\ \A j \in 1 .. i - 1 : legs[j].acct \notin ToLock(s)

IsNext(s, a) == a \in ToLock(s) /\ \A b \in ToLock(s) : a <= b

(* Mutant: balances of unbounded size.                                     *)
MutNewBalanceUnwrapped(s, a) == seen[s][a] + Delta(job[s].entry, a)

NewBalance(s, a) == Wrap(seen[s][a] + Delta(job[s].entry, a))

(* Mutants: the balance before the posting is checked; the sum is checked  *)
(* before it wraps.                                                        *)
MutCoveredBefore(s) ==
  \A a \in DOMAIN seen[s] : seen[s][a] >= 0 \/ a \in AllowNegative

MutCoveredUnwrapped(s) ==
  \A a \in DOMAIN seen[s] :
    seen[s][a] + Delta(job[s].entry, a) >= 0 \/ a \in AllowNegative

Covered(s) ==
  \A a \in DOMAIN seen[s] : NewBalance(s, a) >= 0 \/ a \in AllowNegative

-----------------------------------------------------------------------------
Init ==
  /\ balance = [a \in Account |-> 0]
  /\ journal = << >>
  /\ keyRow  = [k \in Key |-> NoRow]
  /\ rowLock = [a \in Account |-> NoHolder]
  /\ keyLock = [k \in Key |-> NoHolder]
  /\ pc      = [s \in Session |-> "idle"]
  /\ job     = [s \in Session |-> NoJob]
  /\ seen    = [s \in Session |-> NoRows]
  /\ snap    = [s \in Session |-> 0]
  /\ attempt = [s \in Session |-> 0]
  /\ reply   = [s \in Session |-> NoReply]

Goto(s, l) == pc' = [pc EXCEPT ![s] = l]

(* Mutant: the key stays claimed after a rollback.                         *)
MutReleaseRowsOnly(s) ==
  /\ rowLock' = [a \in Account |-> IF rowLock[a] = s THEN NoHolder ELSE rowLock[a]]
  /\ seen' = [seen EXCEPT ![s] = NoRows]
  /\ snap' = [snap EXCEPT ![s] = 0]
  /\ UNCHANGED keyLock

(* The transaction of s ends: its locks are released.                      *)
Release(s) ==
  /\ rowLock' = [a \in Account |-> IF rowLock[a] = s THEN NoHolder ELSE rowLock[a]]
  /\ keyLock' = [k \in Key |-> IF keyLock[k] = s THEN NoHolder ELSE keyLock[k]]
  /\ seen' = [seen EXCEPT ![s] = NoRows]
  /\ snap' = [snap EXCEPT ![s] = 0]

(* The call of s returns.                                                  *)
Return(s, answer) ==
  /\ Release(s)
  /\ Goto(s, "idle")
  /\ attempt' = [attempt EXCEPT ![s] = 0]
  /\ reply' = [reply EXCEPT ![s] = answer]
  /\ UNCHANGED job

(* A client sends request r under key k: a first attempt, a duplicate or a *)
(* retry.  The operation checks its arguments, and for a refund reads the  *)
(* payment through the pool, before any transaction begins.                *)
Send(s, r, k) ==
  /\ pc[s] = "idle"
  /\ Len(journal) + Cardinality(Active) < MaxTxns
  /\ UNCHANGED <<db, locks, seen, snap, attempt>>

Refuse(s, r, k) ==
  /\ Send(s, r, k)
  /\ Refused(journal, r, k)
  /\ job' = [job EXCEPT ![s] = NoJob]
  /\ reply' = [reply EXCEPT ![s] = Rejected]
  /\ UNCHANGED pc

Call(s, r, k) ==
  /\ Send(s, r, k)
  /\ ~Refused(journal, r, k)
  /\ job' = [job EXCEPT ![s] = [req |-> r, key |-> k, entry |-> EntryFor(journal, r)]]
  /\ reply' = [reply EXCEPT ![s] = NoReply]
  /\ Goto(s, "begin")

(* BeginTx and the snapshot the first statement takes.                     *)
BeginTx(s) ==
  /\ pc[s] = "begin"
  /\ snap' = [snap EXCEPT ![s] = IF Mode = "serializable" THEN Len(journal) ELSE 0]
  /\ Goto(s, IF job[s].key = NoKey THEN "lock" ELSE "claim")
  /\ UNCHANGED <<db, locks, seen, local, reply>>

(* Mutant: the key is looked up and inserted without a unique index.       *)
MutClaimKeyNoWait(s) ==
  LET k == job[s].key IN
  /\ pc[s] = "claim"
  /\ keyRow[k] = NoRow
  /\ keyLock' = [keyLock EXCEPT ![k] = s]
  /\ Goto(s, "lock")
  /\ UNCHANGED <<db, rowLock, seen, snap, local, reply>>

(* claimKey: INSERT ... ON CONFLICT DO NOTHING waits while another         *)
(* transaction has the key inserted and uncommitted.                       *)
ClaimKey(s) ==
  LET k == job[s].key IN
  /\ pc[s] = "claim"
  /\ keyLock[k] = NoHolder
  /\ keyRow[k] = NoRow
  /\ keyLock' = [keyLock EXCEPT ![k] = s]
  /\ Goto(s, "lock")
  /\ UNCHANGED <<db, rowLock, seen, snap, local, reply>>

KeyTaken(s) ==
  LET k == job[s].key IN
  /\ pc[s] = "claim"
  /\ keyLock[k] = NoHolder
  /\ keyRow[k] # NoRow
  /\ ~StaleKey(s)
  /\ Goto(s, "replay")
  /\ UNCHANGED <<db, locks, seen, snap, local, reply>>

(* Mutant: the request hash is not compared.                               *)
MutReadReplayAny(s) ==
  /\ pc[s] = "replay"
  /\ Return(s, OK(keyRow[job[s].key].txn, TRUE))
  /\ UNCHANGED db

(* readReplay: the stored answer, or ErrIdempotencyConflict.               *)
ReadReplay(s) ==
  LET row == keyRow[job[s].key] IN
  /\ pc[s] = "replay"
  /\ Return(s, IF row.req = job[s].req THEN OK(row.txn, TRUE) ELSE Rejected)
  /\ UNCHANGED db

(* Mutant: SELECT without FOR UPDATE.                                      *)
MutLockAccountNoWait(s) ==
  \E a \in Account :
    /\ pc[s] = "lock"
    /\ Valid(job[s].entry)
    /\ IsNext(s, a)
    /\ seen' = [seen EXCEPT ![s] =
         [b \in DOMAIN seen[s] \union {a} |-> IF b = a THEN balance[a] ELSE seen[s][b]]]
    /\ UNCHANGED <<db, locks, pc, snap, local, reply>>

(* One row of lockAccounts: wait for its lock, take it, read its balance.  *)
LockAccount(s) ==
  \E a \in Account :
    /\ pc[s] = "lock"
    /\ Valid(job[s].entry)
    /\ IsNext(s, a)
    /\ rowLock[a] = NoHolder
    /\ ~StaleRow(s, a)
    /\ rowLock' = [rowLock EXCEPT ![a] = s]
    /\ seen' = [seen EXCEPT ![s] =
         [b \in DOMAIN seen[s] \union {a} |-> IF b = a THEN balance[a] ELSE seen[s][b]]]
    /\ UNCHANGED <<db, keyLock, pc, snap, local, reply>>

(* Mutant: the rows are locked in a transaction of its own.                *)
MutAllLockedReleases(s) ==
  /\ pc[s] = "lock"
  /\ Valid(job[s].entry)
  /\ ToLock(s) = {}
  /\ LegAccounts(job[s].entry) \subseteq Account
  /\ Goto(s, IF job[s].entry.kind = "refund" THEN "guard" ELSE "post")
  /\ rowLock' = [a \in Account |-> IF rowLock[a] = s THEN NoHolder ELSE rowLock[a]]
  /\ UNCHANGED <<db, keyLock, seen, snap, local, reply>>

(* Every row is locked; a refund's guard comes next.                       *)
AllLocked(s) ==
  /\ pc[s] = "lock"
  /\ Valid(job[s].entry)
  /\ ToLock(s) = {}
  /\ LegAccounts(job[s].entry) \subseteq Account
  /\ Goto(s, IF job[s].entry.kind = "refund" THEN "guard" ELSE "post")
  /\ UNCHANGED <<db, locks, seen, snap, local, reply>>

(* Validate fails, or lockAccounts finds fewer rows than ids.              *)
RejectEntry(s) ==
  /\ pc[s] = "lock"
  /\ \/ ~Valid(job[s].entry)
     \/ ToLock(s) = {} /\ ~(LegAccounts(job[s].entry) \subseteq Account)
  /\ Return(s, Rejected)
  /\ UNCHANGED db

(* Mutant: each refund is compared with the captured amount alone.         *)
MutCheckGuardNoPrior(s) ==
  /\ pc[s] = "guard"
  /\ IF job[s].req.amount > Captured(journal[job[s].entry.ref])
       THEN Return(s, Rejected)
       ELSE /\ Goto(s, "post")
            /\ UNCHANGED <<locks, seen, snap, local, reply>>
  /\ UNCHANGED db

(* refundGuard, under the locks: the sum is scanned into an int64, and     *)
(* prior + amount is an int64 addition.                                    *)
CheckGuard(s) ==
  LET e == job[s].entry
      m == e.legs[1].acct
      prior == RefundedSoFar(journal, Visible(s), e.ref, m)
  IN
  /\ pc[s] = "guard"
  /\ IF prior \notin Int64 \/ Wrap(prior + job[s].req.amount) > Captured(journal[e.ref])
       THEN Return(s, Rejected)
       ELSE /\ Goto(s, "post")
            /\ UNCHANGED <<locks, seen, snap, local, reply>>
  /\ UNCHANGED db

(* Currency check, no-negative check, and the INSERTs and UPDATEs, which   *)
(* nobody else sees before the commit.                                     *)
PostLegs(s) ==
  /\ pc[s] = "post"
  /\ RightCurrency(job[s].entry)
  /\ Covered(s)
  /\ Goto(s, "commit")
  /\ UNCHANGED <<db, locks, seen, snap, local, reply>>

RejectPosting(s) ==
  /\ pc[s] = "post"
  /\ ~RightCurrency(job[s].entry) \/ ~Covered(s)
  /\ Return(s, Rejected)
  /\ UNCHANGED db

(* The commit makes the entry, the balances and the completed key row      *)
(* visible together.                                                       *)
Publish(s) ==
  LET k == job[s].key
      n == Len(journal) + 1
  IN
  /\ journal' = Append(journal, Posted(job[s].entry, k))
  /\ balance' = [a \in Account |->
                   IF a \in DOMAIN seen[s] THEN NewBalance(s, a) ELSE balance[a]]
  /\ keyRow' = IF k = NoKey THEN keyRow
               ELSE [keyRow EXCEPT ![k] = KeyRow(job[s].req, n)]

CommitTx(s) ==
  /\ pc[s] = "commit"
  /\ Publish(s)
  /\ Return(s, OK(Len(journal) + 1, FALSE))

(* The server commits and the answer is lost on the way back: tx.Commit    *)
(* returns an error that runInTx does not retry.                           *)
CommitAnswerLost(s) ==
  /\ pc[s] = "commit"
  /\ Publish(s)
  /\ Return(s, Failed)

(* A lost connection, a cancelled context, a restart of the server: the    *)
(* transaction rolls back and the call returns an error.                   *)
Abort(s) ==
  /\ pc[s] # "idle"
  /\ Return(s, Failed)
  /\ UNCHANGED db

(* 40001 from any statement or from the commit: certain on a stale row or  *)
(* key, possible anywhere, since SSI gives false alarms.                   *)
SerializationFailure(s) == Mode = "serializable" /\ InTx(s)

(* Mutants: the failed statement alone is retried; the retries are not     *)
(* counted.                                                                *)
MutRetryStatement(s) ==
  /\ SerializationFailure(s)
  /\ attempt[s] + 1 < MaxAttempts
  /\ Release(s)
  /\ attempt' = [attempt EXCEPT ![s] = @ + 1]
  /\ UNCHANGED <<db, pc, job, reply>>

MutRetryForever(s) ==
  /\ SerializationFailure(s)
  /\ attempt[s] + 1 < MaxAttempts
  /\ Release(s)
  /\ Goto(s, "begin")
  /\ UNCHANGED <<db, local, reply>>

Retry(s) ==
  /\ SerializationFailure(s)
  /\ attempt[s] + 1 < MaxAttempts
  /\ Release(s)
  /\ attempt' = [attempt EXCEPT ![s] = @ + 1]
  /\ Goto(s, "begin")
  /\ UNCHANGED <<db, job, reply>>

Exhausted(s) ==
  /\ SerializationFailure(s)
  /\ attempt[s] + 1 >= MaxAttempts
  /\ Return(s, Failed)
  /\ UNCHANGED db

-----------------------------------------------------------------------------
(* What the backend does for a call once it has begun.                     *)
Progress(s) ==
  \/ BeginTx(s) \/ ClaimKey(s) \/ KeyTaken(s) \/ ReadReplay(s)
  \/ LockAccount(s) \/ AllLocked(s) \/ RejectEntry(s) \/ CheckGuard(s)
  \/ PostLegs(s) \/ RejectPosting(s) \/ CommitTx(s) \/ CommitAnswerLost(s)

Step(s) == Progress(s) \/ Retry(s) \/ Exhausted(s)

(* The bound on the journal is reached and every call has returned.        *)
Terminating ==
  /\ Active = {} /\ Len(journal) >= MaxTxns
  /\ UNCHANGED vars

Next ==
  \/ \E s \in Session :
       \/ \E r \in Request, k \in Key \union {NoKey} : Refuse(s, r, k) \/ Call(s, r, k)
       \/ Step(s)
       \/ Abort(s)
  \/ Terminating

Spec == Init /\ [][Next]_vars

(* The next statement meets a row or key changed since the snapshot: it    *)
(* can only fail.                                                          *)
Doomed(s) ==
  \/ pc[s] = "claim" /\ keyLock[job[s].key] = NoHolder /\ StaleKey(s)
  \/ pc[s] = "lock" /\ \E a \in Account :
       IsNext(s, a) /\ rowLock[a] = NoHolder /\ StaleRow(s, a)

Forced(s) == Progress(s) \/ (Doomed(s) /\ (Retry(s) \/ Exhausted(s)))

(* A statement that can run does run; a session waiting for a lock gets it *)
(* if it is granted over and over, for Postgres queues the waiters of a    *)
(* row.  Clients need not call, nothing need be aborted, and there need be *)
(* no false alarms.                                                        *)
Fairness == \A s \in Session : SF_vars(Forced(s))

FairSpec == Spec /\ Fairness

-----------------------------------------------------------------------------
(* Types.                                                                  *)
Job == [req : Request, key : Key \union {NoKey},
        entry : [kind : Kinds, ref : Nat, legs : Seq(Legs)]]

Reply == [status : {"none", "ok", "rejected", "error"}, txn : Nat, replayed : BOOLEAN]

DbType ==
  /\ balance \in [Account -> Int64]
  /\ journal \in Seq(JournalEntry)
  /\ keyRow \in [Key -> [req : Request, txn : Nat] \union {NoRow}]

LockType ==
  /\ rowLock \in [Account -> Holder \union {NoHolder}]
  /\ keyLock \in [Key -> Session \union {NoHolder}]

SessionType ==
  /\ pc \in [Session -> {"idle", "begin", "claim", "replay", "lock", "guard",
                         "post", "commit"}]
  /\ job \in [Session -> Job \union {NoJob}]
  /\ \A s \in Session : pc[s] # "idle" => job[s] \in Job
  /\ DOMAIN seen = Session
  /\ \A s \in Session : /\ seen[s] \in [DOMAIN seen[s] -> Int64]
                        /\ DOMAIN seen[s] \subseteq Account
  /\ snap \in [Session -> Nat]
  /\ attempt \in [Session -> 0 .. MaxAttempts - 1]
  /\ reply \in [Session -> Reply]

(* Every variable keeps its type: a balance is an int64, a session locks   *)
(* existing rows only, and a call in flight has its job.                   *)
TypeOK == DbType /\ LockType /\ SessionType

-----------------------------------------------------------------------------
(* Safety.                                                                 *)

(* No update is lost: the cached balance of every account is the sum of    *)
(* its committed postings, modulo 2^64 (the second invariant of            *)
(* migrations/001_init.sql, and the (b) of settle.Reconcile).              *)
NoDrift ==
  \A a \in Account : balance[a] = Wrap(Derived(journal, a))

(* int64 overflow cannot corrupt an account that must not go negative: the *)
(* wrapped sum is negative and refused, so its balance is the exact sum.   *)
ExactWhereBounded ==
  \A a \in Account \ AllowNegative : balance[a] = Derived(journal, a)

(* No double-spend: an account that must not go negative never does,       *)
(* whatever the sessions that debit it concurrently.                       *)
NoOverdraft ==
  \A a \in Account \ AllowNegative : balance[a] >= 0

(* Conservation read from the cached balances, as SumBalancesByCurrency    *)
(* samples it during a load: in the currency of the accounts, not of the   *)
(* legs, they sum to zero.                                                 *)
ConservedBalances ==
  \A c \in Currency :
    Wrap(MapThenSumSet(LAMBDA a : balance[a], {a \in Account : CurrencyOf[a] = c})) = 0

(* The refunds of a payment never exceed what it captured, however many    *)
(* run at once (ops.Refund).                                               *)
RefundBound ==
  \A p \in DOMAIN journal : IsPayment(journal, p) =>
    RefundedSoFar(journal, Len(journal), p, MerchantLeg(journal[p]).acct)
      <= Captured(journal[p])

(* Exactly once: a key has one journal entry if its row is committed and   *)
(* none otherwise, and the row names that entry (PostEntryIdempotent).     *)
ExactlyOnce ==
  \A k \in Key :
    {n \in DOMAIN journal : journal[n].key = k} =
      IF keyRow[k] = NoRow THEN {} ELSE {keyRow[k].txn}

(* A client told "ok" was told the transaction that carries out its        *)
(* request, and every later answer under its key is that transaction.      *)
AnswersTrue ==
  \A s \in Session : reply[s].status = "ok" =>
    LET n == reply[s].txn
        k == job[s].key
    IN  /\ n \in DOMAIN journal
        /\ journal[n] = Posted(job[s].entry, k)
        /\ k # NoKey => keyRow[k] = KeyRow(job[s].req, n)

WaitsFor(s, t) ==
  \/ pc[s] = "claim" /\ keyLock[job[s].key] = t
  \/ pc[s] = "lock" /\ \E a \in Account : IsNext(s, a) /\ rowLock[a] = t

(* Keys first, then rows in ascending order: no set of sessions waits for  *)
(* each other, so Postgres never has to answer 40P01.                      *)
NoLockCycle ==
  \A S \in (SUBSET Session) \ {{}} :
    \E s \in S : \A t \in S : ~WaitsFor(s, t)

(* A transaction about to commit still sees the current balances of the    *)
(* rows it locked: nothing it computed from them is stale.                 *)
FreshReads ==
  \A s \in Session : \A a \in DOMAIN seen[s] :
    rowLock[a] = s /\ seen[s][a] = balance[a]

-----------------------------------------------------------------------------
(* What makes the safety properties inductive.                             *)

(* GetPaymentLegs finds both legs of every payment.                        *)
TwoSided(e) ==
  e.kind = "payment" =>
    /\ \E i \in DOMAIN e.legs : e.legs[i].amt > 0
    /\ \E i \in DOMAIN e.legs : e.legs[i].amt <= 0

PaymentShape ==
  /\ \A n \in DOMAIN journal : TwoSided(journal[n])
  /\ \A s \in Session : pc[s] # "idle" => TwoSided(job[s].entry)

(* A keyed call past claimKey owns its key, which nobody has used; one     *)
(* that waits for a key or replays it has a key.                           *)
OwnsKey ==
  \A s \in Session :
    /\ pc[s] \in {"claim", "replay"} => job[s].key # NoKey
    /\ pc[s] \in {"lock", "guard", "post", "commit"} /\ job[s].key # NoKey =>
         keyLock[job[s].key] = s /\ keyRow[job[s].key] = NoRow

(* What PostLegs checked still holds at the commit.                        *)
StillCovered == \A s \in Session : pc[s] = "commit" => Covered(s)

(* A transaction that posts has locked the row of every leg.               *)
RowsLocked ==
  \A s \in Session : pc[s] \in {"guard", "post", "commit"} =>
    LegAccounts(job[s].entry) \subseteq DOMAIN seen[s]

(* Who holds a lock has come past taking it, and rows are taken in order.  *)
LocksHeld ==
  /\ \A a \in Account : rowLock[a] \in Session => a \in DOMAIN seen[rowLock[a]]
  /\ \A k \in Key : keyLock[k] \in Session =>
       /\ pc[keyLock[k]] \in {"lock", "guard", "post", "commit"}
       /\ job[keyLock[k]].key = k
  /\ \A s \in Session :
       pc[s] \in {"idle", "begin", "claim", "replay"} => DOMAIN seen[s] = {}

Ascending ==
  \A s \in Session : pc[s] = "lock" =>
    \A b \in DOMAIN seen[s], a \in ToLock(s) : b < a

(* The legs of an entry are opposite pairs, in different currencies.       *)
Opposite(e, i) ==
  e.legs[i].cur = e.legs[i + 1].cur /\ e.legs[i].amt = -e.legs[i + 1].amt

Paired(e) ==
  \/ Len(e.legs) = 2 /\ Opposite(e, 1)
  \/ /\ Len(e.legs) = 4 /\ Opposite(e, 1) /\ Opposite(e, 3)
     /\ e.legs[1].cur # e.legs[3].cur

EntriesPaired == \A s \in Session : pc[s] # "idle" => Paired(job[s].entry)

(* What PostLegs checked of the currencies.                                *)
StillRight == \A s \in Session : pc[s] = "commit" => RightCurrency(job[s].entry)

(* What postEntryTx and the operations make sure of every entry: its rows  *)
(* exist and are of its currencies, and its legs balance.                  *)
JournalSound ==
  \A n \in DOMAIN journal :
    /\ LegAccounts(journal[n]) \subseteq Account
    /\ RightCurrency(journal[n])
    /\ Paired(journal[n])

(* The inductive invariant: each part needs the ones above it.             *)
IInv ==
  /\ TypeOK
  /\ PaymentShape
  /\ FreshReads
  /\ StillCovered
  /\ NoOverdraft
  /\ OwnsKey
  /\ ExactlyOnce

(* What a request's entry is built from is in the journal, and stays.      *)
Pinned(r) == r.op = "refund" => IsPayment(journal, r.payment)

(* The entry a call carries is the one its request still stands for: what  *)
(* it read before the transaction does not go stale.                       *)
EntriesCurrent ==
  \A s \in Session : pc[s] # "idle" =>
    Pinned(job[s].req) /\ job[s].entry = EntryFor(journal, job[s].req)

(* A committed key row names the entry its request stands for.             *)
KeysAnswer ==
  \A k \in Key : keyRow[k] # NoRow =>
    /\ Pinned(keyRow[k].req)
    /\ keyRow[k].txn \in DOMAIN journal
    /\ journal[keyRow[k].txn] = Posted(EntryFor(journal, keyRow[k].req), k)

(* A call that reads a stored answer finds one.                            *)
AnswerStored ==
  \A s \in Session : pc[s] = "replay" => keyRow[job[s].key] # NoRow

(* Inductive together with IInv: a replayed answer is the stored one, and  *)
(* what was stored is what the request of this call stands for as well.    *)
AnswerInv == EntriesCurrent /\ KeysAnswer /\ AnswerStored /\ AnswersTrue

(* The request of a call is one its operation still accepts, and a posting *)
(* has passed Entry.Validate.                                              *)
NotRefused ==
  \A s \in Session : pc[s] # "idle" => ~Refused(journal, job[s].req, job[s].key)

StillValid ==
  \A s \in Session : pc[s] \in {"guard", "post", "commit"} => Valid(job[s].entry)

(* prior + amount of refundGuard stays an int64 for every refund of every  *)
(* payment.                                                                *)
RefundsFit ==
  \A p, r \in Request : p.op = "payment" /\ r.op = "refund" => p.amount + r.amount <= MaxInt

(* What the journal says of refunds: those of a payment are bounded, what  *)
(* it captured is what its request asked for, and they come after it.      *)
PaymentsAsked ==
  \A p \in DOMAIN journal : journal[p].kind = "payment" =>
    \E r \in Request : r.op = "payment" /\ Captured(journal[p]) = r.amount

RefundsFollow ==
  \A n \in DOMAIN journal : journal[n].kind = "refund" => journal[n].ref \in DOMAIN journal

(* What refundGuard checked holds until the commit.                        *)
GuardMet(s) ==
  LET e == job[s].entry IN
  RefundedSoFar(journal, Len(journal), e.ref, e.legs[1].acct) + job[s].req.amount
    <= Captured(journal[e.ref])

GuardsMet ==
  \A s \in Session :
    pc[s] \in {"post", "commit"} /\ job[s].entry.kind = "refund" => GuardMet(s)

(* Nothing was posted to a locked row since the snapshot.                  *)
SnapCurrent(s) ==
  Mode = "serializable" =>
    /\ snap[s] <= Len(journal)
    /\ \A a \in DOMAIN seen[s] : \A i \in snap[s] + 1 .. Len(journal) :
         a \notin LegAccounts(journal[i])

AmountsPositive == \A s \in Session : pc[s] # "idle" => job[s].req.amount > 0

RefundInv ==
  /\ RefundBound /\ PaymentsAsked /\ RefundsFollow
  /\ GuardsMet /\ AmountsPositive
  /\ \A s \in Session : SnapCurrent(s)

-----------------------------------------------------------------------------
(* The abstract specification: balances, locks, sessions and attempts are  *)
(* gone, each CommitTx is one Post, and every other step stutters.         *)
Atomic == INSTANCE AtomicLedger WITH
  NoRequest <- NoRow,
  keyed <- [k \in Key |-> IF keyRow[k] = NoRow THEN NoRow ELSE keyRow[k].req],
  settled <- {},
  PayoutAccount <- [c \in Currency |-> NoAccount]

(* Every commit of the concurrent sessions is one legal operation on the   *)
(* journal as it is at that moment: all its checks still hold then.        *)
RefinesAtomic == Atomic!Spec

-----------------------------------------------------------------------------
(* Liveness.                                                               *)

(* Every call returns: neither the locks nor the retry loop hold a session *)
(* forever.                                                                *)
EveryCallReturns == \A s \in Session : pc[s] # "idle" ~> pc[s] = "idle"
=============================================================================
