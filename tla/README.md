# LedgerCore: TLA+ models, checks and proofs

LedgerCore is a double-entry ledger and payments backend in Go on Postgres.
This directory holds its formal model: what the code does when requests run
concurrently, fail, are retried or are sent twice, and when a settlement or a
reconciliation runs beside them.

## 1. The system

| Part | Source | State it keeps | Operations |
|---|---|---|---|
| schema | `migrations/001_init.sql` | the five tables | |
| ledger types | `internal/ledger/types.go` | none | `Entry.Validate` |
| money | `internal/money` | none | `Rate.Convert`, parsing, formatting |
| transaction loop | `internal/store/store.go` | isolation mode, connection pool | `runInTx`, `Reset`, `Migrate` |
| posting | `internal/store/postings.go` | `accounts.balance`, `transactions`, `postings` | `postEntryTx`, `lockAccounts` |
| idempotency | `internal/store/idempotency.go` | `idempotency_keys` | `claimKey`, `readReplay`, `PostEntryIdempotentGuarded` |
| payments | `internal/store/payments.go` | none | `GetPaymentLegs`, `RefundedSoFar` |
| operations | `internal/ops` | none | `Transfer`, `Payment`, `Refund`, `ConvertFX`, `EnsureInfra` |
| settlement | `internal/store/settlement.go` | `settlement_batches`, the settled flags | `RunSettlement` |
| reconciliation | `internal/settle`, `internal/store/queries.go` | none | `Reconcile` |
| accounts | `internal/store/accounts.go` | `accounts` | `CreateAccount`, `EnsureAccount`, `AccountLedger` |
| HTTP API | `internal/api` | none | one handler per endpoint |
| load harness | `internal/loadgen`, `cmd/loadgen` | its counters | `Run`: seed, storm, monitor, final checks, trials |
| server | `cmd/ledgerd` | none | migrate, provision, listen |

**How they interact.** A handler calls an operation of `ops`; the operation
checks its arguments, reads what it needs through the pool (the legs of a
payment, the two accounts of a conversion), builds an `Entry` and hands it to
the store. The store runs one transaction per attempt: claim the key (if there
is one), validate, lock the rows of every account in ascending id order, run
the refund guard, check, insert, update, commit. There is no shared memory
between requests: the only state they share is in Postgres, and they meet on
the row locks of `accounts` and on the unique index of `idempotency_keys`. A
settlement takes the same row locks. `Reconcile` takes none, and neither does
an account statement. The accounts of the infrastructure (the outside world, an
FX position and a payout rail per currency) are found by name; every server
process makes sure of them before it listens. The load harness is a client that
links the store in and draws conclusions about it from its own counters.

**What is hard.** Two transactions between whose read and write of a balance
another commits; lock orders; two submissions of one key; a commit that takes
effect while the client sees an error; snapshots older than the locks in
SERIALIZABLE mode, with a retry at any statement; a refund that commits while a
settlement nets its payment; the arithmetic of `int64`, in balances, in
conversions and in the digits of an amount; five reconciliation queries on five
snapshots; a server that stops halfway through its provisioning while others
serve; two servers that create the tables at once; a monitor that samples while
transfers commit. `PROJECT.json` lists each such hazard at the line where it
bites, with the properties that would catch it going wrong.

**What makes each part correct.**

* posting: no lost update, no overdraft of an account that must not go
  negative, no deadlock, conservation in every currency, every call returns;
* idempotency: one journal entry per key, and answers that are true;
* refunds: never more than was captured;
* settlement: each payment paid out once, net of exactly the refunds that
  committed before the batch; a batch is all or nothing;
* reconciliation: no false verdict on the journal, and drift reported only
  where a posting has just happened; a statement adds up but for the postings
  newer than its balance;
* money: what is printed reads back, reading is exact as long as the amount
  fits, conversion rounds to the nearest unit (but for the smallest int64);
* provisioning: whoever is served finds every infrastructure account as it
  should be, no client owns one of their names, a start succeeds after any
  crash, and only ever fails because another server created the tables;
* harness: what it reports of a correct ledger is true.

## 2. The modules

```
Money ------ Ledger ----- Posting ------ LedgerCore (with Netting)
  |             |            \---------- Reconcile ---- Harness
  |             +-------- Netting ------ AtomicLedger   (abstract; Posting and
  |                                                      LedgerCore implement it)
  +--------- MoneyCalls
Provisioning

MCPosting, MCLedgerCore, MCReconcile, MCHarness, MCMoney, MCProvisioning
                                                 (instances for TLC)
MoneyLemmas --- PostingProofs --- RefinementProofs --- SettlementProofs
     |                                   \---------- ReconcileProofs --- HarnessProofs
     \--- MoneyProofs
ProvisioningProofs                               (theorems)
```

* **Money** is `internal/money`: integers are two's complement with `MaxInt` in
  the place of 2^63 - 1 (`Wrap`), `Convert`, and the reading and printing of
  amounts, where a character is a digit or not. **MoneyCalls** is a caller: it
  reads a string, prints an amount and reads it back, or converts.
* **Ledger** is the data: accounts (constants: `Account`, `CurrencyOf`,
  `AllowNegative`, `FXAccount`), requests, entries, and what the code computes
  on them: `Valid` (`Entry.Validate`), `Refused` and `EntryFor` (what each
  operation checks and builds), `RefundedSoFar`, `Derived`. `Wrap` stands
  wherever the code adds in `int64`, and nowhere SQL adds in `numeric`.
* **Posting** is the write path. A *session* is a request in flight with its
  goroutine and its connection; `pc` says which statement is next. `balance`,
  `journal` and `keyRow` are committed data only. What a transaction has
  written is a function of its session's state, and `Publish`, at the commit,
  makes it visible. `rowLock` and `keyLock` are Postgres's locks.

  | Action | Code |
  |---|---|
  | `Refuse`, `Call` | the checks and reads of `ops` before the transaction |
  | `BeginTx` | `BeginTx` in `runInTx`, and the snapshot |
  | `ClaimKey`, `KeyTaken` | the two outcomes of `claimKey` |
  | `ReadReplay` | `readReplay`: the stored answer or a conflict |
  | `LockAccount`, `AllLocked`, `RejectEntry` | `Validate` and `lockAccounts`, row by row |
  | `CheckGuard` | `refundGuard` |
  | `PostLegs`, `RejectPosting` | steps 3 to 6 of `postEntryTx` |
  | `CommitTx`, `CommitAnswerLost` | `tx.Commit`, answered or not |
  | `Retry`, `Exhausted` | the 40001 branch of `runInTx` |
  | `Abort` | every other error: lost connection, cancelled context, server restart |

* **Netting** is the queries of `RunSettlement` as functions of the journal.
* **LedgerCore** adds *settlers*, `/settle` requests that run beside the
  sessions on the same rows: `CandidateMerchants`, `SLockAccount`,
  `ComputeNets`, `PendingIds`, `PayOut` and `CommitBatch` follow the numbered
  comments of `RunSettlement`.
* **Reconcile** adds two jobs that only read, one action per query: the
  reconciliation, and `AccountLedger` (`ReadAccount`, `ReadLines`), which reads
  the balance in one statement and the newest postings in the next.
* **Harness** is `loadgen.Config.Run` on top of both. `phase` is where `Run`
  is: `Seed` and `Seeded` fund the shared accounts one payment at a time,
  `WorkerCall` and `WorkerCounts` are the workers, `MonitorChecks`,
  `MonitorSums` and `MonitorSubset` the monitor between two looks at the
  channel, `StormEnds` and `MonitorGone` the two waits, `FinalSample`,
  `Reconciles` and `FinalReport` the final checks, `TrialCall`, `TrialNotes`
  and `TrialEnds` the idempotency trial. A goroutine's call is a `Call` of
  Posting, so it may be refused, abort, or commit and lose its answer. The
  sessions are used twice: as the workers, then as the duplicates.
* **Provisioning** is where the accounts come from: servers that run
  `Migrate`, then `EnsureInsert` and `EnsureSelect` for each account of
  `Infra`, then `Listen`; `Stop` at any statement, with `Start` again. On an
  empty database the migration takes a second step: it commits its tables
  (`TablesCreated`), or another server has committed the same tables since it
  looked, CREATE TABLE IF NOT EXISTS fails with 23505 from the catalog, and
  `log.Fatalf` ends the process (`CreatedMeanwhile`). There are clients
  whose `CreateAccount` races with both and may lose its answer. It keeps names,
  currencies and `allow_negative` and knows nothing of balances. What the other
  modules assume of their constants (`FXAccount`, `PayoutAccount`,
  `CurrencyOf`, `AllowNegative`) is its property `Provisioned`.
* **AtomicLedger** is the abstract specification: a journal, the keys used and
  the payments settled. `Post` and `Settle` are single steps whose guards look
  at the journal as it is: `postEntryTx` would accept what they post
  (`Postable`). There are no cached balances, locks, snapshots, sessions or
  wrap-around, so implementing it says that none of those shows in the journal,
  the keys or the batches. Cached balances are not part of it: the balance of an
  account that may go negative can be read, and one that has wrapped reads
  wrapped (`NoDrift`).

Postgres is modelled from how the code uses it: FOR UPDATE waits for the
holder and reads the current row; ON CONFLICT DO NOTHING waits for an
uncommitted row of the same key; in SERIALIZABLE mode every statement sees the
transaction's snapshot, and locking, updating or conflicting with a row changed
since then fails with 40001. SSI may also fail any statement or commit
spuriously, so 40001 is possible everywhere. The model never *relies* on SSI
aborting a dangerous structure: it allows every execution in which it does not.
A restart of the database is an `Abort` of every session.

## 3. The runs

Safety runs on `Posting` use two sessions, which is where two-party races
show, three accounts and two or three committed transactions. The bound on the
journal (`MaxTxns`) counts calls in flight, so that a call once begun is never
cut off by it; refused, failed and aborted calls do not count, so there are
arbitrarily many of them.

| Run | Instance | Shows |
|---|---|---|
| `posting_transfers` | READ COMMITTED, 2 sessions, 3 transfers both ways between the same accounts, 1 key, `MaxInt = 3`, fairness | `TypeOK`, `NoDrift`, `ExactWhereBounded`, `NoOverdraft`, `ExactlyOnce`, `AnswersTrue`, `NoLockCycle`, `RefinesAtomic`, `EveryCallReturns` |
| `posting_refunds` | READ COMMITTED, 2 sessions, 2 keys, a payment to a merchant that may go negative (only the guard holds refunds back), refunds of half and of all, a payment to an unknown account and one in an unknown currency | `RefundBound`, `FreshReads`, `IInv` and `AnswerInv` (the invariants of the proofs), `RefinesAtomic` |
| `posting_serializable` | the refunds in SERIALIZABLE mode, 2 attempts, fairness | `RefinesAtomic` (whose guards include the refund bound), `EveryCallReturns` |
| `core_rowlock` | READ COMMITTED, 1 session, 2 settlers, 2 merchants on one rail, one of which pays the other, full and partial refunds, 2 batches | `SInv` (the settlers' half of the invariant of the proofs), `PaidOnce`, `PaidNet`, `NoDrift`, `NoOverdraft`, `NoCoreLockCycle`, `CoreRefinesAtomic` |
| `core_serializable` | the same with snapshots and retries, one payment and its full refund, fairness | `CoreRefinesAtomic`, `EverySettlementReturns` |
| `reconcile` | 2 sessions, 2 currencies with their FX positions and one request for each way to be refused, while the reader reads; statements of at most 1 and of at most 3 lines | `ConservedBalances`, `DriftIsRecent`, `JournalChecksHold`, `StatementAddsUp` |
| `money` | 12-bit integers: every amount, every string of up to 4 + 3 characters from 0, 1, 9 and a letter, rates with terms from -1 to 100 | `RoundTrip`, `ParseExact`, and `RoundsToNearest` for every amount but the smallest integer |
| `provisioning` | 2 servers, 2 stops, 2 clients, 1 currency (3 accounts), every name the clients can choose, the empty one too, fairness | `Provisioned`, `NamesReserved`, `CreatedAsAsked`, `StartupSucceeds` |
| `harness` | 2 workers with 2 transfers each on 2 shared accounts that hold one transfer each, the monitor, then 2 duplicates of each of 2 keys, fairness | `NoFalseAlarm`, `CountsTrue`, `TrialsTrue`, `HarnessReturns` |

Why the bounds are enough: every race named among the hazards needs two
parties and one or two rows, and each property is violated, within these
bounds, by a version of the code with the corresponding mistake (the operators
named `Mut...` beside the definitions they replace). `MaxAttempts = 2` gives
one retry and one exhaustion; the code's 25 only repeats the first. `MaxInt` is
100, out of reach, except where wrap-around is the question:
`posting_transfers`, `overflow_refund` and `money`, whose 12 bits let an amount
overflow in the middle of its digits. A digit is 0, 1 or 9: the least, the
greatest, and one that makes a tie. In `harness` two transfers out of one
account exceed what it holds, so that some are refused, and each call may fail
or lose its answer. Two stops in `provisioning` let one server crash twice, or
both once, before or after the other. Symmetry of sessions, keys and settlers is
used only where no liveness is checked.

### Where code and words differ

Three runs state something that a comment says and find an execution that
contradicts it:

* `overflow_refund`: `prior+amount` in `refundGuard` wraps and passes, so a
  refund of nearly 2^63 can exceed the captured amount (`ops.go:80-81`), when
  the merchant's balance covers it.
* `settlement_blocked`: pay 2, settle, pay 2, refund the first payment. The
  merchant holds 0 and its pending payments net to 2, so the payout fails for
  want of funds, and with it the payouts of every other merchant
  (`settlement.go:32-34`, "pays out each merchant's still-owed net").
* `reconcile_alarm`: a posting commits between `StoredBalances` and
  `RecomputedBalances`, and a consistent ledger is reported as drifted
  (`reconcile.go:41-42`). The harness reconciles after its workers have
  returned, and there the alarm cannot happen (`NoFalseAlarm`).

Three more disagreements are in the arithmetic of `internal/money`. They have no
run of their own; the model computes as the code does, and the properties make
the exceptions that the comments do not:

* The smallest int64 in `Convert` (`fx.go:41-54`). Negating it has no effect, so
  half a unit is added to a negative product and the sign is turned at the end:
  at the rate 1/2 the answer is +(2^62 - 1), although -2^62 fits. `fx.go:28-30`
  promises the exact result rounded half away from zero. `RoundsToNearest`, and
  `ConversionsRound` with it, says nothing of that amount; without the condition
  `call.amt # MinInt` the run `money` finds it violated at once. `ConvertFX`
  refuses amounts that are not positive, so the ledger does not meet it.
* A converted amount that does not fit is cut to its low 64 bits by `q.Int64()`
  (`fx.go:51`), without an error. `RoundsToNearest` is about converted amounts
  that fit. The ledger posts the others as they come out if they are positive
  (`FXPossible`), in entries that balance all the same.
* `ParseMajor` reads a string whose amount does not fit as another amount, off by
  a multiple of 2^64, without an error: "92233720368547758.08" as -2^63. Its
  comment (`money.go:69-71`) promises exact minor units. `ParseExact` is exact
  only where the amount fits. Nothing but the tests calls `ParseMajor`.

`migrations/001_init.sql:6` says the cached balance of an account equals the
sum of its postings. `NoDrift` is that sum modulo 2^64: an account that may go
negative is not checked and wraps beyond the smallest int64. `ExactWhereBounded`
is the sum itself for an account that may not: a wrapped sum is negative, and
refused. A key of the harness's trial that nobody was answered for takes one
from its count of duplicates (`checks.go:124`), so a duplicate of another key
could be hidden; `TrialsTrue` states the verdict with that in it.

### Fairness

`Fairness` is strong fairness of each session's `Progress`: a statement that
can run eventually runs, and a session that waits for a row or a key gets it if
it is granted over and over, because Postgres queues the waiters of a lock.
Weak fairness would not do: the lock may be taken by others in between. A
statement that meets a change newer than its snapshot does fail (`Doomed`), but
no false alarm is ever forced, so a session cannot get out of a wait by failing.
Nothing is assumed of clients (`Call`) or of `Abort`: neither need happen.
`CoreFairness` is the same for settlers. In `Harness` the goroutines of the
program itself are weakly fair, which is what the Go scheduler gives. In
`Provisioning` a started server goes on and a request reaches the database;
nobody has to start a server, and `Stop` is bounded, not fair: `StartupSucceeds`
is about the starts after the last stop. It does not say that every start
succeeds. One on a database that has its tables does; of those on an empty
database all but one may lose the creation of the tables (`CreatedMeanwhile`),
and the property says that then another server comes to serve. A loser is not
started again by the model, nor by `main`; the next start finds the tables.

## 4. What is proved

TLAPS proves, for every set of accounts, sessions, keys and requests, every
`MaxInt`, every bound and both modes, and for every set of servers, clients,
names and currencies:

| Theorem | Module | Property |
|---|---|---|
| `Inductive` | `PostingProofs` | `IInv` |
| `TypeCorrect` | | `TypeOK` |
| `LockedReadsAreFresh` | | `FreshReads`: no lost update |
| `NoDoubleSpend` | | `NoOverdraft` |
| `KeysPostOnce` | | `ExactlyOnce` |
| `AnswersInductive` | | `AnswerInv` |
| `AnswersAreTrue` | | `AnswersTrue` |
| `NoDeadlock` | | `NoLockCycle` |
| `BalancesAreSums` | `RefinementProofs` | `NoDrift` |
| `BoundedBalancesAreExact` | | `ExactWhereBounded`: no overflow |
| `RefundsNeverExceed` | | `RefundBound` |
| `PostingIsAtomic` | | `RefinesAtomic`: the write path is linearizable |
| `BalancesConserved` | | `ConservedBalances`: no money is made or lost |
| `CoreInductive` | `SettlementProofs` | `SInv` (with `SettlementTypeOK`), and what is known of the clients |
| `ClientsUnharmed` | | the invariants above, beside settlements |
| `ConservedBesideBatches` | | `ConservedBalances`, beside settlements |
| `NothingPaidTwice` | | `PaidOnce` |
| `BatchesPayTheNet` | | `PaidNet` |
| `NoCoreDeadlock` | | `NoCoreLockCycle` |
| `RefundsNeverExceedBesideBatches` | | `RefundBound`, beside settlements |
| `LedgerIsAtomic` | | `CoreRefinesAtomic`: the whole ledger is linearizable |
| `AtomicBooksInOrder` | | `CoreRefinesAtomic => []BooksInOrder`: what the abstract ledger is good for |
| `ChecksNeverFail` | `ReconcileProofs` | `JournalChecksHold` |
| `ReportedDriftIsRecent` | | `DriftIsRecent` |
| `StatementsAddUp` | | `StatementAddsUp` |
| `ReadersOnlyRead` | | `RecSpec => Spec`: the readers change nothing |
| `RunIsClient` | `HarnessProofs` | `HSpec => RecSpec`: the harness is a client and a reader |
| `SamplesAreTrue` | | `NoFalseAlarm` |
| `CountersAreTrue` | | `CountsTrue` |
| `VerdictsAreTrue` | | `TrialsTrue`: what the counters of the trials say |
| `ConversionsRound` | `MoneyProofs` | `RoundsToNearest`: every amount but the smallest int64, of which it says nothing |
| `ParsingIsExact` | | `ParseExact`: what is read is what is written, modulo 2^64 |
| `PrintedIsReadBack` | | `RoundTrip`: every int64 but the smallest is read back |
| `ProvisioningInvariant` | `ProvisioningProofs` | `ProvisioningInv` |
| `AccountsProvisioned` | | `Provisioned` |
| `InfraNamesReserved` | | `NamesReserved` |
| `AccountsAsAsked` | | `CreatedAsAsked` |

from the assumptions named in `Money`, `Ledger`, `Netting`, `Posting`,
`LedgerCore`, `Reconcile`, `Harness`, `MoneyCalls` and `Provisioning` (ids are positive
numbers, `NoKey` is no key, `MaxInt` is positive, requests carry values of
their types, at least one attempt, finitely many sessions and settlers). Four
theorems have one condition more, `RefundsFit`: a payment's amount and a
refund's together fit an int64. They are the two refund bounds and the two
refinements of `AtomicLedger`; `overflow_refund` shows that they need it. The two about
conservation say of a set of accounts that its balances add up to 0, and ask
that it is finite; those of the harness assume it of `Account`
(`HarnessAssumption`), with what `loadgen.Config` asks for: at least two shared
accounts, in one currency, that may not go negative, and a seed of all of them
that fits an int64.

The argument. `NoOverdraft` is not inductive: a session about to commit may
have read anything. What makes it so is `StillCovered` (what `PostLegs` checked
holds at the commit), and for that `FreshReads`: whoever has a balance in hand
holds the row's lock, and the balance is the committed one. A commit by `t`
changes rows that `t` locks, hence none that `s` has read. `ExactlyOnce` needs
`OwnsKey`: a call past `claimKey` is the one owner of a key that has no
committed row, so the entry it publishes is the key's first. `TypeOK` needs
`PaymentShape`: a refund reads both legs of its payment from the journal.
`IInv` is the conjunction, in that order; each action has a lemma, and the
quiet ones (`MoveQuiet`, `ReturnQuiet`) share two.

`AnswersTrue` is about replays: the answer comes from a row that another call
wrote, perhaps before this call was sent. What ties the two is the request.
`KeysAnswer` says that a committed row names the entry its request stands for,
`EntriesCurrent` that a call carries the entry its request stands for, although
a refund read the legs of its payment before its transaction. Both survive a
commit because the journal only grows and a payment in it does not change
(`EntryStable`). `readReplay` compares the requests, so the entries are equal.
`AnswerInv` is inductive given `IInv`, which says that a key is answered for by
one entry.

`NoDrift` compares a balance with a recursive sum over a journal of any length.
`Total` is defined by CHOOSE of a function that satisfies its recursion, so
`RefinementProofs` first shows that there is one, and that any two agree, both by
looking at the least number for which it fails (`LeastNumber`, from the
well-foundedness of <). What remains is `DerivedAppend`: one entry adds its
delta. A commit adds the same delta to the balances of the rows it locked,
which `FreshReads` says are current, and `RowsLocked` says that a session that
posts has locked the row of every leg, so the deltas of the others are 0.
`WrapAdd` lets the wrap-around of one sum pass into the next.

`ExactWhereBounded` is the same without the wrap-around, for the accounts that
may not go negative. Every operation builds an entry whose legs come in opposite
pairs, a conversion's two pairs in different currencies (`Paired`), and
`PostLegs` has checked that a leg is in its account's currency; so at most one
pair touches an account, and what the entry adds to it is an int64
(`PairedDelta`). A balance that is not negative plus an int64 wraps only into
the negative numbers, and `postEntryTx` looks at the sum after the addition
(`SumFits`): what it lets through has not wrapped.

`NoLockCycle` is about sets of sessions of any size. `LocksHeld` says who can
hold a lock: a session that has not come to its rows holds none, and one that
owns a key is past `claimKey`. So somebody who waits for a key waits for a
session that waits for no key, and a set in which all wait has one that waits
for a row. Of those take the one that waits for the greatest row. Its holder
waits for a row too, and by `Ascending` for a greater one than any it holds:
a contradiction. The greatest exists because there are finitely many sessions.

`RefundBound` needs what refundGuard computed to stay true until the commit
(`GuardMet`). Between the two nobody else refunds the payment, because a refund
debits the merchant, whose row the session holds. In SERIALIZABLE mode the guard
reads a snapshot that may be older than the lock: `SnapCurrent` says that no
entry since the snapshot touches a row that was locked since, or the lock would
have failed with 40001, so the snapshot misses no refund of this payment
(`GuardSeesAll`). `PaymentsAsked` and `RefundsFit` keep the guard's sum from
wrapping, and `RefundsFollow` starts a new payment with no refunds.

`PostingIsAtomic` puts all of it together. A commit is a `Post` of
`AtomicLedger`, whose guards look at the journal as it is then, while each of
them was established earlier: the operation's checks before the transaction
(`NotRefused`, stable as the journal grows), `Entry.Validate` (`StillValid`),
the currencies and the new balances in `postEntryTx` (`Exact`, with
`StillCovered` and `SumFits`), the guard (`GuardMet`), the free key (`OwnsKey`).
Every other step changes neither the journal nor a key's row. All guards being
true of the exact sums, no wrap-around, stale read or retry shows in what is
posted.

`ConservedBalances` is about sums over sets of accounts, and the fold over a set
is again a CHOOSE of a recursive function, this time on the subsets.
`SubsetInduction` shows what is needed of them: it looks at a least subset that
fails. The rest is exchanging two sums. An entry's legs are opposite pairs
(`Paired`), each in its account's currency (`RightCurrency`), so it adds 0 to the
sum over the accounts of a currency (`EntrySum`, `PairedNet`); the balances are
the sums of the postings modulo 2^64 (`NoDrift`), and a sum may wrap before it
is added up or after (`SetSumWrap`).

**Settlements.** The invariant of `LedgerCore` has two halves. What is known of
the clients (`ClientInv`: the invariants above but for `RefundInv`, which has a
condition and is carried along separately) has to survive `CommitBatch`, which appends many
entries at once and writes the balances it has computed one payout after the
other; `BatchCommits` and `DerivedJoin` say that it is the sum of its payouts,
and `BatchExact` that none of them has wrapped. What is known of a settler (`SettlerInv`)
has to survive the commits of clients and of other settlers. `NetsCurrent`, the
heart of it, says that nets and payments computed from the journal are what one
would compute now: the net of a merchant depends only on its payments and
their refunds, all of which touch the row of the merchant
(`RefundsOnMerchant`), and that row is locked (`SRowsLocked`), so every entry
committed meanwhile leaves it alone (`NetFrozen`, `Undisturbed`). In
SERIALIZABLE mode the settler looks at a snapshot that may be older than its
locks, and `SSnapCurrent` bridges the time between.

`PaidOnce` then needs only that a payment is still unmarked when the batch
commits: whoever else would mark it has locked the same merchant. `PaidNet`
compares the debits in a batch with the nets at its commit (`PayoutSums`: one
payout per merchant that is owed something), and both stay what they are as the
journal grows (`PaidStays`). `NoCoreLockCycle` is the argument of `NoLockCycle`
over sessions and settlers together: a settler claims no key and takes its rows
in ascending order like everybody else (`OneOrder`).
`LedgerIsAtomic` adds `Settle` to the steps of `PostingIsAtomic`. The abstract
batch pays each merchant out of its balance at that moment, in one step; that
every payout is covered on its own follows from `Payable`, which `PayOut` checked
one after the other, because no other payout of the batch moves the balance of
the merchant it debits (`OtherPayouts`, `PayoutsAffordable`).

A refinement is worth what its abstract specification says. `AtomicBooksInOrder`
is about `AtomicLedger` alone: its guards keep the books in order (`BooksInOrder`),
with exact sums and without the condition on refunds, however they are
implemented. `AbstractInv` is inductive for `Post` and `Settle`: an entry a
request stands for balances (`EntryForPaired`), a refund adds to the refunds of its
payment what `WithinCaptured` allowed (`RefundTakes`), and in a batch at most one
payout takes from an account (`SettleOwesNothing`), so that what each could bear on
its own they can bear together. It asks that accounts are finitely many and that
the value for "not used" is no request.

**Reconciliation.** The readers change nothing, so `RecSpec` implements `Spec`
(`ReadersOnlyRead`), and at every moment the journal is sound and the balances
are its sums. Both checks made in one statement therefore pass (`NetsZero`).
The drift check compares balances of one moment with sums of another, and
`ReportInv` ties them: a balance that was read and is no longer the current one
was moved by an entry committed since (`MovedByCommit`: by `NoDrift` before and
after, an account in no new entry has the balance it had).

A statement needs what its balance stood for when it was read: `StatementInv`
keeps it as the sum of the first `stm.at` entries, which later postings do not
change. Its lines are the postings of the journal joined entry by entry
(`FlattenJoins`, one more recursion treated by a least counterexample), turned
round and cut off. `Listing` says of every prefix of the journal that its lines
are in order, that none is missing, and that those of the first entries add up to
what these entries add to the balance; `TotalReverse` that a sum is the same from
either end. The order is what makes a page complete down to its last line.

**The harness.** `Run` is a client of `Posting` and a reader of `Reconcile`
(`RunIsClient`), so what was proved of both holds below it (`BelowHolds`). What
it needs besides is in `HInv`, one part for each thing a program with lost
answers knows of its calls. `CallsAsked`: a call it has not looked at carries
the request of the phase it is in, and nothing else is running. `MoneyPlaced`:
until the trials the shared accounts hold what the answered seeds put there,
because transfers between them keep their sum (`TwoLegsSum`, `SharedAppend`); as
they may not go negative and the seeds fit an int64, every balance is exact
(`BalancesExact`), and no sample shows a violation, whichever commits it falls
between (`SamplesShowNothing`). `ReportedAtRest`: nobody posts while the
reconciliation runs, so that the report is of one moment and `NoDrift` makes it
ok. `Accounted` puts the answers not yet counted beside the counters: a transfer in
the journal is counted, answered ok, or behind an error, and an error may have
its transfer or not, which is why `CountsTrue` has bounds and no equation.
`TrialAnswers`: all answers on a key name the transaction in its row
(`AnswersTrue`, `KeysStay`), so the set of answers has at most one element.

`RoundsToNearest` is the one fact about `Convert` that needs non-linear
arithmetic: truncating (f * num + den div 2) / den and taking the nearest
integer to f * num / den are the same number, because both lie in the same
interval of length den (`HalfUp`, `DivUnique`). The wraps in between come to one
(`WrapNegated`) and change nothing of a result that fits.

`ParseExact` and `RoundTrip` are about strings of any length. A sequence of digits
*reads* a sequence of numbers (`Reads`: the first is 0, each next one ten times the
last plus a digit); there is one, and only one (`ReadsExist`, `UpTo`, by the least
length that fails). The digit loop of `ParseMajor` computes the same numbers modulo
2^64 (`ReadDigitsIs`), since a wrap before the next digit or after it is the same
wrap (`WrapTimes`, `WrapShift`), and `DigitSum`, where each digit counts for its own
power of ten, is what is read (`DigitSumIs`, `PaddedReads`). Two
numbers that agree modulo 2^64 and are both int64s are equal, hence `ParseExact`.
In the other direction, `DigitsOf` divides by ten
until nothing is left, so what it prints reads as the number it was given
(`DigitsOfIs`, `DivTen`); the smallest int64 is its own negation (`WrapNegated`), is
printed with two minus signs, and is refused. `ReadAnswered` is the inductive invariant: the answer a
caller holds is the one computed from the string it holds.

`ProvisioningInv` is what a server has achieved at each point of its start
(`StepsDone`), and that an infrastructure name only ever belongs to the account
EnsureInfra asks for. The second is what makes the first worth something:
`EnsureSelect` takes any account of the name. It holds because no client is
served before every name is taken (`TypeOK`: a request is at a server that
serves), rows are never removed, and `CreateAccount` refuses a name that is
taken.

Only model-checked: liveness (`EveryCallReturns`, `EverySettlementReturns`,
`StartupSucceeds`, `HarnessReturns`), which like ENABLED is beyond TLAPS. So is
induction over data by the library's theorems: sums and strings of digits are
treated by a least counterexample instead. Every safety property a passing run
checks is proved.

## 5. What is not modelled

* The id of a transaction is its position in commit order. Gaps that rolled
  back transactions leave in identities, and ids assigned in another order than
  commits, change no decision the code takes. `.key` of a journal entry and
  `.at` of a batch exist for the properties only.
* In the modules that move money accounts are there from the start; how they
  come to be is `Provisioning`. The kind of an account decides nothing. JSON,
  status codes beyond ok, rejected and error, memos and stored response bodies
  (the transaction id stands for them) are left out, and so are `Counts`,
  health and the read of a single balance, which report and decide nothing.
* `HashRequest` is taken to be injective, and the pool never to run dry: no
  statement of a transaction asks it for a second connection.
* Error 40P01 is retried like 40001 but never arises: `NoLockCycle` and
  `NoCoreLockCycle` show that Postgres has no deadlock to break.
* Of the load harness: latencies, throughput, flags, result files, and the
  keyed payments' amount (1 stands for 100). `Reset` truncates a database that
  a running ledgerd may be using; the model, like the scripts, gives the harness
  a database of its own.
* The test helpers and the embedding of the schema.

## 6. Plan

1. Done: `Money`, `Ledger`, `Posting`, `AtomicLedger`, `Netting`, `LedgerCore`,
   `Reconcile`, `Harness`, `Provisioning`, their runs, and the proofs of section 4.
2. What could follow: the handlers of the HTTP API below the operations (their
   parsing of bodies and their status codes), and a pool that may run dry.
