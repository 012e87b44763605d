----------------------------- MODULE LedgerCore -----------------------------
(***************************************************************************)
(* The client operations of Posting together with store.RunSettlement: a   *)
(* settler is a /settle request.  It runs in the same loop (runInTx), on   *)
(* the same rows and locks, and publishes its payouts, the settled         *)
(* payments and the batch in one commit.                                   *)
(***************************************************************************)
EXTENDS Posting, Netting

CONSTANTS
  Settler,     \* settlement runs in flight
  MaxBatches   \* bound of the model: the number of settlement batches

ASSUME SettlerAssumption ==
  /\ Settler \subseteq Holder /\ Settler \intersect Session = {}
  /\ IsFiniteSet(Settler)
  /\ MaxBatches \in Nat

VARIABLES
  settled,   \* payments with settled = true and pending_settle = false
  batches,   \* settlement_batches, with the payments that carry their id and
             \* .at, the journal's length before the payouts, for the properties
  spc,       \* the next statement of a settler
  run,       \* what it has read: merchants, their nets, the pending payments
  sseen,     \* the rows it has locked, with the balance read
  sview,     \* serializable: its snapshot
  sattempt   \* its loop counter in runInTx

svars == <<settled, batches, spc, run, sseen, sview, sattempt>>
cvars == <<pc, seen, snap, local, reply>>
allvars == <<vars, svars>>

NoRun == [merchants |-> {}, nets |-> NoRows, payments |-> {}]

Now == [n |-> Len(journal), settled |-> settled]
NoView == [n |-> 0, settled |-> {}]

(* What a statement of settler d sees.                                     *)
View(d) == IF Mode = "serializable" THEN sview[d] ELSE Now

ActiveSettlers == {d \in Settler : spc[d] # "idle"}

SInTx(d) == spc[d] \in {"candidates", "lock", "nets", "ids", "payout", "commit"}

(* The merchants and payout rails still to lock, in ascending order.       *)
SToLock(d) == (run[d].merchants \union RailsOf(run[d].merchants)) \ DOMAIN sseen[d]

(* Mutant: rows are locked in descending order.                            *)
MutSIsNextDescending(d, a) == a \in SToLock(d) /\ \A b \in SToLock(d) : a >= b

SIsNext(d, a) == a \in SToLock(d) /\ \A b \in SToLock(d) : a <= b

SStaleRow(d, a) ==
  /\ Mode = "serializable"
  /\ \E i \in sview[d].n + 1 .. Len(journal) : a \in LegAccounts(journal[i])

(* UPDATE transactions: a payment another batch settled after the snapshot.*)
StaleMark(d) ==
  /\ Mode = "serializable"
  /\ run[d].payments \intersect (settled \ sview[d].settled) # {}

Payouts(d) == PayoutsFor(run[d].nets)

(* Mutant: every payout starts from the balances locked first.             *)
MutAfterLastPayout(d, a, i) ==
  Wrap(sseen[d][a] + IF i = 0 THEN 0 ELSE Delta(Payouts(d)[i], a))

(* The balance of a after the first i payouts: each postEntryTx reads what *)
(* the ones before it wrote.                                               *)
AfterPayouts(d, a, i) ==
  Wrap(sseen[d][a] + Total([j \in 1 .. i |-> Delta(Payouts(d)[j], a)], i))

(* Mutant: payouts are posted without the no-negative check.               *)
MutPayableUnchecked(d) == \A i \in DOMAIN Payouts(d) : Valid(Payouts(d)[i])

(* Validate, the currency check and the no-negative check of each payout.   *)
Payable(d) ==
  \A i \in DOMAIN Payouts(d) :
    /\ Valid(Payouts(d)[i])
    /\ RightCurrency(Payouts(d)[i])
    /\ \A a \in LegAccounts(Payouts(d)[i]) \ AllowNegative : AfterPayouts(d, a, i) >= 0

-----------------------------------------------------------------------------
SInit ==
  /\ settled  = {}
  /\ batches  = << >>
  /\ spc      = [d \in Settler |-> "idle"]
  /\ run      = [d \in Settler |-> NoRun]
  /\ sseen    = [d \in Settler |-> NoRows]
  /\ sview    = [d \in Settler |-> NoView]
  /\ sattempt = [d \in Settler |-> 0]

SGoto(d, l) == spc' = [spc EXCEPT ![d] = l]

(* Mutant: the rows stay locked.                                           *)
MutSReleaseNothing(d) ==
  /\ run' = [run EXCEPT ![d] = NoRun]
  /\ sseen' = [sseen EXCEPT ![d] = NoRows]
  /\ sview' = [sview EXCEPT ![d] = NoView]
  /\ UNCHANGED <<locks, cvars>>

SRelease(d) ==
  /\ rowLock' = [a \in Account |-> IF rowLock[a] = d THEN NoHolder ELSE rowLock[a]]
  /\ run' = [run EXCEPT ![d] = NoRun]
  /\ sseen' = [sseen EXCEPT ![d] = NoRows]
  /\ sview' = [sview EXCEPT ![d] = NoView]
  /\ UNCHANGED <<keyLock, cvars>>

SReturn(d) ==
  /\ SRelease(d)
  /\ SGoto(d, "idle")
  /\ sattempt' = [sattempt EXCEPT ![d] = 0]

RunSettlement(d) ==
  /\ spc[d] = "idle"
  /\ Len(batches) + Cardinality(ActiveSettlers) < MaxBatches
  /\ SGoto(d, "begin")
  /\ UNCHANGED <<vars, settled, batches, run, sseen, sview, sattempt>>

SBeginTx(d) ==
  /\ spc[d] = "begin"
  /\ sview' = [sview EXCEPT ![d] = IF Mode = "serializable" THEN Now ELSE NoView]
  /\ SGoto(d, "candidates")
  /\ UNCHANGED <<vars, settled, batches, run, sseen, sattempt>>

(* Steps 1 and 2: candidateMerchants, then payoutAccount per currency,     *)
(* which fails when the rail was never provisioned.                        *)
CandidateMerchants(d) ==
  LET M == Candidates(journal, View(d).n, View(d).settled) IN
  /\ spc[d] = "candidates"
  /\ IF NoAccount \in RailsOf(M)
       THEN SReturn(d)
       ELSE /\ run' = [run EXCEPT ![d].merchants = M]
            /\ SGoto(d, "lock")
            /\ UNCHANGED <<locks, cvars, sseen, sview, sattempt>>
  /\ UNCHANGED <<db, settled, batches>>

(* Mutant: SELECT without FOR UPDATE.                                      *)
MutSLockAccountNoWait(d) ==
  \E a \in Account :
    /\ spc[d] = "lock"
    /\ SIsNext(d, a)
    /\ sseen' = [sseen EXCEPT ![d] =
         [b \in DOMAIN sseen[d] \union {a} |-> IF b = a THEN balance[a] ELSE sseen[d][b]]]
    /\ UNCHANGED <<db, locks, cvars, settled, batches, spc, run, sview, sattempt>>

(* Step 3, one row of lockAccounts.                                        *)
SLockAccount(d) ==
  \E a \in Account :
    /\ spc[d] = "lock"
    /\ SIsNext(d, a)
    /\ rowLock[a] = NoHolder
    /\ ~SStaleRow(d, a)
    /\ rowLock' = [rowLock EXCEPT ![a] = d]
    /\ sseen' = [sseen EXCEPT ![d] =
         [b \in DOMAIN sseen[d] \union {a} |-> IF b = a THEN balance[a] ELSE sseen[d][b]]]
    /\ UNCHANGED <<db, keyLock, cvars, settled, batches, spc, run, sview, sattempt>>

SAllLocked(d) ==
  /\ spc[d] = "lock"
  /\ SToLock(d) = {}
  /\ SGoto(d, "nets")
  /\ UNCHANGED <<vars, settled, batches, run, sseen, sview, sattempt>>

(* Mutant: not restricted to the locked merchants.                         *)
MutComputeNetsAll(d) ==
  LET v == View(d)
      net(m) == NetOf(journal, v.n, PendingOf(journal, v.n, v.settled, {m}))
  IN
  /\ spc[d] = "nets"
  /\ run' = [run EXCEPT ![d].nets =
       [m \in Candidates(journal, v.n, v.settled) |-> net(m)]]
  /\ SGoto(d, "ids")
  /\ UNCHANGED <<vars, settled, batches, sseen, sview, sattempt>>

(* Step 4, computeNetsLocked: the nets in one statement, which fails when  *)
(* one is no int64 ...                                                     *)
ComputeNets(d) ==
  LET v == View(d)
      net(m) == NetOf(journal, v.n, PendingOf(journal, v.n, v.settled, {m}))
  IN
  /\ spc[d] = "nets"
  /\ IF \A m \in run[d].merchants : net(m) \in Int64
       THEN /\ run' = [run EXCEPT ![d].nets = [m \in run[d].merchants |-> net(m)]]
            /\ SGoto(d, "ids")
            /\ UNCHANGED <<locks, cvars, sseen, sview, sattempt>>
       ELSE SReturn(d)
  /\ UNCHANGED <<db, settled, batches>>

(* Mutant: not restricted to the locked merchants.                         *)
MutPendingIdsAll(d) ==
  LET v == View(d) IN
  /\ spc[d] = "ids"
  /\ run' = [run EXCEPT ![d].payments = Pending(journal, v.n, v.settled)]
  /\ SGoto(d, "payout")
  /\ UNCHANGED <<vars, settled, batches, sseen, sview, sattempt>>

(* ... and the ids of the pending payments in another.                     *)
PendingIds(d) ==
  LET v == View(d) IN
  /\ spc[d] = "ids"
  /\ run' = [run EXCEPT ![d].payments =
       PendingOf(journal, v.n, v.settled, run[d].merchants)]
  /\ SGoto(d, "payout")
  /\ UNCHANGED <<vars, settled, batches, sseen, sview, sattempt>>

(* Step 5: the payouts and the marks, all uncommitted.  One payout that    *)
(* fails fails the batch.                                                  *)
PayOut(d) ==
  /\ spc[d] = "payout"
  /\ Payable(d)
  /\ ~StaleMark(d)
  /\ SGoto(d, "commit")
  /\ UNCHANGED <<vars, settled, batches, run, sseen, sview, sattempt>>

RejectBatch(d) ==
  /\ spc[d] = "payout"
  /\ ~Payable(d)
  /\ SReturn(d)
  /\ UNCHANGED <<db, settled, batches>>

(* Mutant: the payments are not marked.                                    *)
MutCommitBatchNoMarks(d) ==
  LET n == Len(Payouts(d)) IN
  /\ spc[d] = "commit"
  /\ journal' = journal \o [i \in 1 .. n |-> Posted(Payouts(d)[i], NoKey)]
  /\ balance' = [a \in Account |->
                   IF a \in DOMAIN sseen[d] THEN AfterPayouts(d, a, n) ELSE balance[a]]
  /\ batches' = Append(batches, [payments |-> run[d].payments, at |-> Len(journal), n |-> n])
  /\ SReturn(d)
  /\ UNCHANGED <<keyRow, settled>>

(* The commit, whether or not its answer reaches the caller.               *)
CommitBatch(d) ==
  LET n == Len(Payouts(d)) IN
  /\ spc[d] = "commit"
  /\ journal' = journal \o [i \in 1 .. n |-> Posted(Payouts(d)[i], NoKey)]
  /\ balance' = [a \in Account |->
                   IF a \in DOMAIN sseen[d] THEN AfterPayouts(d, a, n) ELSE balance[a]]
  /\ settled' = settled \union run[d].payments
  /\ batches' = Append(batches, [payments |-> run[d].payments, at |-> Len(journal), n |-> n])
  /\ SReturn(d)
  /\ UNCHANGED keyRow

SAbort(d) ==
  /\ spc[d] # "idle"
  /\ SReturn(d)
  /\ UNCHANGED <<db, settled, batches>>

(* Mutant: the failed statement alone is retried, in a new transaction.    *)
MutSRetryStatement(d) ==
  /\ Mode = "serializable" /\ SInTx(d)
  /\ sattempt[d] + 1 < MaxAttempts
  /\ rowLock' = [a \in Account |-> IF rowLock[a] = d THEN NoHolder ELSE rowLock[a]]
  /\ sview' = [sview EXCEPT ![d] = Now]
  /\ sattempt' = [sattempt EXCEPT ![d] = @ + 1]
  /\ UNCHANGED <<db, keyLock, cvars, settled, batches, spc, run, sseen>>

SRetry(d) ==
  /\ Mode = "serializable" /\ SInTx(d)
  /\ IF sattempt[d] + 1 < MaxAttempts
       THEN /\ SRelease(d)
            /\ SGoto(d, "begin")
            /\ sattempt' = [sattempt EXCEPT ![d] = @ + 1]
       ELSE SReturn(d)
  /\ UNCHANGED <<db, settled, batches>>

-----------------------------------------------------------------------------
SProgress(d) ==
  \/ SBeginTx(d) \/ CandidateMerchants(d) \/ SLockAccount(d) \/ SAllLocked(d)
  \/ ComputeNets(d) \/ PendingIds(d) \/ PayOut(d) \/ RejectBatch(d)
  \/ CommitBatch(d)

SStep(d) == SProgress(d) \/ SRetry(d)

(* The next statement can only fail.                                       *)
SDoomed(d) ==
  \/ spc[d] = "lock" /\ \E a \in Account :
       SIsNext(d, a) /\ rowLock[a] = NoHolder /\ SStaleRow(d, a)
  \/ spc[d] = "payout" /\ StaleMark(d)

SForced(d) == SProgress(d) \/ (SDoomed(d) /\ SRetry(d))

ClientNext ==
  \E s \in Session :
    \/ \E r \in Request, k \in Key \union {NoKey} : Refuse(s, r, k) \/ Call(s, r, k)
    \/ Step(s)
    \/ Abort(s)

CoreTerminating ==
  /\ Active = {} /\ Len(journal) >= MaxTxns
  /\ ActiveSettlers = {} /\ Len(batches) >= MaxBatches
  /\ UNCHANGED allvars

CoreNext ==
  \/ ClientNext /\ UNCHANGED svars
  \/ \E d \in Settler : RunSettlement(d) \/ SStep(d) \/ SAbort(d)
  \/ CoreTerminating

CoreInit == Init /\ SInit

CoreSpec == CoreInit /\ [][CoreNext]_allvars

CoreFairness ==
  /\ \A s \in Session : SF_allvars(Forced(s) /\ UNCHANGED svars)
  /\ \A d \in Settler : SF_allvars(SForced(d))

CoreFairSpec == CoreSpec /\ CoreFairness

-----------------------------------------------------------------------------
(* Every variable of a settlement keeps its type: nets are int64s, of      *)
(* merchants it has resolved, and it locks existing rows only.             *)
RunType(r) ==
  /\ DOMAIN r = {"merchants", "nets", "payments"}
  /\ r.merchants \subseteq Account /\ IsFiniteSet(r.merchants)
  /\ DOMAIN r.nets \subseteq r.merchants /\ r.nets \in [DOMAIN r.nets -> Int64]
  /\ r.payments \subseteq DOMAIN journal

SettlementTypeOK ==
  /\ settled \subseteq DOMAIN journal
  /\ batches \in Seq([payments : SUBSET (DOMAIN journal), at : Nat, n : Nat])
  /\ spc \in [Settler -> {"idle", "begin", "candidates", "lock", "nets", "ids",
                          "payout", "commit"}]
  /\ DOMAIN run = Settler /\ DOMAIN sseen = Settler
  /\ \A d \in Settler : RunType(run[d])
  /\ \A d \in Settler : DOMAIN sseen[d] \subseteq Account /\ sseen[d] \in [DOMAIN sseen[d] -> Int64]
  /\ sview \in [Settler -> [n : 0 .. Len(journal), settled : SUBSET settled]]
  /\ sattempt \in [Settler -> 0 .. MaxAttempts - 1]

(* Each payment is in at most one batch, and is settled exactly when it is *)
(* in one: overlapping /settle calls never pay a payment twice.            *)
PaidOnce ==
  /\ settled = UNION {batches[b].payments : b \in DOMAIN batches}
  /\ \A b, c \in DOMAIN batches : b # c => batches[b].payments \intersect batches[c].payments = {}

PaidTo(b, m) == Total([i \in 1 .. b.n |-> Debited(journal[b.at + i], m)], b.n)

Due(net) == IF net > 0 THEN net ELSE 0

(* What a batch debits a merchant is the net of its payments in the batch, *)
(* counted over every refund that committed before the batch: no refund    *)
(* slips in between computing the net and paying it out.                   *)
PaidNet ==
  \A i \in DOMAIN batches : \A m \in Account :
    LET b == batches[i]
        P == {p \in b.payments : Merchant(journal, p) = m}
    IN  PaidTo(b, m) = Due(NetOf(journal, b.at, P))

(* internal/store/settlement.go:32-34: a run "pays out each merchant's     *)
(* still-owed net": no batch is refused for want of funds.                 *)
BatchesAreCovered == \A d \in Settler : spc[d] = "payout" => Payable(d)

SessionsAndSettlers == Session \union Settler

CoreWaitsFor(x, y) ==
  IF x \in Session THEN WaitsFor(x, y)
  ELSE spc[x] = "lock" /\ \E a \in Account : SIsNext(x, a) /\ rowLock[a] = y

(* The lock order of settlements and of postings is one order: no cycle.   *)
NoCoreLockCycle ==
  \A S \in (SUBSET SessionsAndSettlers) \ {{}} :
    \E x \in S : \A y \in S : ~CoreWaitsFor(x, y)

-----------------------------------------------------------------------------
(* What makes the safety properties inductive, for settler d.              *)

(* It holds the locks of the rows it has read, and they are current.       *)
SFreshReads(d) ==
  \A a \in DOMAIN sseen[d] : rowLock[a] = d /\ sseen[d][a] = balance[a]

(* It has locked the rows of its merchants and rails before it nets them.  *)
SRowsLocked(d) ==
  spc[d] \in {"nets", "ids", "payout", "commit"} =>
    run[d].merchants \union RailsOf(run[d].merchants) \subseteq DOMAIN sseen[d]

(* Every merchant it will pay has a payout rail.                           *)
RailsKnown(d) ==
  spc[d] \in {"lock", "nets", "ids", "payout", "commit"} =>
    RailsOf(run[d].merchants) \subseteq Account

(* Nothing was posted to a locked row since its snapshot.                  *)
SSnapCurrent(d) ==
  Mode = "serializable" =>
    \A a \in DOMAIN sseen[d] : \A i \in sview[d].n + 1 .. Len(journal) :
      a \notin LegAccounts(journal[i])

(* What it has computed is what it would compute from the journal as it is *)
(* now, and what it has yet to mark is still unmarked when it commits.     *)
NetsCurrent(d) ==
  LET n == Len(journal)
      v == View(d).settled
      r == run[d]
  IN
  /\ spc[d] \in {"ids", "payout", "commit"} =>
       r.nets = [m \in r.merchants |-> NetOf(journal, n, PendingOf(journal, n, v, {m}))]
  /\ spc[d] \in {"payout", "commit"} =>
       r.payments = PendingOf(journal, n, v, r.merchants)
  /\ spc[d] = "commit" => r.payments \intersect settled = {}

(* What PayOut checked of the payouts.                                     *)
StillPayable(d) == spc[d] = "commit" => Payable(d)

(* It locks its rows in ascending order, and has nothing before.           *)
SLocksHeld ==
  \A a \in Account : rowLock[a] \in Settler => a \in DOMAIN sseen[rowLock[a]]

SAscending(d) ==
  /\ spc[d] \in {"idle", "begin", "candidates"} => DOMAIN sseen[d] = {} /\ run[d] = NoRun
  /\ spc[d] = "lock" => \A b \in DOMAIN sseen[d], a \in SToLock(d) : b < a

SettlerInv(d) ==
  /\ SFreshReads(d) /\ RailsKnown(d) /\ SRowsLocked(d) /\ SSnapCurrent(d)
  /\ NetsCurrent(d) /\ StillPayable(d) /\ SAscending(d)

(* A refund in the journal refunds a payment before it, and touches the    *)
(* row of its merchant.                                                    *)
RefundsOnMerchant ==
  \A n \in DOMAIN journal : journal[n].kind = "refund" =>
    /\ IsPayment(journal, journal[n].ref)
    /\ Merchant(journal, journal[n].ref) \in LegAccounts(journal[n])

(* A batch lies within the journal, after the payments it settles.         *)
BatchesPlaced ==
  \A i \in DOMAIN batches :
    /\ batches[i].at + batches[i].n <= Len(journal)
    /\ batches[i].payments \subseteq 1 .. batches[i].at

SInv ==
  /\ SettlementTypeOK /\ SLocksHeld /\ RefundsOnMerchant /\ BatchesPlaced
  /\ \A d \in Settler : SettlerInv(d)

-----------------------------------------------------------------------------
(* Every /settle call returns.                                             *)
EverySettlementReturns == \A d \in Settler : spc[d] # "idle" ~> spc[d] = "idle"

(* The whole system implements the abstract ledger, settlements included.  *)
CoreAtomic == INSTANCE AtomicLedger WITH
  NoRequest <- NoRow,
  keyed <- [k \in Key |-> IF keyRow[k] = NoRow THEN NoRow ELSE keyRow[k].req]

(* Every commit, a batch's included, is one legal operation on the journal *)
(* as it is at that moment; a batch settles all that is pending then for   *)
(* the merchants it pays.                                                  *)
CoreRefinesAtomic == CoreAtomic!Spec
=============================================================================
