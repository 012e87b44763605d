------------------------------ MODULE Harness -------------------------------
(***************************************************************************)
(* The load harness, loadgen.Config.Run, as a program that concludes from  *)
(* its counters that the ledger is right.  It funds shared accounts, lets  *)
(* workers transfer between them while a monitor samples balances, waits   *)
(* for both, reconciles, and then submits each of a list of keys from many *)
(* goroutines at once.  Here it runs on the sessions of Posting, whose     *)
(* calls may fail, and on the queries of Reconcile.  A goroutine uses one  *)
(* session: the workers, and later the duplicates, are the sessions.       *)
(***************************************************************************)
EXTENDS Reconcile

CONSTANTS
  Main,          \* the session that seeds
  Shared,        \* the accounts workers move money between
  World, Sink,   \* where money comes from, where the keyed payments go
  Cur,           \* Config.Currency
  InitialEach,   \* the seed of each shared account
  OpsPerWorker,
  Amount,        \* what a worker may transfer
  Trials         \* the keys to stress, in order

ASSUME HarnessAssumption ==
  /\ IsFiniteSet(Account)
  /\ Main \in Session
  /\ {World, Sink} \subseteq Account /\ World \in AllowNegative
  /\ Shared \subseteq Account \ (AllowNegative \union {World, Sink})
  /\ Cardinality(Shared) > 1
  /\ Cur \in Currency /\ \A a \in Shared \union {World, Sink} : CurrencyOf[a] = Cur
  /\ InitialEach \in Nat \ {0} /\ InitialEach * Cardinality(Shared) <= MaxInt
  /\ Amount \subseteq 1 .. MaxInt
  /\ OpsPerWorker \in Nat
  /\ Trials \in Seq(Key)

VARIABLES
  phase,    \* what Run is doing
  funded,   \* the shared accounts seeded so far
  todo,     \* the transfers a worker has left
  busy,     \* the sessions whose call has not been looked at yet
  count,    \* the outcomes of the transfers
  mon,      \* the next statement of the monitor
  alarm,    \* the violations found
  trial,    \* which key is being stressed
  sent,     \* the sessions that have submitted it
  txIDs,    \* the transactions they were answered
  verdict   \* keys posted exactly once, duplicate postings

runvars   == <<phase, funded, todo, busy, count>>
monvars   == <<mon, alarm>>
trialvars == <<trial, sent, txIDs, verdict>>
hvars     == <<runvars, monvars, trialvars>>
harnessvars == <<recvars, hvars>>

-----------------------------------------------------------------------------
Pay(to, amount) ==
  [op |-> "payment", from |-> World, to |-> to, amount |-> amount, cur |-> Cur]
Move(from, to, amount) ==
  [op |-> "transfer", from |-> from, to |-> to, amount |-> amount, cur |-> Cur]

(* The requests the harness sends: the value of Request.                   *)
HarnessRequest ==
  {Pay(a, InitialEach) : a \in Shared} \union {Pay(Sink, 1)}
    \union {Move(from, to, amt) : from \in Shared, to \in Shared, amt \in Amount}

ASSUME SentAssumption == HarnessRequest \subseteq Request

SeededTotal == InitialEach * Cardinality(Shared)

SumOf(A) == MapThenSumSet(LAMBDA a : balance[a], A)

(* Reset leaves the tables empty.                                          *)
HInit ==
  /\ Init /\ RInit
  /\ phase = "seed" /\ funded = {} /\ busy = {}
  /\ todo = [s \in Session |-> OpsPerWorker]
  /\ count = [committed |-> 0, insufficient |-> 0, other |-> 0]
  /\ mon = "off"
  /\ alarm = [conservation |-> 0, negative |-> 0, lost |-> 0]
  /\ trial = 1 /\ sent = {} /\ txIDs = {}
  /\ verdict = [once |-> 0, duplicates |-> 0]

Answered(s) == s \in busy /\ pc[s] = "idle"

Submit(s, r, k) == s \notin busy /\ Call(s, r, k) /\ busy' = busy \union {s}

Moves(p) == phase' = p

-----------------------------------------------------------------------------
(* seedAccounts: one payment after the other; the first error ends Run.    *)
Seed ==
  /\ phase = "seed" /\ funded # Shared
  /\ Submit(Main, Pay(Min(Shared \ funded), InitialEach), NoKey)
  /\ UNCHANGED <<rvars, phase, funded, todo, count, monvars, trialvars>>

Seeded ==
  /\ phase = "seed" /\ Answered(Main)
  /\ busy' = {}
  /\ IF reply[Main].status = "ok"
       THEN funded' = funded \union {Min(Shared \ funded)} /\ UNCHANGED phase
       ELSE Moves("failed") /\ UNCHANGED funded
  /\ UNCHANGED <<recvars, todo, count, monvars, trialvars>>

(* Reset, EnsureInfra, the creation of a shared account or of the sink     *)
(* fails: Run returns the error.                                           *)
SetupFails ==
  /\ \/ phase = "seed" /\ busy = {} /\ funded # Shared
     \/ phase = "trial" /\ Trials # << >> /\ trial = 1 /\ sent = {}
  /\ Moves("failed")
  /\ UNCHANGED <<recvars, funded, todo, busy, count, monvars, trialvars>>

(* The monitor and the workers are started.                                *)
StormBegins ==
  /\ phase = "seed" /\ funded = Shared
  /\ Moves("storm")
  /\ mon' = "check"
  /\ UNCHANGED <<recvars, funded, todo, busy, count, alarm, trialvars>>

-----------------------------------------------------------------------------
(* A worker of runStorm: a transfer between two random accounts, without a *)
(* key, ...                                                                *)
WorkerCall(s) ==
  /\ phase = "storm" /\ todo[s] > 0
  /\ \E from \in Shared, to \in Shared, amt \in Amount :
       from # to /\ Submit(s, Move(from, to, amt), NoKey)
  /\ todo' = [todo EXCEPT ![s] = @ - 1]
  /\ UNCHANGED <<rvars, phase, funded, count, monvars, trialvars>>

(* Mutant: every error is counted as a want of funds.                      *)
MutWorkerCountsAny(s) ==
  /\ phase = "storm" /\ Answered(s)
  /\ busy' = busy \ {s}
  /\ count' = IF reply[s].status = "ok"
                THEN [count EXCEPT !.committed = @ + 1]
                ELSE [count EXCEPT !.insufficient = @ + 1]
  /\ UNCHANGED <<recvars, phase, funded, todo, monvars, trialvars>>

(* ... whose outcome it counts.  No other refusal than the want of funds   *)
(* is possible: the accounts exist, in this currency, and differ.          *)
WorkerCounts(s) ==
  /\ phase = "storm" /\ Answered(s)
  /\ busy' = busy \ {s}
  /\ count' = CASE reply[s].status = "ok"       -> [count EXCEPT !.committed = @ + 1]
                [] reply[s].status = "rejected" -> [count EXCEPT !.insufficient = @ + 1]
                [] OTHER                        -> [count EXCEPT !.other = @ + 1]
  /\ UNCHANGED <<recvars, phase, funded, todo, monvars, trialvars>>

(* Mutant: the storm is over when the last transfer has been sent.         *)
MutStormEndsUnanswered ==
  /\ phase = "storm" /\ \A s \in Session : todo[s] = 0
  /\ Moves("stopping")
  /\ UNCHANGED <<recvars, funded, todo, busy, count, monvars, trialvars>>

(* wg.Wait, then close(stop).                                              *)
StormEnds ==
  /\ phase = "storm" /\ busy = {} /\ \A s \in Session : todo[s] = 0
  /\ Moves("stopping")
  /\ UNCHANGED <<recvars, funded, todo, busy, count, monvars, trialvars>>

-----------------------------------------------------------------------------
(* The monitor: is the channel closed?                                     *)

(* Mutant: it never is for the monitor.                                    *)
MutMonitorChecksNot ==
  /\ mon = "check"
  /\ mon' = "sums"
  /\ UNCHANGED <<recvars, runvars, alarm, trialvars>>

MonitorChecks ==
  /\ mon = "check"
  /\ mon' = IF phase = "storm" THEN "sums" ELSE "exited"
  /\ UNCHANGED <<recvars, runvars, alarm, trialvars>>

(* SumBalancesByCurrency, one statement over all accounts.                 *)
MonitorSums ==
  /\ mon = "sums"
  /\ mon' = "subset"
  /\ alarm' = [alarm EXCEPT !.conservation = @ +
       Cardinality({c \in Currency : SumOf({a \in Account : CurrencyOf[a] = c}) # 0})]
  /\ UNCHANGED <<recvars, runvars, trialvars>>

(* SumMinBalances of the shared accounts: what a sample of them shows.     *)
Sampled ==
  [alarm EXCEPT
     !.negative = @ + IF \E a \in Shared : balance[a] < 0 THEN 1 ELSE 0,
     !.lost     = @ + IF SumOf(Shared) # SeededTotal THEN 1 ELSE 0]

MonitorSubset ==
  /\ mon = "subset"
  /\ mon' = "check"
  /\ alarm' = Sampled
  /\ UNCHANGED <<recvars, runvars, trialvars>>

(* A query of the monitor fails: the sample is skipped.                    *)
MonitorSkips ==
  /\ mon \in {"sums", "subset"}
  /\ mon' = IF mon = "sums" THEN "subset" ELSE "check"
  /\ UNCHANGED <<recvars, runvars, alarm, trialvars>>

(* monWG.Wait.                                                             *)
MonitorGone ==
  /\ phase = "stopping" /\ mon = "exited"
  /\ Moves("final")
  /\ UNCHANGED <<recvars, funded, todo, busy, count, monvars, trialvars>>

-----------------------------------------------------------------------------
(* finalChecks: a last sample, and Reconcile is called ...                 *)
FinalSample ==
  /\ phase = "final"
  /\ alarm' = Sampled
  /\ Begin
  /\ Moves("reconcile")
  /\ UNCHANGED <<funded, todo, busy, count, mon, trialvars>>

FinalSampleFails ==
  /\ phase = "final"
  /\ Moves("failed")
  /\ UNCHANGED <<recvars, funded, todo, busy, count, monvars, trialvars>>

Reconciles ==
  /\ phase = "reconcile"
  /\ ReconcileStep
  /\ UNCHANGED hvars

(* ... and returns its report or its error.                                *)
FinalReport ==
  /\ phase = "reconcile" /\ AtRest
  /\ Moves(IF rpc = "done" THEN "trial" ELSE "failed")
  /\ alarm' = [alarm EXCEPT !.lost = @ + Cardinality(rep.drift)]
  /\ UNCHANGED <<recvars, funded, todo, busy, count, mon, trialvars>>

-----------------------------------------------------------------------------
(* idempotencyTrial: every goroutine submits the key once, ...             *)
TrialCall(s) ==
  /\ phase = "trial" /\ trial \in DOMAIN Trials /\ s \notin sent
  /\ Submit(s, Pay(Sink, 1), Trials[trial])
  /\ sent' = sent \union {s}
  /\ UNCHANGED <<rvars, phase, funded, todo, count, monvars, trial, txIDs, verdict>>

(* ... ignores an error, and notes the transaction it was answered.        *)
TrialNotes(s) ==
  /\ phase = "trial" /\ Answered(s)
  /\ busy' = busy \ {s}
  /\ txIDs' = IF reply[s].status = "ok" THEN txIDs \union {reply[s].txn} ELSE txIDs
  /\ UNCHANGED <<recvars, phase, funded, todo, count, monvars, trial, sent, verdict>>

(* wg.Wait, and the verdict on the key: when nobody was answered, one      *)
(* duplicate less.                                                         *)
TrialEnds ==
  /\ phase = "trial" /\ trial \in DOMAIN Trials /\ sent = Session /\ busy = {}
  /\ verdict' = IF Cardinality(txIDs) = 1
                  THEN [verdict EXCEPT !.once = @ + 1]
                  ELSE [verdict EXCEPT !.duplicates = @ + Cardinality(txIDs) - 1]
  /\ trial' = trial + 1
  /\ sent' = {} /\ txIDs' = {}
  /\ UNCHANGED <<recvars, runvars, monvars>>

TrialsEnd ==
  /\ phase = "trial" /\ trial \notin DOMAIN Trials
  /\ Moves("done")
  /\ UNCHANGED <<recvars, funded, todo, busy, count, monvars, trialvars>>

-----------------------------------------------------------------------------
(* The sessions of Posting, which carry out the calls.                     *)
Backend ==
  /\ \E s \in Session : Step(s) \/ Abort(s)
  /\ UNCHANGED <<rvars, hvars>>

RunStep ==
  \/ Seed \/ Seeded \/ SetupFails \/ StormBegins \/ StormEnds \/ MonitorGone
  \/ FinalSample \/ FinalSampleFails \/ Reconciles \/ FinalReport
  \/ TrialEnds \/ TrialsEnd

Goroutine(s) == WorkerCall(s) \/ WorkerCounts(s) \/ TrialCall(s) \/ TrialNotes(s)

Monitor == MonitorChecks \/ MonitorSums \/ MonitorSubset \/ MonitorSkips

(* Run has returned.                                                       *)
Returned == phase \in {"done", "failed"} /\ UNCHANGED harnessvars

HNext ==
  \/ Backend \/ RunStep \/ Monitor
  \/ \E s \in Session : Goroutine(s)
  \/ Returned

(* The scheduler runs every goroutine; the backend as in Posting.          *)
HFairness ==
  /\ WF_harnessvars(RunStep) /\ WF_harnessvars(Monitor)
  /\ \A s \in Session :
       /\ WF_harnessvars(Goroutine(s))
       /\ SF_harnessvars(Forced(s) /\ UNCHANGED <<rvars, hvars>>)

HSpec == HInit /\ [][HNext]_harnessvars

HFairSpec == HSpec /\ HFairness

-----------------------------------------------------------------------------
(* What the harness reports of this ledger is no false alarm: no sample    *)
(* taken while transfers commit, fail or lose their answers shows a        *)
(* violation, and the reconciliation after the storm, which may be wrong   *)
(* beside postings (ConsistentYieldsOK), is not.                           *)
NoFalseAlarm ==
  /\ alarm = [conservation |-> 0, negative |-> 0, lost |-> 0]
  /\ phase \in {"trial", "done"} => rep.ok

Transfers == Cardinality({n \in DOMAIN journal : journal[n].kind = "transfer"})

(* The counters and the journal agree as far as the answers allow: every   *)
(* transfer counted as committed is in the journal, every one in the       *)
(* journal was counted as committed or, its answer lost, as another error, *)
(* unless it is still to be counted; in the end each operation counts once.*)
CountsTrue ==
  /\ count.committed <= Transfers
  /\ Transfers <= count.committed + count.other + Cardinality(busy)
  /\ phase \notin {"seed", "storm", "failed"} =>
       /\ Transfers <= count.committed + count.other
       /\ count.committed + count.insufficient + count.other =
            OpsPerWorker * Cardinality(Session)

(* The verdicts of the trials: no duplicate is ever counted, every trial   *)
(* that has ended counts as exactly once or, if nobody was answered, takes *)
(* one from the duplicates (checks.go:119-125), and no more count as       *)
(* exactly once than have a committed key.                                 *)
TrialsTrue ==
  /\ verdict.duplicates <= 0
  /\ verdict.once - verdict.duplicates = trial - 1
  /\ verdict.once <= Cardinality({i \in 1 .. trial - 1 : keyRow[Trials[i]] # NoRow})

-----------------------------------------------------------------------------
(* Run returns: no wait group and no channel keeps it, whichever calls     *)
(* wait for rows and whichever fail.                                       *)
HarnessReturns == <>(phase \in {"done", "failed"})
=============================================================================
