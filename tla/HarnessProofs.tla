---------------------------- MODULE HarnessProofs ----------------------------
(***************************************************************************)
(* What the load harness concludes is right: its samples and its report    *)
(* raise no false alarm, its counters and the journal agree as far as the  *)
(* answers allow, and its verdicts on keys are true.  Run is a client of   *)
(* Posting and a reader of Reconcile, so what was proved of them holds     *)
(* below it; the rest is what Run itself knows of its calls: which request *)
(* each one carries, what it has moved so far, and what its answer meant.  *)
(***************************************************************************)
EXTENDS Harness, ReconcileProofs

-----------------------------------------------------------------------------
(* What makes the properties of Harness inductive.  The variables of Run   *)
(* are typed, and while a seed is on its way an account is not yet funded. *)
HTypeOK ==
  /\ phase \in {"seed", "storm", "stopping", "final", "reconcile", "trial", "done", "failed"}
  /\ funded \subseteq Shared /\ busy \subseteq Session /\ sent \subseteq Session
  /\ todo \in [Session -> Nat]
  /\ count \in [committed : Nat, insufficient : Nat, other : Nat]
  /\ trial \in Nat \ {0} /\ verdict \in [once : Nat, duplicates : Int]
  /\ IsFiniteSet(txIDs)
  /\ phase = "seed" /\ busy # {} => funded # Shared

(* The monitor samples while transfers run, and a little longer.           *)
MonitorPlace ==
  /\ phase = "seed" => mon = "off"
  /\ phase = "storm" => mon \in {"check", "sums", "subset"}
  /\ phase = "stopping" => mon \in {"check", "sums", "subset", "exited"}
  /\ phase \in {"final", "reconcile", "trial", "done"} => mon = "exited"
  /\ phase = "failed" => mon \in {"off", "exited"}

(* A call that has not been looked at is one the phase makes.              *)
Asked(s) ==
  \/ /\ phase = "seed" /\ s = Main /\ funded # Shared /\ job[s].key = NoKey
     /\ job[s].req = Pay(Min(Shared \ funded), InitialEach)
  \/ /\ phase = "storm" /\ job[s].key = NoKey
     /\ \E from \in Shared, to \in Shared, amt \in Amount : job[s].req = Move(from, to, amt)
  \/ /\ phase = "trial" /\ s \in sent /\ trial \in DOMAIN Trials
     /\ job[s].key = Trials[trial] /\ job[s].req = Pay(Sink, 1)

CallsAsked ==
  /\ \A s \in Session : pc[s] # "idle" => s \in busy
  /\ \A s \in busy : Asked(s)

(* Until the trials, money has only come from the world to the shared      *)
(* accounts, a seed at a time, and moved between them.                     *)
SharedSum == MapThenSumSet(LAMBDA a : Derived(journal, a), Shared)

Placed(n) == SharedSum = InitialEach * n /\ Derived(journal, World) = -(InitialEach * n)

MoneyPlaced ==
  /\ phase \in {"seed", "storm", "stopping", "final", "reconcile"} =>
       \A a \in Account \ (Shared \union {World}) : Derived(journal, a) = 0
  /\ phase = "seed" =>
       /\ Main \notin busy \/ pc[Main] # "idle" => Placed(Cardinality(funded))
       /\ Answered(Main) /\ reply[Main].status = "ok" => Placed(Cardinality(funded) + 1)
  /\ phase \in {"storm", "stopping", "final", "reconcile"} => Placed(Cardinality(Shared))

(* The reconciliation sees a ledger at rest.                               *)
ReportedAtRest ==
  /\ phase \in {"seed", "storm", "stopping", "final"} => rpc = "idle"
  /\ rpc = "idle" => rep.drift = {}
  /\ phase = "reconcile" /\ rpc # "idle" => rep.at = Len(journal)
  /\ phase = "reconcile" /\ rpc = "done" => rep.ok

(* The answers of the workers that have not been counted.                  *)
Oks == {s \in busy : pc[s] = "idle" /\ reply[s].status = "ok"}
Errors == {s \in busy : pc[s] = "idle" /\ reply[s].status \notin {"ok", "rejected"}}

Accounted ==
  /\ phase = "seed" => Transfers = 0 /\ count = [committed |-> 0, insufficient |-> 0, other |-> 0]
  /\ phase = "storm" =>
       /\ count.committed + Cardinality(Oks) <= Transfers
       /\ Transfers <= count.committed + Cardinality(Oks) + count.other + Cardinality(Errors)
  /\ phase # "storm" =>
       count.committed <= Transfers /\ Transfers <= count.committed + count.other

(* Every operation is left, sent or counted.                               *)
Left == MapThenSumSet(LAMBDA s : todo[s], Session)

OperationsCounted ==
  LET counted == count.committed + count.insufficient + count.other
      all == OpsPerWorker * Cardinality(Session)
  IN
  /\ phase = "seed" => Left = all
  /\ phase = "storm" => counted + Cardinality(busy) + Left = all
  /\ phase \notin {"seed", "storm", "failed"} => counted = all

(* The answers of a trial name the posting under its key.                  *)
TrialAnswers ==
  /\ trial \in 1 .. Len(Trials) + 1
  /\ txIDs # {} =>
       /\ trial \in DOMAIN Trials /\ keyRow[Trials[trial]] # NoRow
       /\ txIDs = {keyRow[Trials[trial]].txn}

HInv ==
  /\ HTypeOK /\ MonitorPlace /\ CallsAsked /\ MoneyPlaced /\ ReportedAtRest
  /\ NoFalseAlarm /\ Accounted /\ OperationsCounted /\ TrialAnswers /\ TrialsTrue

-----------------------------------------------------------------------------
(* The next account to seed is a shared one.                               *)
LEMMA NextToSeed ==
  ASSUME funded # Shared, funded \subseteq Shared
  PROVE  Min(Shared \ funded) \in Shared /\ Min(Shared \ funded) \notin funded
<1> DEFINE S == Shared \ funded
<1>1. S \subseteq Nat /\ S # {}
  BY HarnessAssumption, AccountAssumption
<1>2. \E n \in S : \A m \in S : n <= m
  <2> HIDE DEF S
  <2> QED BY <1>1, LeastNumber
<1>3. Min(S) \in S
  <2> HIDE DEF S
  <2> QED BY <1>2 DEF Min
<1> QED BY <1>3

(* Run keeps its variables typed.                                          *)
LEMMA HTypeStep ==
  ASSUME HTypeOK, HNext
  PROVE  HTypeOK'
<1> USE DEF HTypeOK
<1>1. CASE Backend \/ Returned \/ Monitor \/ Reconciles
  BY <1>1 DEF Backend, Returned, Monitor, Reconciles, harnessvars, hvars, runvars, monvars, trialvars,
     MonitorChecks, MonitorSums, MonitorSubset, MonitorSkips
<1>2. CASE Seed
  BY <1>2, HarnessAssumption DEF Seed, Submit, trialvars
<1>8. CASE Seeded
  <2> funded # Shared
    BY <1>8 DEF Seeded, Answered
  <2>1. funded' \subseteq Shared /\ phase' \in {"seed", "failed"}
    <3>1. CASE reply[Main].status = "ok"
      BY <1>8, <3>1, NextToSeed DEF Seeded
    <3>2. CASE reply[Main].status # "ok"
      BY <1>8, <3>2 DEF Seeded, Moves
    <3> QED BY <3>1, <3>2
  <2> QED BY <1>8, <2>1 DEF Seeded, trialvars
<1>3. CASE SetupFails \/ StormBegins \/ StormEnds \/ MonitorGone \/ FinalSample
             \/ FinalSampleFails \/ FinalReport \/ TrialsEnd
  BY <1>3 DEF SetupFails, StormBegins, StormEnds, MonitorGone, FinalSample, FinalSampleFails,
              FinalReport, TrialsEnd, Moves, trialvars
<1>4. CASE TrialEnds
  <2>1. Cardinality(txIDs) \in Nat
    BY FS_CardinalityType
  <2>2. verdict' \in [once : Nat, duplicates : Int] /\ trial' \in Nat \ {0}
    BY <1>4, <2>1 DEF TrialEnds
  <2>3. IsFiniteSet({})
    BY FS_EmptySet
  <2> QED BY <1>4, <2>2, <2>3 DEF TrialEnds, runvars
<1>5. ASSUME NEW s \in Session, WorkerCall(s) \/ TrialCall(s)
      PROVE  HTypeOK'
  BY <1>5 DEF WorkerCall, TrialCall, Submit, trialvars
<1>6. ASSUME NEW s \in Session, WorkerCounts(s)
      PROVE  HTypeOK'
  BY <1>6 DEF WorkerCounts, trialvars
<1>7. ASSUME NEW s \in Session, TrialNotes(s)
      PROVE  HTypeOK'
  <2>1. IsFiniteSet(txIDs')
    BY <1>7, FS_AddElement DEF TrialNotes
  <2> QED BY <1>7, <2>1 DEF TrialNotes
<1> QED BY <1>1, <1>2, <1>3, <1>4, <1>5, <1>6, <1>7, <1>8 DEF HNext, RunStep, Goroutine

LEMMA HTypeInductive == HSpec => []HTypeOK
<1>1. HInit => HTypeOK
  BY FS_EmptySet, HarnessAssumption DEF HInit, HTypeOK
<1>2. HTypeOK /\ UNCHANGED harnessvars => HTypeOK'
  BY DEF HTypeOK, harnessvars, hvars, runvars, monvars, trialvars
<1> QED BY <1>1, <1>2, HTypeStep, PTL DEF HSpec

(* Run is a client of Posting and a reader of Reconcile.                   *)
THEOREM RunIsClient == HSpec => RecSpec
<1>1. HInit => Init /\ RInit
  BY DEF HInit
<1>2. ASSUME HTypeOK, HNext
      PROVE  (Next /\ UNCHANGED rvars) \/ Begin \/ ReconcileStep \/ UNCHANGED recvars
  <2> USE SentAssumption, HarnessAssumption
  <2>1. CASE Backend
    BY <2>1 DEF Backend, Next
  <2>2. ASSUME NEW s \in Session, NEW r \in Request, NEW k \in Key \union {NoKey},
               Submit(s, r, k), UNCHANGED rvars
        PROVE  Next /\ UNCHANGED rvars
    BY <2>2 DEF Submit, Next
  <2>3. CASE Seed
    <3>1. Pay(Min(Shared \ funded), InitialEach) \in Request
      BY <1>2, <2>3, NextToSeed DEF HTypeOK, Seed, HarnessRequest
    <3> QED BY <2>2, <2>3, <3>1 DEF Seed
  <2>4. CASE FinalSample
    BY <2>4 DEF FinalSample
  <2>5. CASE Reconciles
    BY <2>5 DEF Reconciles
  <2>6. ASSUME NEW s \in Session, WorkerCall(s)
        PROVE  Next /\ UNCHANGED rvars
    <3>1. PICK from \in Shared, to \in Shared, amt \in Amount : Submit(s, Move(from, to, amt), NoKey)
      BY <2>6 DEF WorkerCall
    <3>2. Move(from, to, amt) \in Request
      BY DEF HarnessRequest
    <3> QED BY <2>2, <2>6, <3>1, <3>2 DEF WorkerCall
  <2>7. ASSUME NEW s \in Session, TrialCall(s)
        PROVE  Next /\ UNCHANGED rvars
    <3>1. Pay(Sink, 1) \in Request /\ Trials[trial] \in Key
      BY <2>7 DEF HarnessRequest, TrialCall
    <3> QED BY <2>2, <2>7, <3>1 DEF TrialCall
  <2>8. ASSUME NEW s \in Session, WorkerCounts(s) \/ TrialNotes(s)
        PROVE  UNCHANGED recvars
    BY <2>8 DEF WorkerCounts, TrialNotes
  <2>9. CASE \/ Seeded \/ SetupFails \/ StormBegins \/ StormEnds \/ MonitorGone
             \/ FinalSampleFails \/ FinalReport \/ TrialEnds \/ TrialsEnd \/ Monitor \/ Returned
    BY <2>9 DEF Seeded, SetupFails, StormBegins, StormEnds, MonitorGone, FinalSampleFails, FinalReport,
       TrialEnds, TrialsEnd, Monitor, MonitorChecks, MonitorSums, MonitorSubset, MonitorSkips,
       Returned, harnessvars
  <2> QED BY <1>2, <2>1, <2>3, <2>4, <2>5, <2>6, <2>7, <2>8, <2>9 DEF HNext, RunStep, Goroutine
<1>3. HTypeOK /\ [HNext]_harnessvars =>
        [ \/ Next /\ UNCHANGED rvars
          \/ Begin \/ ReadAccount
          \/ ReconcileStep ]_recvars
  BY <1>2 DEF harnessvars
<1> QED BY <1>1, <1>3, HTypeInductive, PTL DEF HSpec, RecSpec

(* What was proved of the sessions and of the reconciliation.              *)
Below == Consistent /\ AnswerInv /\ ReportInv

LEMMA BelowHolds == HSpec => []Below
BY RunIsClient, ReadersOnlyRead, LedgerConsistent, AnswersInductive, ReportInductive, PTL DEF Below

-----------------------------------------------------------------------------
(* A step of the backend for a call: it commits the entry and returns, or  *)
(* commits nothing.                                                        *)
Posts(s) ==
  /\ pc[s] = "commit" /\ Publish(s)
  /\ pc'[s] = "idle" /\ reply'[s].status \in {"ok", "error"}

Quiet(s) ==
  /\ UNCHANGED db
  /\ \/ pc'[s] # "idle"
     \/ reply'[s].status \in {"rejected", "error"}
     \/ pc[s] = "replay"

OnlyOf(s) ==
  /\ pc[s] # "idle" /\ job' = job
  /\ \A t \in Session : t # s => pc'[t] = pc[t] /\ reply'[t] = reply[t]

LEMMA ReturnFacts ==
  ASSUME SessionType, NEW s \in Session, NEW ans, Return(s, ans), pc[s] # "idle"
  PROVE  OnlyOf(s) /\ pc'[s] = "idle" /\ reply'[s] = ans
BY DEF SessionType, Return, Goto, OnlyOf

LEMMA GotoFacts ==
  ASSUME SessionType, NEW s \in Session, NEW l, l # "idle", pc[s] # "idle",
         Goto(s, l) \/ UNCHANGED pc, UNCHANGED <<db, job, reply>>
  PROVE  OnlyOf(s) /\ Quiet(s)
BY DEF SessionType, Goto, OnlyOf, Quiet

LEMMA Answers ==
  /\ Rejected.status = "rejected" /\ Failed.status = "error"
  /\ \A n, again : OK(n, again).status = "ok"
BY DEF Rejected, Failed, OK

LEMMA BackendStep ==
  ASSUME IInv, NEW s \in Session, Step(s) \/ Abort(s)
  PROVE  OnlyOf(s) /\ (Posts(s) \/ Quiet(s))
<1> SessionType
  BY DEF IInv, TypeOK
<1>1. CASE BeginTx(s)
  BY <1>1, GotoFacts DEF BeginTx, local
<1>2. CASE ClaimKey(s) \/ KeyTaken(s) \/ AllLocked(s) \/ PostLegs(s)
  BY <1>2, GotoFacts DEF ClaimKey, KeyTaken, AllLocked, PostLegs, local
<1>3. CASE LockAccount(s)
  BY <1>3, GotoFacts DEF LockAccount, local
<1>4. CASE ReadReplay(s)
  <2>1. \E ans : Return(s, ans)
    BY <1>4 DEF ReadReplay
  <2> QED BY <1>4, <2>1, ReturnFacts DEF ReadReplay, Quiet
<1>5. CASE \/ RejectEntry(s) \/ RejectPosting(s) \/ Abort(s) \/ Exhausted(s)
  <2>1. (Return(s, Rejected) \/ Return(s, Failed)) /\ UNCHANGED db /\ pc[s] # "idle"
    BY <1>5 DEF RejectEntry, RejectPosting, Abort, Exhausted, SerializationFailure, InTx
  <2> QED BY <2>1, ReturnFacts, Answers DEF Quiet
<1>6. CASE CheckGuard(s)
  <2>1. pc[s] # "idle" /\ UNCHANGED db
    BY <1>6 DEF CheckGuard
  <2>2. Return(s, Rejected) \/ (Goto(s, "post") /\ UNCHANGED <<job, reply>>)
    BY <1>6 DEF CheckGuard, local
  <2>3. CASE Return(s, Rejected)
    BY <2>1, <2>3, ReturnFacts, Answers DEF Quiet
  <2>4. CASE Goto(s, "post") /\ UNCHANGED <<job, reply>>
    BY <2>1, <2>4, GotoFacts
  <2> QED BY <2>2, <2>3, <2>4
<1>7. CASE CommitTx(s) \/ CommitAnswerLost(s)
  <2>1. pc[s] = "commit" /\ Publish(s)
    BY <1>7 DEF CommitTx, CommitAnswerLost
  <2>2. \E ans : Return(s, ans) /\ ans.status \in {"ok", "error"}
    BY <1>7, Answers DEF CommitTx, CommitAnswerLost
  <2> QED BY <2>1, <2>2, ReturnFacts DEF Posts
<1>8. CASE Retry(s)
  BY <1>8, GotoFacts DEF Retry, SerializationFailure, InTx
<1> QED BY <1>1, <1>2, <1>3, <1>4, <1>5, <1>6, <1>7, <1>8 DEF Step, Progress

-----------------------------------------------------------------------------
(* The monitor's place in the run.                                         *)
LEMMA MonitorPlaceStep ==
  ASSUME MonitorPlace, [HNext]_harnessvars
  PROVE  MonitorPlace'
<1> USE DEF MonitorPlace
<1>1. CASE Monitor
  BY <1>1 DEF Monitor, MonitorChecks, MonitorSums, MonitorSubset, MonitorSkips, runvars
<1>2. CASE RunStep
  BY <1>2 DEF RunStep, Seed, Seeded, SetupFails, StormBegins, StormEnds, MonitorGone, FinalSample,
     FinalSampleFails, Reconciles, FinalReport, TrialEnds, TrialsEnd, Moves, hvars, runvars, monvars
<1>3. ASSUME NEW s \in Session, Goroutine(s)
      PROVE  MonitorPlace'
  BY <1>3 DEF Goroutine, WorkerCall, WorkerCounts, TrialCall, TrialNotes, monvars
<1>4. CASE Backend \/ UNCHANGED harnessvars
  BY <1>4 DEF Backend, harnessvars, hvars, runvars, monvars
<1> QED BY <1>1, <1>2, <1>3, <1>4 DEF HNext, Returned

(* Run knows the request of every call it has not looked at.               *)
LEMMA AskedStays ==
  ASSUME NEW s, Asked(s), UNCHANGED <<phase, funded, trial>>, s \in sent => s \in sent', job'[s] = job[s]
  PROVE  Asked(s)'
BY DEF Asked

LEMMA CallFacts ==
  ASSUME SessionType, NEW s \in Session, NEW r, NEW k, Submit(s, r, k)
  PROVE  /\ s \notin busy /\ busy' = busy \union {s} /\ UNCHANGED db
         /\ pc[s] = "idle" /\ pc'[s] = "begin" /\ job'[s].req = r /\ job'[s].key = k
         /\ \A t \in Session \ {s} : pc'[t] = pc[t] /\ job'[t] = job[t] /\ reply'[t] = reply[t]
BY DEF SessionType, Submit, Call, Send, Goto

LEMMA CallsStay ==
  ASSUME SessionType, CallsAsked, HTypeOK, NEW s \in Session, NEW r, NEW k, Submit(s, r, k),
         UNCHANGED <<phase, funded, trial>>, sent \subseteq sent', Asked(s)'
  PROVE  CallsAsked'
<1>1. \A t \in Session : pc'[t] # "idle" => t \in busy'
  BY CallFacts DEF CallsAsked
<1>2. ASSUME NEW t \in busy'
      PROVE  Asked(t)'
  <2>1. CASE t = s
    BY <2>1
  <2>2. CASE t # s
    <3>1. t \in busy /\ t \in Session /\ job'[t] = job[t]
      BY <1>2, <2>2, CallFacts DEF HTypeOK
    <3> QED BY <3>1, AskedStays DEF CallsAsked
  <2> QED BY <2>1, <2>2
<1> QED BY <1>1, <1>2 DEF CallsAsked

LEMMA CallsAskedStep ==
  ASSUME IInv, HTypeOK, CallsAsked, [HNext]_harnessvars
  PROVE  CallsAsked'
<1> SessionType
  BY DEF IInv, TypeOK
<1> USE HarnessAssumption
<1>1. CASE Backend
  <2>1. PICK s \in Session : Step(s) \/ Abort(s)
    BY <1>1 DEF Backend
  <2>2. OnlyOf(s)
    BY <2>1, BackendStep
  <2>3. UNCHANGED <<phase, funded, trial, sent, busy>>
    BY <1>1 DEF Backend, hvars, runvars, trialvars
  <2>4. \A t \in Session : pc'[t] # "idle" => t \in busy'
    BY <2>2, <2>3 DEF OnlyOf, CallsAsked
  <2>5. \A t \in busy' : Asked(t)'
    BY <2>2, <2>3, AskedStays DEF OnlyOf, CallsAsked
  <2> QED BY <2>4, <2>5 DEF CallsAsked
<1>2. CASE Seed
  <2> DEFINE r == Pay(Min(Shared \ funded), InitialEach)
  <2>1. Submit(Main, r, NoKey) /\ UNCHANGED <<phase, funded, trial, sent>> /\ phase = "seed" /\ funded # Shared
    BY <1>2 DEF Seed, trialvars
  <2>2. Asked(Main)'
    BY <2>1, CallFacts DEF Asked
  <2> QED BY <2>1, <2>2, CallsStay
<1>3. CASE Seeded \/ TrialEnds
  BY <1>3 DEF Seeded, TrialEnds, recvars, vars, CallsAsked, Answered, Asked, HTypeOK, runvars
<1>4. CASE \/ SetupFails \/ StormBegins \/ StormEnds \/ MonitorGone \/ FinalSample
           \/ FinalSampleFails \/ FinalReport \/ TrialsEnd
  <2>1. busy' = busy /\ pc' = pc
    BY <1>4 DEF SetupFails, StormBegins, StormEnds, MonitorGone, FinalSample, Begin, RGoto,
       FinalSampleFails, FinalReport, TrialsEnd, recvars, vars
  <2>2. busy = {}
    BY <1>4 DEF SetupFails, StormBegins, StormEnds, MonitorGone, FinalSample,
       FinalSampleFails, FinalReport, TrialsEnd, CallsAsked, Asked
  <2> QED BY <2>1, <2>2 DEF CallsAsked
<1>5. CASE Reconciles \/ Monitor \/ UNCHANGED harnessvars
  <2>1. UNCHANGED <<phase, funded, trial, sent, busy, pc, job>>
    BY <1>5 DEF Reconciles, ReconcileStep, ReadUnbalanced, ReadStored, ReadDerived, ReadConservation,
       ReadCounts, ReadLines, QueryFails, RGoto, vars, local, recvars, harnessvars,
       Monitor, MonitorChecks, MonitorSums, MonitorSubset, MonitorSkips, hvars, runvars, trialvars
  <2> QED BY <2>1 DEF CallsAsked, Asked
<1>6. ASSUME NEW s \in Session, WorkerCall(s)
      PROVE  CallsAsked'
  <2>1. PICK from \in Shared, to \in Shared, amt \in Amount : Submit(s, Move(from, to, amt), NoKey)
    BY <1>6 DEF WorkerCall
  <2>2. UNCHANGED <<phase, funded, trial, sent>> /\ phase = "storm"
    BY <1>6 DEF WorkerCall, trialvars
  <2>3. job'[s].key = NoKey /\ job'[s].req = Move(from, to, amt)
    BY <2>1, CallFacts
  <2>4. Asked(s)'
    BY <2>2, <2>3 DEF Asked, Move
  <2> QED BY <2>1, <2>2, <2>4, CallsStay
<1>7. ASSUME NEW s \in Session, TrialCall(s)
      PROVE  CallsAsked'
  <2>1. /\ Submit(s, Pay(Sink, 1), Trials[trial]) /\ UNCHANGED <<phase, funded, trial>>
        /\ phase = "trial" /\ trial \in DOMAIN Trials /\ sent' = sent \union {s}
    BY <1>7 DEF TrialCall
  <2>2. Asked(s)'
    BY <2>1, CallFacts DEF Asked
  <2> QED BY <2>1, <2>2, CallsStay
<1>8. ASSUME NEW s \in Session, WorkerCounts(s) \/ TrialNotes(s)
      PROVE  CallsAsked'
  <2>1. UNCHANGED <<phase, funded, trial, sent, pc, job>> /\ busy' = busy \ {s} /\ pc[s] = "idle"
    BY <1>8 DEF WorkerCounts, TrialNotes, recvars, vars, local, trialvars, Answered
  <2>2. \A t \in busy' : Asked(t)'
    BY <2>1, AskedStays DEF CallsAsked
  <2>3. \A t \in Session : pc'[t] # "idle" => t \in busy'
    BY <2>1 DEF CallsAsked
  <2> QED BY <2>2, <2>3 DEF CallsAsked
<1> QED BY <1>1, <1>2, <1>3, <1>4, <1>5, <1>6, <1>7, <1>8 DEF HNext, RunStep, Goroutine, Returned

-----------------------------------------------------------------------------
(* What the journal gains with a commit of a call with two legs.           *)
LEMMA CommittedEntry ==
  ASSUME Below, NEW s \in Session, Posts(s), NEW r, r = job[s].req,
         r.op \in {"transfer", "payment"}
  PROVE  \E e \in JournalEntry :
           /\ journal \in Seq(JournalEntry) /\ journal' = Append(journal, e)
           /\ e.kind = r.op /\ e.legs = TwoLegs(r.from, r.to, r.cur, r.amount) /\ e.key = job[s].key
<1> DEFINE e == Posted(job[s].entry, job[s].key)
<1>1. journal' = Append(journal, e) /\ pc[s] # "idle"
  BY DEF Posts, Publish
<1>2. journal \in Seq(JournalEntry) /\ job[s] \in Job
  BY <1>1 DEF Below, Consistent, IInv, TypeOK, DbType, SessionType
<1>3. e \in JournalEntry
  BY <1>2 DEF Posted, JournalEntry, Job
<1>4. job[s].entry = Entry(r.op, 0, TwoLegs(r.from, r.to, r.cur, r.amount))
  <2>1. job[s].entry = EntryFor(journal, r)
    BY <1>1 DEF Below, AnswerInv, EntriesCurrent
  <2> QED BY <2>1 DEF EntryFor
<1>5. e.kind = r.op /\ e.legs = TwoLegs(r.from, r.to, r.cur, r.amount) /\ e.key = job[s].key
  BY <1>4 DEF Posted, Entry
<1> QED BY <1>1, <1>2, <1>3, <1>5

LEMMA TwoLegsDelta ==
  ASSUME NEW e, NEW from, NEW to, NEW amt \in Int, e.legs = TwoLegs(from, to, Cur, amt), NEW a
  PROVE  Delta(e, a) = (IF a = to THEN amt ELSE 0) + (IF a = from THEN -amt ELSE 0)
<1>1. /\ DOMAIN e.legs = 1 .. 2
      /\ e.legs[1].acct = from /\ e.legs[1].amt = -amt /\ e.legs[2].acct = to /\ e.legs[2].amt = amt
  BY DEF TwoLegs, Leg
<1>2. /\ AmountOn(e, 1, a) = (IF a = from THEN -amt ELSE 0)
      /\ AmountOn(e, 2, a) = (IF a = to THEN amt ELSE 0)
      /\ AmountOn(e, 3, a) = 0 /\ AmountOn(e, 4, a) = 0
  BY <1>1 DEF AmountOn
<1> QED BY <1>2 DEF Delta

LEMMA TwoLegsSum ==
  ASSUME NEW A, IsFiniteSet(A), NEW e, NEW from, NEW to, NEW amt \in Int,
         e.legs = TwoLegs(from, to, Cur, amt)
  PROVE  SetSum([a \in A |-> Delta(e, a)], A) =
           (IF to \in A THEN amt ELSE 0) + (IF from \in A THEN -amt ELSE 0)
<1> DEFINE f == [a \in A \union {to} |-> IF a = to THEN amt ELSE 0]
           g == [a \in A \union {from} |-> IF a = from THEN -amt ELSE 0]
           h == [a \in A |-> Delta(e, a)]
<1>1. \A a \in A : f[a] \in Int /\ g[a] \in Int /\ h[a] = f[a] + g[a]
  BY TwoLegsDelta
<1>2. f[to] = amt /\ g[from] = -amt /\ f[to] \in Int /\ g[from] \in Int
  OBVIOUS
<1>3. (\A a \in A : a # to => f[a] = 0) /\ (\A a \in A : a # from => g[a] = 0)
  OBVIOUS
<1> HIDE DEF f, g, h
<1>4. SetSum(h, A) = SetSum(f, A) + SetSum(g, A)
  BY <1>1, SetSumPlus
<1>5. SetSum(f, A) = IF to \in A THEN amt ELSE 0
  BY <1>2, <1>3, SetSumOne
<1>6. SetSum(g, A) = IF from \in A THEN -amt ELSE 0
  BY <1>2, <1>3, SetSumOne
<1> QED BY <1>4, <1>5, <1>6 DEF h

(* The shared accounts, as a sum.                                          *)
LEMMA SharedFacts ==
  /\ IsFiniteSet(Shared) /\ Cardinality(Shared) \in Nat /\ World \notin Shared /\ Sink \notin Shared
  /\ SharedSum = SetSum([a \in Shared |-> Derived(journal, a)], Shared)
  /\ SharedSum' = SetSum([a \in Shared |-> Derived(journal', a)], Shared)
<1>1. IsFiniteSet(Shared) /\ World \notin Shared /\ Sink \notin Shared
  BY HarnessAssumption, FS_Subset
<1>2. SharedSum = SetSum([a \in Shared |-> Derived(journal, a)], Shared)
  BY DEF SharedSum, SetSum, MapThenSumSet, MapThenFoldSet
<1>3. SharedSum' = SetSum([a \in Shared |-> Derived(journal', a)], Shared)
  BY DEF SharedSum, SetSum, MapThenSumSet, MapThenFoldSet
<1> QED BY <1>1, <1>2, <1>3, FS_CardinalityType

LEMMA SharedAppend ==
  ASSUME journal \in Seq(JournalEntry), NEW e \in JournalEntry, journal' = Append(journal, e),
         NEW from, NEW to, NEW amt \in Int, e.legs = TwoLegs(from, to, Cur, amt)
  PROVE  /\ SharedSum \in Int
         /\ SharedSum' = SharedSum + (IF to \in Shared THEN amt ELSE 0)
                                   + (IF from \in Shared THEN -amt ELSE 0)
         /\ \A a : Derived(journal', a) =
                     Derived(journal, a) + (IF a = to THEN amt ELSE 0) + (IF a = from THEN -amt ELSE 0)
         /\ \A a : Derived(journal, a) \in Int
<1> DEFINE A == Shared
           f == [a \in A |-> Derived(journal, a)]
           g == [a \in A |-> Delta(e, a)]
           h == [a \in A |-> Derived(journal', a)]
<1>1. \A a : /\ Derived(journal, a) \in Int /\ Delta(e, a) \in Int
             /\ Derived(journal', a) = Derived(journal, a) + Delta(e, a)
             /\ Delta(e, a) = (IF a = to THEN amt ELSE 0) + (IF a = from THEN -amt ELSE 0)
  BY DerivedType, DerivedAppend, TwoLegsDelta
<1>2. \A a \in A : f[a] \in Int /\ g[a] \in Int /\ h[a] = f[a] + g[a]
  BY <1>1
<1>3. IsFiniteSet(A) /\ SharedSum = SetSum(f, A) /\ SharedSum' = SetSum(h, A)
  BY SharedFacts
<1>4. SetSum(g, A) = (IF to \in A THEN amt ELSE 0) + (IF from \in A THEN -amt ELSE 0)
  BY <1>3, TwoLegsSum
<1> HIDE DEF f, g, h
<1>5. SetSum(h, A) = SetSum(f, A) + SetSum(g, A) /\ SetSum(f, A) \in Int
  BY <1>2, <1>3, SetSumPlus, SetSumType
<1>6. SharedSum' = SharedSum + (IF to \in Shared THEN amt ELSE 0) + (IF from \in Shared THEN -amt ELSE 0)
  BY <1>3, <1>4, <1>5
<1>7. \A a : Derived(journal', a) =
               Derived(journal, a) + (IF a = to THEN amt ELSE 0) + (IF a = from THEN -amt ELSE 0)
  BY <1>1
<1> QED BY <1>1, <1>3, <1>5, <1>6, <1>7

-----------------------------------------------------------------------------
(* Where the money is.                                                     *)
LEMMA MoneyStays ==
  ASSUME journal' = journal
  PROVE  /\ \A n : Placed(n) => Placed(n)'
         /\ \A a : Derived(journal', a) = Derived(journal, a)
<1>1. SharedSum' = SharedSum
  BY SharedFacts
<1>2. \A a : Derived(journal', a) = Derived(journal, a)
  OBVIOUS
<1> QED BY <1>1, <1>2 DEF Placed

(* Before the trials a call has no key, so its answer is no replay.        *)
LEMMA NoReplayEarly ==
  ASSUME Below, CallsAsked, phase # "trial", NEW s \in Session, pc[s] # "idle"
  PROVE  s \in busy /\ Asked(s) /\ job[s].key = NoKey /\ pc[s] # "replay"
BY DEF Below, Consistent, IInv, OwnsKey, CallsAsked, Asked

LEMMA BackendMoney ==
  ASSUME Below, HTypeOK, CallsAsked, MoneyPlaced, Backend
  PROVE  MoneyPlaced'
<1> USE HarnessAssumption
<1>1. PICK s \in Session : Step(s) \/ Abort(s)
  BY DEF Backend
<1>2. OnlyOf(s) /\ (Posts(s) \/ Quiet(s)) /\ pc[s] # "idle"
  BY <1>1, BackendStep DEF Below, Consistent, OnlyOf
<1>3. UNCHANGED <<phase, funded, busy>>
  BY DEF Backend, hvars, runvars
<1>4. phase # "trial" => s \in busy /\ Asked(s) /\ job[s].key = NoKey /\ pc[s] # "replay"
  BY <1>2, NoReplayEarly
<1>5. phase = "seed" => s = Main
  BY <1>4 DEF Asked
<1>6. CASE Quiet(s)
  <2>1. journal' = journal
    BY <1>6 DEF Quiet, db
  <2>2. phase = "seed" => ~(pc'[Main] = "idle" /\ reply'[Main].status = "ok")
    BY <1>4, <1>5, <1>6 DEF Quiet
  <2> QED BY <1>2, <1>3, <1>5, <2>1, <2>2, MoneyStays DEF MoneyPlaced, Answered
<1>7. CASE Posts(s) /\ phase = "seed"
  <2>1. PICK x \in Shared : job[s].req = Pay(x, InitialEach)
    BY <1>4, <1>7, NextToSeed DEF Asked, HTypeOK
  <2>2. PICK e \in JournalEntry :
          journal \in Seq(JournalEntry) /\ journal' = Append(journal, e)
            /\ e.legs = TwoLegs(World, x, Cur, InitialEach)
    <3>1. /\ job[s].req.op = "payment" /\ job[s].req.from = World /\ job[s].req.to = x
          /\ job[s].req.cur = Cur /\ job[s].req.amount = InitialEach
      BY <2>1 DEF Pay
    <3> QED BY <1>7, <3>1, CommittedEntry
  <2>3. PICK n \in Nat : n = Cardinality(funded)
    BY SharedFacts, FS_Subset, FS_CardinalityType DEF HTypeOK
  <2>4. Placed(n)
    BY <1>2, <1>5, <1>7, <2>3 DEF MoneyPlaced
  <2>5. /\ SharedSum' = SharedSum + InitialEach
        /\ Derived(journal', World) = Derived(journal, World) - InitialEach
        /\ \A a : a \notin Shared \union {World} => Derived(journal', a) = Derived(journal, a)
    <3>0. InitialEach \in Int /\ World \notin Shared /\ x \in Shared
      BY SharedFacts
    <3>1. /\ SharedSum \in Int
          /\ SharedSum' = SharedSum + (IF x \in Shared THEN InitialEach ELSE 0) + (IF World \in Shared THEN -InitialEach ELSE 0)
          /\ \A a : Derived(journal', a) = Derived(journal, a)
                      + (IF a = x THEN InitialEach ELSE 0) + (IF a = World THEN -InitialEach ELSE 0)
          /\ \A a : Derived(journal, a) \in Int
      BY <2>2, <3>0, SharedAppend
    <3> QED BY <3>0, <3>1
  <2>6. InitialEach * (n + 1) = InitialEach * n + InitialEach /\ InitialEach * n \in Int
    BY <2>3
  <2>7. Placed(n + 1)'
    BY <2>4, <2>5, <2>6 DEF Placed
  <2>8. Placed(Cardinality(funded) + 1)'
    BY <1>3, <2>3, <2>7 DEF Placed
  <2> QED BY <1>3, <1>4, <1>5, <1>7, <2>5, <2>8 DEF MoneyPlaced, Posts, Answered
<1>8. CASE Posts(s) /\ phase = "storm"
  <2>1. PICK from \in Shared, to \in Shared, amt \in Amount :
          job[s].req = Move(from, to, amt)
    BY <1>4, <1>8 DEF Asked
  <2>2. amt \in Int
    OBVIOUS
  <2>3. PICK e \in JournalEntry :
          journal \in Seq(JournalEntry) /\ journal' = Append(journal, e)
            /\ e.legs = TwoLegs(from, to, Cur, amt)
    <3>1. /\ job[s].req.op = "transfer" /\ job[s].req.from = from /\ job[s].req.to = to
          /\ job[s].req.cur = Cur /\ job[s].req.amount = amt
      BY <2>1 DEF Move
    <3> QED BY <1>8, <3>1, CommittedEntry
  <2>4. World \notin Shared /\ from \in Shared /\ to \in Shared
    BY SharedFacts
  <2>5. /\ SharedSum' = SharedSum
        /\ Derived(journal', World) = Derived(journal, World)
        /\ \A a : a \notin Shared \union {World} => Derived(journal', a) = Derived(journal, a)
    <3>1. /\ SharedSum \in Int /\ Derived(journal, World) \in Int
          /\ SharedSum' = SharedSum + amt + (-amt)
          /\ \A a : Derived(journal', a) =
                      Derived(journal, a) + (IF a = to THEN amt ELSE 0) + (IF a = from THEN -amt ELSE 0)
          /\ \A a : Derived(journal, a) \in Int
      BY <2>2, <2>3, <2>4, SharedAppend
    <3> QED BY <2>2, <2>4, <3>1
  <2>6. Placed(Cardinality(Shared))'
    BY <1>8, <2>5 DEF MoneyPlaced, Placed
  <2> QED BY <1>3, <1>8, <2>5, <2>6 DEF MoneyPlaced
<1>9. CASE phase \notin {"seed", "storm"}
  <2>1. phase \notin {"seed", "storm", "stopping", "final", "reconcile"}
    BY <1>4, <1>9 DEF Asked
  <2> QED BY <1>3, <2>1 DEF MoneyPlaced
<1> QED BY <1>2, <1>6, <1>7, <1>8, <1>9

LEMMA RunMoney ==
  ASSUME Below, HTypeOK, CallsAsked, MoneyPlaced, RunStep
  PROVE  MoneyPlaced'
<1> USE HarnessAssumption
<1> SessionType
  BY DEF Below, Consistent, IInv, TypeOK
<1>1. journal' = journal
  BY DEF RunStep, Seed, Submit, Call, Send, db, Seeded, SetupFails, StormBegins, StormEnds, MonitorGone,
     FinalSample, Begin, RGoto, FinalSampleFails, Reconciles, ReconcileStep, ReadUnbalanced, ReadStored,
     ReadDerived, ReadConservation, ReadCounts, ReadLines, QueryFails, FinalReport, TrialEnds, TrialsEnd,
     recvars, vars
<1>2. CASE Seed
  <2>1. /\ Main \notin busy /\ pc'[Main] = "begin" /\ phase = "seed"
        /\ UNCHANGED <<phase, funded>>
    BY <1>2, CallFacts DEF Seed
  <2> QED BY <1>1, <2>1, MoneyStays DEF MoneyPlaced, Answered
<1>3. CASE Seeded
  <2>1. phase = "seed" /\ Answered(Main) /\ busy' = {} /\ UNCHANGED <<pc, reply>>
    BY <1>3 DEF Seeded, recvars, vars
  <2>2. CASE reply[Main].status = "ok"
    <3>1. phase' = "seed" /\ funded' = funded \union {Min(Shared \ funded)}
      BY <1>3, <2>1, <2>2 DEF Seeded
    <3>2. funded # Shared
      BY <2>1 DEF HTypeOK, Answered
    <3>3. IsFiniteSet(funded)
      BY SharedFacts, FS_Subset DEF HTypeOK
    <3>4. Min(Shared \ funded) \notin funded
      BY <3>2, NextToSeed DEF HTypeOK
    <3>5. Cardinality(funded') = Cardinality(funded) + 1
      BY <3>1, <3>3, <3>4, FS_AddElement
    <3> QED BY <1>1, <2>1, <2>2, <3>1, <3>5, MoneyStays DEF MoneyPlaced, Answered
  <2>3. CASE reply[Main].status # "ok"
    BY <1>3, <2>3 DEF Seeded, Moves, MoneyPlaced
  <2> QED BY <2>2, <2>3
<1>4. CASE StormBegins
  <2>1. phase = "seed" /\ funded = Shared /\ phase' = "storm" /\ Main \notin busy
    BY <1>4 DEF StormBegins, Moves, HTypeOK
  <2> QED BY <1>1, <2>1, MoneyStays DEF MoneyPlaced
<1>5. CASE StormEnds \/ MonitorGone \/ FinalSample \/ Reconciles
  <2>1. /\ phase \in {"storm", "stopping", "final", "reconcile"}
        /\ phase' \in {"storm", "stopping", "final", "reconcile"}
    BY <1>5 DEF StormEnds, MonitorGone, FinalSample, Reconciles, Moves, hvars, runvars
  <2> QED BY <1>1, <2>1, MoneyStays DEF MoneyPlaced
<1>6. CASE SetupFails \/ FinalSampleFails \/ FinalReport \/ TrialEnds \/ TrialsEnd
  <2>1. phase' \in {"failed", "trial", "done"}
    BY <1>6 DEF SetupFails, FinalSampleFails, FinalReport, TrialEnds, TrialsEnd, Moves, runvars
  <2> QED BY <2>1 DEF MoneyPlaced
<1> QED BY <1>2, <1>3, <1>4, <1>5, <1>6 DEF RunStep

LEMMA GoroutineMoney ==
  ASSUME Below, HTypeOK, CallsAsked, MoneyPlaced, NEW s \in Session, Goroutine(s)
  PROVE  MoneyPlaced'
<1>1. phase \in {"storm", "trial"} /\ phase' = phase /\ journal' = journal
  BY DEF Goroutine, WorkerCall, WorkerCounts, TrialCall, TrialNotes, Submit, Call, Send, db, recvars, vars
<1> QED BY <1>1, MoneyStays DEF MoneyPlaced

LEMMA MoneyPlacedStep ==
  ASSUME Below, HTypeOK, CallsAsked, MoneyPlaced, [HNext]_harnessvars
  PROVE  MoneyPlaced'
<1>1. CASE Monitor \/ UNCHANGED harnessvars
  <2>1. UNCHANGED <<phase, funded, busy, pc, reply, journal>>
    BY <1>1 DEF Monitor, MonitorChecks, MonitorSums, MonitorSubset, MonitorSkips, recvars, vars, db,
       runvars, harnessvars, hvars
  <2> QED BY <2>1, MoneyStays DEF MoneyPlaced, Answered
<1> QED BY <1>1, BackendMoney, RunMoney, GoroutineMoney DEF HNext, Returned

-----------------------------------------------------------------------------
(* During the storm every balance is the exact sum of its postings, for    *)
(* the world's debt is the seeds, which fit.                               *)
LEMMA BalancesExact ==
  ASSUME Below, MoneyPlaced, phase \in {"storm", "stopping", "final"}, NEW a \in Account
  PROVE  balance[a] = Derived(journal, a) /\ Derived(journal, a) \in Int
<1>1. journal \in Seq(JournalEntry) /\ balance[a] = Wrap(Derived(journal, a))
  BY DEF Below, Consistent, IInv, TypeOK, DbType, NoDrift
<1>2. Derived(journal, a) \in Int
  BY <1>1, DerivedType
<1>3. CASE a \in Shared
  BY <1>2, <1>3, HarnessAssumption DEF Below, Consistent, Exact, ExactWhereBounded
<1>4. CASE a = World
  <2>1. Derived(journal, World) = -(InitialEach * Cardinality(Shared))
    BY DEF MoneyPlaced, Placed
  <2>2. InitialEach * Cardinality(Shared) \in 0 .. MaxInt
    BY HarnessAssumption, SharedFacts, MaxIntAssumption
  <2>3. Derived(journal, a) \in Int64
    BY <1>4, <2>1, <2>2, MaxIntAssumption DEF Int64
  <2> QED BY <1>1, <1>2, <2>3, WrapFits
<1>5. CASE a \notin Shared \union {World}
  <2>1. Derived(journal, a) = 0
    BY <1>5 DEF MoneyPlaced
  <2>2. 0 \in Int64
    BY MaxIntAssumption DEF Int64
  <2> QED BY <1>1, <1>2, <2>1, <2>2, WrapFits
<1> QED BY <1>2, <1>3, <1>4, <1>5

LEMMA SetSumSame ==
  ASSUME NEW A, IsFiniteSet(A), NEW f, NEW g, \A a \in A : f[a] \in Int /\ g[a] = f[a]
  PROVE  SetSum(g, A) = SetSum(f, A)
<1> DEFINE z == [a \in A |-> 0]
<1>1. \A a \in A : f[a] \in Int /\ z[a] \in Int /\ z[a] = 0 /\ g[a] = f[a] + z[a]
  OBVIOUS
<1> HIDE DEF z
<1>2. SetSum(g, A) = SetSum(f, A) + SetSum(z, A)
  BY <1>1, SetSumPlus
<1>3. SetSum(z, A) = 0 /\ SetSum(f, A) \in Int
  BY <1>1, SetSumZero, SetSumType
<1> QED BY <1>2, <1>3

(* So the monitor's sums are those of the postings.                        *)
LEMMA SumOfDerived ==
  ASSUME Below, MoneyPlaced, phase \in {"storm", "stopping", "final"},
         NEW A, IsFiniteSet(A), A \subseteq Account
  PROVE  SumOf(A) = SetSum([a \in A |-> Derived(journal, a)], A)
<1> DEFINE f == [a \in A |-> Derived(journal, a)]
<1>1. \A a \in A : f[a] \in Int /\ balance[a] = f[a]
  BY BalancesExact
<1> HIDE DEF f
<1>2. SetSum(balance, A) = SetSum(f, A)
  BY <1>1, SetSumSame
<1>3. SumOf(A) = SetSum(balance, A)
  BY DEF SumOf, SetSum
<1> QED BY <1>2, <1>3 DEF f

LEMMA SamplesShowNothing ==
  ASSUME Below, MoneyPlaced, phase \in {"storm", "stopping", "final"},
         alarm = [conservation |-> 0, negative |-> 0, lost |-> 0]
  PROVE  /\ Sampled = alarm
         /\ Cardinality({c \in Currency : SumOf({a \in Account : CurrencyOf[a] = c}) # 0}) = 0
<1>1. ASSUME NEW c \in Currency
      PROVE  SumOf({a \in Account : CurrencyOf[a] = c}) = 0
  <2> DEFINE A == {a \in Account : CurrencyOf[a] = c}
  <2>1. IsFiniteSet(A) /\ SetSum([a \in A |-> Derived(journal, a)], A) = 0
    BY JournalSums, HarnessAssumption DEF Below, Consistent, IInv, TypeOK, DbType
  <2>2. A \subseteq Account
    OBVIOUS
  <2> HIDE DEF A
  <2>3. SumOf(A) = 0
    BY <2>1, <2>2, SumOfDerived
  <2> QED BY <2>3 DEF A
<1>2. {c \in Currency : SumOf({a \in Account : CurrencyOf[a] = c}) # 0} = {}
  BY <1>1
<1>3. ~ \E a \in Shared : balance[a] < 0
  <2>1. \A a \in Account \ AllowNegative : balance[a] \in Int /\ balance[a] >= 0
    BY MaxIntAssumption DEF Below, Consistent, IInv, NoOverdraft, TypeOK, DbType, Int64
  <2> QED BY <2>1, HarnessAssumption
<1>4. SumOf(Shared) = SeededTotal
  <2>1. Shared \subseteq Account /\ IsFiniteSet(Shared)
    BY SharedFacts, HarnessAssumption
  <2>2. SumOf(Shared) = SharedSum
    BY <2>1, SumOfDerived, SharedFacts
  <2> QED BY <2>2 DEF MoneyPlaced, Placed, SeededTotal
<1>5. Sampled = alarm
  <2>1. Sampled = [alarm EXCEPT !.negative = @ + 0, !.lost = @ + 0]
    BY <1>3, <1>4 DEF Sampled
  <2>2. alarm.negative + 0 = 0 /\ alarm.lost + 0 = 0
    OBVIOUS
  <2>3. Sampled = [[alarm EXCEPT !.negative = 0] EXCEPT !.lost = 0]
    BY <2>1, <2>2
  <2>4. [alarm EXCEPT !.negative = 0] = alarm /\ [alarm EXCEPT !.lost = 0] = alarm
    OBVIOUS
  <2> QED BY <2>3, <2>4
<1> QED BY <1>2, <1>5, FS_EmptySet

-----------------------------------------------------------------------------
(* The report of a ledger at rest.                                         *)
LEMMA NoRecentNoDrift ==
  ASSUME Below, rep.at = Len(journal)
  PROVE  rep.drift = {}
<1>1. Len(journal) \in Nat
  BY DEF Below, Consistent, IInv, TypeOK, DbType
<1>2. rep.at + 1 .. Len(journal) = {}
  BY <1>1
<1> QED BY <1>2 DEF Below, ReportInv, DriftIsRecent, Recent

LEMMA QueriesReport ==
  ASSUME Below, phase = "reconcile", ReportedAtRest, ReconcileStep, phase' = phase
  PROVE  ReportedAtRest'
<1> SUFFICES /\ rpc' = "idle" => rep'.drift = {}
             /\ rpc' # "idle" => rep'.at = Len(journal')
             /\ rpc' = "done" => rep'.ok
  BY DEF ReportedAtRest
<1> ReportType /\ journal' = journal
  BY DEF ReconcileStep, ReadUnbalanced, ReadStored, ReadDerived, ReadConservation, ReadCounts,
     ReadLines, QueryFails, RGoto, vars, db, Below, ReportInv
<1>1. CASE QueryFails
  BY <1>1, NoReportHolds DEF QueryFails, RGoto
<1>2. CASE ReadCounts
  <2>1. rpc = "counts" /\ rpc' = "done" /\ rep' = [rep EXCEPT !.ok = rep.unbalanced = {} /\ rep.drift = {} /\ rep.conserved]
    BY <1>2 DEF ReadCounts, RGoto
  <2>2. rep.at = Len(journal)
    BY <2>1 DEF ReportedAtRest
  <2>3. rep.drift = {}
    BY <2>2, NoRecentNoDrift
  <2>4. rep.unbalanced = {} /\ rep.conserved
    BY DEF Below, ReportInv, JournalChecksHold
  <2>5. rep'.at = rep.at /\ rep'.ok
    BY <2>1, <2>3, <2>4 DEF ReportType
  <2> QED BY <2>1, <2>2, <2>5
<1>3. CASE ReadUnbalanced \/ ReadStored \/ ReadDerived \/ ReadConservation \/ ReadLines
  <2>1. rpc # "idle" /\ rpc' \notin {"idle", "done"}
    BY <1>3 DEF ReadUnbalanced, ReadStored, ReadDerived, ReadConservation, ReadLines, RGoto
  <2>2. rep'.at = rep.at
    BY <1>3 DEF ReadUnbalanced, ReadStored, ReadDerived, ReadConservation, ReadLines, ReportType
  <2> QED BY <2>1, <2>2 DEF ReportedAtRest
<1> QED BY <1>1, <1>2, <1>3 DEF ReconcileStep

LEMMA ReportedStep ==
  ASSUME Below, CallsAsked, ReportedAtRest, [HNext]_harnessvars
  PROVE  ReportedAtRest'
<1>1. CASE Reconciles
  BY <1>1, QueriesReport DEF Reconciles, hvars, runvars
<1>2. CASE FinalSample
  <2>1. rep' = [NoReport EXCEPT !.at = Len(journal)] /\ rpc' = "unbalanced" /\ journal' = journal
    BY <1>2 DEF FinalSample, Begin, RGoto, vars, db
  <2>2. phase' = "reconcile" /\ Len(journal) \in Nat
    BY <1>2 DEF FinalSample, Moves, Below, Consistent, IInv, TypeOK, DbType
  <2>3. rep'.at = Len(journal')
    BY <2>1, <2>2, ReportStarts
  <2> QED BY <2>1, <2>2, <2>3 DEF ReportedAtRest
<1>3. CASE Backend
  <2>1. UNCHANGED <<rpc, rep, phase>>
    BY <1>3 DEF Backend, rvars, hvars, runvars
  <2>2. phase # "reconcile"
    <3>1. PICK s \in Session : Step(s) \/ Abort(s)
      BY <1>3 DEF Backend
    <3>2. pc[s] # "idle"
      BY <3>1, BackendStep DEF Below, Consistent, OnlyOf
    <3> QED BY <3>2 DEF CallsAsked, Asked
  <2> QED BY <2>1, <2>2 DEF ReportedAtRest
<1>4. CASE \/ Seed \/ Seeded \/ SetupFails \/ StormBegins \/ StormEnds \/ MonitorGone
           \/ FinalSampleFails \/ FinalReport \/ TrialEnds \/ TrialsEnd
           \/ (\E s \in Session : Goroutine(s))
  <2>1. UNCHANGED <<rpc, rep>>
    BY <1>4 DEF Seed, Seeded, SetupFails, StormBegins, StormEnds, MonitorGone, FinalSampleFails,
       FinalReport, TrialEnds, TrialsEnd, Goroutine, WorkerCall, WorkerCounts, TrialCall, TrialNotes,
       recvars, rvars
  <2>2. /\ phase' # "reconcile"
        /\ phase' \in {"seed", "storm", "stopping", "final"} =>
             phase \in {"seed", "storm", "stopping", "final"}
    BY <1>4 DEF Seed, Seeded, SetupFails, StormBegins, StormEnds, MonitorGone, FinalSampleFails,
       FinalReport, TrialEnds, TrialsEnd, Goroutine, WorkerCall, WorkerCounts, TrialCall, TrialNotes,
       Moves, runvars
  <2> QED BY <2>1, <2>2 DEF ReportedAtRest
<1>5. CASE Monitor \/ UNCHANGED harnessvars
  <2>1. UNCHANGED <<rpc, rep, phase, journal>>
    BY <1>5 DEF Monitor, MonitorChecks, MonitorSums, MonitorSubset, MonitorSkips, recvars, rvars, vars, db,
       harnessvars, hvars, runvars
  <2> QED BY <2>1 DEF ReportedAtRest
<1> QED BY <1>1, <1>2, <1>3, <1>4, <1>5 DEF HNext, RunStep, Returned

LEMMA NoFalseAlarmStep ==
  ASSUME Below, MonitorPlace, CallsAsked, MoneyPlaced, ReportedAtRest, NoFalseAlarm, HTypeOK,
         [HNext]_harnessvars
  PROVE  NoFalseAlarm'
<1> DEFINE none == [conservation |-> 0, negative |-> 0, lost |-> 0]
<1>1. alarm = none
  BY DEF NoFalseAlarm
<1>2. CASE Monitor
  <2>1. UNCHANGED <<rep, phase>>
    BY <1>2 DEF Monitor, MonitorChecks, MonitorSums, MonitorSubset, MonitorSkips, recvars, rvars, runvars
  <2>2. CASE MonitorChecks \/ MonitorSkips
    BY <1>1, <2>1, <2>2 DEF MonitorChecks, MonitorSkips, NoFalseAlarm
  <2>3. CASE MonitorSums \/ MonitorSubset
    <3>1. phase \in {"storm", "stopping"}
      BY <2>3 DEF MonitorSums, MonitorSubset, MonitorPlace, HTypeOK
    <3>2. alarm' = alarm
      <4>1. /\ Sampled = alarm
            /\ Cardinality({c \in Currency : SumOf({a \in Account : CurrencyOf[a] = c}) # 0}) = 0
        BY <1>1, <3>1, SamplesShowNothing
      <4>2. CASE MonitorSums
        BY <1>1, <4>1, <4>2 DEF MonitorSums
      <4> QED BY <2>3, <4>1, <4>2 DEF MonitorSubset
    <3> QED BY <2>1, <3>2 DEF NoFalseAlarm
  <2> QED BY <1>2, <2>2, <2>3 DEF Monitor
<1>3. CASE FinalSample
  <2>1. phase = "final" /\ phase' = "reconcile" /\ alarm' = Sampled
    BY <1>3 DEF FinalSample, Moves
  <2>2. Sampled = alarm
    BY <1>1, <2>1, SamplesShowNothing
  <2> QED BY <1>1, <2>1, <2>2 DEF NoFalseAlarm
<1>4. CASE FinalReport
  <2>1. /\ phase = "reconcile" /\ rep' = rep /\ phase' \in {"trial", "failed"}
        /\ phase' = "trial" => rpc = "done"
        /\ alarm' = [alarm EXCEPT !.lost = @ + Cardinality(rep.drift)]
    BY <1>4 DEF FinalReport, Moves, recvars, rvars
  <2>2. rep.drift = {}
    BY <2>1, NoRecentNoDrift DEF ReportedAtRest
  <2>3. alarm' = alarm
    BY <1>1, <2>1, <2>2, FS_EmptySet
  <2> QED BY <1>1, <2>1, <2>3 DEF NoFalseAlarm, ReportedAtRest
<1>5. CASE Reconciles
  BY <1>5 DEF Reconciles, NoFalseAlarm, hvars, runvars, monvars
<1>6. CASE \/ Seed \/ Seeded \/ SetupFails \/ StormBegins \/ StormEnds \/ MonitorGone
           \/ FinalSampleFails \/ TrialEnds \/ TrialsEnd \/ (\E s \in Session : Goroutine(s))
           \/ Backend \/ UNCHANGED harnessvars
  <2>1. UNCHANGED <<alarm, rep>>
    BY <1>6 DEF Seed, Seeded, SetupFails, StormBegins, StormEnds, MonitorGone, FinalSampleFails,
       TrialEnds, TrialsEnd, Goroutine, WorkerCall, WorkerCounts, TrialCall, TrialNotes, Backend,
       harnessvars, recvars, rvars, hvars, monvars
  <2>2. phase' \in {"trial", "done"} => phase \in {"trial", "done"}
    BY <1>6 DEF Seed, Seeded, SetupFails, StormBegins, StormEnds, MonitorGone, FinalSampleFails,
       TrialEnds, TrialsEnd, Goroutine, WorkerCall, WorkerCounts, TrialCall, TrialNotes, Backend,
       Moves, harnessvars, hvars, runvars
  <2> QED BY <2>1, <2>2 DEF NoFalseAlarm
<1> QED BY <1>2, <1>3, <1>4, <1>5, <1>6 DEF HNext, RunStep, Returned

-----------------------------------------------------------------------------
(* The transfers in the journal.                                           *)
LEMMA TransfersType == journal \in Seq(JournalEntry) => Transfers \in Nat
<1> SUFFICES ASSUME journal \in Seq(JournalEntry)
             PROVE  Transfers \in Nat
  OBVIOUS
<1>1. IsFiniteSet(1 .. Len(journal)) /\ DOMAIN journal = 1 .. Len(journal)
  BY FS_Interval
<1> QED BY <1>1, FS_Subset, FS_CardinalityType DEF Transfers

LEMMA TransfersAppend ==
  ASSUME journal \in Seq(JournalEntry), NEW e \in JournalEntry, journal' = Append(journal, e)
  PROVE  Transfers' = Transfers + (IF e.kind = "transfer" THEN 1 ELSE 0)
<1> DEFINE T == {n \in DOMAIN journal : journal[n].kind = "transfer"}
           U == {n \in DOMAIN journal' : journal'[n].kind = "transfer"}
           m == Len(journal) + 1
<1>1. /\ DOMAIN journal = 1 .. Len(journal) /\ Len(journal) \in Nat /\ DOMAIN journal' = 1 .. m
      /\ journal'[m] = e /\ \A n \in 1 .. Len(journal) : journal'[n] = journal[n]
  OBVIOUS
<1>2. m \notin T /\ U = IF e.kind = "transfer" THEN T \union {m} ELSE T
  BY <1>1
<1>3. IsFiniteSet(T)
  <2>1. IsFiniteSet(1 .. Len(journal)) /\ T \subseteq 1 .. Len(journal)
    BY <1>1, FS_Interval
  <2> QED BY <2>1, FS_Subset
<1> HIDE DEF T, U, m
<1>4. Cardinality(T) \in Nat
  BY <1>3, FS_CardinalityType
<1>5. Cardinality(U) = Cardinality(T) + (IF e.kind = "transfer" THEN 1 ELSE 0)
  <2>1. Cardinality(T \union {m}) = Cardinality(T) + 1
    BY <1>2, <1>3, FS_AddElement
  <2> QED BY <1>2, <1>4, <2>1
<1> QED BY <1>5 DEF Transfers, T, U

(* The answers not yet counted.                                            *)
LEMMA AnswerSets ==
  ASSUME busy \subseteq Session
  PROVE  /\ IsFiniteSet(busy) /\ IsFiniteSet(Oks) /\ IsFiniteSet(Errors)
         /\ Cardinality(busy) \in Nat /\ Cardinality(Oks) \in Nat /\ Cardinality(Errors) \in Nat
         /\ Cardinality(Oks) + Cardinality(Errors) <= Cardinality(busy)
<1>1. IsFiniteSet(busy)
  BY FiniteAssumption, FS_Subset
<1>2. Oks \subseteq busy /\ Errors \subseteq busy /\ Oks \intersect Errors = {}
  BY DEF Oks, Errors
<1>3. IsFiniteSet(Oks) /\ IsFiniteSet(Errors)
  BY <1>1, <1>2, FS_Subset
<1>4. Cardinality(busy) \in Nat /\ Cardinality(Oks) \in Nat /\ Cardinality(Errors) \in Nat
  BY <1>1, <1>3, FS_CardinalityType
<1>5. Cardinality(Oks \union Errors) = Cardinality(Oks) + Cardinality(Errors)
  <2>1. Cardinality(Oks \intersect Errors) = 0
    BY <1>2, FS_EmptySet
  <2> QED BY <1>3, <1>4, <2>1, FS_Union
<1>6. Cardinality(Oks \union Errors) <= Cardinality(busy)
  BY <1>1, <1>2, FS_Subset
<1> QED BY <1>1, <1>3, <1>4, <1>5, <1>6

(* A call that a step of the backend ends becomes one answer.              *)
LEMMA BackendAnswers ==
  ASSUME HTypeOK, NEW s \in busy, OnlyOf(s), busy' = busy
  PROVE  /\ pc'[s] # "idle" => Oks' = Oks /\ Errors' = Errors
         /\ pc'[s] = "idle" /\ reply'[s].status = "rejected" => Oks' = Oks /\ Errors' = Errors
         /\ pc'[s] = "idle" /\ reply'[s].status = "ok" =>
              Errors' = Errors /\ Cardinality(Oks') = Cardinality(Oks) + 1
         /\ pc'[s] = "idle" /\ reply'[s].status = "error" =>
              Oks' = Oks /\ Cardinality(Errors') = Cardinality(Errors) + 1
<1>1. s \notin Oks /\ s \notin Errors
  BY DEF OnlyOf, Oks, Errors
<1>2. \A t \in busy : t # s => pc'[t] = pc[t] /\ reply'[t] = reply[t]
  BY DEF OnlyOf, HTypeOK
<1>3. pc'[s] # "idle" => Oks' = Oks /\ Errors' = Errors
  BY <1>1, <1>2 DEF Oks, Errors
<1>4. pc'[s] = "idle" /\ reply'[s].status = "rejected" => Oks' = Oks /\ Errors' = Errors
  BY <1>1, <1>2 DEF Oks, Errors
<1>5. pc'[s] = "idle" /\ reply'[s].status = "ok" => Errors' = Errors /\ Oks' = Oks \union {s}
  BY <1>1, <1>2 DEF Oks, Errors
<1>6. pc'[s] = "idle" /\ reply'[s].status = "error" => Oks' = Oks /\ Errors' = Errors \union {s}
  BY <1>1, <1>2 DEF Oks, Errors
<1>7. IsFiniteSet(Oks) /\ IsFiniteSet(Errors)
  BY AnswerSets DEF HTypeOK
<1>8. Cardinality(Oks \union {s}) = Cardinality(Oks) + 1 /\ Cardinality(Errors \union {s}) = Cardinality(Errors) + 1
  BY <1>1, <1>7, FS_AddElement
<1> QED BY <1>3, <1>4, <1>5, <1>6, <1>8

LEMMA BackendAccounted ==
  ASSUME Below, HTypeOK, CallsAsked, Accounted, Backend
  PROVE  Accounted'
<1>1. PICK s \in Session : Step(s) \/ Abort(s)
  BY DEF Backend
<1>2. OnlyOf(s) /\ (Posts(s) \/ Quiet(s)) /\ pc[s] # "idle"
  BY <1>1, BackendStep DEF Below, Consistent, OnlyOf
<1>3. UNCHANGED <<phase, count, busy>>
  BY DEF Backend, hvars, runvars
<1>4. s \in busy /\ Asked(s)
  BY <1>2 DEF CallsAsked
<1>5. phase # "trial" => pc[s] # "replay"
  BY <1>2, NoReplayEarly
<1>6. /\ count.committed \in Nat /\ count.other \in Nat /\ Transfers \in Nat
      /\ Cardinality(Oks) \in Nat /\ Cardinality(Errors) \in Nat
  BY AnswerSets, TransfersType DEF HTypeOK, Below, Consistent, IInv, TypeOK, DbType
<1>7. CASE Quiet(s)
  <2>1. Transfers' = Transfers
    BY <1>7 DEF Quiet, db, Transfers
  <2>2. CASE phase = "storm"
    <3>1. pc'[s] # "idle" \/ reply'[s].status \in {"rejected", "error"}
      BY <1>5, <1>7, <2>2 DEF Quiet
    <3>2. /\ Cardinality(Oks') = Cardinality(Oks)
          /\ Cardinality(Errors') \in {Cardinality(Errors), Cardinality(Errors) + 1}
      BY <1>2, <1>3, <1>4, <3>1, BackendAnswers
    <3> QED BY <1>3, <1>6, <2>1, <2>2, <3>2 DEF Accounted
  <2> QED BY <1>3, <2>1, <2>2 DEF Accounted
<1>8. CASE Posts(s) /\ phase = "storm"
  <2>1. Transfers' = Transfers + 1
    <3>1. job[s].req.op = "transfer"
      <4>1. PICK from \in Shared, to \in Shared, amt \in Amount : job[s].req = Move(from, to, amt)
        BY <1>4, <1>8 DEF Asked
      <4> QED BY <4>1 DEF Move
    <3>2. PICK e \in JournalEntry :
            journal \in Seq(JournalEntry) /\ journal' = Append(journal, e) /\ e.kind = "transfer"
      BY <1>8, <3>1, CommittedEntry
    <3> QED BY <3>2, TransfersAppend
  <2>2. \/ Cardinality(Oks') = Cardinality(Oks) + 1 /\ Cardinality(Errors') = Cardinality(Errors)
        \/ Cardinality(Oks') = Cardinality(Oks) /\ Cardinality(Errors') = Cardinality(Errors) + 1
    <3>1. busy' = busy /\ pc'[s] = "idle" /\ reply'[s].status \in {"ok", "error"}
      BY <1>3, <1>8 DEF Posts
    <3> QED BY <1>2, <1>4, <3>1, BackendAnswers
  <2>3. /\ count.committed + Cardinality(Oks) <= Transfers
        /\ Transfers <= count.committed + Cardinality(Oks) + count.other + Cardinality(Errors)
    BY <1>8 DEF Accounted
  <2>4. /\ count.committed + Cardinality(Oks') <= Transfers + 1
        /\ Transfers + 1 <= count.committed + Cardinality(Oks') + count.other + Cardinality(Errors')
    BY <1>6, <2>2, <2>3
  <2> QED BY <1>3, <1>8, <2>1, <2>4 DEF Accounted
<1>9. CASE Posts(s) /\ phase # "storm"
  <2>1. Transfers' = Transfers
    <3>1. job[s].req.op = "payment"
      BY <1>4, <1>9 DEF Asked, Pay
    <3>2. PICK e \in JournalEntry :
            journal \in Seq(JournalEntry) /\ journal' = Append(journal, e) /\ e.kind = "payment"
      BY <1>9, <3>1, CommittedEntry
    <3> QED BY <1>6, <3>2, TransfersAppend
  <2> QED BY <1>3, <1>9, <2>1 DEF Accounted
<1> QED BY <1>2, <1>7, <1>8, <1>9

LEMMA CountsAccounted ==
  ASSUME Below, HTypeOK, Accounted, NEW s \in Session, WorkerCounts(s)
  PROVE  Accounted'
<1> DEFINE c == count
<1>1. /\ phase = "storm" /\ phase' = phase /\ s \in busy /\ pc[s] = "idle" /\ busy' = busy \ {s}
      /\ UNCHANGED <<pc, reply, journal>>
  BY DEF WorkerCounts, Answered, recvars, vars, db
<1>2. /\ c.committed \in Nat /\ c.other \in Nat /\ Transfers \in Nat /\ Transfers' = Transfers
      /\ Cardinality(Oks) \in Nat /\ Cardinality(Errors) \in Nat /\ IsFiniteSet(Oks) /\ IsFiniteSet(Errors)
  BY <1>1, AnswerSets, TransfersType
     DEF HTypeOK, Below, Consistent, IInv, TypeOK, DbType, Transfers
<1>3. Oks' = Oks \ {s} /\ Errors' = Errors \ {s}
  BY <1>1 DEF Oks, Errors
<1>4. /\ c.committed + Cardinality(Oks) <= Transfers
      /\ Transfers <= c.committed + Cardinality(Oks) + c.other + Cardinality(Errors)
  BY <1>1 DEF Accounted
<1>5. CASE reply[s].status = "ok"
  <2>1. s \in Oks /\ s \notin Errors
    BY <1>1, <1>5 DEF Oks, Errors
  <2>2. Cardinality(Oks') = Cardinality(Oks) - 1 /\ Errors' = Errors
    <3>1. Cardinality(Oks \ {s}) = Cardinality(Oks) - 1
      BY <1>2, <2>1, FS_RemoveElement
    <3> QED BY <1>3, <2>1, <3>1
  <2>3. count'.committed = c.committed + 1 /\ count'.other = c.other
    BY <1>5 DEF WorkerCounts, HTypeOK
  <2> QED BY <1>1, <1>2, <1>4, <2>2, <2>3 DEF Accounted
<1>6. CASE reply[s].status = "rejected"
  <2>1. Oks' = Oks /\ Errors' = Errors
    BY <1>3, <1>6 DEF Oks, Errors
  <2>2. count'.committed = c.committed /\ count'.other = c.other
    BY <1>6 DEF WorkerCounts, HTypeOK
  <2> QED BY <1>1, <1>2, <1>4, <2>1, <2>2 DEF Accounted
<1>7. CASE reply[s].status \notin {"ok", "rejected"}
  <2>1. s \in Errors /\ s \notin Oks
    BY <1>1, <1>7 DEF Oks, Errors
  <2>2. Cardinality(Errors') = Cardinality(Errors) - 1 /\ Oks' = Oks
    <3>1. Cardinality(Errors \ {s}) = Cardinality(Errors) - 1
      BY <1>2, <2>1, FS_RemoveElement
    <3> QED BY <1>3, <2>1, <3>1
  <2>3. count'.committed = c.committed /\ count'.other = c.other + 1
    BY <1>7 DEF WorkerCounts, HTypeOK
  <2> QED BY <1>1, <1>2, <1>4, <2>2, <2>3 DEF Accounted
<1> QED BY <1>5, <1>6, <1>7

LEMMA AccountedStep ==
  ASSUME Below, HTypeOK, CallsAsked, Accounted, [HNext]_harnessvars
  PROVE  Accounted'
<1> SessionType
  BY DEF Below, Consistent, IInv, TypeOK
<1>1. ASSUME NEW s \in Session, WorkerCall(s)
      PROVE  Accounted'
  <2>1. PICK from \in Shared, to \in Shared, amt \in Amount : Submit(s, Move(from, to, amt), NoKey)
    BY <1>1 DEF WorkerCall
  <2>2. UNCHANGED <<phase, count>> /\ phase = "storm"
    BY <1>1 DEF WorkerCall
  <2>3. /\ s \notin busy /\ busy' = busy \union {s} /\ pc'[s] # "idle" /\ journal' = journal
        /\ \A t \in Session \ {s} : pc'[t] = pc[t] /\ reply'[t] = reply[t]
    BY <2>1, CallFacts DEF db
  <2>4. Oks' = Oks /\ Errors' = Errors
    BY <2>3 DEF Oks, Errors, HTypeOK
  <2> QED BY <2>2, <2>3, <2>4 DEF Accounted, Transfers
<1>2. CASE StormBegins
  <2>1. busy = {} /\ phase = "seed" /\ phase' = "storm" /\ UNCHANGED <<pc, reply, journal, busy, count>>
    BY <1>2 DEF StormBegins, Moves, HTypeOK, recvars, vars, db
  <2>2. Oks' = {} /\ Errors' = {}
    BY <2>1 DEF Oks, Errors
  <2> QED BY <2>1, <2>2, FS_EmptySet DEF Accounted, Transfers
<1>3. CASE StormEnds
  <2>1. busy = {} /\ phase = "storm" /\ phase' = "stopping" /\ UNCHANGED <<journal, count>>
    BY <1>3 DEF StormEnds, Moves, recvars, vars, db
  <2>2. Oks = {} /\ Errors = {}
    BY <2>1 DEF Oks, Errors
  <2>3. count.committed \in Nat /\ count.other \in Nat
    BY DEF HTypeOK
  <2> QED BY <2>1, <2>2, <2>3, FS_EmptySet DEF Accounted, Transfers
<1>4. CASE \/ Seed \/ Seeded \/ SetupFails \/ MonitorGone \/ FinalSample \/ FinalSampleFails
           \/ Reconciles \/ FinalReport \/ TrialEnds \/ TrialsEnd
           \/ (\E s \in Session : TrialCall(s) \/ TrialNotes(s))
  <2>1. UNCHANGED <<journal, count>>
    BY <1>4 DEF Seed, Submit, Call, Send, db, Seeded, SetupFails, MonitorGone,
     FinalSample, Begin, RGoto, FinalSampleFails, Reconciles, ReconcileStep, ReadUnbalanced, ReadStored,
     ReadDerived, ReadConservation, ReadCounts, ReadLines, QueryFails, FinalReport, TrialEnds, TrialsEnd,
     TrialCall, TrialNotes, recvars, vars, hvars, runvars
  <2>2. phase # "storm" /\ phase' # "storm" /\ (phase' = "seed" => phase = "seed")
    BY <1>4 DEF Seed, Seeded, SetupFails, MonitorGone, FinalSample, FinalSampleFails, Reconciles,
     FinalReport, TrialEnds, TrialsEnd, TrialCall, TrialNotes, Moves, hvars, runvars
  <2> QED BY <2>1, <2>2 DEF Accounted, Transfers
<1>5. CASE Monitor \/ UNCHANGED harnessvars
  <2>1. UNCHANGED <<phase, count, busy, pc, reply, journal>>
    BY <1>5 DEF Monitor, MonitorChecks, MonitorSums, MonitorSubset, MonitorSkips, recvars, vars, db,
       runvars, harnessvars, hvars
  <2> QED BY <2>1 DEF Accounted, Transfers, Oks, Errors
<1> QED BY <1>1, <1>2, <1>3, <1>4, <1>5, BackendAccounted, CountsAccounted
        DEF HNext, RunStep, Goroutine, Returned

-----------------------------------------------------------------------------
(* The transfers left, sent and counted.                                   *)
LEMMA SetSumConst ==
  ASSUME NEW A, IsFiniteSet(A), NEW f, NEW c \in Int, \A a \in A : f[a] = c
  PROVE  SetSum(f, A) = c * Cardinality(A)
<1> DEFINE G == {s \in SUBSET A : SetSum(f, s) = c * Cardinality(s)}
<1>1. ASSUME NEW s \in SUBSET A, \A t \in SUBSET s : t # s => t \in G
      PROVE  s \in G
  <2>1. CASE s = {}
    BY <2>1, SetSumStep, FS_EmptySet
  <2>2. CASE s # {}
    <3> DEFINE x == Pick(s)
               t == s \ {x}
    <3>1. /\ x \in s /\ t \in SUBSET s /\ t # s /\ x \notin t /\ t = s \ {x}
          /\ SetSum(f, s) = f[x] + SetSum(f, t)
      BY <2>2, SetSumRest
    <3> HIDE DEF x, t
    <3>2. SetSum(f, t) = c * Cardinality(t)
      BY <1>1, <3>1
    <3>3. IsFiniteSet(s)
      BY FS_Subset
    <3>4. Cardinality(s) \in Nat /\ Cardinality(t) = Cardinality(s) - 1
      BY <3>1, <3>3, FS_CardinalityType, FS_RemoveElement
    <3>5. PICK n \in Nat : n = Cardinality(s)
      BY <3>4
    <3>6. c + c * (n - 1) = c * n
      OBVIOUS
    <3> QED BY <3>1, <3>2, <3>4, <3>5, <3>6
  <2> QED BY <2>1, <2>2
<1> HIDE DEF G
<1>2. \A s \in SUBSET A : s \in G
  BY <1>1, SubsetInduction
<1> QED BY <1>2 DEF G

LEMMA LeftIsSum == Left = SetSum(todo, Session) /\ Left' = SetSum(todo', Session)
<1>1. Left = SetSum(todo, Session)
  BY DEF Left, SetSum, MapThenSumSet, MapThenFoldSet
<1>2. Left' = SetSum(todo', Session)
  BY DEF Left, SetSum, MapThenSumSet, MapThenFoldSet
<1> QED BY <1>1, <1>2

LEMMA LeftStays == todo' = todo => Left' = Left
BY LeftIsSum

LEMMA LeftType == HTypeOK => Left \in Int
BY LeftIsSum, FiniteAssumption, SetSumType DEF HTypeOK

LEMMA LeftDrops ==
  ASSUME HTypeOK, NEW s \in Session, todo' = [todo EXCEPT ![s] = @ - 1]
  PROVE  Left' = Left - 1
<1> DEFINE f == todo
           g == [t \in Session |-> IF t = s THEN -1 ELSE 0]
           h == todo'
<1>1. \A t \in Session : f[t] \in Int /\ g[t] \in Int /\ h[t] = f[t] + g[t]
  BY DEF HTypeOK
<1>2. g[s] = -1 /\ g[s] \in Int /\ \A t \in Session : t # s => g[t] = 0
  OBVIOUS
<1>3. Left' = SetSum(h, Session) /\ Left = SetSum(f, Session)
  BY LeftIsSum
<1> HIDE DEF f, g, h
<1>4. SetSum(h, Session) = SetSum(f, Session) + SetSum(g, Session)
  BY <1>1, FiniteAssumption, SetSumPlus
<1>5. SetSum(g, Session) = -1
  BY <1>2, FiniteAssumption, SetSumOne
<1> QED BY <1>3, <1>4, <1>5

LEMMA OperationsStep ==
  ASSUME Below, HTypeOK, CallsAsked, Accounted, OperationsCounted, [HNext]_harnessvars
  PROVE  OperationsCounted'
<1> DEFINE counted == count.committed + count.insufficient + count.other
           all == OpsPerWorker * Cardinality(Session)
<1> SessionType
  BY DEF Below, Consistent, IInv, TypeOK
<1>1. /\ Left \in Int /\ Cardinality(busy) \in Nat /\ IsFiniteSet(busy)
      /\ count.committed \in Nat /\ count.insufficient \in Nat /\ count.other \in Nat
  BY LeftType, AnswerSets DEF HTypeOK
<1>2. ASSUME NEW s \in Session, WorkerCall(s)
      PROVE  OperationsCounted'
  <2>1. PICK from \in Shared, to \in Shared, amt \in Amount : Submit(s, Move(from, to, amt), NoKey)
    BY <1>2 DEF WorkerCall
  <2>2. UNCHANGED <<phase, count>> /\ phase = "storm" /\ todo' = [todo EXCEPT ![s] = @ - 1]
    BY <1>2 DEF WorkerCall
  <2>3. s \notin busy /\ busy' = busy \union {s}
    BY <2>1 DEF Submit
  <2>4. Cardinality(busy') = Cardinality(busy) + 1
    BY <1>1, <2>3, FS_AddElement
  <2>5. Left' = Left - 1
    BY <2>2, LeftDrops
  <2> QED BY <1>1, <2>2, <2>4, <2>5 DEF OperationsCounted
<1>3. ASSUME NEW s \in Session, WorkerCounts(s)
      PROVE  OperationsCounted'
  <2>1. UNCHANGED <<phase, todo>> /\ phase = "storm" /\ s \in busy /\ busy' = busy \ {s}
    BY <1>3 DEF WorkerCounts, Answered
  <2>2. count'.committed + count'.insufficient + count'.other = counted + 1
    <3>1. CASE reply[s].status = "ok"
      <4>1. /\ count'.committed = count.committed + 1 /\ count'.insufficient = count.insufficient
            /\ count'.other = count.other
        BY <1>3, <3>1 DEF WorkerCounts, HTypeOK
      <4> QED BY <1>1, <4>1
    <3>2. CASE reply[s].status = "rejected"
      <4>1. /\ count'.committed = count.committed /\ count'.insufficient = count.insufficient + 1
            /\ count'.other = count.other
        BY <1>3, <3>2 DEF WorkerCounts, HTypeOK
      <4> QED BY <1>1, <4>1
    <3>3. CASE reply[s].status \notin {"ok", "rejected"}
      <4>1. /\ count'.committed = count.committed /\ count'.insufficient = count.insufficient
            /\ count'.other = count.other + 1
        BY <1>3, <3>3 DEF WorkerCounts, HTypeOK
      <4> QED BY <1>1, <4>1
    <3> QED BY <3>1, <3>2, <3>3
  <2>3. Cardinality(busy') = Cardinality(busy) - 1
    BY <1>1, <2>1, FS_RemoveElement
  <2>4. Left' = Left
    BY <2>1, LeftStays
  <2> QED BY <1>1, <2>1, <2>2, <2>3, <2>4 DEF OperationsCounted
<1>4. CASE StormBegins
  <2>1. busy = {} /\ phase = "seed" /\ phase' = "storm" /\ UNCHANGED <<busy, count, todo>>
    BY <1>4 DEF StormBegins, Moves, HTypeOK
  <2>2. counted = 0
    BY <2>1 DEF Accounted
  <2>3. Left' = Left
    BY <2>1, LeftStays
  <2> QED BY <1>1, <2>1, <2>2, <2>3, FS_EmptySet DEF OperationsCounted
<1>5. CASE StormEnds
  <2>1. busy = {} /\ phase = "storm" /\ phase' = "stopping" /\ UNCHANGED count /\ \A s \in Session : todo[s] = 0
    BY <1>5 DEF StormEnds, Moves
  <2>2. Left = 0
    BY <2>1, FiniteAssumption, SetSumZero, LeftIsSum
  <2> QED BY <1>1, <2>1, <2>2, FS_EmptySet DEF OperationsCounted
<1>6. CASE \/ Seed \/ Seeded \/ SetupFails \/ MonitorGone \/ FinalSample \/ FinalSampleFails
           \/ Reconciles \/ FinalReport \/ TrialEnds \/ TrialsEnd
           \/ (\E s \in Session : TrialCall(s) \/ TrialNotes(s))
  <2>1. UNCHANGED <<todo, count>>
    BY <1>6 DEF Seed, Seeded, SetupFails, MonitorGone, FinalSample, FinalSampleFails, Reconciles,
     FinalReport, TrialEnds, TrialsEnd, TrialCall, TrialNotes, hvars, runvars
  <2>2. /\ phase # "storm" /\ phase' # "storm" /\ (phase' = "seed" => phase = "seed")
        /\ phase' \notin {"seed", "failed"} => phase \notin {"seed", "failed"}
    BY <1>6 DEF Seed, Seeded, SetupFails, MonitorGone, FinalSample, FinalSampleFails, Reconciles,
     FinalReport, TrialEnds, TrialsEnd, TrialCall, TrialNotes, Moves, hvars, runvars
  <2>3. Left' = Left
    BY <2>1, LeftStays
  <2> QED BY <2>1, <2>2, <2>3 DEF OperationsCounted
<1>7. CASE Backend \/ Monitor \/ UNCHANGED harnessvars
  <2>1. UNCHANGED <<phase, count, busy, todo>>
    BY <1>7 DEF Backend, Monitor, MonitorChecks, MonitorSums, MonitorSubset, MonitorSkips,
       runvars, harnessvars, hvars
  <2>2. Left' = Left
    BY <2>1, LeftStays
  <2> QED BY <2>1, <2>2 DEF OperationsCounted
<1> QED BY <1>2, <1>3, <1>4, <1>5, <1>6, <1>7 DEF HNext, RunStep, Goroutine, Returned

(* What is accounted for makes the counters true.                          *)
LEMMA AccountedIsTrue ==
  ASSUME Below, HTypeOK, Accounted, OperationsCounted
  PROVE  CountsTrue
<1>1. /\ count.committed \in Nat /\ count.insufficient \in Nat /\ count.other \in Nat /\ Transfers \in Nat
      /\ Cardinality(Oks) \in Nat /\ Cardinality(Errors) \in Nat /\ Cardinality(busy) \in Nat
      /\ Cardinality(Oks) + Cardinality(Errors) <= Cardinality(busy)
  BY AnswerSets, TransfersType DEF HTypeOK, Below, Consistent, IInv, TypeOK, DbType
<1>2. count.committed <= Transfers /\ Transfers <= count.committed + count.other + Cardinality(busy)
  BY <1>1 DEF Accounted
<1>3. phase # "storm" => Transfers <= count.committed + count.other
  BY DEF Accounted
<1>4. phase \notin {"seed", "storm", "failed"} =>
        count.committed + count.insufficient + count.other = OpsPerWorker * Cardinality(Session)
  BY DEF OperationsCounted
<1> QED BY <1>2, <1>3, <1>4 DEF CountsTrue

-----------------------------------------------------------------------------
(* A key that has its posting keeps it.                                    *)
LEMMA KeysStay ==
  ASSUME Below, CallsAsked, [HNext]_harnessvars, NEW k \in Key, keyRow[k] # NoRow
  PROVE  keyRow'[k] = keyRow[k]
<1>1. CASE Backend
  <2>1. PICK s \in Session : Step(s) \/ Abort(s)
    BY <1>1 DEF Backend
  <2>2. Posts(s) \/ Quiet(s)
    BY <2>1, BackendStep DEF Below, Consistent
  <2>3. CASE Quiet(s)
    BY <2>3 DEF Quiet, db
  <2>4. CASE Posts(s)
    <3>1. job[s].key = NoKey \/ job[s].key # k
      BY <2>4 DEF Posts, Below, Consistent, IInv, OwnsKey
    <3> QED BY <2>4, <3>1 DEF Posts, Publish, Below, Consistent, IInv, TypeOK, DbType
  <2> QED BY <2>2, <2>3, <2>4
<1>2. CASE RunStep \/ Monitor \/ UNCHANGED harnessvars \/ (\E s \in Session : Goroutine(s))
  <2>1. keyRow' = keyRow
    BY <1>2 DEF RunStep, Seed, Submit, Call, Send, db, Seeded, SetupFails, StormBegins, StormEnds, MonitorGone,
     FinalSample, Begin, RGoto, FinalSampleFails, Reconciles, ReconcileStep, ReadUnbalanced, ReadStored,
     ReadDerived, ReadConservation, ReadCounts, ReadLines, QueryFails, FinalReport, TrialEnds, TrialsEnd,
     Goroutine, WorkerCall, WorkerCounts, TrialCall, TrialNotes, Monitor, MonitorChecks, MonitorSums,
     MonitorSubset, MonitorSkips, harnessvars, recvars, vars
  <2> QED BY <2>1
<1> QED BY <1>1, <1>2 DEF HNext, Returned

(* The keys tried so far that have their posting.                          *)
LEMMA TriedFacts ==
  ASSUME NEW n \in 0 .. Len(Trials), NEW row
  PROVE  /\ IsFiniteSet({i \in 1 .. n : row[Trials[i]] # NoRow})
         /\ Cardinality({i \in 1 .. n : row[Trials[i]] # NoRow}) \in Nat
<1>1. n \in Nat /\ IsFiniteSet(1 .. n)
  BY HarnessAssumption, FS_Interval
<1> QED BY <1>1, FS_Subset, FS_CardinalityType

LEMMA TriedGrows ==
  ASSUME NEW n \in 0 .. Len(Trials), \A k \in Key : keyRow[k] # NoRow => keyRow'[k] = keyRow[k]
  PROVE  Cardinality({i \in 1 .. n : keyRow[Trials[i]] # NoRow})
           <= Cardinality({i \in 1 .. n : keyRow'[Trials[i]] # NoRow})
<1> DEFINE T == {i \in 1 .. n : keyRow[Trials[i]] # NoRow}
           U == {i \in 1 .. n : keyRow'[Trials[i]] # NoRow}
<1>1. \A i \in 1 .. n : Trials[i] \in Key
  BY HarnessAssumption
<1>2. T \subseteq U
  BY <1>1
<1>3. IsFiniteSet(U)
  BY TriedFacts
<1> QED BY <1>2, <1>3, FS_Subset

LEMMA TrialStays ==
  ASSUME Below, HTypeOK, CallsAsked, TrialAnswers, TrialsTrue, [HNext]_harnessvars,
         UNCHANGED <<trial, txIDs, verdict>>
  PROVE  TrialAnswers' /\ TrialsTrue'
<1>1. \A k \in Key : keyRow[k] # NoRow => keyRow'[k] = keyRow[k]
  BY KeysStay
<1>2. TrialAnswers'
  <2>1. trial \in DOMAIN Trials => Trials[trial] \in Key
    BY HarnessAssumption
  <2> QED BY <1>1, <2>1 DEF TrialAnswers
<1>3. TrialsTrue'
  <2>1. PICK n \in 0 .. Len(Trials) : n = trial - 1
    BY HarnessAssumption DEF TrialAnswers
  <2>2. Cardinality({i \in 1 .. n : keyRow[Trials[i]] # NoRow})
           <= Cardinality({i \in 1 .. n : keyRow'[Trials[i]] # NoRow})
    BY <1>1, TriedGrows
  <2>3. /\ Cardinality({i \in 1 .. n : keyRow[Trials[i]] # NoRow}) \in Nat
        /\ Cardinality({i \in 1 .. n : keyRow'[Trials[i]] # NoRow}) \in Nat
    BY TriedFacts
  <2>4. verdict.once <= Cardinality({i \in 1 .. n : keyRow'[Trials[i]] # NoRow})
    BY <2>1, <2>2, <2>3 DEF TrialsTrue, HTypeOK
  <2> QED BY <2>1, <2>4 DEF TrialsTrue
<1> QED BY <1>2, <1>3

LEMMA NotesTrue ==
  ASSUME Below, HTypeOK, CallsAsked, TrialAnswers, NEW s \in Session, TrialNotes(s)
  PROVE  TrialAnswers'
<1> DEFINE k == Trials[trial]
           n == reply[s].txn
<1>1. UNCHANGED <<keyRow, trial>> /\ s \in busy /\ pc[s] = "idle" /\ phase = "trial"
  BY DEF TrialNotes, Answered, recvars, vars, db
<1>2. CASE reply[s].status # "ok"
  BY <1>1, <1>2 DEF TrialNotes, TrialAnswers
<1>3. CASE reply[s].status = "ok"
  <2>1. trial \in DOMAIN Trials /\ job[s].key = k
    BY <1>1 DEF CallsAsked, Asked
  <2>2. k # NoKey
    BY <2>1, HarnessAssumption, KeyAssumption
  <2>3. n \in DOMAIN journal /\ keyRow[k] = KeyRow(job[s].req, n)
    BY <1>3, <2>1, <2>2 DEF Below, AnswerInv, AnswersTrue
  <2>4. n # 0
    BY <2>3 DEF Below, Consistent, IInv, TypeOK, DbType
  <2>5. keyRow[k].txn = n /\ keyRow[k] # NoRow
    BY <2>3, <2>4 DEF KeyRow, NoRow
  <2>6. txIDs' = {n}
    <3>1. txIDs' = txIDs \union {n}
      BY <1>3 DEF TrialNotes
    <3>2. txIDs = {} \/ txIDs = {n}
      BY <2>5 DEF TrialAnswers
    <3> QED BY <3>1, <3>2
  <2> QED BY <1>1, <2>1, <2>5, <2>6 DEF TrialAnswers
<1> QED BY <1>2, <1>3

LEMMA VerdictTrue ==
  ASSUME Below, HTypeOK, TrialAnswers, TrialsTrue, TrialEnds
  PROVE  TrialAnswers' /\ TrialsTrue'
<1>1. UNCHANGED keyRow /\ trial \in DOMAIN Trials /\ trial' = trial + 1 /\ txIDs' = {}
  BY DEF TrialEnds, recvars, vars, db
<1>2. PICK n \in 0 .. Len(Trials) : n = trial - 1
  BY HarnessAssumption DEF TrialAnswers
<1>3. n + 1 \in 0 .. Len(Trials) /\ n + 1 = trial /\ n + 1 = trial' - 1
  <2>1. Len(Trials) \in Nat /\ DOMAIN Trials = 1 .. Len(Trials)
    BY HarnessAssumption
  <2>2. trial \in 1 .. Len(Trials)
    BY <1>1, <2>1
  <2> QED BY ONLY <1>1, <1>2, <2>1, <2>2
<1> DEFINE T == {i \in 1 .. n : keyRow[Trials[i]] # NoRow}
           U == {i \in 1 .. n + 1 : keyRow[Trials[i]] # NoRow}
<1>4. IsFiniteSet(T) /\ IsFiniteSet(U) /\ Cardinality(T) \in Nat /\ Cardinality(U) \in Nat
  BY <1>3, TriedFacts
<1>5. T \subseteq U /\ n + 1 \notin T /\ (keyRow[Trials[trial]] # NoRow => U = T \union {n + 1})
  BY <1>2, <1>3
<1>6. Cardinality(T) <= Cardinality(U)
  <2> HIDE DEF T, U
  <2> QED BY <1>4, <1>5, FS_Subset
<1>7. keyRow[Trials[trial]] # NoRow => Cardinality(U) = Cardinality(T) + 1
  <2> HIDE DEF T, U
  <2> QED BY <1>4, <1>5, FS_AddElement
<1>8. verdict.once <= Cardinality(T) /\ verdict.duplicates <= 0 /\ verdict.once - verdict.duplicates = n
  BY <1>2 DEF TrialsTrue
<1>9. verdict.once \in Nat /\ verdict.duplicates \in Int
  BY DEF HTypeOK
<1> HIDE DEF T, U
<1>10. /\ verdict'.duplicates <= 0 /\ verdict'.once - verdict'.duplicates = n + 1
       /\ verdict'.once <= Cardinality(U)
  <2>1. CASE txIDs = {}
    <3>1. Cardinality(txIDs) = 0
      BY <2>1, FS_EmptySet
    <3>2. verdict'.once = verdict.once /\ verdict'.duplicates = verdict.duplicates - 1
      BY <3>1, <1>9 DEF TrialEnds, HTypeOK
    <3> QED BY <1>4, <1>6, <1>8, <1>9, <3>2
  <2>2. CASE txIDs # {}
    <3>1. Cardinality(txIDs) = 1 /\ keyRow[Trials[trial]] # NoRow
      BY <2>2, FS_Singleton DEF TrialAnswers
    <3>2. verdict'.once = verdict.once + 1 /\ verdict'.duplicates = verdict.duplicates
      BY <3>1, <1>9 DEF TrialEnds, HTypeOK
    <3> QED BY <1>4, <1>7, <1>8, <1>9, <3>1, <3>2
  <2> QED BY <2>1, <2>2
<1>11. TrialsTrue'
  <2>1. U = {i \in 1 .. trial' - 1 : keyRow'[Trials[i]] # NoRow}
    BY <1>1, <1>3 DEF U
  <2> QED BY <1>3, <1>10, <2>1 DEF TrialsTrue
<1>12. TrialAnswers'
  BY <1>1, <1>3, HarnessAssumption DEF TrialAnswers
<1> QED BY <1>11, <1>12

LEMMA TrialStep ==
  ASSUME Below, HTypeOK, CallsAsked, TrialAnswers, TrialsTrue, [HNext]_harnessvars
  PROVE  TrialAnswers' /\ TrialsTrue'
<1>1. CASE TrialEnds
  BY <1>1, VerdictTrue
<1>2. ASSUME NEW s \in Session, TrialNotes(s)
      PROVE  TrialAnswers' /\ TrialsTrue'
  <2>1. UNCHANGED <<keyRow, trial, verdict>>
    BY <1>2 DEF TrialNotes, recvars, vars, db
  <2> QED BY <1>2, <2>1, NotesTrue DEF TrialsTrue
<1>3. CASE \/ Seed \/ Seeded \/ SetupFails \/ StormBegins \/ StormEnds \/ MonitorGone
           \/ FinalSample \/ FinalSampleFails \/ Reconciles \/ FinalReport \/ TrialsEnd
           \/ Backend \/ Monitor \/ UNCHANGED harnessvars
           \/ (\E s \in Session : WorkerCall(s) \/ WorkerCounts(s) \/ TrialCall(s))
  <2>1. UNCHANGED <<trial, txIDs, verdict>>
    BY <1>3 DEF Seed, Seeded, SetupFails, StormBegins, StormEnds, MonitorGone, FinalSample, FinalSampleFails,
       Reconciles, FinalReport, TrialsEnd, Backend, Monitor, MonitorChecks, MonitorSums, MonitorSubset,
       MonitorSkips, WorkerCall, WorkerCounts, TrialCall, harnessvars, hvars, trialvars
  <2> QED BY <2>1, TrialStays
<1> QED BY <1>1, <1>2, <1>3 DEF HNext, RunStep, Goroutine, Returned

-----------------------------------------------------------------------------
(* Run begins with an empty ledger.                                        *)
LEMMA MoneyBegins == HInit => MoneyPlaced
<1> SUFFICES ASSUME HInit
             PROVE  MoneyPlaced
  OBVIOUS
<1>1. journal = << >> /\ phase = "seed" /\ funded = {} /\ busy = {}
  BY DEF HInit, Init
<1>2. \A a : Derived(journal, a) = 0
  BY <1>1, DerivedEmpty
<1>3. SharedSum = 0
  <2> DEFINE f == [a \in Shared |-> Derived(journal, a)]
  <2>1. \A a \in Shared : f[a] = 0
    BY <1>2
  <2> HIDE DEF f
  <2>2. SetSum(f, Shared) = 0
    BY <2>1, SharedFacts, SetSumZero
  <2> QED BY <2>2, SharedFacts DEF f
<1>4. Cardinality(funded) = 0 /\ InitialEach * 0 = 0
  BY <1>1, FS_EmptySet, HarnessAssumption
<1>5. Placed(Cardinality(funded))
  BY <1>2, <1>3, <1>4 DEF Placed
<1> QED BY <1>1, <1>2, <1>5 DEF MoneyPlaced, Answered

LEMMA CountersBegin == HInit => Accounted /\ OperationsCounted
<1> SUFFICES ASSUME HInit
             PROVE  Accounted /\ OperationsCounted
  OBVIOUS
<1>1. /\ journal = << >> /\ phase = "seed"
      /\ count = [committed |-> 0, insufficient |-> 0, other |-> 0]
      /\ todo = [s \in Session |-> OpsPerWorker]
  BY DEF HInit, Init
<1>2. Transfers = 0
  <2>1. {n \in DOMAIN journal : journal[n].kind = "transfer"} = {}
    BY <1>1
  <2> QED BY <2>1, FS_EmptySet DEF Transfers
<1>3. Left = OpsPerWorker * Cardinality(Session)
  <2>1. \A s \in Session : todo[s] = OpsPerWorker
    BY <1>1
  <2> QED BY <2>1, LeftIsSum, FiniteAssumption, SetSumConst, HarnessAssumption
<1> QED BY <1>1, <1>2, <1>3 DEF Accounted, OperationsCounted

LEMMA TrialsBegin == HInit => TrialAnswers /\ TrialsTrue
<1> SUFFICES ASSUME HInit
             PROVE  TrialAnswers /\ TrialsTrue
  OBVIOUS
<1>1. trial = 1 /\ txIDs = {} /\ verdict = [once |-> 0, duplicates |-> 0]
  BY DEF HInit
<1>2. Cardinality({i \in 1 .. trial - 1 : keyRow[Trials[i]] # NoRow}) = 0
  <2>1. {i \in 1 .. trial - 1 : keyRow[Trials[i]] # NoRow} = {}
    BY <1>1
  <2> QED BY <2>1, FS_EmptySet
<1>3. 1 \in 1 .. Len(Trials) + 1
  BY HarnessAssumption
<1> QED BY <1>1, <1>2, <1>3 DEF TrialAnswers, TrialsTrue

LEMMA HInvBegins == HInit => HInv
<1> SUFFICES ASSUME HInit
             PROVE  HInv
  OBVIOUS
<1>1. HTypeOK
  BY FS_EmptySet, HarnessAssumption DEF HInit, HTypeOK
<1>2. MonitorPlace /\ CallsAsked /\ NoFalseAlarm
  BY DEF HInit, Init, MonitorPlace, CallsAsked, NoFalseAlarm
<1>3. ReportedAtRest
  BY NoReportHolds DEF HInit, RInit, ReportedAtRest
<1> QED BY <1>1, <1>2, <1>3, MoneyBegins, CountersBegin, TrialsBegin DEF HInv

LEMMA HInvStep == Below /\ HInv /\ [HNext]_harnessvars => HInv'
<1> SUFFICES ASSUME Below, HInv, [HNext]_harnessvars
             PROVE  HInv'
  OBVIOUS
<1> USE DEF HInv
<1>1. HTypeOK'
  BY HTypeStep DEF HTypeOK, harnessvars, hvars, runvars, monvars, trialvars
<1>2. MonitorPlace'
  BY MonitorPlaceStep
<1>3. CallsAsked'
  BY CallsAskedStep DEF Below, Consistent
<1>4. MoneyPlaced' /\ ReportedAtRest'
  BY MoneyPlacedStep, ReportedStep
<1>5. NoFalseAlarm'
  BY NoFalseAlarmStep
<1>6. Accounted' /\ OperationsCounted'
  BY AccountedStep, OperationsStep
<1>7. TrialAnswers' /\ TrialsTrue'
  BY TrialStep
<1> QED BY <1>1, <1>2, <1>3, <1>4, <1>5, <1>6, <1>7

LEMMA HInductive == HSpec => [](Below /\ HInv)
BY HInvBegins, HInvStep, BelowHolds, PTL DEF HSpec

-----------------------------------------------------------------------------
(* Neither a sample of the monitor, taken while transfers commit, fail or  *)
(* lose their answers, nor the reconciliation after the storm reports a    *)
(* violation this ledger has not (runStorm, finalChecks).                  *)
THEOREM SamplesAreTrue == HSpec => []NoFalseAlarm
BY HInductive, PTL DEF HInv

(* The counters of Run say of the journal what the answers allow: what is  *)
(* counted as committed is there, what is there was counted as committed   *)
(* or lost its answer, and each operation counts once (runStorm).          *)
THEOREM CountersAreTrue == HSpec => []CountsTrue
<1>1. Below /\ HInv => CountsTrue
  BY AccountedIsTrue DEF HInv
<1> QED BY <1>1, HInductive, PTL

(* No duplicate is ever counted, every trial that has ended is counted as  *)
(* exactly once or takes one from the duplicates, and no more are counted  *)
(* as exactly once than have a committed key, whatever the submissions     *)
(* race for and whichever of them are answered (idempotencyTrial).         *)
THEOREM VerdictsAreTrue == HSpec => []TrialsTrue
BY HInductive, PTL DEF HInv
=============================================================================
