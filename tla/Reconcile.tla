----------------------------- MODULE Reconcile ------------------------------
(***************************************************************************)
(* Two jobs that only read, beside the sessions of Posting: the            *)
(* reconciliation, settle.Reconcile, and the account statement,            *)
(* store.AccountLedger.  Each sends several queries, each on a snapshot of *)
(* its own, with no transaction around them.  They change nothing, so one  *)
(* reader that does either is enough.                                      *)
(***************************************************************************)
EXTENDS Posting, SequencesExt

CONSTANTS
  Limit,         \* the ?limit= a client may ask for
  MaxLimit,      \* the longest statement: 1000
  DefaultLimit   \* the length of a statement otherwise: 100

ASSUME LimitAssumption ==
  Limit \subseteq Int /\ DefaultLimit \in Nat /\ MaxLimit \in Nat

VARIABLES
  rpc,   \* the next query of the reader
  rep,   \* the report so far, with .at, the journal's length when it began
  stm    \* the statement so far, with .at, the journal's length when it began

rvars == <<rpc, rep, stm>>
recvars == <<vars, rvars>>

NoReport == [at |-> 0, unbalanced |-> {}, stored |-> NoRows, drift |-> {},
             conserved |-> TRUE, ok |-> FALSE]

(* UnbalancedTxns.                                                         *)
Unbalanced == {n \in DOMAIN journal : \E c \in CurrencyCode : Net(journal[n], c) # 0}

(* RecomputedBalances: the SUMs, which do not wrap in SQL; scanning one    *)
(* that is no int64 fails.                                                 *)
Recomputed == [a \in Account |-> Derived(journal, a)]
Scannable == \A a \in Account : Recomputed[a] \in Int64

(* ConservationByCurrency.                                                 *)
Conserved ==
  \A c \in CurrencyCode : MapThenSumSet(LAMBDA n : Net(journal[n], c), DOMAIN journal) = 0

NoStatement == [acct |-> NoAccount, limit |-> 0, at |-> 0, bal |-> 0, lines |-> << >>]

(* The postings of account a in entry n, which has at most four legs.      *)
LineOf(n, i, a) ==
  IF i \in DOMAIN journal[n].legs /\ journal[n].legs[i].acct = a
    THEN << [txn |-> n, amt |-> journal[n].legs[i].amt] >> ELSE << >>

LinesOf(n, a) == LineOf(n, 1, a) \o LineOf(n, 2, a) \o LineOf(n, 3, a) \o LineOf(n, 4, a)

(* The postings of account a, oldest first.                                *)
PostingsOf(a) == FlattenSeq([n \in DOMAIN journal |-> LinesOf(n, a)])

RInit == rpc = "idle" /\ rep = NoReport /\ stm = NoStatement

AtRest == rpc \in {"idle", "done", "listed"}

RGoto(l) == rpc' = l /\ UNCHANGED vars

Begin ==
  /\ AtRest
  /\ rep' = [NoReport EXCEPT !.at = Len(journal)]
  /\ stm' = NoStatement
  /\ RGoto("unbalanced")

ReadUnbalanced ==
  /\ rpc = "unbalanced"
  /\ rep' = [rep EXCEPT !.unbalanced = Unbalanced]
  /\ UNCHANGED stm
  /\ RGoto("stored")

ReadStored ==
  /\ rpc = "stored"
  /\ rep' = [rep EXCEPT !.stored = balance]
  /\ UNCHANGED stm
  /\ RGoto("derived")

ReadDerived ==
  /\ rpc = "derived"
  /\ Scannable
  /\ rep' = [rep EXCEPT !.drift = {a \in Account : rep.stored[a] # Recomputed[a]}]
  /\ UNCHANGED stm
  /\ RGoto("conservation")

ReadConservation ==
  /\ rpc = "conservation"
  /\ rep' = [rep EXCEPT !.conserved = Conserved]
  /\ UNCHANGED stm
  /\ RGoto("counts")

(* Counts are only reported; the verdict is drawn here.                    *)
ReadCounts ==
  /\ rpc = "counts"
  /\ rep' = [rep EXCEPT !.ok = rep.unbalanced = {} /\ rep.drift = {} /\ rep.conserved]
  /\ UNCHANGED stm
  /\ RGoto("done")

(* AccountLedger: GetAccount, then the newest postings; a limit that is    *)
(* out of range is the default.  An unknown account is not found.          *)
ReadAccount ==
  /\ AtRest
  /\ \E a \in Account, l \in Limit :
       stm' = [acct  |-> a,
               limit |-> IF l <= 0 \/ l > MaxLimit THEN DefaultLimit ELSE l,
               at    |-> Len(journal),
               bal   |-> balance[a],
               lines |-> << >>]
  /\ rep' = NoReport
  /\ RGoto("lines")

(* Mutant: the oldest postings.                                            *)
MutReadLinesOldest ==
  /\ rpc = "lines"
  /\ stm' = [stm EXCEPT !.lines =
       SubSeq(PostingsOf(stm.acct), 1, Min({stm.limit, Len(PostingsOf(stm.acct))}))]
  /\ UNCHANGED rep
  /\ RGoto("listed")

(* ORDER BY p.id DESC: ids grow in commit order within one account, for an *)
(* INSERT of a posting follows the lock of its account.                    *)
ReadLines ==
  /\ rpc = "lines"
  /\ stm' = [stm EXCEPT !.lines =
       SubSeq(Reverse(PostingsOf(stm.acct)), 1, Min({stm.limit, Len(PostingsOf(stm.acct))}))]
  /\ UNCHANGED rep
  /\ RGoto("listed")

(* A query fails: the job returns its error.                               *)
QueryFails ==
  /\ ~AtRest
  /\ rep' = NoReport
  /\ stm' = NoStatement
  /\ RGoto("idle")

ReconcileStep ==
  \/ ReadUnbalanced \/ ReadStored \/ ReadDerived \/ ReadConservation \/ ReadCounts
  \/ ReadLines \/ QueryFails

RecSpec ==
  /\ Init /\ RInit
  /\ [][\/ Next /\ UNCHANGED rvars
        \/ Begin \/ ReadAccount
        \/ ReconcileStep]_recvars

(* The cached and the recomputed balances come from different snapshots,   *)
(* but an account is reported as drifted only if an entry that touches it  *)
(* committed since the job began.                                          *)
Recent(a) == \E n \in rep.at + 1 .. Len(journal) : a \in LegAccounts(journal[n])

DriftIsRecent == \A a \in rep.drift : Recent(a)

(* The two checks made in one statement never raise a false alarm, however *)
(* the job interleaves with postings.                                      *)
JournalChecksHold == rep.unbalanced = {} /\ rep.conserved

(* Inductive with the invariants of Posting: what the report holds, and    *)
(* that a cached balance it has read and not yet compared is out of date   *)
(* only if an entry committed since.                                       *)
ReportType ==
  rep \in [at : Nat, unbalanced : SUBSET Nat, stored : {NoRows} \union [Account -> Int64],
           drift : SUBSET Account, conserved : BOOLEAN, ok : BOOLEAN]

ReportInv ==
  /\ ReportType
  /\ rep.at <= Len(journal)
  /\ DriftIsRecent
  /\ JournalChecksHold
  /\ rpc = "derived" => \A a \in Account : rep.stored[a] = balance[a] \/ Recent(a)

(* The lines of the first entries add up to:                               *)
KnownSum(lines, at) ==
  Total([i \in 1 .. Len(lines) |-> IF lines[i].txn <= at THEN lines[i].amt ELSE 0], Len(lines))

(* The balance and the postings of a statement come from different         *)
(* snapshots: it may list postings the balance does not yet count.         *)
(* Without those, a statement that is not cut off adds up to the balance   *)
(* it shows, and one that is cut off leaves out the oldest postings only.  *)
StatementAddsUp ==
  rpc = "listed" =>
    LET shown == {stm.lines[i].txn : i \in 1 .. Len(stm.lines)}
    IN  /\ Len(stm.lines) < stm.limit => stm.bal = Wrap(KnownSum(stm.lines, stm.at))
        /\ \A n \in 1 .. stm.at :
             /\ stm.acct \in LegAccounts(journal[n])
             /\ \E m \in shown : m < n
             => n \in shown

(* internal/settle/reconcile.go:41-42: a consistent ledger yields OK=true. *)
(* NoDrift holds in every state of this specification.                     *)
ConsistentYieldsOK == rpc = "done" => rep.ok
=============================================================================
