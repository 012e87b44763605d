--------------------------- MODULE PostingProofs ---------------------------
(***************************************************************************)
(* The safety of Posting, for any accounts, sessions, keys, requests and   *)
(* either isolation mode. First lemmas about the data, then IInv, one      *)
(* lemma per action, and the theorems that follow from it. Then what a     *)
(* client is told: the journal only grows, so the entry a request stands   *)
(* for never changes once it can be built; AnswerInv ties the entry of a   *)
(* call, the entry under a key and the answer to it. Last the locks: keys  *)
(* are claimed before rows are locked, rows are locked in ascending        *)
(* order, so the session that waits for the highest row waits for one      *)
(* that runs.                                                              *)
(***************************************************************************)
EXTENDS Posting, MoneyLemmas, FiniteSetTheorems

EntryType == [kind : Kinds, ref : Nat, legs : Seq(Legs)]

(* The amount of one leg on an account is an integer, 0 when the leg is    *)
(* absent or on another account.                                           *)
LEMMA AmountOnType ==
  ASSUME NEW e, e.legs \in Seq(Legs), NEW i \in Nat, NEW a
  PROVE  AmountOn(e, i, a) \in Int
<1>1. CASE i \in DOMAIN e.legs /\ e.legs[i].acct = a
  <2>1. e.legs[i] \in Legs
    BY <1>1
  <2> QED BY <1>1, <2>1, MaxIntAssumption DEF AmountOn, Legs, Int64
<1>2. CASE ~(i \in DOMAIN e.legs /\ e.legs[i].acct = a)
  BY <1>2 DEF AmountOn
<1> QED BY <1>1, <1>2

(* What an entry adds to a balance (deltas of postEntryTx) is an integer.  *)
LEMMA DeltaType ==
  ASSUME NEW e, e.legs \in Seq(Legs), NEW a
  PROVE  Delta(e, a) \in Int
BY AmountOnType DEF Delta

(* The two legs of a transfer, a payment, a refund or a payout are legs,   *)
(* one a debit and one a credit.                                           *)
LEMMA TwoLegsType ==
  ASSUME NEW from \in Nat, NEW to \in Nat, NEW cur \in CurrencyCode,
         NEW amount \in Int64, amount > 0
  PROVE  /\ TwoLegs(from, to, cur, amount) \in Seq(Legs)
         /\ \A kind \in Kinds : \A ref : TwoSided(Entry(kind, ref, TwoLegs(from, to, cur, amount)))
<1> DEFINE legs == TwoLegs(from, to, cur, amount)
<1>1. -amount \in Int64 /\ -amount <= 0
  BY MaxIntAssumption DEF Int64
<1>2. Leg(from, cur, -amount) \in Legs /\ Leg(to, cur, amount) \in Legs
  BY <1>1 DEF Leg, Legs
<1>3. legs \in Seq(Legs)
  BY <1>2 DEF TwoLegs
<1>4. /\ 1 \in DOMAIN legs /\ legs[1].amt <= 0
      /\ 2 \in DOMAIN legs /\ legs[2].amt > 0
  BY <1>1 DEF TwoLegs, Leg
<1> QED BY <1>3, <1>4 DEF TwoSided, Entry

(* GetPaymentLegs finds the merchant (credited) and the source (debited)   *)
(* of a two-sided payment.                                                 *)
LEMMA PaymentLegs ==
  ASSUME NEW e, e.legs \in Seq(Legs), e.kind = "payment", TwoSided(e)
  PROVE  /\ MerchantLeg(e) \in Legs /\ MerchantLeg(e).amt > 0
         /\ SourceLeg(e) \in Legs
<1> DEFINE S == {e.legs[i] : i \in DOMAIN e.legs}
<1>1. S \subseteq Legs
  OBVIOUS
<1>2. (\E l \in S : l.amt > 0) /\ (\E l \in S : l.amt <= 0)
  BY DEF TwoSided
<1>3. MerchantLeg(e) \in S /\ MerchantLeg(e).amt > 0 /\ SourceLeg(e) \in S
  BY <1>2 DEF MerchantLeg, SourceLeg
<1> QED BY <1>1, <1>3

(* What the operations build is an entry, whatever the client sends.       *)
LEMMA EntryForType ==
  ASSUME journal \in Seq(JournalEntry), \A n \in DOMAIN journal : TwoSided(journal[n]),
         NEW r \in Request, NEW k, ~Refused(journal, r, k)
  PROVE  EntryFor(journal, r) \in EntryType /\ TwoSided(EntryFor(journal, r))
<1>1. r.amount \in Int64 /\ r.amount > 0 /\ r.op \in {"transfer", "payment", "refund", "fx"}
  BY RequestAssumption, MaxIntAssumption DEF Refused, Int64
<1>2. CASE r.op \in {"transfer", "payment"}
  <2>1. EntryFor(journal, r) = Entry(r.op, 0, TwoLegs(r.from, r.to, r.cur, r.amount))
    BY <1>2 DEF EntryFor
  <2>2. r.from \in Nat /\ r.to \in Nat /\ r.cur \in CurrencyCode
    BY <1>2, RequestAssumption
  <2> DEFINE legs == TwoLegs(r.from, r.to, r.cur, r.amount)
  <2>3. r.op \in Kinds
    BY <1>2 DEF Kinds
  <2>4. legs \in Seq(Legs) /\ TwoSided(Entry(r.op, 0, legs))
    BY <1>1, <2>2, <2>3, TwoLegsType
  <2> HIDE DEF legs
  <2>5. Entry(r.op, 0, legs) \in EntryType
    BY <2>3, <2>4 DEF EntryType, Entry
  <2> QED BY <2>1, <2>4, <2>5 DEF legs
<1>3. CASE r.op = "refund"
  <2> DEFINE p == journal[r.payment]
  <2>1. EntryFor(journal, r) =
          Entry("refund", r.payment,
                TwoLegs(MerchantLeg(p).acct, SourceLeg(p).acct, MerchantLeg(p).cur, r.amount))
    BY <1>3 DEF EntryFor
  <2>2. r.payment \in DOMAIN journal /\ p.kind = "payment"
    BY <1>3 DEF Refused, IsPayment
  <2>3. p.legs \in Seq(Legs) /\ TwoSided(p)
    <3>1. p \in JournalEntry
      BY <2>2
    <3>2. TwoSided(p)
      BY <2>2
    <3> QED BY <3>1, <3>2 DEF JournalEntry
  <2>4. MerchantLeg(p) \in Legs /\ SourceLeg(p) \in Legs
    BY <2>2, <2>3, PaymentLegs
  <2>5. /\ MerchantLeg(p).acct \in Nat /\ SourceLeg(p).acct \in Nat
        /\ MerchantLeg(p).cur \in CurrencyCode
    BY <2>4 DEF Legs
  <2>6. r.payment \in Nat
    BY <1>3, RequestAssumption
  <2> DEFINE legs == TwoLegs(MerchantLeg(p).acct, SourceLeg(p).acct, MerchantLeg(p).cur, r.amount)
  <2>7. legs \in Seq(Legs)
    <3> HIDE DEF p
    <3> QED BY <1>1, <2>5, TwoLegsType
  <2> HIDE DEF p, legs
  <2>8. Entry("refund", r.payment, legs) \in EntryType /\ TwoSided(Entry("refund", r.payment, legs))
    BY <2>6, <2>7 DEF EntryType, Entry, Kinds, TwoSided
  <2> QED BY <2>1, <2>8 DEF legs
<1>4. CASE r.op = "fx"
  <2> DEFINE a == CurrencyOf[r.from]
             b == CurrencyOf[r.to]
             got == Convert(r.amount, r.num, r.den)
  <2>1. EntryFor(journal, r) = Entry("fx", 0, FXLegs(r))
    BY <1>4 DEF EntryFor
  <2>2. FXPossible(r)
    BY <1>4 DEF Refused
  <2>3. /\ r.from \in Nat /\ r.to \in Nat
        /\ a \in CurrencyCode /\ b \in CurrencyCode
        /\ FXAccount[a] \in Nat /\ FXAccount[b] \in Nat
    BY <2>2, AccountAssumption DEF FXPossible, NoAccount
  <2>4. r.num \in Int /\ r.den \in Int /\ r.den > 0 /\ r.amount \in Int
    BY <1>1, <1>4, <2>2, RequestAssumption, MaxIntAssumption DEF FXPossible, Int64
  <2>5. got \in Int64 /\ got > 0
    BY <2>2, <2>4, ConvertType DEF FXPossible
  <2> HIDE DEF a, b, got
  <2>6. -r.amount \in Int64 /\ -got \in Int64
    BY <1>1, <2>5, MaxIntAssumption DEF Int64
  <2>7. /\ Leg(r.from, a, -r.amount) \in Legs /\ Leg(FXAccount[a], a, r.amount) \in Legs
        /\ Leg(FXAccount[b], b, -got) \in Legs /\ Leg(r.to, b, got) \in Legs
    BY <1>1, <2>3, <2>5, <2>6 DEF Leg, Legs
  <2>8. FXLegs(r) \in Seq(Legs)
    BY <2>7 DEF FXLegs, a, b, got
  <2> QED BY <2>1, <2>8 DEF EntryType, Entry, Kinds, TwoSided
<1> QED BY <1>1, <1>2, <1>3, <1>4

-----------------------------------------------------------------------------
(* What Release does: the locks of s and what s read under them are gone,  *)
(* and those of the other sessions are untouched.                          *)
LEMMA ReleaseFacts ==
  ASSUME IInv, NEW s \in Session, Release(s)
  PROVE  /\ LockType'
         /\ DOMAIN seen' = Session
         /\ \A t \in Session : /\ seen'[t] \in [DOMAIN seen'[t] -> Int64]
                               /\ DOMAIN seen'[t] \subseteq Account
         /\ snap' \in [Session -> Nat]
         /\ DOMAIN seen'[s] = {}
         /\ \A t \in Session \ {s} : seen'[t] = seen[t]
         /\ \A t \in Session \ {s}, a \in Account : rowLock[a] = t => rowLock'[a] = t
         /\ \A t \in Session \ {s}, k \in Key : keyLock[k] = t => keyLock'[k] = t
<1>1. LockType'
  BY DEF IInv, TypeOK, LockType, Release
<1>2. seen' = [seen EXCEPT ![s] = NoRows] /\ DOMAIN seen = Session
  BY DEF IInv, TypeOK, SessionType, Release
<1>3. DOMAIN NoRows = {} /\ NoRows \in [DOMAIN NoRows -> Int64]
  BY DEF NoRows
<1>4. \A t \in Session : /\ seen[t] \in [DOMAIN seen[t] -> Int64]
                        /\ DOMAIN seen[t] \subseteq Account
  BY DEF IInv, TypeOK, SessionType
<1>5. snap' \in [Session -> Nat]
  BY DEF IInv, TypeOK, SessionType, Release
<1>6. /\ \A t \in Session \ {s}, a \in Account : rowLock[a] = t => rowLock'[a] = t
      /\ \A t \in Session \ {s}, k \in Key : keyLock[k] = t => keyLock'[k] = t
  BY DEF Release
<1> QED BY <1>1, <1>2, <1>3, <1>4, <1>5, <1>6

(* A call that returns without a commit (a rejection, a replay, an abort)  *)
(* preserves the invariant: nothing committed changes, and only its own    *)
(* locks are released.                                                     *)
LEMMA ReturnQuiet ==
  ASSUME IInv, NEW s \in Session, NEW ans \in Reply, Return(s, ans), UNCHANGED db
  PROVE  IInv'
<1>1. Release(s) /\ pc' = [pc EXCEPT ![s] = "idle"] /\ job' = job
  BY DEF Return, Goto
<1>2. TypeOK'
  <2>1. DbType'
    BY DEF IInv, TypeOK, DbType, db
  <2>2. /\ attempt' \in [Session -> 0 .. MaxAttempts - 1]
        /\ reply' \in [Session -> Reply]
    BY ModeAssumption DEF IInv, TypeOK, SessionType, Return
  <2>3. /\ pc' \in [Session -> {"idle", "begin", "claim", "replay", "lock", "guard",
                               "post", "commit"}]
        /\ job' \in [Session -> Job \union {NoJob}]
        /\ \A t \in Session : pc'[t] # "idle" => job'[t] \in Job
    BY <1>1 DEF IInv, TypeOK, SessionType
  <2> QED BY <1>1, <2>1, <2>2, <2>3, ReleaseFacts DEF TypeOK, SessionType
<1>3. \A t \in Session : pc'[t] = IF t = s THEN "idle" ELSE pc[t]
  BY <1>1 DEF IInv, TypeOK, SessionType
<1>4. PaymentShape'
  BY <1>1, <1>3 DEF IInv, PaymentShape, db
<1>5. FreshReads'
  BY <1>1, ReleaseFacts DEF IInv, TypeOK, SessionType, FreshReads, db
<1>6. StillCovered'
  <2> SUFFICES ASSUME NEW t \in Session, pc'[t] = "commit"
               PROVE  Covered(t)'
    BY DEF StillCovered
  <2>1. t # s /\ Covered(t) /\ seen'[t] = seen[t] /\ job'[t] = job[t]
    BY <1>1, <1>3, ReleaseFacts DEF IInv, StillCovered
  <2> QED BY <2>1 DEF Covered, NewBalance
<1>7. NoOverdraft' /\ ExactlyOnce'
  BY DEF IInv, NoOverdraft, ExactlyOnce, db
<1>8. OwnsKey'
  <2> SUFFICES ASSUME NEW t \in Session, pc'[t] # "idle"
               PROVE  /\ pc'[t] \in {"claim", "replay"} => job'[t].key # NoKey
                      /\ pc'[t] \in {"lock", "guard", "post", "commit"} /\ job'[t].key # NoKey =>
                           keyLock'[job'[t].key] = t /\ keyRow'[job'[t].key] = NoRow
    BY <1>2 DEF OwnsKey, TypeOK, SessionType
  <2>1. t # s /\ pc'[t] = pc[t] /\ job'[t] = job[t] /\ keyRow' = keyRow
    BY <1>1, <1>3 DEF db
  <2>2. job[t].key \in Key \union {NoKey}
    BY <2>1 DEF IInv, TypeOK, SessionType, Job
  <2> QED BY <1>1, <2>1, <2>2, ReleaseFacts DEF IInv, OwnsKey
<1> QED BY <1>2, <1>4, <1>5, <1>6, <1>7, <1>8 DEF IInv

(* A step that only moves the program counter of s past a point where it   *)
(* owns its key and has locked its rows, or does not need either.          *)
LEMMA MoveQuiet ==
  ASSUME IInv, NEW s \in Session, pc[s] # "idle",
         NEW l \in {"claim", "replay", "lock", "guard", "post", "commit"},
         Goto(s, l), UNCHANGED <<db, locks, seen, local, reply>>,
         snap' \in [Session -> Nat],
         l = "commit" => Covered(s),
         l \in {"claim", "replay"} => job[s].key # NoKey,
         l \in {"lock", "guard", "post", "commit"} /\ job[s].key # NoKey =>
           keyLock[job[s].key] = s /\ keyRow[job[s].key] = NoRow
  PROVE  IInv'
<1>1. /\ balance' = balance /\ journal' = journal /\ keyRow' = keyRow
      /\ rowLock' = rowLock /\ keyLock' = keyLock /\ seen' = seen
      /\ job' = job /\ attempt' = attempt /\ reply' = reply
  BY DEF db, locks, local
<1>2. \A t \in Session : pc'[t] = IF t = s THEN l ELSE pc[t]
  BY DEF Goto, IInv, TypeOK, SessionType
<1>3. TypeOK'
  BY <1>1, <1>2 DEF IInv, TypeOK, DbType, LockType, SessionType, Goto
<1>4. PaymentShape'
  BY <1>1, <1>2 DEF IInv, PaymentShape
<1>5. FreshReads' /\ NoOverdraft' /\ ExactlyOnce'
  BY <1>1 DEF IInv, FreshReads, NoOverdraft, ExactlyOnce
<1>6. StillCovered'
  BY <1>1, <1>2 DEF IInv, StillCovered, Covered, NewBalance
<1>7. OwnsKey'
  BY <1>1, <1>2 DEF IInv, OwnsKey
<1> QED BY <1>3, <1>4, <1>5, <1>6, <1>7 DEF IInv

-----------------------------------------------------------------------------
(* One lemma per action.                                                   *)

(* A request refused before its transaction begins.                        *)
LEMMA RefuseStep ==
  ASSUME IInv, NEW s \in Session, NEW r, NEW k, Refuse(s, r, k)
  PROVE  IInv'
<1>1. /\ balance' = balance /\ journal' = journal /\ keyRow' = keyRow
      /\ rowLock' = rowLock /\ keyLock' = keyLock /\ seen' = seen
      /\ pc' = pc /\ attempt' = attempt /\ snap' = snap
  BY DEF Refuse, Send, db, locks
<1>2. pc[s] = "idle" /\ \A t \in Session \ {s} : job'[t] = job[t]
  BY DEF Refuse, Send, IInv, TypeOK, SessionType
<1>3. Rejected \in Reply
  BY DEF Rejected, Reply
<1>4. TypeOK'
  BY <1>1, <1>2, <1>3 DEF Refuse, IInv, TypeOK, DbType, LockType, SessionType
<1>5. PaymentShape' /\ FreshReads' /\ NoOverdraft' /\ ExactlyOnce'
  BY <1>1, <1>2 DEF IInv, PaymentShape, FreshReads, NoOverdraft, ExactlyOnce
<1>6. StillCovered'
  BY <1>1, <1>2 DEF IInv, StillCovered, Covered, NewBalance
<1>7. OwnsKey'
  BY <1>1, <1>2 DEF IInv, OwnsKey
<1> QED BY <1>4, <1>5, <1>6, <1>7 DEF IInv

(* A request that enters the transaction loop: its entry is well formed    *)
(* (EntryForType) and it holds nothing yet.                                *)
LEMMA CallStep ==
  ASSUME IInv, NEW s \in Session, NEW r \in Request, NEW k \in Key \union {NoKey},
         Call(s, r, k)
  PROVE  IInv'
<1> DEFINE e == EntryFor(journal, r)
           j == [req |-> r, key |-> k, entry |-> e]
<1>1. /\ balance' = balance /\ journal' = journal /\ keyRow' = keyRow
      /\ rowLock' = rowLock /\ keyLock' = keyLock /\ seen' = seen
      /\ attempt' = attempt /\ snap' = snap
  BY DEF Call, Send, db, locks
<1>2. /\ \A t \in Session : pc'[t] = IF t = s THEN "begin" ELSE pc[t]
      /\ \A t \in Session : job'[t] = IF t = s THEN j ELSE job[t]
  BY DEF Call, Goto, IInv, TypeOK, SessionType
<1>3. e \in EntryType /\ TwoSided(e)
  BY EntryForType DEF Call, IInv, TypeOK, DbType, PaymentShape
<1>4. j \in Job
  BY <1>3 DEF Job, EntryType
<1>5. NoReply \in Reply
  BY DEF NoReply, Reply
<1>6. DbType' /\ LockType'
  BY <1>1 DEF IInv, TypeOK, DbType, LockType
<1>7. SessionType'
  <2> HIDE DEF j
  <2> QED BY <1>1, <1>2, <1>4, <1>5 DEF Call, Goto, IInv, TypeOK, SessionType, j
<1>8. PaymentShape'
  BY <1>1, <1>2, <1>3 DEF IInv, PaymentShape
<1>9. FreshReads' /\ NoOverdraft' /\ ExactlyOnce'
  BY <1>1 DEF IInv, FreshReads, NoOverdraft, ExactlyOnce
<1>10. StillCovered'
  BY <1>1, <1>2 DEF IInv, StillCovered, Covered, NewBalance
<1>11. OwnsKey'
  BY <1>1, <1>2 DEF IInv, OwnsKey
<1> QED BY <1>6, <1>7, <1>8, <1>9, <1>10, <1>11 DEF IInv, TypeOK

(* runInTx begins a transaction and goes to claimKey or lockAccounts.      *)
LEMMA BeginTxStep ==
  ASSUME IInv, NEW s \in Session, BeginTx(s)
  PROVE  IInv'
<1>1. pc[s] = "begin" /\ UNCHANGED <<db, locks, seen, local, reply>>
  BY DEF BeginTx
<1>2. snap' \in [Session -> Nat]
  BY DEF BeginTx, IInv, TypeOK, DbType, SessionType
<1>3. CASE job[s].key = NoKey
  BY <1>1, <1>2, <1>3, MoveQuiet DEF BeginTx
<1>4. CASE job[s].key # NoKey
  BY <1>1, <1>2, <1>4, MoveQuiet DEF BeginTx
<1> QED BY <1>3, <1>4

(* claimKey owns a key nobody has committed; no other session owns it.     *)
LEMMA ClaimKeyStep ==
  ASSUME IInv, NEW s \in Session, ClaimKey(s)
  PROVE  IInv'
<1> DEFINE k == job[s].key
<1>1. /\ balance' = balance /\ journal' = journal /\ keyRow' = keyRow
      /\ rowLock' = rowLock /\ seen' = seen /\ job' = job
      /\ attempt' = attempt /\ snap' = snap /\ reply' = reply
  BY DEF ClaimKey, db, local
<1>2. k \in Key /\ keyLock[k] = NoHolder /\ keyRow[k] = NoRow
  BY DEF ClaimKey, IInv, TypeOK, SessionType, Job, OwnsKey
<1>3. \A x \in Key : keyLock'[x] = IF x = k THEN s ELSE keyLock[x]
  BY DEF ClaimKey, IInv, TypeOK, LockType
<1>4. \A t \in Session : pc'[t] = IF t = s THEN "lock" ELSE pc[t]
  BY DEF ClaimKey, Goto, IInv, TypeOK, SessionType
<1>5. pc[s] = "claim"
  BY DEF ClaimKey
<1>6. TypeOK'
  BY <1>1, <1>4, <1>5 DEF ClaimKey, Goto, IInv, TypeOK, DbType, LockType, SessionType
<1>7. PaymentShape'
  BY <1>1, <1>4, <1>5 DEF IInv, PaymentShape
<1>8. FreshReads' /\ NoOverdraft' /\ ExactlyOnce'
  BY <1>1 DEF IInv, FreshReads, NoOverdraft, ExactlyOnce
<1>9. StillCovered'
  BY <1>1, <1>4 DEF IInv, StillCovered, Covered, NewBalance
<1>10. OwnsKey'
  <2> SUFFICES ASSUME NEW t \in Session, t # s,
                      pc[t] \in {"lock", "guard", "post", "commit"}, job[t].key # NoKey
               PROVE  keyLock'[job[t].key] = t
    BY <1>1, <1>2, <1>3, <1>4 DEF IInv, OwnsKey
  <2>1. keyLock[job[t].key] = t /\ job[t].key \in Key
    BY DEF IInv, OwnsKey, TypeOK, SessionType, Job
  <2>2. job[t].key # k
    BY <2>1, <1>2, SessionAssumption
  <2> QED BY <2>1, <2>2, <1>3
<1> QED BY <1>6, <1>7, <1>8, <1>9, <1>10 DEF IInv

(* claimKey finds the key committed and goes to readReplay.                *)
LEMMA KeyTakenStep ==
  ASSUME IInv, NEW s \in Session, KeyTaken(s)
  PROVE  IInv'
<1>1. /\ pc[s] = "claim" /\ Goto(s, "replay")
      /\ UNCHANGED <<db, locks, seen, local, reply>> /\ snap' = snap
  BY DEF KeyTaken
<1>2. job[s].key # NoKey /\ snap' \in [Session -> Nat]
  BY <1>1 DEF IInv, OwnsKey, TypeOK, SessionType
<1> QED BY <1>1, <1>2, MoveQuiet

(* readReplay answers or reports the conflict, and commits nothing.        *)
LEMMA ReadReplayStep ==
  ASSUME IInv, NEW s \in Session, ReadReplay(s)
  PROVE  IInv'
<1> DEFINE row == keyRow[job[s].key]
           ans == IF row.req = job[s].req THEN OK(row.txn, TRUE) ELSE Rejected
<1>1. Return(s, ans) /\ UNCHANGED db /\ pc[s] = "replay"
  BY DEF ReadReplay
<1>2. job[s].key \in Key
  BY <1>1 DEF IInv, OwnsKey, TypeOK, SessionType, Job
<1>3. row.txn \in Nat
  BY <1>2 DEF IInv, TypeOK, DbType, NoRow
<1>4. ans \in Reply
  BY <1>3 DEF OK, Rejected, Reply
<1> QED BY <1>1, <1>4, ReturnQuiet

(* One row of lockAccounts: the balance read is the current one and stays  *)
(* so while the row is locked.                                             *)
LEMMA LockAccountStep ==
  ASSUME IInv, NEW s \in Session, LockAccount(s)
  PROVE  IInv'
<1>1. /\ balance' = balance /\ journal' = journal /\ keyRow' = keyRow
      /\ keyLock' = keyLock /\ pc' = pc /\ job' = job
      /\ attempt' = attempt /\ snap' = snap /\ reply' = reply
      /\ pc[s] = "lock"
  BY DEF LockAccount, db, local
<1>2. PICK a \in Account :
        /\ rowLock[a] = NoHolder
        /\ rowLock' = [rowLock EXCEPT ![a] = s]
        /\ seen' = [seen EXCEPT ![s] =
             [b \in DOMAIN seen[s] \union {a} |-> IF b = a THEN balance[a] ELSE seen[s][b]]]
  BY DEF LockAccount
<1>3. \A b \in Account : rowLock'[b] = IF b = a THEN s ELSE rowLock[b]
  BY <1>2 DEF IInv, TypeOK, LockType
<1>4. /\ DOMAIN seen' = Session
      /\ \A t \in Session \ {s} : seen'[t] = seen[t]
      /\ seen'[s] = [b \in DOMAIN seen[s] \union {a} |->
                      IF b = a THEN balance[a] ELSE seen[s][b]]
  BY <1>2 DEF IInv, TypeOK, SessionType
<1>5. balance[a] \in Int64
  BY DEF IInv, TypeOK, DbType
<1>6. TypeOK'
  <2>1. DbType' /\ LockType'
    BY <1>1, <1>2, SessionAssumption DEF IInv, TypeOK, DbType, LockType
  <2>2. \A t \in Session : /\ seen'[t] \in [DOMAIN seen'[t] -> Int64]
                          /\ DOMAIN seen'[t] \subseteq Account
    BY <1>4, <1>5 DEF IInv, TypeOK, SessionType
  <2> QED BY <1>1, <1>4, <2>1, <2>2 DEF IInv, TypeOK, SessionType
<1>7. PaymentShape' /\ NoOverdraft' /\ ExactlyOnce' /\ OwnsKey'
  BY <1>1 DEF IInv, PaymentShape, NoOverdraft, ExactlyOnce, OwnsKey
<1>8. FreshReads'
  <2> SUFFICES ASSUME NEW t \in Session, NEW b \in DOMAIN seen'[t]
               PROVE  rowLock'[b] = t /\ seen'[t][b] = balance[b]
    BY <1>1 DEF FreshReads
  <2>1. b \in Account
    BY <1>6 DEF TypeOK, SessionType
  <2>2. CASE t = s /\ b = a
    BY <2>1, <2>2, <1>3, <1>4
  <2>3. CASE t = s /\ b # a
    BY <2>1, <2>3, <1>3, <1>4 DEF IInv, FreshReads
  <2>4. CASE t # s
    <3>1. rowLock[b] = t /\ seen[t][b] = balance[b]
      BY <2>4, <1>4 DEF IInv, FreshReads
    <3> QED BY <3>1, <2>1, <2>4, <1>2, <1>3, <1>4, SessionAssumption
  <2> QED BY <2>2, <2>3, <2>4
<1>9. StillCovered'
  <2> SUFFICES ASSUME NEW t \in Session, pc[t] = "commit"
               PROVE  Covered(t)'
    BY <1>1 DEF StillCovered
  <2>1. t # s /\ seen'[t] = seen[t] /\ Covered(t)
    BY <1>1, <1>4 DEF IInv, StillCovered
  <2> QED BY <1>1, <2>1 DEF Covered, NewBalance
<1> QED BY <1>6, <1>7, <1>8, <1>9 DEF IInv

(* lockAccounts has every row; the guard or the posting is next.           *)
LEMMA AllLockedStep ==
  ASSUME IInv, NEW s \in Session, AllLocked(s)
  PROVE  IInv'
<1> DEFINE l == IF job[s].entry.kind = "refund" THEN "guard" ELSE "post"
<1>1. /\ pc[s] = "lock" /\ Goto(s, l)
      /\ UNCHANGED <<db, locks, seen, local, reply>> /\ snap' = snap
  BY DEF AllLocked
<1>2. /\ snap' \in [Session -> Nat]
      /\ job[s].key # NoKey => keyLock[job[s].key] = s /\ keyRow[job[s].key] = NoRow
  BY <1>1 DEF IInv, OwnsKey, TypeOK, SessionType
<1> QED BY <1>1, <1>2, MoveQuiet

(* A rejection and a failure are replies.                                  *)
LEMMA AnswersTyped == Rejected \in Reply /\ Failed \in Reply
BY DEF Rejected, Failed, Reply

(* refundGuard rejects the refund or lets it go on.                        *)
LEMMA CheckGuardStep ==
  ASSUME IInv, NEW s \in Session, CheckGuard(s)
  PROVE  IInv'
<1>1. pc[s] = "guard" /\ UNCHANGED db
  BY DEF CheckGuard
<1>2. \/ Return(s, Rejected)
      \/ Goto(s, "post") /\ UNCHANGED <<locks, seen, snap, local, reply>>
  BY DEF CheckGuard
<1>3. CASE Return(s, Rejected)
  BY <1>1, <1>3, ReturnQuiet, AnswersTyped
<1>4. CASE Goto(s, "post") /\ UNCHANGED <<locks, seen, snap, local, reply>>
  <2>1. UNCHANGED <<db, locks, seen, local, reply>> /\ snap' = snap
    BY <1>1, <1>4
  <2>2. /\ snap' \in [Session -> Nat]
        /\ job[s].key # NoKey => keyLock[job[s].key] = s /\ keyRow[job[s].key] = NoRow
    BY <1>1, <2>1 DEF IInv, OwnsKey, TypeOK, SessionType
  <2> QED BY <1>1, <1>4, <2>1, <2>2, MoveQuiet
<1> QED BY <1>2, <1>3, <1>4

(* The no-negative check of postEntryTx establishes StillCovered.          *)
LEMMA PostLegsStep ==
  ASSUME IInv, NEW s \in Session, PostLegs(s)
  PROVE  IInv'
<1>1. /\ pc[s] = "post" /\ Goto(s, "commit") /\ Covered(s)
      /\ UNCHANGED <<db, locks, seen, local, reply>> /\ snap' = snap
  BY DEF PostLegs
<1>2. /\ snap' \in [Session -> Nat]
      /\ job[s].key # NoKey => keyLock[job[s].key] = s /\ keyRow[job[s].key] = NoRow
  BY <1>1 DEF IInv, OwnsKey, TypeOK, SessionType
<1> QED BY <1>1, <1>2, MoveQuiet

(* The commit publishes what was computed under the locks.                 *)
LEMMA PublishStep ==
  ASSUME IInv, NEW s \in Session, NEW ans \in Reply,
         pc[s] = "commit", Publish(s), Return(s, ans)
  PROVE  IInv'
<1> DEFINE k == job[s].key
           e == job[s].entry
           n == Len(journal) + 1
<1>1. Release(s) /\ pc' = [pc EXCEPT ![s] = "idle"] /\ job' = job
  BY DEF Return, Goto
<1>2. \A t \in Session : pc'[t] = IF t = s THEN "idle" ELSE pc[t]
  BY <1>1 DEF IInv, TypeOK, SessionType
<1>3. /\ job[s] \in Job /\ k \in Key \union {NoKey} /\ job[s].req \in Request
      /\ e.kind \in Kinds /\ e.ref \in Nat /\ e.legs \in Seq(Legs) /\ TwoSided(e)
  BY DEF IInv, TypeOK, SessionType, Job, PaymentShape
<1>4. /\ journal \in Seq(JournalEntry) /\ n \in Nat \ {0}
      /\ journal' = Append(journal, Posted(e, k)) /\ Posted(e, k) \in JournalEntry
  BY <1>3 DEF IInv, TypeOK, DbType, Publish, Posted, JournalEntry
<1>5. /\ DOMAIN journal' = DOMAIN journal \union {n} /\ n \notin DOMAIN journal
      /\ journal'[n] = Posted(e, k)
      /\ \A i \in DOMAIN journal : journal'[i] = journal[i]
  BY <1>4
<1>6. \A a \in Account :
        balance'[a] = IF a \in DOMAIN seen[s] THEN NewBalance(s, a) ELSE balance[a]
  BY DEF Publish
<1>7. \A a \in DOMAIN seen[s] : a \in Account /\ rowLock[a] = s /\ NewBalance(s, a) \in Int64
  <2> SUFFICES ASSUME NEW a \in DOMAIN seen[s]
               PROVE  NewBalance(s, a) \in Int64
    BY DEF IInv, TypeOK, SessionType, FreshReads
  <2>1. seen[s][a] \in Int /\ Delta(e, a) \in Int
    BY <1>3, DeltaType, MaxIntAssumption DEF IInv, TypeOK, SessionType, Int64
  <2> QED BY <2>1, WrapType DEF NewBalance
<1>8. \A x \in Key : keyRow'[x] = IF x = k THEN KeyRow(job[s].req, n) ELSE keyRow[x]
  BY <1>3, KeyAssumption DEF Publish, IInv, TypeOK, DbType
<1>9. \A x \in Key : x = k => keyLock[x] = s /\ keyRow[x] = NoRow
  BY KeyAssumption DEF IInv, OwnsKey
<1>10. TypeOK'
  <2>1. balance' \in [Account -> Int64]
    BY <1>6, <1>7 DEF IInv, TypeOK, DbType, Publish
  <2>2. journal' \in Seq(JournalEntry)
    BY <1>4
  <2>3. KeyRow(job[s].req, n) \in [req : Request, txn : Nat]
    BY <1>3, <1>4 DEF KeyRow
  <2>4. keyRow' \in [Key -> [req : Request, txn : Nat] \union {NoRow}]
    BY <2>3 DEF Publish, IInv, TypeOK, DbType
  <2>5. attempt' \in [Session -> 0 .. MaxAttempts - 1] /\ reply' \in [Session -> Reply]
    BY ModeAssumption DEF IInv, TypeOK, SessionType, Return
  <2>6. /\ pc' \in [Session -> {"idle", "begin", "claim", "replay", "lock", "guard",
                               "post", "commit"}]
        /\ job' \in [Session -> Job \union {NoJob}]
        /\ \A t \in Session : pc'[t] # "idle" => job'[t] \in Job
    BY <1>1 DEF IInv, TypeOK, SessionType
  <2> QED BY <1>1, <2>1, <2>2, <2>4, <2>5, <2>6, ReleaseFacts DEF TypeOK, DbType, SessionType
<1>11. PaymentShape'
  <2>1. TwoSided(Posted(e, k))
    BY <1>3 DEF TwoSided, Posted
  <2> QED BY <1>1, <1>2, <1>5, <2>1 DEF IInv, PaymentShape
<1>12. FreshReads'
  <2> SUFFICES ASSUME NEW t \in Session, NEW a \in DOMAIN seen'[t]
               PROVE  rowLock'[a] = t /\ seen'[t][a] = balance'[a]
    BY DEF FreshReads
  <2>1. t # s /\ seen'[t] = seen[t] /\ a \in Account
    BY <1>1, ReleaseFacts
  <2>2. rowLock[a] = t /\ seen[t][a] = balance[a]
    BY <2>1 DEF IInv, FreshReads
  <2>3. a \notin DOMAIN seen[s]
    BY <1>7, <2>1, <2>2
  <2> QED BY <1>1, <1>6, <2>1, <2>2, <2>3, ReleaseFacts
<1>13. StillCovered'
  <2> SUFFICES ASSUME NEW t \in Session, pc'[t] = "commit"
               PROVE  Covered(t)'
    BY DEF StillCovered
  <2>1. t # s /\ Covered(t) /\ seen'[t] = seen[t] /\ job'[t] = job[t]
    BY <1>1, <1>2, ReleaseFacts DEF IInv, StillCovered
  <2> QED BY <2>1 DEF Covered, NewBalance
<1>14. NoOverdraft'
  <2>1. Covered(s)
    BY DEF IInv, StillCovered
  <2> QED BY <1>6, <2>1 DEF IInv, NoOverdraft, Covered
<1>15. OwnsKey'
  <2> SUFFICES ASSUME NEW t \in Session, pc'[t] # "idle"
               PROVE  /\ pc'[t] \in {"claim", "replay"} => job'[t].key # NoKey
                      /\ pc'[t] \in {"lock", "guard", "post", "commit"} /\ job'[t].key # NoKey =>
                           keyLock'[job'[t].key] = t /\ keyRow'[job'[t].key] = NoRow
    BY <1>10 DEF OwnsKey, TypeOK, SessionType
  <2>1. t # s /\ pc'[t] = pc[t] /\ job'[t] = job[t]
    BY <1>1, <1>2
  <2>2. job[t].key \in Key \union {NoKey}
    BY <2>1 DEF IInv, TypeOK, SessionType, Job
  <2> QED BY <1>1, <1>8, <1>9, <2>1, <2>2, ReleaseFacts DEF IInv, OwnsKey
<1>16. ExactlyOnce'
  <2> SUFFICES ASSUME NEW x \in Key
               PROVE  {i \in DOMAIN journal' : journal'[i].key = x} =
                        IF keyRow'[x] = NoRow THEN {} ELSE {keyRow'[x].txn}
    BY DEF ExactlyOnce
  <2>1. {i \in DOMAIN journal : journal[i].key = x} =
          IF keyRow[x] = NoRow THEN {} ELSE {keyRow[x].txn}
    BY DEF IInv, ExactlyOnce
  <2>2. journal'[n].key = k
    BY <1>5 DEF Posted
  <2>3. CASE x = k
    <3>1. {i \in DOMAIN journal : journal[i].key = x} = {}
      BY <1>9, <2>1, <2>3
    <3>2. {i \in DOMAIN journal' : journal'[i].key = x} = {n}
      BY <1>5, <2>2, <2>3, <3>1
    <3>3. keyRow'[x].txn = n /\ NoRow.txn = 0
      BY <1>8, <2>3 DEF KeyRow, NoRow
    <3>4. keyRow'[x] # NoRow
      BY <1>4, <3>3
    <3> QED BY <3>2, <3>3, <3>4
  <2>4. CASE x # k
    <3>1. {i \in DOMAIN journal' : journal'[i].key = x} = {i \in DOMAIN journal : journal[i].key = x}
      BY <1>5, <2>2, <2>4
    <3> QED BY <1>8, <2>1, <2>4, <3>1
  <2> QED BY <2>3, <2>4
<1> QED BY <1>10, <1>11, <1>12, <1>13, <1>14, <1>15, <1>16 DEF IInv

(* The commit, whether or not its answer reaches the client.               *)
LEMMA CommitStep ==
  ASSUME IInv, NEW s \in Session, CommitTx(s) \/ CommitAnswerLost(s)
  PROVE  IInv'
<1>1. OK(Len(journal) + 1, FALSE) \in Reply
  BY DEF OK, Reply, IInv, TypeOK, DbType
<1>2. CASE CommitTx(s)
  BY <1>1, <1>2, PublishStep DEF CommitTx
<1>3. CASE CommitAnswerLost(s)
  BY <1>3, AnswersTyped, PublishStep DEF CommitAnswerLost
<1> QED BY <1>2, <1>3

(* Every other way a call ends without a commit.                           *)
LEMMA FailStep ==
  ASSUME IInv, NEW s \in Session,
         RejectEntry(s) \/ RejectPosting(s) \/ Abort(s) \/ Exhausted(s)
  PROVE  IInv'
<1>1. UNCHANGED db /\ (Return(s, Rejected) \/ Return(s, Failed))
  BY DEF RejectEntry, RejectPosting, Abort, Exhausted
<1> QED BY <1>1, AnswersTyped, ReturnQuiet

(* runInTx starts over after a serialization failure: the locks and what   *)
(* was read under them are gone.                                           *)
LEMMA RetryStep ==
  ASSUME IInv, NEW s \in Session, Retry(s)
  PROVE  IInv'
<1>1. /\ Release(s) /\ job' = job /\ reply' = reply
      /\ balance' = balance /\ journal' = journal /\ keyRow' = keyRow
      /\ pc[s] # "idle"
  BY DEF Retry, SerializationFailure, InTx, db
<1>2. \A t \in Session : pc'[t] = IF t = s THEN "begin" ELSE pc[t]
  BY DEF Retry, Goto, IInv, TypeOK, SessionType
<1>3. attempt' \in [Session -> 0 .. MaxAttempts - 1]
  BY ModeAssumption DEF Retry, IInv, TypeOK, SessionType
<1>4. TypeOK'
  <2>1. DbType'
    BY <1>1 DEF IInv, TypeOK, DbType
  <2>2. /\ pc' \in [Session -> {"idle", "begin", "claim", "replay", "lock", "guard",
                               "post", "commit"}]
        /\ \A t \in Session : pc'[t] # "idle" => job'[t] \in Job
    BY <1>1, <1>2 DEF Retry, Goto, IInv, TypeOK, SessionType
  <2> QED BY <1>1, <1>3, <2>1, <2>2, ReleaseFacts DEF IInv, TypeOK, SessionType
<1>5. PaymentShape'
  BY <1>1, <1>2 DEF IInv, PaymentShape
<1>6. FreshReads'
  BY <1>1, ReleaseFacts DEF IInv, FreshReads
<1>7. StillCovered'
  <2> SUFFICES ASSUME NEW t \in Session, pc'[t] = "commit"
               PROVE  Covered(t)'
    BY DEF StillCovered
  <2>1. t # s /\ Covered(t) /\ seen'[t] = seen[t] /\ job'[t] = job[t]
    BY <1>1, <1>2, ReleaseFacts DEF IInv, StillCovered
  <2> QED BY <2>1 DEF Covered, NewBalance
<1>8. NoOverdraft' /\ ExactlyOnce'
  BY <1>1 DEF IInv, NoOverdraft, ExactlyOnce
<1>9. OwnsKey'
  <2> SUFFICES ASSUME NEW t \in Session, pc'[t] \notin {"idle", "begin"}
               PROVE  /\ pc'[t] \in {"claim", "replay"} => job'[t].key # NoKey
                      /\ pc'[t] \in {"lock", "guard", "post", "commit"} /\ job'[t].key # NoKey =>
                           keyLock'[job'[t].key] = t /\ keyRow'[job'[t].key] = NoRow
    BY <1>4 DEF OwnsKey, TypeOK, SessionType
  <2>1. t # s /\ pc'[t] = pc[t] /\ job'[t] = job[t]
    BY <1>1, <1>2
  <2>2. job[t].key \in Key \union {NoKey}
    BY <2>1 DEF IInv, TypeOK, SessionType, Job
  <2> QED BY <1>1, <2>1, <2>2, ReleaseFacts DEF IInv, OwnsKey
<1> QED BY <1>4, <1>5, <1>6, <1>7, <1>8, <1>9 DEF IInv

-----------------------------------------------------------------------------
(* Init => IInv: no money, no call, no lock.                               *)
LEMMA InitIInv == Init => IInv
<1> SUFFICES ASSUME Init
             PROVE  IInv
  OBVIOUS
<1>1. /\ 0 \in Int64 /\ NoReply \in Reply /\ 0 \in 0 .. MaxAttempts - 1
      /\ NoRows \in [DOMAIN NoRows -> Int64] /\ DOMAIN NoRows = {}
  BY MaxIntAssumption, ModeAssumption DEF Int64, NoReply, Reply, NoRows
<1>2. TypeOK
  BY <1>1 DEF Init, TypeOK, DbType, LockType, SessionType
<1>3. PaymentShape /\ FreshReads /\ StillCovered /\ OwnsKey
  BY <1>1 DEF Init, PaymentShape, FreshReads, StillCovered, OwnsKey
<1>4. NoOverdraft
  BY DEF Init, NoOverdraft
<1>5. ExactlyOnce
  BY DEF Init, ExactlyOnce
<1> QED BY <1>2, <1>3, <1>4, <1>5 DEF IInv

(* A step of a session preserves the invariant, one case per action.       *)
LEMMA StepIInv ==
  ASSUME IInv, NEW s \in Session, Step(s)
  PROVE  IInv'
<1>1. CASE BeginTx(s)
  BY <1>1, BeginTxStep
<1>2. CASE ClaimKey(s)
  BY <1>2, ClaimKeyStep
<1>3. CASE KeyTaken(s)
  BY <1>3, KeyTakenStep
<1>4. CASE ReadReplay(s)
  BY <1>4, ReadReplayStep
<1>5. CASE LockAccount(s)
  BY <1>5, LockAccountStep
<1>6. CASE AllLocked(s)
  BY <1>6, AllLockedStep
<1>7. CASE CheckGuard(s)
  BY <1>7, CheckGuardStep
<1>8. CASE PostLegs(s)
  BY <1>8, PostLegsStep
<1>9. CASE CommitTx(s) \/ CommitAnswerLost(s)
  BY <1>9, CommitStep
<1>10. CASE RejectEntry(s) \/ RejectPosting(s) \/ Exhausted(s)
  BY <1>10, FailStep
<1>11. CASE Retry(s)
  BY <1>11, RetryStep
<1> QED BY <1>1, <1>2, <1>3, <1>4, <1>5, <1>6, <1>7, <1>8, <1>9, <1>10, <1>11 DEF Step, Progress

(* A step that changes nothing preserves the invariant.                    *)
LEMMA StutterIInv ==
  ASSUME IInv, UNCHANGED vars
  PROVE  IInv'
<1>1. /\ balance' = balance /\ journal' = journal /\ keyRow' = keyRow
      /\ rowLock' = rowLock /\ keyLock' = keyLock /\ pc' = pc /\ seen' = seen
      /\ snap' = snap /\ job' = job /\ attempt' = attempt /\ reply' = reply
  BY DEF vars, db, locks, local
<1>2. TypeOK'
  BY <1>1 DEF IInv, TypeOK, DbType, LockType, SessionType
<1>3. PaymentShape' /\ FreshReads' /\ NoOverdraft' /\ OwnsKey' /\ ExactlyOnce'
  BY <1>1 DEF IInv, PaymentShape, FreshReads, NoOverdraft, OwnsKey, ExactlyOnce
<1>4. StillCovered'
  BY <1>1 DEF IInv, StillCovered, Covered, NewBalance
<1> QED BY <1>2, <1>3, <1>4 DEF IInv

(* Every step of the specification preserves the inductive invariant.      *)
LEMMA NextIInv == IInv /\ [Next]_vars => IInv'
<1> SUFFICES ASSUME IInv, [Next]_vars
             PROVE  IInv'
  OBVIOUS
<1>1. ASSUME NEW s \in Session, NEW r \in Request, NEW k \in Key \union {NoKey}, Refuse(s, r, k)
      PROVE  IInv'
  BY <1>1, RefuseStep
<1>2. ASSUME NEW s \in Session, NEW r \in Request, NEW k \in Key \union {NoKey}, Call(s, r, k)
      PROVE  IInv'
  BY <1>2, CallStep
<1>3. ASSUME NEW s \in Session, Step(s)
      PROVE  IInv'
  BY <1>3, StepIInv
<1>4. ASSUME NEW s \in Session, Abort(s)
      PROVE  IInv'
  BY <1>4, FailStep
<1>5. CASE UNCHANGED vars
  BY <1>5, StutterIInv
<1> QED BY <1>1, <1>2, <1>3, <1>4, <1>5 DEF Next, Terminating

-----------------------------------------------------------------------------
(* The inductive invariant holds in every reachable state.                 *)
THEOREM Inductive == Spec => []IInv
<1>1. Init => IInv
  BY InitIInv
<1>2. IInv /\ [Next]_vars => IInv'
  BY NextIInv
<1> QED BY <1>1, <1>2, PTL DEF Spec

(* Every balance stays an int64 and a session in a transaction always has  *)
(* its job, for any accounts, sessions, keys and requests, in either       *)
(* isolation mode (store.runInTx, postEntryTx).                            *)
THEOREM TypeCorrect == Spec => []TypeOK
<1>1. IInv => TypeOK
  BY DEF IInv
<1> QED BY <1>1, Inductive, PTL

(* What a transaction read under FOR UPDATE is current until it ends: no   *)
(* posting overwrites a balance with one computed from a stale read        *)
(* (lockAccounts and the UPDATEs of postEntryTx).                          *)
THEOREM LockedReadsAreFresh == Spec => []FreshReads
<1>1. IInv => FreshReads
  BY DEF IInv
<1> QED BY <1>1, Inductive, PTL

(* No double-spend: no interleaving of any number of sessions drives an    *)
(* account that must not go negative below zero (ErrInsufficientFunds).    *)
THEOREM NoDoubleSpend == Spec => []NoOverdraft
<1>1. IInv => NoOverdraft
  BY DEF IInv
<1> QED BY <1>1, Inductive, PTL

(* A key is used by at most one journal entry, the one its committed row   *)
(* names, whatever duplicates, retries, aborts and lost answers occur      *)
(* (PostEntryIdempotentGuarded).                                           *)
THEOREM KeysPostOnce == Spec => []ExactlyOnce
<1>1. IInv => ExactlyOnce
  BY DEF IInv
<1> QED BY <1>1, Inductive, PTL

-----------------------------------------------------------------------------
Grows ==
  /\ DOMAIN journal \subseteq DOMAIN journal'
  /\ \A i \in DOMAIN journal : journal'[i] = journal[i]

TrueAnswer(s) ==
  /\ reply[s].txn \in DOMAIN journal
  /\ journal[reply[s].txn] = Posted(job[s].entry, job[s].key)
  /\ job[s].key # NoKey => keyRow[job[s].key] = KeyRow(job[s].req, reply[s].txn)

(* The entry a request stands for does not change as the journal grows.    *)
LEMMA EntryStable ==
  ASSUME Grows, NEW r, r.op \in {"transfer", "payment", "refund", "fx"}, Pinned(r)
  PROVE  EntryFor(journal', r) = EntryFor(journal, r) /\ Pinned(r)'
<1>1. CASE r.op = "refund"
  <2>1. r.payment \in DOMAIN journal /\ journal'[r.payment] = journal[r.payment]
    BY <1>1 DEF Pinned, IsPayment, Grows
  <2>2. Pinned(r)'
    BY <1>1, <2>1 DEF Pinned, IsPayment, Grows
  <2> QED BY <1>1, <2>1, <2>2 DEF EntryFor
<1>2. CASE r.op # "refund"
  BY <1>2 DEF EntryFor, Pinned
<1> QED BY <1>1, <1>2

(* The requests of calls and of key rows are requests of the model.        *)
LEMMA RequestOps ==
  ASSUME NEW r \in Request
  PROVE  r.op \in {"transfer", "payment", "refund", "fx"}
BY RequestAssumption

(* A step that commits nothing preserves AnswerInv if every new answer is  *)
(* true, every call it begins carries its request's entry, and a call that *)
(* goes to readReplay has found its key.                                   *)
LEMMA QuietAnswers ==
  ASSUME AnswerInv, UNCHANGED db,
         \A t \in Session : pc'[t] # "idle" =>
           \/ pc[t] # "idle" /\ job'[t] = job[t]
           \/ \E r \in Request :
                job'[t].req = r /\ Pinned(r) /\ job'[t].entry = EntryFor(journal, r),
         \A t \in Session : pc'[t] = "replay" =>
           job'[t] = job[t] /\ (pc[t] = "replay" \/ keyRow[job[t].key] # NoRow),
         \A t \in Session : reply'[t].status = "ok" =>
           \/ reply'[t] = reply[t] /\ job'[t] = job[t]
           \/ TrueAnswer(t)'
  PROVE  AnswerInv'
<1>1. journal' = journal /\ keyRow' = keyRow
  BY DEF db
<1>2. EntriesCurrent'
  <2>1. ASSUME NEW t \in Session, pc'[t] # "idle", job'[t] = job[t], pc[t] # "idle"
        PROVE  (Pinned(job[t].req) /\ job[t].entry = EntryFor(journal, job[t].req))'
    <3>1. Pinned(job[t].req) /\ job[t].entry = EntryFor(journal, job[t].req)
      BY <2>1 DEF AnswerInv, EntriesCurrent
    <3> QED BY <1>1, <2>1, <3>1 DEF Pinned
  <2>2. ASSUME NEW t \in Session, NEW r \in Request,
               job'[t].req = r, Pinned(r), job'[t].entry = EntryFor(journal, r)
        PROVE  (Pinned(job[t].req) /\ job[t].entry = EntryFor(journal, job[t].req))'
    BY <1>1, <2>2 DEF Pinned
  <2> QED BY <2>1, <2>2 DEF EntriesCurrent
<1>3. KeysAnswer'
  BY <1>1 DEF AnswerInv, KeysAnswer, Pinned
<1>4. AnswerStored'
  BY <1>1 DEF AnswerInv, AnswerStored
<1>5. AnswersTrue'
  BY <1>1 DEF AnswerInv, AnswersTrue, TrueAnswer
<1> QED BY <1>2, <1>3, <1>4, <1>5 DEF AnswerInv

(* A call that ends without a commit, and if it is told "ok", truly.       *)
LEMMA ReturnAnswers ==
  ASSUME IInv, AnswerInv, NEW s \in Session, NEW ans, Return(s, ans), UNCHANGED db,
         ans.status = "ok" => TrueAnswer(s)'
  PROVE  AnswerInv'
<1>1. /\ job' = job
      /\ \A t \in Session : pc'[t] = IF t = s THEN "idle" ELSE pc[t]
      /\ \A t \in Session : reply'[t] = IF t = s THEN ans ELSE reply[t]
  BY DEF Return, Goto, IInv, TypeOK, SessionType
<1> QED BY <1>1, QuietAnswers

(* A rejection and a failure are not answers.                              *)
LEMMA NoAnswers == Rejected.status # "ok" /\ Failed.status # "ok" /\ NoReply.status # "ok"
BY DEF Rejected, Failed, NoReply

(* A step that moves on within a transaction answers nobody.               *)
LEMMA MoveAnswers ==
  ASSUME IInv, AnswerInv, NEW s \in Session, pc[s] # "idle",
         NEW l, Goto(s, l), l = "replay" => keyRow[job[s].key] # NoRow,
         UNCHANGED <<db, job, reply>>
  PROVE  AnswerInv'
<1>1. \A t \in Session : pc'[t] = IF t = s THEN l ELSE pc[t]
  BY DEF Goto, IInv, TypeOK, SessionType
<1> QED BY <1>1, QuietAnswers

-----------------------------------------------------------------------------
(* A request refused before its transaction begins is told so.             *)
LEMMA RefuseAnswers ==
  ASSUME IInv, AnswerInv, NEW s \in Session, NEW r, NEW k, Refuse(s, r, k)
  PROVE  AnswerInv'
<1>1. /\ UNCHANGED db /\ pc' = pc /\ pc[s] = "idle"
      /\ \A t \in Session \ {s} : job'[t] = job[t]
      /\ \A t \in Session : reply'[t] = IF t = s THEN Rejected ELSE reply[t]
  BY DEF Refuse, Send, IInv, TypeOK, SessionType
<1> QED BY <1>1, NoAnswers, QuietAnswers

(* A call begins with the entry of its request.                            *)
LEMMA CallAnswers ==
  ASSUME IInv, AnswerInv, NEW s \in Session, NEW r \in Request,
         NEW k \in Key \union {NoKey}, Call(s, r, k)
  PROVE  AnswerInv'
<1> DEFINE j == [req |-> r, key |-> k, entry |-> EntryFor(journal, r)]
<1>1. /\ UNCHANGED db
      /\ \A t \in Session : pc'[t] = IF t = s THEN "begin" ELSE pc[t]
      /\ \A t \in Session : job'[t] = IF t = s THEN j ELSE job[t]
      /\ \A t \in Session : reply'[t] = IF t = s THEN NoReply ELSE reply[t]
  BY DEF Call, Send, Goto, IInv, TypeOK, SessionType
<1>2. Pinned(r)
  BY DEF Call, Refused, Pinned
<1>3. job'[s].req = r /\ job'[s].entry = EntryFor(journal, r)
  BY <1>1
<1> QED BY <1>1, <1>2, <1>3, NoAnswers, QuietAnswers

(* readReplay answers with the transaction stored under the key, which is  *)
(* the one this request stands for.                                        *)
LEMMA ReadReplayAnswers ==
  ASSUME IInv, AnswerInv, NEW s \in Session, ReadReplay(s)
  PROVE  AnswerInv'
<1> DEFINE k == job[s].key
           row == keyRow[k]
           ans == IF row.req = job[s].req THEN OK(row.txn, TRUE) ELSE Rejected
<1>1. /\ Return(s, ans) /\ pc[s] = "replay" /\ UNCHANGED db
      /\ job' = job /\ journal' = journal /\ keyRow' = keyRow /\ reply'[s] = ans
  BY DEF ReadReplay, Return, db, IInv, TypeOK, SessionType
<1>2. k \in Key
  BY <1>1 DEF IInv, OwnsKey, TypeOK, SessionType, Job
<1>3. row # NoRow /\ row \in [req : Request, txn : Nat]
  BY <1>1, <1>2 DEF AnswerInv, AnswerStored, IInv, TypeOK, DbType
<1>4. job[s].entry = EntryFor(journal, job[s].req)
  BY <1>1 DEF AnswerInv, EntriesCurrent
<1>5. /\ row.txn \in DOMAIN journal
      /\ journal[row.txn] = Posted(EntryFor(journal, row.req), k)
  BY <1>2, <1>3 DEF AnswerInv, KeysAnswer
<1>6. ASSUME row.req = job[s].req
      PROVE  TrueAnswer(s)'
  <2>1. ans.txn = row.txn
    BY <1>6 DEF OK
  <2>2. row = KeyRow(job[s].req, row.txn)
    BY <1>3, <1>6 DEF KeyRow
  <2> QED BY <1>1, <1>4, <1>5, <1>6, <2>1, <2>2 DEF TrueAnswer
<1>7. ans.status = "ok" => TrueAnswer(s)'
  BY <1>6, NoAnswers
<1> HIDE DEF ans
<1> QED BY <1>1, <1>7, ReturnAnswers

(* The commit: the entry of this call is in the journal, under its key,    *)
(* which no other call was ever answered for.                              *)
LEMMA PublishAnswers ==
  ASSUME IInv, AnswerInv, NEW s \in Session, NEW ans,
         pc[s] = "commit", Publish(s), Return(s, ans),
         ans.status = "ok" => ans.txn = Len(journal) + 1
  PROVE  AnswerInv'
<1> DEFINE k == job[s].key
           e == job[s].entry
           n == Len(journal) + 1
<1>1. /\ job' = job
      /\ \A t \in Session : pc'[t] = IF t = s THEN "idle" ELSE pc[t]
      /\ \A t \in Session : reply'[t] = IF t = s THEN ans ELSE reply[t]
  BY DEF Return, Goto, IInv, TypeOK, SessionType
<1>2. job[s] \in Job /\ k \in Key \union {NoKey}
  BY DEF IInv, TypeOK, SessionType, Job
<1>3. /\ DOMAIN journal' = DOMAIN journal \union {n} /\ n \notin DOMAIN journal
      /\ journal'[n] = Posted(e, k)
      /\ \A i \in DOMAIN journal : journal'[i] = journal[i]
  BY DEF IInv, TypeOK, DbType, Publish
<1>4. Grows
  BY <1>3 DEF Grows
<1>5. \A x \in Key : keyRow'[x] = IF x = k THEN KeyRow(job[s].req, n) ELSE keyRow[x]
  BY <1>2, KeyAssumption DEF Publish, IInv, TypeOK, DbType
<1>6. \A x \in Key : x = k => keyRow[x] = NoRow
  BY KeyAssumption DEF IInv, OwnsKey
<1>7. ASSUME NEW t \in Session, pc[t] # "idle"
      PROVE  /\ job[t].entry = EntryFor(journal', job[t].req)
             /\ Pinned(job[t].req)'
  <2>1. job[t].req \in Request
    BY <1>7 DEF IInv, TypeOK, SessionType, Job
  <2>2. Pinned(job[t].req) /\ job[t].entry = EntryFor(journal, job[t].req)
    BY <1>7 DEF AnswerInv, EntriesCurrent
  <2> QED BY <1>1, <1>4, <2>1, <2>2, RequestOps, EntryStable DEF Pinned
<1>8. EntriesCurrent'
  BY <1>1, <1>7 DEF EntriesCurrent
<1>9. KeysAnswer'
  <2> SUFFICES ASSUME NEW x \in Key, keyRow'[x] # NoRow
               PROVE  (/\ Pinned(keyRow[x].req)
                       /\ keyRow[x].txn \in DOMAIN journal
                       /\ journal[keyRow[x].txn] = Posted(EntryFor(journal, keyRow[x].req), x))'
    BY DEF KeysAnswer
  <2>1. CASE x = k
    <3>1. keyRow'[x].req = job[s].req /\ keyRow'[x].txn = n
      BY <1>5, <2>1 DEF KeyRow
    <3> QED BY <1>1, <1>3, <1>7, <2>1, <3>1 DEF Pinned
  <2>2. CASE x # k
    <3> DEFINE r == keyRow[x].req
    <3>1. keyRow'[x] = keyRow[x] /\ keyRow[x] # NoRow
      BY <1>5, <2>2
    <3>2. r \in Request
      BY <3>1 DEF IInv, TypeOK, DbType
    <3>3. /\ Pinned(r) /\ keyRow[x].txn \in DOMAIN journal
          /\ journal[keyRow[x].txn] = Posted(EntryFor(journal, r), x)
      BY <3>1 DEF AnswerInv, KeysAnswer
    <3>4. r.op \in {"transfer", "payment", "refund", "fx"}
      BY <3>2, RequestOps
    <3>5. EntryFor(journal', r) = EntryFor(journal, r)
      BY <1>4, <3>3, <3>4, EntryStable
    <3>6. Pinned(keyRow[x].req)'
      BY <1>3, <3>1, <3>3 DEF Pinned, IsPayment
    <3> QED BY <1>3, <3>1, <3>3, <3>5, <3>6
  <2> QED BY <2>1, <2>2
<1>10. AnswerStored'
  <2> SUFFICES ASSUME NEW t \in Session, pc[t] = "replay", t # s
               PROVE  keyRow'[job[t].key] # NoRow
    BY <1>1 DEF AnswerStored
  <2>1. job[t].key \in Key /\ keyRow[job[t].key] # NoRow
    BY DEF AnswerInv, AnswerStored, IInv, OwnsKey, TypeOK, SessionType, Job
  <2> QED BY <1>5, <1>6, <2>1
<1>11. AnswersTrue'
  <2> SUFFICES ASSUME NEW t \in Session, reply'[t].status = "ok"
               PROVE  TrueAnswer(t)'
    BY DEF AnswersTrue, TrueAnswer
  <2>1. CASE t = s
    <3>1. reply'[s].txn = n
      BY <1>1, <2>1
    <3> QED BY <1>1, <1>2, <1>3, <1>5, <2>1, <3>1 DEF TrueAnswer
  <2>2. CASE t # s
    <3>1. reply'[t] = reply[t] /\ TrueAnswer(t)
      BY <1>1, <2>2 DEF AnswerInv, AnswersTrue, TrueAnswer
    <3>2. ASSUME job[t].key # NoKey
          PROVE  keyRow'[job[t].key] = keyRow[job[t].key]
      <4>1. job[t].key \in Key
        BY <3>2 DEF IInv, TypeOK, SessionType, Job, NoJob
      <4>2. keyRow[job[t].key].txn # 0
        BY <3>1, <3>2 DEF TrueAnswer, KeyRow, IInv, TypeOK, DbType
      <4>3. keyRow[job[t].key] # NoRow
        BY <4>2 DEF NoRow
      <4> QED BY <1>5, <1>6, <4>1, <4>3
    <3> QED BY <1>1, <1>3, <3>1, <3>2 DEF TrueAnswer
  <2> QED BY <2>1, <2>2
<1> QED BY <1>8, <1>9, <1>10, <1>11 DEF AnswerInv

-----------------------------------------------------------------------------
(* No money, no key, no answer.                                            *)
LEMMA InitAnswers == Init => AnswerInv
BY DEF Init, AnswerInv, EntriesCurrent, KeysAnswer, AnswerStored, AnswersTrue, NoReply

(* A step of a session preserves AnswerInv, one case per action.           *)
LEMMA StepAnswers ==
  ASSUME IInv, AnswerInv, NEW s \in Session, Step(s) \/ Abort(s)
  PROVE  AnswerInv'
<1>1. CASE BeginTx(s)
  <2>1. PICK l \in {"lock", "claim"} : Goto(s, l)
    BY <1>1 DEF BeginTx
  <2> QED BY <1>1, <2>1, MoveAnswers DEF BeginTx, local
<1>2. CASE ClaimKey(s)
  BY <1>2, MoveAnswers DEF ClaimKey, local
<1>3. CASE KeyTaken(s)
  BY <1>3, MoveAnswers DEF KeyTaken, local
<1>4. CASE ReadReplay(s)
  BY <1>4, ReadReplayAnswers
<1>5. CASE LockAccount(s)
  <2>1. UNCHANGED <<db, pc, job, reply>>
    BY <1>5 DEF LockAccount, local
  <2> QED BY <2>1, QuietAnswers
<1>6. CASE AllLocked(s)
  <2>1. PICK l \in {"guard", "post"} : Goto(s, l)
    BY <1>6 DEF AllLocked
  <2> QED BY <1>6, <2>1, MoveAnswers DEF AllLocked, local
<1>7. CASE CheckGuard(s)
  <2>1. pc[s] = "guard" /\ UNCHANGED db
    BY <1>7 DEF CheckGuard
  <2>2. Return(s, Rejected) \/ (Goto(s, "post") /\ UNCHANGED <<job, reply>>)
    BY <1>7 DEF CheckGuard, local
  <2>3. CASE Return(s, Rejected)
    BY <2>1, <2>3, NoAnswers, ReturnAnswers
  <2>4. CASE Goto(s, "post") /\ UNCHANGED <<job, reply>>
    BY <2>1, <2>4, MoveAnswers
  <2> QED BY <2>2, <2>3, <2>4
<1>8. CASE PostLegs(s)
  BY <1>8, MoveAnswers DEF PostLegs, local
<1>9. CASE CommitTx(s)
  <2>1. OK(Len(journal) + 1, FALSE).txn = Len(journal) + 1
    BY DEF OK
  <2> QED BY <1>9, <2>1, PublishAnswers DEF CommitTx
<1>10. CASE CommitAnswerLost(s)
  BY <1>10, NoAnswers, PublishAnswers DEF CommitAnswerLost
<1>11. CASE RejectEntry(s) \/ RejectPosting(s) \/ Exhausted(s) \/ Abort(s)
  <2>1. UNCHANGED db /\ (Return(s, Rejected) \/ Return(s, Failed))
    BY <1>11 DEF RejectEntry, RejectPosting, Exhausted, Abort
  <2> QED BY <2>1, NoAnswers, ReturnAnswers
<1>12. CASE Retry(s)
  BY <1>12, MoveAnswers DEF Retry, SerializationFailure, InTx
<1> QED BY <1>1, <1>2, <1>3, <1>4, <1>5, <1>6, <1>7, <1>8, <1>9, <1>10, <1>11, <1>12 DEF Step, Progress

(* Every step preserves AnswerInv, given IInv.                             *)
LEMMA NextAnswers == IInv /\ AnswerInv /\ [Next]_vars => AnswerInv'
<1> SUFFICES ASSUME IInv, AnswerInv, [Next]_vars
             PROVE  AnswerInv'
  OBVIOUS
<1>1. ASSUME NEW s \in Session, NEW r \in Request, NEW k \in Key \union {NoKey}, Refuse(s, r, k)
      PROVE  AnswerInv'
  BY <1>1, RefuseAnswers
<1>2. ASSUME NEW s \in Session, NEW r \in Request, NEW k \in Key \union {NoKey}, Call(s, r, k)
      PROVE  AnswerInv'
  BY <1>2, CallAnswers
<1>3. ASSUME NEW s \in Session, Step(s) \/ Abort(s)
      PROVE  AnswerInv'
  BY <1>3, StepAnswers
<1>4. CASE UNCHANGED vars
  <2>1. UNCHANGED <<db, pc, job, reply>>
    BY <1>4 DEF vars, local
  <2> QED BY <2>1, QuietAnswers
<1> QED BY <1>1, <1>2, <1>3, <1>4 DEF Next, Terminating

(* The entry of a call, the row of a key and the answer to a client always *)
(* agree.                                                                  *)
THEOREM AnswersInductive == Spec => []AnswerInv
<1>1. Init => AnswerInv
  BY InitAnswers
<1>2. IInv /\ AnswerInv /\ [Next]_vars => AnswerInv'
  BY NextAnswers
<1> QED BY <1>1, <1>2, Inductive, PTL DEF Spec

(* A client told "ok", at once or when it repeats a call under its key, is *)
(* told the transaction that carries out its request, whatever the         *)
(* retries, duplicates, aborts and lost answers in between (readReplay,    *)
(* PostEntryIdempotentGuarded).                                            *)
THEOREM AnswersAreTrue == Spec => []AnswersTrue
<1>1. AnswerInv => AnswersTrue
  BY DEF AnswerInv
<1> QED BY <1>1, AnswersInductive, PTL

-----------------------------------------------------------------------------
(* A finite non-empty set of numbers has a greatest one.                   *)
LEMMA GreatestNumber ==
  ASSUME NEW S, S \subseteq Nat, S # {}, IsFiniteSet(S)
  PROVE  \E n \in S : \A m \in S : m <= n
<1> DEFINE above(n) == {m \in S : m > n}
           C == {Cardinality(above(n)) : n \in S}
<1>1. \A n \in S : IsFiniteSet(above(n)) /\ Cardinality(above(n)) \in Nat
  <2> SUFFICES ASSUME NEW n \in S
               PROVE  IsFiniteSet(above(n)) /\ Cardinality(above(n)) \in Nat
    OBVIOUS
  <2>1. above(n) \in SUBSET S
    OBVIOUS
  <2>2. IsFiniteSet(above(n))
    BY <2>1, FS_Subset
  <2> QED BY <2>2, FS_CardinalityType
<1>2. C \subseteq Nat /\ C # {}
  BY <1>1
<1>3. PICK c \in C : \A d \in C : c <= d
  BY <1>2, LeastNumber
<1>4. PICK n \in S : c = Cardinality(above(n))
  OBVIOUS
<1>5. ASSUME NEW m \in S, m > n
      PROVE  FALSE
  <2> /\ m \in Nat /\ n \in Nat
      /\ \A k \in S : k \in Nat
    OBVIOUS
  <2>0. \A k \in S : k > m => k > n
    BY <1>5
  <2>1. above(m) \in SUBSET above(n) /\ m \in above(n) /\ m \notin above(m)
    <3>1. above(m) \in SUBSET above(n)
      BY <2>0
    <3>2. m \in above(n) /\ m \notin above(m)
      BY <1>5
    <3> QED BY <3>1, <3>2
  <2>2. IsFiniteSet(above(n))
    BY <1>1
  <2>3. Cardinality(above(n)) <= Cardinality(above(m))
    BY <1>3, <1>4
  <2>4. Cardinality(above(n)) \in Nat /\ Cardinality(above(m)) \in Nat
    BY <1>1
  <2> HIDE DEF above
  <2>5. above(m) # above(n)
    BY <2>1
  <2>6. /\ Cardinality(above(m)) <= Cardinality(above(n))
        /\ Cardinality(above(n)) = Cardinality(above(m)) => above(n) = above(m)
    BY <2>1, <2>2, FS_Subset
  <2> QED BY <2>3, <2>4, <2>5, <2>6
<1>6. \A m \in S : m \in Nat /\ n \in Nat
  OBVIOUS
<1> HIDE DEF above, C
<1>7. \A m \in S : m <= n
  BY <1>5, <1>6
<1> QED BY <1>7

-----------------------------------------------------------------------------
(* Sessions in order do not block each other.                              *)
LEMMA OrderBreaksCycles ==
  ASSUME IInv, LocksHeld, Ascending
  PROVE  NoLockCycle
<1> SUFFICES ASSUME NEW S \in SUBSET Session, S # {},
                    \A s \in S : \E t \in S : WaitsFor(s, t)
             PROVE  FALSE
  BY DEF NoLockCycle
<1> DEFINE waits(s, a) == pc[s] = "lock" /\ IsNext(s, a) /\ rowLock[a] \in S
           rows(s) == {a \in Account : waits(s, a)}
           A == {a \in Account : \E s \in S : waits(s, a)}
(* Who holds a key or a row that is waited for waits for a row.            *)
<1>1. ASSUME NEW t \in S, pc[t] # "claim"
      PROVE  \E a \in Account : waits(t, a)
  <2>1. PICK u \in S : WaitsFor(t, u)
    OBVIOUS
  <2> QED BY <1>1, <2>1 DEF WaitsFor
<1>2. A # {}
  <2>1. PICK s \in S : TRUE
    OBVIOUS
  <2>2. PICK t \in S : WaitsFor(s, t)
    OBVIOUS
  <2>3. CASE pc[s] # "claim"
    BY <1>1, <2>3
  <2>4. CASE pc[s] = "claim"
    <3>1. job[s].key \in Key /\ keyLock[job[s].key] = t
      BY <2>2, <2>4 DEF WaitsFor, IInv, TypeOK, SessionType, OwnsKey, Job
    <3>2. pc[t] # "claim"
      BY <3>1 DEF LocksHeld
    <3> QED BY <1>1, <3>2
  <2> QED BY <2>3, <2>4
(* A session waits for one row at a time.                                  *)
<1>3. IsFiniteSet(A)
  <2>1. IsFiniteSet(S)
    BY FiniteAssumption, FS_Subset
  <2> DEFINE B == {s \in S : rows(s) # {}}
             row == [s \in B |-> CHOOSE a : a \in rows(s)]
  <2>2. IsFiniteSet(B)
    BY <2>1, FS_Subset
  <2>3. \A s \in B : \A a, b \in rows(s) : a = b
    <3> SUFFICES ASSUME NEW s \in B, NEW a \in rows(s), NEW b \in rows(s)
                 PROVE  a = b
      OBVIOUS
    <3>1. a <= b /\ b <= a /\ a \in Nat /\ b \in Nat
      BY AccountAssumption DEF IsNext
    <3> QED BY <3>1
  <2>4. row \in Surjection(B, A)
    <3>1. \A s \in B : row[s] \in rows(s)
      OBVIOUS
    <3>2. row \in [B -> A]
      BY <3>1
    <3>3. ASSUME NEW a \in A
          PROVE  \E s \in B : row[s] = a
      <4>1. PICK s \in S : waits(s, a)
        OBVIOUS
      <4>2. s \in B /\ a \in rows(s)
        BY <4>1
      <4>3. row[s] \in rows(s)
        BY <3>1, <4>2
      <4>4. row[s] = a
        BY <2>3, <4>2, <4>3
      <4> QED BY <4>2, <4>4
    <3> QED BY <3>2, <3>3 DEF Surjection
  <2> QED BY <2>2, <2>4, FS_Surjection
<1>4. A \subseteq Nat
  BY AccountAssumption
<1>5. PICK a \in A : \A b \in A : b <= a
  BY <1>2, <1>3, <1>4, GreatestNumber
<1>6. PICK s \in S : waits(s, a)
  OBVIOUS
<1> DEFINE t == rowLock[a]
<1>7. t \in S /\ t \in Session /\ a \in DOMAIN seen[t] /\ a \in Account
  BY <1>6 DEF LocksHeld
<1>8. pc[t] # "claim"
  BY <1>7 DEF LocksHeld
<1>9. PICK b \in Account : waits(t, b)
  BY <1>1, <1>7, <1>8
<1>10. a < b
  BY <1>7, <1>9 DEF Ascending, IsNext
<1>11. b <= a /\ a \in Nat /\ b \in Nat
  BY <1>4, <1>5, <1>7, <1>9
<1> QED BY <1>10, <1>11

-----------------------------------------------------------------------------
(* A session moves on and nobody's locks change.                           *)
LEMMA MoveLocks ==
  ASSUME IInv, LocksHeld, Ascending, NEW s \in Session, NEW l, Goto(s, l),
         rowLock' = rowLock, keyLock' = keyLock, seen' = seen,
         \A t \in Session \ {s} : job'[t] = job[t],
         pc[s] # "idle" => job'[s] = job[s],
         pc[s] \in {"lock", "guard", "post", "commit"} => l \in {"guard", "post", "commit"},
         pc[s] \in {"idle", "begin", "claim", "replay"} => l \in {"begin", "claim", "replay", "lock"}
  PROVE  LocksHeld' /\ Ascending'
<1>1. \A t \in Session : pc'[t] = IF t = s THEN l ELSE pc[t]
  BY DEF Goto, IInv, TypeOK, SessionType
<1>2. pc[s] \in {"idle", "begin", "claim", "replay", "lock", "guard", "post", "commit"}
  BY DEF IInv, TypeOK, SessionType
<1>3. LocksHeld'
  BY <1>1, <1>2 DEF LocksHeld
<1>4. ASSUME NEW t \in Session, pc'[t] = "lock"
      PROVE  \A b \in DOMAIN seen'[t], a \in ToLock(t)' : b < a
  <2>1. CASE t = s
    BY <1>1, <1>2, <1>4, <2>1 DEF LocksHeld
  <2>2. CASE t # s
    <3>1. pc[t] = "lock" /\ ToLock(t)' = ToLock(t)
      BY <1>1, <1>4, <2>2 DEF ToLock, LegAccounts
    <3> QED BY <3>1 DEF Ascending
  <2> QED BY <2>1, <2>2
<1> QED BY <1>3, <1>4 DEF Ascending

(* A transaction ends.                                                     *)
LEMMA ReleaseLocks ==
  ASSUME IInv, LocksHeld, Ascending, NEW s \in Session, Release(s), job' = job,
         NEW l \in {"idle", "begin"}, Goto(s, l)
  PROVE  LocksHeld' /\ Ascending'
<1>1. \A t \in Session : pc'[t] = IF t = s THEN l ELSE pc[t]
  BY DEF Goto, IInv, TypeOK, SessionType
<1>2. DOMAIN seen'[s] = {} /\ \A t \in Session \ {s} : seen'[t] = seen[t]
  BY ReleaseFacts
<1>3. /\ \A a \in Account : rowLock'[a] \in Session => rowLock'[a] = rowLock[a] /\ rowLock[a] # s
      /\ \A k \in Key : keyLock'[k] \in Session => keyLock'[k] = keyLock[k] /\ keyLock[k] # s
  BY SessionAssumption DEF Release
<1>4. LocksHeld'
  BY <1>1, <1>2, <1>3 DEF LocksHeld
<1>5. ASSUME NEW t \in Session, pc'[t] = "lock"
      PROVE  \A b \in DOMAIN seen'[t], a \in ToLock(t)' : b < a
  <2>1. t # s /\ pc[t] = "lock"
    BY <1>1, <1>5
  <2>2. ToLock(t)' = ToLock(t) /\ seen'[t] = seen[t]
    BY <1>2, <2>1 DEF ToLock, LegAccounts
  <2> QED BY <2>1, <2>2 DEF Ascending
<1> QED BY <1>4, <1>5 DEF Ascending

(* claimKey takes the lock of a free key.                                  *)
LEMMA ClaimKeyLocks ==
  ASSUME IInv, LocksHeld, Ascending, NEW s \in Session, ClaimKey(s)
  PROVE  LocksHeld' /\ Ascending'
<1> DEFINE k == job[s].key
<1>1. /\ pc[s] = "claim" /\ keyLock' = [keyLock EXCEPT ![k] = s]
      /\ rowLock' = rowLock /\ seen' = seen /\ job' = job
      /\ \A t \in Session : pc'[t] = IF t = s THEN "lock" ELSE pc[t]
  BY DEF ClaimKey, Goto, local, IInv, TypeOK, SessionType
<1>2. \A x \in Key : keyLock'[x] = IF x = k THEN s ELSE keyLock[x]
  BY <1>1 DEF IInv, TypeOK, LockType
<1>3. LocksHeld'
  BY <1>1, <1>2 DEF LocksHeld
<1>4. ASSUME NEW t \in Session, pc'[t] = "lock"
      PROVE  \A b \in DOMAIN seen'[t], a \in ToLock(t)' : b < a
  <2>1. ToLock(t)' = ToLock(t) /\ seen'[t] = seen[t]
    BY <1>1 DEF ToLock, LegAccounts
  <2>2. CASE t = s
    BY <1>1, <2>1, <2>2 DEF LocksHeld
  <2>3. CASE t # s
    BY <1>1, <1>4, <2>1, <2>3 DEF Ascending
  <2> QED BY <2>2, <2>3
<1> QED BY <1>3, <1>4 DEF Ascending

(* lockAccounts takes the lowest of the rows it has not locked.            *)
LEMMA LockAccountLocks ==
  ASSUME IInv, LocksHeld, Ascending, NEW s \in Session, LockAccount(s)
  PROVE  LocksHeld' /\ Ascending'
<1>1. /\ keyLock' = keyLock /\ pc' = pc /\ job' = job /\ pc[s] = "lock"
  BY DEF LockAccount, local
<1>2. PICK a \in Account :
        /\ IsNext(s, a)
        /\ rowLock' = [rowLock EXCEPT ![a] = s]
        /\ seen' = [seen EXCEPT ![s] =
             [b \in DOMAIN seen[s] \union {a} |-> IF b = a THEN balance[a] ELSE seen[s][b]]]
        /\ rowLock[a] = NoHolder
  BY DEF LockAccount
<1>3. /\ DOMAIN seen'[s] = DOMAIN seen[s] \union {a}
      /\ \A t \in Session \ {s} : seen'[t] = seen[t]
      /\ \A b \in Account : rowLock'[b] = IF b = a THEN s ELSE rowLock[b]
  BY <1>2 DEF IInv, TypeOK, SessionType, LockType
<1>4. LocksHeld'
  <2>1. \A b \in Account : rowLock'[b] \in Session => b \in DOMAIN seen'[rowLock'[b]]
    BY <1>3 DEF LocksHeld
  <2>2. \A t \in Session :
          pc'[t] \in {"idle", "begin", "claim", "replay"} => DOMAIN seen'[t] = {}
    BY <1>1, <1>3 DEF LocksHeld
  <2> QED BY <1>1, <2>1, <2>2 DEF LocksHeld
<1>5. ASSUME NEW t \in Session, pc'[t] = "lock"
      PROVE  \A b \in DOMAIN seen'[t], c \in ToLock(t)' : b < c
  <2>1. CASE t = s
    <3>1. ToLock(s)' = ToLock(s) \ {a}
      BY <1>1, <1>3 DEF ToLock, LegAccounts
    <3>2. ASSUME NEW b \in DOMAIN seen'[s], NEW c \in ToLock(s)'
          PROVE  b < c
      <4>1. c \in ToLock(s) /\ c # a /\ c \in Nat /\ a \in Nat
        BY <3>1, <3>2, AccountAssumption DEF ToLock
      <4>2. CASE b = a
        BY <1>2, <4>1, <4>2 DEF IsNext
      <4>3. CASE b # a
        BY <1>1, <1>3, <4>1, <4>3 DEF Ascending
      <4> QED BY <4>2, <4>3
    <3> QED BY <2>1, <3>2
  <2>2. CASE t # s
    <3>1. ToLock(t)' = ToLock(t) /\ seen'[t] = seen[t] /\ pc[t] = "lock"
      BY <1>1, <1>3, <1>5, <2>2 DEF ToLock, LegAccounts
    <3> QED BY <3>1 DEF Ascending
  <2> QED BY <2>1, <2>2
<1> QED BY <1>4, <1>5 DEF Ascending

(* One case per action.                                                    *)
LEMMA StepLocks ==
  ASSUME IInv, LocksHeld, Ascending, NEW s \in Session, Step(s) \/ Abort(s)
  PROVE  LocksHeld' /\ Ascending'
<1>1. CASE BeginTx(s) \/ KeyTaken(s) \/ AllLocked(s) \/ PostLegs(s)
  <2>1. /\ rowLock' = rowLock /\ keyLock' = keyLock /\ seen' = seen /\ job' = job
        /\ \/ /\ pc[s] \in {"begin", "claim"}
              /\ \E l \in {"claim", "replay", "lock"} : Goto(s, l)
           \/ /\ pc[s] \in {"lock", "post"}
              /\ \E l \in {"guard", "post", "commit"} : Goto(s, l)
    BY <1>1 DEF BeginTx, KeyTaken, AllLocked, PostLegs, locks, local
  <2> QED BY <2>1, MoveLocks
<1>2. CASE ClaimKey(s)
  BY <1>2, ClaimKeyLocks
<1>3. CASE LockAccount(s)
  BY <1>3, LockAccountLocks
<1>4. CASE CheckGuard(s)
  <2>1. CASE Return(s, Rejected)
    BY <2>1, ReleaseLocks DEF Return
  <2>2. CASE Goto(s, "post") /\ UNCHANGED <<locks, seen, snap, local, reply>>
    BY <1>4, <2>2, MoveLocks DEF CheckGuard, locks, local
  <2> QED BY <1>4, <2>1, <2>2 DEF CheckGuard
<1>5. CASE \/ ReadReplay(s) \/ RejectEntry(s) \/ RejectPosting(s) \/ Exhausted(s) \/ Abort(s)
           \/ CommitTx(s) \/ CommitAnswerLost(s)
  <2>1. \E ans : Return(s, ans)
    BY <1>5 DEF ReadReplay, RejectEntry, RejectPosting, Exhausted, Abort, CommitTx, CommitAnswerLost
  <2> QED BY <2>1, ReleaseLocks DEF Return
<1>6. CASE Retry(s)
  BY <1>6, ReleaseLocks DEF Retry
<1> QED BY <1>1, <1>2, <1>3, <1>4, <1>5, <1>6 DEF Step, Progress

(* Every step of the system keeps the order.                               *)
LEMMA NextLocks ==
  IInv /\ LocksHeld /\ Ascending /\ [Next]_vars => LocksHeld' /\ Ascending'
<1> SUFFICES ASSUME IInv, LocksHeld, Ascending, [Next]_vars
             PROVE  LocksHeld' /\ Ascending'
  OBVIOUS
<1>1. ASSUME NEW s \in Session, NEW r \in Request, NEW k \in Key \union {NoKey}, Refuse(s, r, k)
      PROVE  LocksHeld' /\ Ascending'
  <2>1. /\ rowLock' = rowLock /\ keyLock' = keyLock /\ seen' = seen /\ pc' = pc
        /\ pc[s] = "idle" /\ \A t \in Session \ {s} : job'[t] = job[t]
    BY <1>1 DEF Refuse, Send, locks, IInv, TypeOK, SessionType
  <2>2. LocksHeld'
    BY <2>1 DEF LocksHeld
  <2>3. ASSUME NEW t \in Session, pc'[t] = "lock"
        PROVE  \A b \in DOMAIN seen'[t], a \in ToLock(t)' : b < a
    <3>1. ToLock(t)' = ToLock(t) /\ pc[t] = "lock"
      BY <2>1, <2>3 DEF ToLock, LegAccounts
    <3> QED BY <2>1, <3>1 DEF Ascending
  <2> QED BY <2>2, <2>3 DEF Ascending
<1>2. ASSUME NEW s \in Session, NEW r \in Request, NEW k \in Key \union {NoKey}, Call(s, r, k)
      PROVE  LocksHeld' /\ Ascending'
  <2>1. /\ rowLock' = rowLock /\ keyLock' = keyLock /\ seen' = seen /\ Goto(s, "begin")
        /\ pc[s] = "idle" /\ \A t \in Session \ {s} : job'[t] = job[t]
    BY <1>2 DEF Call, Send, locks, IInv, TypeOK, SessionType
  <2> QED BY <2>1, MoveLocks
<1>3. ASSUME NEW s \in Session, Step(s) \/ Abort(s)
      PROVE  LocksHeld' /\ Ascending'
  BY <1>3, StepLocks
<1>4. CASE UNCHANGED vars
  <2>1. rowLock' = rowLock /\ keyLock' = keyLock /\ seen' = seen /\ pc' = pc /\ job' = job
    BY <1>4 DEF vars, locks, local
  <2> QED BY <2>1 DEF LocksHeld, Ascending, ToLock, LegAccounts
<1> QED BY <1>1, <1>2, <1>3, <1>4 DEF Next, Terminating

(* No deadlock among any number of postings, in either isolation mode: the *)
(* keys and rows that sessions wait for never form a cycle, so Postgres    *)
(* has none to break (claimKey before lockAccounts, ORDER BY id).          *)
THEOREM NoDeadlock == Spec => []NoLockCycle
<1>1. Init => LocksHeld /\ Ascending
  BY SessionAssumption DEF Init, LocksHeld, Ascending, NoRows
<1>2. IInv /\ LocksHeld /\ Ascending /\ [Next]_vars => LocksHeld' /\ Ascending'
  BY NextLocks
<1>3. IInv /\ LocksHeld /\ Ascending => NoLockCycle
  BY OrderBreaksCycles
<1> QED BY <1>1, <1>2, <1>3, Inductive, PTL DEF Spec
=============================================================================
