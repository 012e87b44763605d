---------------------------- MODULE AtomicLedger ----------------------------
(***************************************************************************)
(* What LedgerCore promises its clients: a journal to which entries are    *)
(* added one operation at a time.  There are no cached balances, locks,    *)
(* sessions or retries here; a balance is the exact sum of the postings,   *)
(* and an operation happens entirely or not at all, and at most once per   *)
(* key.                                                                    *)
(***************************************************************************)
EXTENDS Netting

CONSTANTS Request, NoRequest

VARIABLES
  journal,   \* the entries, in commit order
  keyed,     \* Idempotency-Key -> the request it was used for, or NoRequest
  settled    \* the payments paid out

avars == <<journal, keyed, settled>>

Init ==
  /\ journal = << >>
  /\ keyed = [k \in Key |-> NoRequest]
  /\ settled = {}

Affordable(e) ==
  \A a \in LegAccounts(e) \ AllowNegative : Derived(journal, a) + Delta(e, a) >= 0

(* postEntryTx accepts the entry: it adds up, its rows exist and are of    *)
(* its currencies, and no account that must not goes below zero.           *)
Postable(e) ==
  /\ Valid(e)
  /\ LegAccounts(e) \subseteq Account
  /\ RightCurrency(e)
  /\ Affordable(e)

WithinCaptured(e) ==
  LET p == journal[e.ref]
      m == MerchantLeg(p).acct
  IN  RefundedSoFar(journal, Len(journal), e.ref, m) + e.legs[2].amt <= Captured(p)

(* A transfer, payment, refund or conversion takes effect.                 *)
Post(r, k) ==
  LET e == EntryFor(journal, r) IN
  /\ ~Refused(journal, r, k)
  /\ k # NoKey => keyed[k] = NoRequest
  /\ Postable(e)
  /\ e.kind = "refund" => WithinCaptured(e)
  /\ journal' = Append(journal, Posted(e, k))
  /\ keyed' = IF k = NoKey THEN keyed ELSE [keyed EXCEPT ![k] = r]
  /\ UNCHANGED settled

(* A settlement pays the merchants in M what they are owed for all their   *)
(* pending payments, which become settled.  Their payout rails exist, and  *)
(* what they are owed are int64s.                                          *)
Settle(M) ==
  LET n == Len(journal)
      owed == [m \in M |-> NetOf(journal, n, PendingOf(journal, n, settled, {m}))]
      payouts == PayoutsFor(owed)
  IN
  /\ RailsOf(M) \subseteq Account
  /\ \A m \in M : owed[m] \in Int64
  /\ \A i \in DOMAIN payouts : Postable(payouts[i])
  /\ journal' = journal \o [i \in DOMAIN payouts |-> Posted(payouts[i], NoKey)]
  /\ settled' = settled \union PendingOf(journal, n, settled, M)
  /\ UNCHANGED keyed

Next ==
  \/ \E r \in Request, k \in Key \union {NoKey} : Post(r, k)
  \/ \E M \in SUBSET Account : Settle(M)

Spec == Init /\ [][Next]_avars
=============================================================================
