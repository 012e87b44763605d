------------------------------- MODULE Ledger -------------------------------
(***************************************************************************)
(* The data of LedgerCore: accounts, requests, journal entries, and the    *)
(* pure functions the Go code computes on them.  internal/ledger/types.go, *)
(* internal/ops (what each operation builds) and the SUM queries of        *)
(* internal/store.                                                         *)
(***************************************************************************)
EXTENDS Money

CONSTANTS
  Account,        \* ids of the rows of the accounts table
  CurrencyCode,   \* what a caller may pass as a currency
  CurrencyOf,     \* accounts.currency
  AllowNegative,  \* accounts with allow_negative = true
  FXAccount,      \* currency -> the id of account "fx:<cur>", or NoAccount
  Key,            \* the Idempotency-Key values clients use
  NoKey           \* the empty Idempotency-Key

NoAccount == 0    \* Postgres identities start at 1

ASSUME AccountAssumption ==
  /\ Account \subseteq Nat \ {NoAccount}
  /\ Currency \subseteq CurrencyCode
  /\ CurrencyOf \in [Account -> Currency]
  /\ AllowNegative \subseteq Account
  /\ FXAccount \in [Currency -> Account \union {NoAccount}]

ASSUME KeyAssumption == NoKey \notin Key

-----------------------------------------------------------------------------
(* Legs and entries.  pending_settle is true exactly for payments, so it   *)
(* is not a field of its own.                                              *)

Leg(acct, cur, amt) == [acct |-> acct, cur |-> cur, amt |-> amt]

Legs == [acct : Nat, cur : CurrencyCode, amt : Int64]

Kinds == {"transfer", "payment", "refund", "fx", "settlement"}

JournalEntry ==
  [kind : Kinds, ref : Nat, legs : Seq(Legs), key : Key \union {NoKey}]

Entry(kind, ref, legs) == [kind |-> kind, ref |-> ref, legs |-> legs]

(* Mutant: only the first leg is inserted.                                 *)
MutPostedOneLeg(e, k) ==
  [kind |-> e.kind, ref |-> e.ref, legs |-> SubSeq(e.legs, 1, 1), key |-> k]

Posted(e, k) == [kind |-> e.kind, ref |-> e.ref, legs |-> e.legs, key |-> k]

LegAccounts(e) == {e.legs[i].acct : i \in DOMAIN e.legs}

AmountOn(e, i, a) ==
  IF i \in DOMAIN e.legs /\ e.legs[i].acct = a THEN e.legs[i].amt ELSE 0

(* What an entry adds to the balance of account a: deltas[id] in           *)
(* postEntryTx.  The longest entries, ConvertFX's, have four legs.         *)
Delta(e, a) ==
  AmountOn(e, 1, a) + AmountOn(e, 2, a) + AmountOn(e, 3, a) + AmountOn(e, 4, a)

AmountIn(e, i, c) ==
  IF i \in DOMAIN e.legs /\ e.legs[i].cur = c THEN e.legs[i].amt ELSE 0

Net(e, c) ==
  AmountIn(e, 1, c) + AmountIn(e, 2, c) + AmountIn(e, 3, c) + AmountIn(e, 4, c)

(* Entry.Validate.                                                         *)
Valid(e) ==
  /\ Len(e.legs) >= 2
  /\ \A i \in DOMAIN e.legs : e.legs[i].amt # 0 /\ e.legs[i].cur \in Currency
  /\ \A c \in Currency : Wrap(Net(e, c)) = 0

(* Mutant: the currency of a leg is not compared.                          *)
MutRightCurrencyUnchecked(e) == TRUE

(* Every leg is in its account's currency: the check inside postEntryTx.   *)
RightCurrency(e) ==
  \A i \in DOMAIN e.legs : e.legs[i].cur = CurrencyOf[e.legs[i].acct]

-----------------------------------------------------------------------------
(* Requests: [op |-> "transfer" | "payment", from, to, amount, cur],       *)
(* [op |-> "refund", payment, amount], [op |-> "fx", from, to, amount,     *)
(* num, den].  HashRequest is injective on them: a request is its own      *)
(* hash.                                                                   *)

MerchantLeg(e) == CHOOSE l \in {e.legs[i] : i \in DOMAIN e.legs} : l.amt > 0
SourceLeg(e)   == CHOOSE l \in {e.legs[i] : i \in DOMAIN e.legs} : l.amt <= 0

(* GetPaymentLegs succeeds.                                                *)
IsPayment(journal, p) == p \in DOMAIN journal /\ journal[p].kind = "payment"

TwoLegs(from, to, cur, amount) ==
  << Leg(from, cur, -amount), Leg(to, cur, amount) >>

FXLegs(r) ==
  LET a   == CurrencyOf[r.from]
      b   == CurrencyOf[r.to]
      got == Convert(r.amount, r.num, r.den)
  IN  << Leg(r.from, a, -r.amount), Leg(FXAccount[a], a, r.amount),
         Leg(FXAccount[b], b, -got), Leg(r.to, b, got) >>

(* The conditions under which ConvertFX gets as far as building its entry. *)
FXPossible(r) ==
  /\ {r.from, r.to} \subseteq Account
  /\ CurrencyOf[r.from] # CurrencyOf[r.to]
  /\ r.num > 0 /\ r.den > 0
  /\ Convert(r.amount, r.num, r.den) > 0
  /\ NoAccount \notin {FXAccount[CurrencyOf[r.from]], FXAccount[CurrencyOf[r.to]]}

(* The request is answered with an error before a transaction begins.      *)
Refused(journal, r, k) ==
  \/ r.amount <= 0
  \/ r.op = "transfer" /\ r.from = r.to
  \/ r.op = "refund" /\ (~IsPayment(journal, r.payment) \/ k = NoKey)
  \/ r.op = "fx" /\ ~FXPossible(r)

(* The entry the operation builds for a request it does not refuse.        *)
EntryFor(journal, r) ==
  CASE r.op \in {"transfer", "payment"} ->
         Entry(r.op, 0, TwoLegs(r.from, r.to, r.cur, r.amount))
    [] r.op = "refund" ->
         LET p == journal[r.payment]
         IN  Entry("refund", r.payment,
                   TwoLegs(MerchantLeg(p).acct, SourceLeg(p).acct,
                           MerchantLeg(p).cur, r.amount))
    [] r.op = "fx" -> Entry("fx", 0, FXLegs(r))

-----------------------------------------------------------------------------
(* Sums over the journal.                                                  *)

(* SUM: d[1] + ... + d[n].                                                 *)
Total(d, n) ==
  LET upto[i \in 0 .. n] == IF i = 0 THEN 0 ELSE upto[i - 1] + d[i]
  IN  upto[n]

(* SUM(amount) of the postings of account a: RecomputedBalances.           *)
Derived(journal, a) ==
  Total([i \in 1 .. Len(journal) |-> Delta(journal[i], a)], Len(journal))

(* The debits of account a in an entry, as a positive number.              *)
DebitOn(e, i, a) == IF AmountOn(e, i, a) < 0 THEN -AmountOn(e, i, a) ELSE 0

Debited(e, a) ==
  DebitOn(e, 1, a) + DebitOn(e, 2, a) + DebitOn(e, 3, a) + DebitOn(e, 4, a)

(* RefundedSoFar: what the refunds of payment p among the first n entries  *)
(* took from account m.                                                    *)
RefundOf(e, p, m) == IF e.kind = "refund" /\ e.ref = p THEN Debited(e, m) ELSE 0

RefundedSoFar(journal, n, p, m) ==
  Total([i \in 1 .. n |-> RefundOf(journal[i], p, m)], n)

Captured(e) == MerchantLeg(e).amt
=============================================================================
