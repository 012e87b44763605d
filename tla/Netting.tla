------------------------------ MODULE Netting -------------------------------
(***************************************************************************)
(* The queries of store.RunSettlement, as functions of the journal and of  *)
(* the set of settled payments: which payments are pending, what each      *)
(* merchant is owed for them, and the payout entries of a batch.           *)
(***************************************************************************)
EXTENDS Ledger

CONSTANT PayoutAccount   \* currency -> the id of "payout:<cur>", or NoAccount

ASSUME PayoutAssumption ==
  PayoutAccount \in [Currency -> Account \union {NoAccount}]

(* Pending payments among the first n entries.                             *)
Pending(journal, n, settled) ==
  {p \in 1 .. n : IsPayment(journal, p)} \ settled

Merchant(journal, p) == MerchantLeg(journal[p]).acct

PendingOf(journal, n, settled, M) ==
  {p \in Pending(journal, n, settled) : Merchant(journal, p) \in M}

(* candidateMerchants and unionSortedIDs.                                  *)
Candidates(journal, n, settled) ==
  {Merchant(journal, p) : p \in Pending(journal, n, settled)}

RailsOf(M) == {PayoutAccount[CurrencyOf[m]] : m \in M}

(* The refunds CTE: every debit of every refund of p.                      *)
DebitAt(e, i) ==
  IF i \in DOMAIN e.legs /\ e.legs[i].amt < 0 THEN -e.legs[i].amt ELSE 0

Debits(e) == DebitAt(e, 1) + DebitAt(e, 2) + DebitAt(e, 3) + DebitAt(e, 4)

RefundDebits(e, p) == IF e.kind = "refund" /\ e.ref = p THEN Debits(e) ELSE 0

Refunded(journal, n, p) == Total([i \in 1 .. n |-> RefundDebits(journal[i], p)], n)

(* SUM(captured - refunded) over the set P of payments.                    *)
StillOwed(journal, n, p) == Captured(journal[p]) - Refunded(journal, n, p)

NetOf(journal, n, P) ==
  Total([p \in 1 .. n |-> IF p \in P THEN StillOwed(journal, n, p) ELSE 0], n)

PayoutEntry(m, net) ==
  LET c == CurrencyOf[m]
  IN  Entry("settlement", 0, TwoLegs(m, PayoutAccount[c], c, net))

(* The i-th of the numbers in S, in ascending order.                       *)
Ranked(S, i) == CHOOSE m \in S : Cardinality({x \in S : x <= m}) = i

(* The payouts of a batch, in the order of the merchants' ids; a merchant  *)
(* whose payments are fully refunded gets none.                            *)
PayoutsFor(nets) ==
  LET paid == {m \in DOMAIN nets : nets[m] > 0}
  IN  [i \in 1 .. Cardinality(paid) |-> PayoutEntry(Ranked(paid, i), nets[Ranked(paid, i)])]
=============================================================================
