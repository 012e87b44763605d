----------------------------- MODULE MCPosting ------------------------------
(***************************************************************************)
(* Small instances of Posting for TLC, in USD: account 1 a customer, 2 a   *)
(* merchant, 3 the outside world (may go negative).                        *)
(***************************************************************************)
EXTENDS Posting, TLC

Transfer(from, to, amount, cur) ==
  [op |-> "transfer", from |-> from, to |-> to, amount |-> amount, cur |-> cur]
Payment(from, to, amount) ==
  [op |-> "payment", from |-> from, to |-> to, amount |-> amount, cur |-> "USD"]
Refund(p, amount) ==
  [op |-> "refund", payment |-> p, amount |-> amount]

MCAccount       == 1 .. 3
MCCurrencyOf    == [a \in MCAccount |-> "USD"]
MCAllowNegative == {3}
MCNoFX          == [c \in {"USD"} |-> NoAccount]

(* Money comes in, and moves both ways between the same two accounts; with *)
(* MaxInt = 3, two of the first fill an account beyond the largest int64.  *)
MCTransfers == {Transfer(3, 1, 2, "USD"), Transfer(1, 2, 2, "USD"), Transfer(2, 1, 1, "USD")}

(* Payments to a merchant and refunds of the first of them.                *)
MCRefunds == {Payment(3, 2, 2), Refund(1, 1), Refund(1, 2)}

(* The same, and a payment to an account and one in a currency that the    *)
(* ledger does not know.                                                   *)
MCMistakes == {Payment(3, 4, 2), [Payment(3, 2, 2) EXCEPT !.cur = "XXX"]}
MCRefundsAndMistakes == MCRefunds \union MCMistakes

(* The merchant may owe: its balance does not hold a refund back, the      *)
(* guard alone does.                                                       *)
MCMerchantMayOwe == {2, 3}

(* Amounts next to MaxInt = 3.                                             *)
MCLargeRefunds == {Payment(3, 2, 1), Payment(3, 2, 3), Refund(1, 1), Refund(1, 3)}

MCSymmetry == Permutations(Session) \union Permutations(Key)
=============================================================================
