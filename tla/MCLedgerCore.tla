---------------------------- MODULE MCLedgerCore ----------------------------
(***************************************************************************)
(* Small instances of LedgerCore: 1 the payout rail and 4 the outside      *)
(* world, which may go negative, 2 and 3 merchants, all in one currency.   *)
(***************************************************************************)
EXTENDS LedgerCore, TLC

MCAccount       == 1 .. 4
MCCurrencyOf    == [a \in MCAccount |-> "USD"]
MCAllowNegative == {1, 4}
MCNoFX          == [c \in {"USD"} |-> NoAccount]
MCRail          == [c \in {"USD"} |-> 1]

Payment(from, to, amount) ==
  [op |-> "payment", from |-> from, to |-> to, amount |-> amount, cur |-> "USD"]
Refund(p, amount) ==
  [op |-> "refund", payment |-> p, amount |-> amount]

(* Merchant 2 also pays merchant 3, so that a posting and a settlement     *)
(* lock the same two rows.                                                 *)
MCPayments ==
  {Payment(4, 2, 2), Payment(4, 3, 1), Payment(2, 3, 1), Refund(1, 1), Refund(1, 2)}

(* A payment that may be refunded in full before it is settled.            *)
MCFullRefund == {Payment(4, 2, 1), Refund(1, 1)}

MCRefundAfterPayout == {Payment(4, 2, 2), Refund(1, 2)}

MCSymmetry == Permutations(Settler)
=============================================================================
