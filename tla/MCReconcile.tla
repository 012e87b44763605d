---------------------------- MODULE MCReconcile -----------------------------
(***************************************************************************)
(* Two sessions post while the reader reads.  In USD: account 1 a          *)
(* customer, 2 a merchant, 3 the outside world (may go negative).  With    *)
(* currencies: 1 a customer and 3 the world in USD, 2 a customer in EUR, 4 *)
(* and 5 the FX positions of USD and EUR.                                  *)
(***************************************************************************)
EXTENDS Reconcile, TLC

Transfer(from, to, amount, cur) ==
  [op |-> "transfer", from |-> from, to |-> to, amount |-> amount, cur |-> cur]
Payment(from, to, amount) ==
  [op |-> "payment", from |-> from, to |-> to, amount |-> amount, cur |-> "USD"]
Refund(p, amount) ==
  [op |-> "refund", payment |-> p, amount |-> amount]
FX(from, to, amount, num, den) ==
  [op |-> "fx", from |-> from, to |-> to, amount |-> amount, num |-> num, den |-> den]

MCAccount       == 1 .. 3
MCCurrencyOf    == [a \in MCAccount |-> "USD"]
MCAllowNegative == {3}
MCNoFX          == [c \in {"USD"} |-> NoAccount]
MCRequest       == {Transfer(3, 1, 2, "USD"), Transfer(1, 2, 1, "USD")}

MCAccountFX       == 1 .. 5
MCCurrencyOfFX    == <<"USD", "EUR", "USD", "USD", "EUR">>
MCAllowNegativeFX == {3, 4, 5}
MCFX              == [c \in {"USD", "EUR"} |-> IF c = "USD" THEN 4 ELSE 5]

(* Conversions, and what a caller can get wrong: a currency that is not    *)
(* the account's, one that is not supported, an unknown account, the same  *)
(* account or currency twice, no amount, a bad rate, a rate that rounds to *)
(* nothing, a refund of what is no payment.                                *)
MCMixed ==
  {Transfer(3, 1, 2, "USD"), FX(1, 2, 1, 3, 2), FX(2, 1, 2, 1, 1),
   Transfer(3, 2, 1, "USD"), Transfer(3, 1, 1, "XXX"), Transfer(1, 9, 1, "USD"),
   Transfer(1, 1, 1, "USD"), FX(1, 3, 1, 1, 1), Payment(3, 1, 0),
   FX(1, 2, 1, 0, 1), FX(1, 2, 1, 1, 3), Refund(1, 1)}

MCSymmetry == Permutations(Session)
=============================================================================
