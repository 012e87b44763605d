----------------------------- MODULE MCHarness ------------------------------
(***************************************************************************)
(* Two workers on two shared accounts, then two duplicates of each of two  *)
(* keys.  Accounts 1 and 2 are shared, 3 is the world, 4 the sink.         *)
(***************************************************************************)
EXTENDS Harness

MCAccount       == 1 .. 4
MCCurrencyOf    == [a \in MCAccount |-> "USD"]
MCNoFX          == [c \in {"USD"} |-> NoAccount]
MCTrials        == <<"k1", "k2">>
=============================================================================
