--------------------------- MODULE MCProvisioning ---------------------------
(* Two servers, which stop at most twice, and two clients, who ask for an  *)
(* account of their own, or under a name of the infrastructure.            *)
EXTENDS Provisioning

MCCurrencies  == <<"USD">>
MCClientName  == {<<"customer", "alice">>}
=============================================================================
