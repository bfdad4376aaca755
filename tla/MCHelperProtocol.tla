--------------------------- MODULE MCHelperProtocol ---------------------------
(* One helper under two argument sets, one user and the default. *)
EXTENDS HelperProtocol

MCDeclarations == {<<"login", 1>>, <<"login", 2>>}
MCUsers        == {"ada", "bob"}
=============================================================================
