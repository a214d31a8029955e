--------------------------- MODULE MCServerProcess ---------------------------
(* Values of the constants of ServerProcess for model checking. *)
EXTENDS ServerProcess

CONSTANTS c1, c2

TwoClients == {c1, c2}

AnyDisposition == Dispositions
HandledByApp == {"app_handler"}
=============================================================================
