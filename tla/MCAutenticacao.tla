--------------------------- MODULE MCAutenticacao ---------------------------
(***************************************************************************)
(* Two administrators, one there from the start and one it may create.     *)
(* Wrong passwords and codes are tried on the first account.               *)
(***************************************************************************)
EXTENDS Autenticacao

CONSTANTS a1, a2

PerfilMC == [u \in Usuario |-> "admin"]
=============================================================================
