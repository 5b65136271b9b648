----------------------------- MODULE MCProducao -----------------------------
(* The copies and the preparation on a small instance.                     *)
EXTENDS Producao
=============================================================================
