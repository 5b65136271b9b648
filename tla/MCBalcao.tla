------------------------------ MODULE MCBalcao ------------------------------
(* The instance of the counter screen that TLC checks.                     *)
EXTENDS Balcao
=============================================================================
