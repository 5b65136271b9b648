--------------------------- MODULE MCAtualizacao ---------------------------
(***************************************************************************)
(* Four releases for TLC: the one installed, a second with its schema, a   *)
(* third with a new one, and a fourth that shares the number of the third. *)
(***************************************************************************)
EXTENDS Atualizacao

CONSTANTS r1, r2, r3, r4

SequenciaMC == [r \in Release |-> IF r = r1 THEN 1 ELSE IF r = r2 THEN 2 ELSE 3]
EsquemaMC == [r \in Release |-> IF r \in {r1, r2} THEN 9 ELSE 10]
=============================================================================
