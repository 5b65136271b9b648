------------------------------ MODULE MCPartida ------------------------------
(* Starts of the program on a small instance.                              *)
EXTENDS Partida
CONSTANTS p1, p2     \* processes
=============================================================================
