------------------------------ MODULE MCMpcEngine ------------------------------
(* Two threads of the application. *)
EXTENDS MpcEngine

CONSTANTS c1, c2

TwoCallers == {c1, c2}
===============================================================================
