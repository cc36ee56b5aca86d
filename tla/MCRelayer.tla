------------------------------ MODULE MCRelayer ------------------------------
(* Two requests at a queue of length one in front of two workers. *)
EXTENDS Relayer

CONSTANTS w1, w2
=============================================================================
