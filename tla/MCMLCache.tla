------------------------------ MODULE MCMLCache ------------------------------
(* Instances of MLCache for TLC. *)
EXTENDS MLCache, TLC

CONSTANTS a, b, l1, l2
=============================================================================
