-------------------------- MODULE MCSessionWorkers --------------------------
(* Instances of SessionWorkers for TLC.                                     *)
EXTENDS SessionWorkers

CONSTANTS s1, s2
=============================================================================
