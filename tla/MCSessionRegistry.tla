------------------------- MODULE MCSessionRegistry -------------------------
(* Instances of SessionRegistry for TLC.                                    *)
EXTENDS SessionRegistry

CONSTANTS n1, n2, s1, s2, r1, r2
=============================================================================
