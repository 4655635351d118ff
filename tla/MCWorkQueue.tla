---------------------------- MODULE MCWorkQueue ----------------------------
(* Instances of WorkQueue for TLC.                                          *)
EXTENDS WorkQueue, TLC

CONSTANTS s1, s2, c1, c2, w1, w2

OneSession  == [c \in {c1, c2} |-> s1]
TwoSessions == (c1 :> s1) @@ (c2 :> s2)
=============================================================================
