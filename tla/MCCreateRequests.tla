-------------------------- MODULE MCCreateRequests --------------------------
(* Instances of CreateRequests for TLC.                                     *)
EXTENDS CreateRequests, TLC

CONSTANTS r1, r2, r3, r4, k1, b1, b2

Symmetric == Permutations(Requests) \cup Permutations(Bodies)
=============================================================================
