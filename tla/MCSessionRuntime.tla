-------------------------- MODULE MCSessionRuntime --------------------------
(* Instances of SessionRuntime for TLC.                                     *)
EXTENDS SessionRuntime, TLC

CONSTANTS m1, m2, c1, c2, i1, u1

Confirmations == [c \in Calls |-> "confirm"]
WorkerCalls   == [c \in Calls |-> "tool"]
CustomCalls   == [c \in Calls |-> "custom"]
MixedCalls    == [c \in Calls |-> IF c = c1 THEN "tool" ELSE "confirm"]

\* Messages differ in nothing but their name.
MessageSymmetry == Permutations(Messages)
=============================================================================
