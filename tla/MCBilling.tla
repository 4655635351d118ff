---- MODULE MCBilling ----
(* Billing on one tenant small enough for TLC. *)
EXTENDS Billing

CONSTANTS n1, v1, v2

(* Two units in the first bucket, so that a flush can miss one; one in the next. *)
TwoThenOne == [b \in Buckets |-> IF b = 0 THEN 2 ELSE 1]
====
