---- MODULE Account ----
(***************************************************************************)
(* What a prepaid balance promises whoever pays into it: every money move  *)
(* carries a key, a key counts at most once, what counted is never changed *)
(* or forgotten, and nothing else ever moves the balance (the "money       *)
(* invariant" of domain/billing/ledger.ts:11-18).  Billing implements it.  *)
(***************************************************************************)
EXTENDS Integers

VARIABLES
  counted,  \* the moves that counted, each with its key and amount
  balance

vars == <<counted, balance>>

Init ==
  /\ counted = {}
  /\ balance = 0

(* One more move counts, under a key that never did, and the balance moves *)
(* by exactly its amount.                                                  *)
Count ==
  \E m \in counted' \ counted :
    /\ counted' = counted \union {m}
    /\ \A c \in counted : c.key # m.key
    /\ balance' = balance + m.amount

Spec == Init /\ [][Count]_vars
====
