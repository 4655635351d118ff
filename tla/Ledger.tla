---- MODULE Ledger ----
(***************************************************************************)
(* One tenant's ledger (domain/billing/ledger.ts): the append-only entries *)
(* of the table ledger_entries, and the balance and lifecycle materialised *)
(* in its tenant_billing row.  appendEntry locks that row FOR UPDATE, so   *)
(* an append is one atomic step; what surrounds it is in Billing.          *)
(***************************************************************************)
EXTENDS Integers, Sequences

CONSTANTS
  Buckets,    \* the metering time buckets
  Checkouts   \* the payments a tenant makes by hand

ASSUME BucketsAssumption == Buckets \subseteq Nat

VARIABLES
  entries,    \* the ledger entries, oldest first
  balance,
  lifecycle   \* "none": the tenant has no billing row

ledgerVars == <<entries, balance, lifecycle>>

Lifecycles == {"none", "trial", "active", "suspended"}

(* A payment reference: a checkout, or the off-session charge of the ledger *)
(* entry whose crossing triggered it (the engine's key is that entry's id). *)
Payments == ({"checkout"} \X Checkouts) \union ({"autocharge"} \X (Nat \ {0}))

(* The idempotency keys the callers derive. *)
DebitKey(b) == <<"debit", b>>
GrantKey == <<"trial-grant", 0>>
CreditKey(p) == <<"stripe", p>>
Keys == ({"debit"} \X Buckets) \union {GrantKey} \union ({"stripe"} \X Payments)

Entry == [key: Keys, amount: Int, after: Int]

KeysOf(es) == {es[i].key : i \in DOMAIN es}

LedgerTypeOK ==
  /\ entries \in Seq(Entry)
  /\ balance \in Int
  /\ lifecycle \in Lifecycles
  /\ entries # << >> => lifecycle # "none"

LedgerInit ==
  /\ entries = << >>
  /\ balance = 0
  /\ lifecycle = "none"

(* The tenant's row exists from the first append or sign-up on. *)
EnsureBillingRow(current) == IF current = "none" THEN "trial" ELSE current

(* A positive balance is active; at or below zero only a trial stays one. *)
NextLifecycle(current, newBalance) ==
  IF newBalance > 0 THEN "active"
  ELSE IF current = "trial" THEN "trial" ELSE "suspended"

---------------------------------------------------------------------------
(* Plausible bugs of appendEntry. *)


(* A replay moves the balance without an entry. *)
AppendEntryReplaying(key, amount, forced) ==
  /\ entries' = IF key \in KeysOf(entries) THEN entries
                ELSE Append(entries, [key |-> key, amount |-> amount,
                                      after |-> balance + amount])
  /\ balance' = balance + amount
  /\ lifecycle' = IF forced = "none" THEN NextLifecycle(EnsureBillingRow(lifecycle), balance + amount)
                  ELSE forced

(* The lifecycle is decided by the balance before the move. *)
AppendEntryLate(key, amount, forced) ==
  \/ /\ key \in KeysOf(entries)
     /\ lifecycle' = EnsureBillingRow(lifecycle)
     /\ UNCHANGED <<entries, balance>>
  \/ /\ key \notin KeysOf(entries)
     /\ entries' = Append(entries, [key |-> key, amount |-> amount,
                                    after |-> balance + amount])
     /\ balance' = balance + amount
     /\ lifecycle' = IF forced = "none" THEN NextLifecycle(EnsureBillingRow(lifecycle), balance)
                     ELSE forced

---------------------------------------------------------------------------

(* A key seen before leaves money and lifecycle alone; a forced lifecycle of *)
(* "none" lets it follow the balance.                                        *)
AppendEntry(key, amount, forced) ==
  LET current == EnsureBillingRow(lifecycle)
  IN  \/ /\ key \in KeysOf(entries)
         /\ lifecycle' = current
         /\ UNCHANGED <<entries, balance>>
      \/ /\ key \notin KeysOf(entries)
         /\ entries' = Append(entries, [key |-> key, amount |-> amount,
                                        after |-> balance + amount])
         /\ balance' = balance + amount
         /\ lifecycle' = IF forced = "none" THEN NextLifecycle(current, balance + amount)
                         ELSE forced

---------------------------------------------------------------------------
(* Properties *)

(* The entries chain: each one's balance-after is its predecessor's plus its *)
(* own amount, and the materialised balance is the last one's.  Nothing was  *)
(* applied twice, dropped, or applied to a stale balance.                    *)
After(i) == IF i = 0 THEN 0 ELSE entries[i].after

AddsUp ==
  /\ \A i \in DOMAIN entries : entries[i].after = After(i - 1) + entries[i].amount
  /\ balance = After(Len(entries))

(* A key is in the ledger at most once. *)
KeysUnique ==
  \A i, j \in DOMAIN entries : entries[i].key = entries[j].key => i = j

(* A tenant with money is active: never left suspended, or in its trial. *)
SolventIsActive == balance > 0 => lifecycle = "active"

LedgerSound == AddsUp /\ KeysUnique /\ SolventIsActive

(* The moves that have counted, as the abstract account sees them. *)
Counted == {[key |-> entries[i].key, amount |-> entries[i].amount] : i \in DOMAIN entries}

PrepaidAccount == INSTANCE Account WITH counted <- Counted
====
