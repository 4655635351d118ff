---- MODULE Billing ----
(***************************************************************************)
(* Everything that moves one tenant's prepaid balance, around the Ledger:  *)
(*   - metering: every backend process sums the tenant's usage in memory,  *)
(*     per time bucket, and a flush debits a closed bucket, then announces *)
(*     the low or exhausted crossing, then forgets the bucket; processes   *)
(*     crash, shut down and restart, and any step of a flush may fail;     *)
(*   - the trial: an e-mailed link, answered by concurrent verifications;  *)
(*   - payments: checkouts and their webhooks, redelivered at will;        *)
(*   - auto-charge: the adapter charges the saved card on a low crossing   *)
(*     (delivered at least once, one at a time per tenant) within a cap.   *)
(* The caps' rolling windows are one window that does not slide.           *)
(***************************************************************************)
EXTENDS Ledger, FiniteSets

CONSTANTS
  Nodes,           \* backend processes
  Verifiers,       \* concurrent verification requests
  MaxUsage,        \* bound: usage units recorded in each bucket
  Grant,           \* the trial grant
  CheckoutAmount,  \* what a checkout pays
  LowThreshold,    \* lowBalanceThresholdMicros
  ChargeAmount,    \* auto-charge: what one charge takes
  ChargeCap,       \*   and the hard cap of a window
  MaxFailures      \*   and the declines in a row that disable it

ASSUME BillingAssumption ==
  /\ MaxUsage \in [Buckets -> Nat]
  /\ {Grant, CheckoutAmount, ChargeAmount, MaxFailures} \subseteq Nat \ {0}
  /\ {LowThreshold, ChargeCap} \subseteq Nat

VARIABLES
  \* metering
  now,        \* the wall clock's bucket; a bucket before it is closed and settled
  used,       \* usage recorded in each bucket, by all processes
  held,       \* the accumulators: held[n][b] is 0 when n holds no bucket b
  flush,      \* flush[n][k]: the flush of kind k running in n
  closing,    \* the processes shutting down
  dropped,    \* history: the buckets a process gave up, dying with them or flushing
              \* them before the tenant was enrolled
  emitted,    \* crossing events recorded for delivery: <<line, entry>>
  \* trial
  armed,      \* a verification link was sent
  verified,
  verify,     \* verify[v]: what request v does next
  \* payments and auto-charge
  captured,   \* the payments the engine captured
  enabled,    \* auto-charge is switched on
  failures,   \* consecutive declines, counted to MaxFailures
  recorded,   \* charges counted against the cap
  charge      \* the low-balance event the engine is at work on

meterVars == <<now, used, held, flush, closing, dropped>>
trialVars == <<armed, verified, verify>>
chargeVars == <<enabled, failures, recorded, charge>>
vars == <<ledgerVars, meterVars, emitted, trialVars, captured, chargeVars>>

(* The timer's flush takes closed buckets, the shutdown's takes all of them; *)
(* the shutdown does not wait for a timer flush that is under way.           *)
Kinds == {"timer", "shutdown"}

NoFlush == [pc |-> "idle", todo |-> {}, amount |-> 0]
FlushStates ==
  [pc: {"idle", "debit", "emit", "forget"}, todo: SUBSET Buckets, amount: Nat]

Resting == [pc |-> "idle", entry |-> 0]

Lines == {"low", "exhausted"}

TypeOK ==
  /\ LedgerTypeOK
  /\ now \in Nat
  /\ used \in [Buckets -> Nat]
  /\ held \in [Nodes -> [Buckets -> Nat]]
  /\ flush \in [Nodes -> [Kinds -> FlushStates]]
  /\ closing \subseteq Nodes
  /\ dropped \subseteq Buckets
  /\ emitted \subseteq Lines \X (Nat \ {0})
  /\ armed \in BOOLEAN
  /\ verified \in BOOLEAN
  /\ verify \in [Verifiers -> {"idle", "grant", "mark"}]
  /\ captured \subseteq Payments
  /\ enabled \in BOOLEAN
  /\ failures \in 0..MaxFailures
  /\ recorded \in Nat
  /\ charge \in [pc: {"idle", "charge", "credit", "record"}, entry: Nat]

Init ==
  /\ LedgerInit
  /\ now = 0
  /\ used = [b \in Buckets |-> 0]
  /\ held = [n \in Nodes |-> [b \in Buckets |-> 0]]
  /\ flush = [n \in Nodes |-> [k \in Kinds |-> NoFlush]]
  /\ closing = {}
  /\ dropped = {}
  /\ emitted = {}
  /\ armed = FALSE
  /\ verified = FALSE
  /\ verify = [v \in Verifiers |-> "idle"]
  /\ captured = {"checkout"} \X Checkouts
  /\ enabled = FALSE
  /\ failures = 0
  /\ recorded = 0
  /\ charge = Resting

---------------------------------------------------------------------------
(* Metering *)

Tick ==
  /\ \E b \in Buckets : b >= now
  /\ now' = now + 1
  /\ UNCHANGED <<ledgerVars, used, held, flush, closing, dropped, emitted, trialVars,
                 captured, chargeVars>>

HeldBy(n) == {b \in Buckets : held[n][b] > 0}

(* A bug of ingest: the bucket is the nearest, not the one the time is in. *)
IngestRounding(n) ==
  /\ now \in Buckets
  /\ used[now] < MaxUsage[now]
  /\ used' = [used EXCEPT ![now] = @ + 1]
  /\ \E b \in {now, now + 1} \intersect Buckets : held' = [held EXCEPT ![n][b] = @ + 1]
  /\ UNCHANGED <<ledgerVars, now, flush, closing, dropped, emitted, trialVars,
                 captured, chargeVars>>

(* A model request ends: its cost joins its bucket, closing or not. *)
Ingest(n) ==
  /\ now \in Buckets
  /\ used[now] < MaxUsage[now]
  /\ used' = [used EXCEPT ![now] = @ + 1]
  /\ held' = [held EXCEPT ![n][now] = @ + 1]
  /\ UNCHANGED <<ledgerVars, now, flush, closing, dropped, emitted, trialVars,
                 captured, chargeVars>>

(* The loop of a flush over the buckets it found, oldest first; it reads a  *)
(* bucket's total when it comes to it, before its first await.              *)
Earliest(todo) == CHOOSE b \in todo : \A c \in todo : b <= c

TakeUp(n, todo) ==
  IF todo = {} THEN NoFlush
  ELSE [pc |-> "debit", todo |-> todo, amount |-> held[n][Earliest(todo)]]

(* The timer skips its turn while its own flush is still running. *)
TimerFlush(n) ==
  LET closed == {b \in HeldBy(n) : b < now}
  IN  /\ flush[n]["timer"].pc = "idle"
      /\ closed # {}
      /\ flush' = [flush EXCEPT ![n]["timer"] = TakeUp(n, closed)]
      /\ UNCHANGED <<ledgerVars, now, used, held, closing, dropped, emitted, trialVars,
                     captured, chargeVars>>

Shutdown(n) ==
  /\ n \notin closing
  /\ closing' = closing \union {n}
  /\ flush' = [flush EXCEPT ![n]["shutdown"] = TakeUp(n, HeldBy(n))]
  /\ UNCHANGED <<ledgerVars, now, used, held, dropped, emitted, trialVars,
                 captured, chargeVars>>

Goto(n, k, pc) == flush' = [flush EXCEPT ![n][k].pc = pc]

(* Only an enrolled tenant is debited.  A bucket the other flush has already *)
(* forgotten is not debited again: its key would only be replayed.           *)
FlushDebit(n, k) ==
  LET f == flush[n][k]
  IN  /\ f.pc = "debit"
      /\ \/ /\ lifecycle # "none" /\ f.amount > 0
            /\ AppendEntry(DebitKey(Earliest(f.todo)), -f.amount, "none")
            /\ Goto(n, k, "emit")
            /\ UNCHANGED dropped
         \/ /\ lifecycle = "none" \/ f.amount = 0
            /\ Goto(n, k, "forget")
            /\ dropped' = IF f.amount > 0 THEN dropped \union {Earliest(f.todo)}
                          ELSE dropped
            /\ UNCHANGED ledgerVars
      /\ UNCHANGED <<now, used, held, closing, emitted, trialVars, captured, chargeVars>>

(* The lines entry i took the balance across, downwards. *)
Crossings(i) ==
  LET post == entries[i].after
      pre  == post - entries[i].amount
  IN  {line \in Lines :
         /\ post < pre
         /\ line = "low" => /\ LowThreshold > 0
                            /\ pre > LowThreshold
                            /\ post <= LowThreshold
                            /\ post > 0
         /\ line = "exhausted" => pre > 0 /\ post <= 0}

EntryOf(key) == CHOOSE i \in DOMAIN entries : entries[i].key = key

(* The crossing is derived from the entry, newly applied or replayed, and  *)
(* recorded for delivery under the entry's id.                             *)
FlushEmit(n, k) ==
  LET f == flush[n][k]
      i == EntryOf(DebitKey(Earliest(f.todo)))
  IN  /\ f.pc = "emit"
      /\ emitted' = emitted \union (Crossings(i) \X {i})
      /\ Goto(n, k, "forget")
      /\ UNCHANGED <<ledgerVars, now, used, held, closing, dropped, trialVars,
                     captured, chargeVars>>

(* Exported as best it can be, the bucket is deleted, and the loop goes on. *)
FlushForget(n, k) ==
  LET f == flush[n][k]
      b == Earliest(f.todo)
  IN  /\ f.pc = "forget"
      /\ held' = [held EXCEPT ![n][b] = 0]
      /\ flush' = [flush EXCEPT ![n][k] = TakeUp(n, f.todo \ {b})]
      /\ UNCHANGED <<ledgerVars, now, used, closing, dropped, emitted, trialVars,
                     captured, chargeVars>>

(* A bug of the loop: a bucket is deleted whether or not its flush succeeded. *)
FlushFailsForgetting(n, k) ==
  LET f == flush[n][k]
      b == Earliest(f.todo)
  IN  /\ f.pc \in {"debit", "emit"}
      /\ held' = [held EXCEPT ![n][b] = 0]
      /\ flush' = [flush EXCEPT ![n][k] = TakeUp(n, f.todo \ {b})]
      /\ UNCHANGED <<ledgerVars, now, used, closing, dropped, emitted, trialVars,
                     captured, chargeVars>>

(* The debit (before its commit, or its answer after it) or the emit fails: *)
(* the bucket is kept for the next flush, and the loop goes on.             *)
FlushFails(n, k) ==
  LET f == flush[n][k]
  IN  /\ f.pc \in {"debit", "emit"}
      /\ flush' = [flush EXCEPT ![n][k] = TakeUp(n, f.todo \ {Earliest(f.todo)})]
      /\ UNCHANGED <<ledgerVars, now, used, held, closing, dropped, emitted, trialVars,
                     captured, chargeVars>>

(* The process crashes, or exits once its shutdown is over; what it held is *)
(* gone, and a new process takes its place.                                 *)
Stop(n) ==
  /\ held' = [held EXCEPT ![n] = [b \in Buckets |-> 0]]
  /\ flush' = [flush EXCEPT ![n] = [k \in Kinds |-> NoFlush]]
  /\ closing' = closing \ {n}
  /\ dropped' = dropped \union HeldBy(n)
  /\ UNCHANGED <<ledgerVars, now, used, emitted, trialVars, captured, chargeVars>>

---------------------------------------------------------------------------
(* The trial *)

(* Sign-up, or a resend: the row is there, and while unverified a fresh link *)
(* replaces the last one and the grant is pending.                           *)
ProvisionTrial ==
  /\ lifecycle' = EnsureBillingRow(lifecycle)
  /\ armed' = (armed \/ ~verified)
  /\ UNCHANGED <<entries, balance, verified, verify, meterVars, emitted, captured,
                 chargeVars>>

(* A bug of verifyEmail: the tenant is marked before its grant is appended. *)
VerifyReadMarking(v) ==
  /\ verify[v] = "idle"
  /\ armed /\ ~verified
  /\ verified' = TRUE
  /\ verify' = [verify EXCEPT ![v] = "grant"]
  /\ UNCHANGED <<ledgerVars, armed, meterVars, emitted, captured, chargeVars>>

(* The link is followed: the row is read, and the grant found pending. *)
VerifyRead(v) ==
  /\ verify[v] = "idle"
  /\ armed /\ ~verified
  /\ verify' = [verify EXCEPT ![v] = "grant"]
  /\ UNCHANGED <<ledgerVars, armed, verified, meterVars, emitted, captured, chargeVars>>

VerifyGrant(v) ==
  /\ verify[v] = "grant"
  /\ AppendEntry(GrantKey, Grant, "active")
  /\ verify' = [verify EXCEPT ![v] = "mark"]
  /\ UNCHANGED <<armed, verified, meterVars, emitted, captured, chargeVars>>

VerifyMark(v) ==
  /\ verify[v] = "mark"
  /\ verified' = TRUE
  /\ verify' = [verify EXCEPT ![v] = "idle"]
  /\ UNCHANGED <<ledgerVars, armed, meterVars, emitted, captured, chargeVars>>

VerifyDies(v) ==
  /\ verify[v] # "idle"
  /\ verify' = [verify EXCEPT ![v] = "idle"]
  /\ UNCHANGED <<ledgerVars, armed, verified, meterVars, emitted, captured, chargeVars>>

---------------------------------------------------------------------------
(* Payments and auto-charge *)

AmountOf(p) == IF p[1] = "checkout" THEN CheckoutAmount ELSE ChargeAmount

(* The engine's webhook for a captured payment, the engine's own charges     *)
(* included, as often and as late as it likes: a checkout is known only by it. *)
HandleWebhook(p) ==
  /\ p \in captured
  /\ AppendEntry(CreditKey(p), AmountOf(p), "none")
  /\ UNCHANGED <<meterVars, emitted, trialVars, captured, chargeVars>>

(* The console switches auto-charge on or off. *)
UpdateConfig ==
  /\ enabled' = ~enabled
  /\ UNCHANGED <<ledgerVars, meterVars, emitted, trialVars, captured, failures,
                 recorded, charge>>

(* A low-balance event is delivered, again perhaps, and taken up unless it is *)
(* switched off or the charge would go over the cap.                          *)
OnLowBalance(i) ==
  /\ charge = Resting
  /\ <<"low", i>> \in emitted
  /\ enabled
  /\ recorded + ChargeAmount <= ChargeCap
  /\ charge' = [pc |-> "charge", entry |-> i]
  /\ UNCHANGED <<ledgerVars, meterVars, emitted, trialVars, captured, enabled,
                 failures, recorded>>

(* The engine captures the charge of one entry once, however often it is *)
(* asked; after a decline it may answer either way.                      *)
ChargeAccepted ==
  /\ charge.pc = "charge"
  /\ captured' = captured \union {<<"autocharge", charge.entry>>}
  /\ failures' = 0
  /\ charge' = [charge EXCEPT !.pc = "credit"]
  /\ UNCHANGED <<ledgerVars, meterVars, emitted, trialVars, enabled, recorded>>

(* A decline counts; the last one tolerated switches auto-charge off. *)
ChargeDeclined ==
  /\ charge.pc = "charge"
  /\ <<"autocharge", charge.entry>> \notin captured
  /\ failures' = IF failures + 1 >= MaxFailures THEN MaxFailures ELSE failures + 1
  /\ enabled' = (enabled /\ failures + 1 < MaxFailures)
  /\ charge' = Resting
  /\ UNCHANGED <<ledgerVars, meterVars, emitted, trialVars, captured, recorded>>

(* A bug of runLowBalance: a credit is counted though the ledger replayed it. *)
CreditChargeCounting ==
  /\ charge.pc = "credit"
  /\ AppendEntry(CreditKey(<<"autocharge", charge.entry>>), ChargeAmount, "none")
  /\ charge' = [charge EXCEPT !.pc = "record"]
  /\ UNCHANGED <<meterVars, emitted, trialVars, captured, enabled, failures,
                 recorded>>

(* Only a credit the ledger newly applied is then counted against the cap. *)
CreditCharge ==
  LET key == CreditKey(<<"autocharge", charge.entry>>)
  IN  /\ charge.pc = "credit"
      /\ AppendEntry(key, ChargeAmount, "none")
      /\ charge' = IF key \in KeysOf(entries) THEN Resting
                   ELSE [charge EXCEPT !.pc = "record"]
      /\ UNCHANGED <<meterVars, emitted, trialVars, captured, enabled, failures,
                     recorded>>

RecordCharge ==
  /\ charge.pc = "record"
  /\ recorded' = recorded + ChargeAmount
  /\ charge' = Resting
  /\ UNCHANGED <<ledgerVars, meterVars, emitted, trialVars, captured, enabled,
                 failures>>

(* A call of the engine, the ledger or the store fails, or the adapter stops: *)
(* whatever was done so far stays done.                                       *)
ChargeAborts ==
  /\ charge # Resting
  /\ charge' = Resting
  /\ UNCHANGED <<ledgerVars, meterVars, emitted, trialVars, captured, enabled,
                 failures, recorded>>

---------------------------------------------------------------------------

Flushing(n, k) ==
  \/ FlushDebit(n, k)
  \/ FlushEmit(n, k)
  \/ FlushForget(n, k)
  \/ FlushFails(n, k)

Metering ==
  \/ Tick
  \/ \E n \in Nodes : Ingest(n) \/ TimerFlush(n) \/ Shutdown(n) \/ Stop(n)
  \/ \E n \in Nodes, k \in Kinds : Flushing(n, k)

Trial ==
  \/ ProvisionTrial
  \/ \E v \in Verifiers :
       VerifyRead(v) \/ VerifyGrant(v) \/ VerifyMark(v) \/ VerifyDies(v)

Paying == \E p \in captured : HandleWebhook(p)

Charging ==
  \/ UpdateConfig
  \/ \E i \in DOMAIN entries : OnLowBalance(i)
  \/ ChargeAccepted
  \/ ChargeDeclined
  \/ CreditCharge
  \/ RecordCharge
  \/ ChargeAborts

Next == Metering \/ Trial \/ Paying \/ Charging

Spec == Init /\ [][Next]_vars

---------------------------------------------------------------------------
(* Properties *)

(* The balance moves only by keys that count once, never by anything else:  *)
(* every step of metering, trial and payments is one move of an abstract    *)
(* prepaid account, or none (the money invariant of ledger.ts).             *)
ImplementsAccount == PrepaidAccount!Spec

(* However often flushes overlap, fail halfway and are retried, in however  *)
(* many processes, a bucket's debits never exceed the usage recorded in it  *)
(* (metering.ts: "never an over-charge").                                   *)
NeverOvercharged ==
  \A i \in DOMAIN entries, b \in Buckets :
    entries[i].key = DebitKey(b) => -entries[i].amount <= used[b]

(* A debit that crossed a line is announced, or a process still holds its   *)
(* bucket and will flush it again; only a process that gave the bucket up   *)
(* can lose the announcement (threshold.ts: retries re-derive it).          *)
NoLostCrossing ==
  \A i \in DOMAIN entries, b \in Buckets \ dropped :
    entries[i].key = DebitKey(b) =>
      \/ Crossings(i) \X {i} \subseteq emitted
      \/ \E n \in Nodes : held[n][b] > 0

(* What the cap counts was really charged: a crossing delivered twice, a    *)
(* webhook that came first or an aborted run never counts one charge twice. *)
Charges == {p \in captured : p[1] = "autocharge"}

CapCountsCharges == recorded <= ChargeAmount * Cardinality(Charges)

(* The hard cap: what auto-charge took never exceeds it (auto-charge.ts:13, *)
(* "The cap can never be exceeded").                                        *)
CapRespected == ChargeAmount * Cardinality(Charges) <= ChargeCap

(* A tenant marked verified has its grant in the ledger, whatever the       *)
(* verifications that raced or died on the way.                             *)
VerifiedHasGrant == verified => GrantKey \in KeysOf(entries)

(* The tenant's money: a sound ledger, and no verification without its grant. *)
MoneySound == LedgerSound /\ VerifiedHasGrant
====
