-------------------------- MODULE WebhookDelivery --------------------------
(***************************************************************************)
(* Webhook delivery: the fan-out of an event to one delivery row for each  *)
(* active subscribed webhook, and the dispatcher loops of several nodes    *)
(* that claim due rows, call the endpoint, and record the answer, schedule *)
(* a retry, or disable the webhook.  A row whose claim is old is put back  *)
(* by any node's reaper, whether or not its claimer still works on it.     *)
(*                                                                         *)
(* Time is two bits of a row: due (next_attempt_at has come) and lapsed    *)
(* (claimed_at is older than the reap limit).                              *)
(***************************************************************************)
EXTENDS Integers, FiniteSets

CONSTANTS
  Nodes,       \* backend processes that run a dispatcher loop
  Hooks,       \* registered webhooks of a tenant
  Events,      \* events, each emitted once under a fresh id
  Deliveries,  \* the <<hook, event>> pairs whose hook subscribes to the event's type
  MaxAttempts, \* DEFAULT_MAX_ATTEMPTS, the streak that disables
  MaxFaults    \* bound: crashes, database errors and overrun claims together

ASSUME WebhookAssumption ==
  /\ Deliveries \subseteq Hooks \X Events
  /\ MaxAttempts \in Nat \ {0, 1} /\ MaxFaults \in Nat

VARIABLES
  hook,    \* webhooks.status, with the reason: "active", "streak" or "unsafe"
  fan,     \* deliveries a running fan-out has still to insert
  emitted, \* events whose emission began
  status,  \* the row: "absent", "pending", "delivering", "succeeded", "failed"
  attempt, \* the row's attempt
  due,     \* is next_attempt_at null or past
  lapsed,  \* is claimed_at older than reapStuckAfterMs
  step,    \* what a node does with a row it claimed; "none" when it holds none
  copy,    \* the attempt the claim returned
  rescue,  \* has deliverBatch caught an error of the delivery
  tried,   \* history: how often a delivery was begun, counted up to MaxAttempts
  adrift,  \* history: deliveries whose claimer works on without its claim: the claim lapsed,
           \* or an update of the row took effect and reported an error
  faults

row     == <<status, attempt, due, lapsed>>
node    == <<step, copy, rescue>>
history == <<tried, adrift>>
vars    == <<hook, fan, emitted, row, node, history, faults>>

Steps   == {"none", "read", "post", "acked", "retry", "unsafe", "fail"}
Ended   == {"succeeded", "failed"}
Idle(n) == \A d \in Deliveries : step[n][d] = "none"

Init ==
  /\ hook = [h \in Hooks |-> "active"] /\ fan = {} /\ emitted = {}
  /\ status = [d \in Deliveries |-> "absent"] /\ attempt = [d \in Deliveries |-> 1]
  /\ due = [d \in Deliveries |-> TRUE] /\ lapsed = [d \in Deliveries |-> FALSE]
  /\ step = [n \in Nodes |-> [d \in Deliveries |-> "none"]]
  /\ copy = [n \in Nodes |-> [d \in Deliveries |-> 1]]
  /\ rescue = [n \in Nodes |-> [d \in Deliveries |-> FALSE]]
  /\ tried = [d \in Deliveries |-> 0] /\ adrift = {}
  /\ faults = 0

-----------------------------------------------------------------------------
(* The enqueue seam: select the webhooks, then one insert at a time.        *)

Emit(e) ==
  /\ e \notin emitted
  /\ emitted' = emitted \cup {e}
  /\ fan' = fan \cup {d \in Deliveries : d[2] = e /\ hook[d[1]] = "active"}
  /\ UNCHANGED <<hook, row, node, history, faults>>

\* ON CONFLICT (webhook_id, event_id) DO NOTHING.
EnqueueDelivery(d) ==
  /\ d \in fan
  /\ fan' = fan \ {d}
  /\ status' = [status EXCEPT ![d] = IF @ = "absent" THEN "pending" ELSE @]
  /\ UNCHANGED <<hook, emitted, attempt, due, lapsed, node, history, faults>>

\* An insert fails: the loop throws, and what it had still to insert is lost.
FanoutFails(e) ==
  /\ \E d \in fan : d[2] = e
  /\ faults < MaxFaults /\ faults' = faults + 1
  /\ fan' = {d \in fan : d[2] # e}
  /\ UNCHANGED <<hook, emitted, row, node, history>>

-----------------------------------------------------------------------------
(* A tick: reap, claim, deliver.  The tick ends when its whole batch has.   *)

BackoffElapses(d) ==
  /\ status[d] = "pending" /\ ~due[d]
  /\ due' = [due EXCEPT ![d] = TRUE]
  /\ UNCHANGED <<hook, fan, emitted, status, attempt, lapsed, node, history, faults>>

\* Five minutes pass.  A claimer still at work has overrun: the deliveries of a batch wait
\* for one another, and the socket timeout is one of inactivity.
ClaimLapses(d) ==
  LET working == \E n \in Nodes : step[n][d] # "none" IN
  /\ status[d] = "delivering" /\ ~lapsed[d]
  /\ working => faults < MaxFaults
  /\ faults' = IF working THEN faults + 1 ELSE faults
  /\ adrift' = IF working THEN adrift \cup {d} ELSE adrift
  /\ lapsed' = [lapsed EXCEPT ![d] = TRUE]
  /\ UNCHANGED <<hook, fan, emitted, status, attempt, due, node, tried>>

NeverStuck(d) == FALSE
AnyDelivering(d) == status[d] = "delivering"
Stuck(d) == status[d] = "delivering" /\ lapsed[d]

ReapStuck(n) ==
  LET stuck == {d \in Deliveries : Stuck(d)} IN
  /\ Idle(n) /\ stuck # {}
  /\ status' = [d \in Deliveries |-> IF d \in stuck THEN "pending" ELSE status[d]]
  /\ lapsed' = [d \in Deliveries |-> lapsed[d] /\ d \notin stuck]
  /\ UNCHANGED <<hook, fan, emitted, attempt, due, node, history, faults>>

\* inFlight: a node claims only when it holds no batch.
ClaimDue(n) ==
  LET claimed == {d \in Deliveries : status[d] = "pending" /\ due[d]} IN
  /\ Idle(n) /\ claimed # {}
  /\ status' = [d \in Deliveries |-> IF d \in claimed THEN "delivering" ELSE status[d]]
  /\ lapsed' = [d \in Deliveries |-> lapsed[d] /\ d \notin claimed]
  /\ step' = [step EXCEPT ![n] = [d \in Deliveries |-> IF d \in claimed THEN "read" ELSE "none"]]
  /\ copy' = [copy EXCEPT ![n] = [d \in Deliveries |-> IF d \in claimed THEN attempt[d] ELSE 1]]
  /\ UNCHANGED <<hook, fan, emitted, attempt, due, rescue, history, faults>>

-----------------------------------------------------------------------------
(* deliverOneInner.  No update of the row is guarded by its status or claim. *)

Goto(n, d, s) == step' = [step EXCEPT ![n][d] = s]

Done(n, d) ==
  /\ Goto(n, d, "none")
  /\ copy' = [copy EXCEPT ![n][d] = 1]
  /\ rescue' = [rescue EXCEPT ![n][d] = FALSE]

Begin(d) == tried' = [tried EXCEPT ![d] = IF @ < MaxAttempts THEN @ + 1 ELSE @]

\* The webhook is read; a disabled one fails its delivery without a call.
ReadWebhook(n, d) ==
  /\ step[n][d] = "read"
  /\ Begin(d)
  /\ Goto(n, d, IF hook[d[1]] = "active" THEN "post" ELSE "fail")
  /\ UNCHANGED <<hook, fan, emitted, row, copy, rescue, adrift, faults>>

\* The endpoint answers, or the call is unsafe: a private address or a redirect.
Post(n, d) ==
  /\ step[n][d] = "post"
  /\ \E answer \in {"acked", "retry", "unsafe"} : Goto(n, d, answer)
  /\ UNCHANGED <<hook, fan, emitted, row, copy, rescue, history, faults>>

\* The UPDATEs of the row.
SetStatus(d, s) ==
  /\ status' = [status EXCEPT ![d] = s]
  /\ UNCHANGED <<attempt, due, lapsed>>

PutBack(n, d) ==
  /\ attempt' = [attempt EXCEPT ![d] = copy[n][d] + 1]
  /\ status' = [status EXCEPT ![d] = "pending"]
  /\ lapsed' = [lapsed EXCEPT ![d] = FALSE]
  /\ due' = [due EXCEPT ![d] = FALSE]

\* disableWebhook touches an active webhook only: the first reason stays.
LeaveActive(h, reason) == UNCHANGED hook
DisableWebhook(h, reason) == hook' = [hook EXCEPT ![h] = IF @ = "active" THEN reason ELSE @]

\* shouldDisableForStreak of the attempt to come.
StreakOneEarly(a) == a + 2 >= MaxAttempts
StreakReached(a) == a + 1 >= MaxAttempts

MarkSucceeded(n, d) ==
  /\ step[n][d] = "acked"
  /\ SetStatus(d, "succeeded")
  /\ Done(n, d)
  /\ UNCHANGED <<hook, fan, emitted, history, faults>>

MarkFailed(n, d) ==
  /\ step[n][d] = "fail"
  /\ SetStatus(d, "failed")
  /\ Done(n, d)
  /\ UNCHANGED <<hook, fan, emitted, history, faults>>

DisableAtOnce(n, d) ==
  /\ step[n][d] = "unsafe"
  /\ DisableWebhook(d[1], "unsafe")
  /\ Goto(n, d, "fail")
  /\ UNCHANGED <<fan, emitted, row, copy, rescue, history, faults>>

StreakDisables(n, d) ==
  /\ step[n][d] = "retry" /\ StreakReached(copy[n][d])
  /\ DisableWebhook(d[1], "streak")
  /\ Goto(n, d, "fail")
  /\ UNCHANGED <<fan, emitted, row, copy, rescue, history, faults>>

ScheduleRetry(n, d) ==
  /\ step[n][d] = "retry" /\ ~StreakReached(copy[n][d])
  /\ PutBack(n, d)
  /\ Done(n, d)
  /\ UNCHANGED <<hook, fan, emitted, history, faults>>

\* deliverBatch catches the error of a statement: it schedules a retry, whatever the
\* statement was, and gives the row up when that fails too.
Rescue(n, d) ==
  IF rescue[n][d] THEN Done(n, d)
  ELSE /\ Goto(n, d, "retry")
       /\ rescue' = [rescue EXCEPT ![n][d] = TRUE]
       /\ UNCHANGED copy

\* A statement fails and has changed nothing.
StatementFails(n, d) ==
  /\ step[n][d] \notin {"none", "post"}
  /\ faults < MaxFaults /\ faults' = faults + 1
  /\ Rescue(n, d)
  /\ IF step[n][d] = "read" THEN Begin(d) ELSE UNCHANGED tried
  /\ UNCHANGED <<hook, fan, emitted, row, adrift>>

\* The connection breaks after the statement took effect, and its answer is an error.
DisableMistold(n, d) ==
  /\ \/ step[n][d] = "unsafe" /\ DisableWebhook(d[1], "unsafe")
     \/ step[n][d] = "retry" /\ StreakReached(copy[n][d]) /\ DisableWebhook(d[1], "streak")
  /\ faults < MaxFaults /\ faults' = faults + 1
  /\ Rescue(n, d)
  /\ UNCHANGED <<fan, emitted, row, history>>

UpdateMistold(n, d) ==
  /\ \/ step[n][d] = "acked" /\ SetStatus(d, "succeeded")
     \/ step[n][d] = "fail" /\ SetStatus(d, "failed")
     \/ step[n][d] = "retry" /\ ~StreakReached(copy[n][d]) /\ PutBack(n, d)
  /\ faults < MaxFaults /\ faults' = faults + 1
  /\ Rescue(n, d)
  /\ adrift' = adrift \cup {d}
  /\ UNCHANGED <<hook, fan, emitted, tried>>

\* The process dies and is restarted; its claims stay in the rows.
Crash(n) ==
  /\ ~Idle(n) /\ faults < MaxFaults /\ faults' = faults + 1
  /\ step' = [step EXCEPT ![n] = [d \in Deliveries |-> "none"]]
  /\ copy' = [copy EXCEPT ![n] = [d \in Deliveries |-> 1]]
  /\ rescue' = [rescue EXCEPT ![n] = [d \in Deliveries |-> FALSE]]
  /\ UNCHANGED <<hook, fan, emitted, row, history>>

-----------------------------------------------------------------------------
Deliver(n, d) ==
  \/ ReadWebhook(n, d) \/ Post(n, d) \/ MarkSucceeded(n, d) \/ MarkFailed(n, d)
  \/ DisableAtOnce(n, d) \/ StreakDisables(n, d) \/ ScheduleRetry(n, d)

Passes(d) == BackoffElapses(d) \/ ClaimLapses(d)
Breaks(n, d) == StatementFails(n, d) \/ DisableMistold(n, d) \/ UpdateMistold(n, d)

Next ==
  \/ \E e \in Events : Emit(e) \/ FanoutFails(e)
  \/ \E d \in Deliveries : EnqueueDelivery(d) \/ Passes(d)
  \/ \E n \in Nodes : ReapStuck(n) \/ ClaimDue(n) \/ Crash(n)
  \/ \E n \in Nodes, d \in Deliveries : Deliver(n, d) \/ Breaks(n, d)

Spec == Init /\ [][Next]_vars

\* The interval timer of every node keeps firing, its batch goes on, and time passes.
LiveSpec ==
  /\ Spec
  /\ \A n \in Nodes : WF_vars(ReapStuck(n) \/ ClaimDue(n))
  /\ \A n \in Nodes : WF_vars(\E d \in Deliveries : Deliver(n, d))
  /\ WF_vars(\E d \in Deliveries : Passes(d))

-----------------------------------------------------------------------------
TypeOK ==
  /\ hook \in [Hooks -> {"active", "streak", "unsafe"}]
  /\ fan \subseteq Deliveries /\ emitted \subseteq Events
  /\ status \in [Deliveries -> {"absent", "pending", "delivering"} \cup Ended]
  /\ attempt \in [Deliveries -> 1 .. MaxAttempts]
  /\ due \in [Deliveries -> BOOLEAN] /\ lapsed \in [Deliveries -> BOOLEAN]
  /\ step \in [Nodes -> [Deliveries -> Steps]]
  /\ copy \in [Nodes -> [Deliveries -> 1 .. MaxAttempts]]
  /\ rescue \in [Nodes -> [Deliveries -> BOOLEAN]]
  /\ tried \in [Deliveries -> 0 .. MaxAttempts] /\ adrift \subseteq Deliveries
  /\ faults \in 0 .. MaxFaults

\* An event is given up only for an endpoint that has been switched off: while a webhook is
\* active no row of it is failed, whichever node, reaper or late answer moved the row, and
\* whatever statement failed between the disable and the mark (dispatcher.ts, markFailed).
GivenUpOnlyIfDisabled ==
  \A d \in Deliveries : status[d] = "failed" => hook[d[1]] # "active"

\* A webhook is disabled for its streak only after MaxAttempts - 1 deliveries of one event to
\* it were tried: a reaped, re-claimed or twice claimed row never counts an attempt that was
\* not made (dispatcher.ts, scheduleRetry).
StreakNeedsTries ==
  \A h \in Hooks : hook[h] = "streak" =>
    \E d \in Deliveries : d[1] = h /\ tried[d] >= MaxAttempts - 1

\* A delivery once acknowledged and recorded keeps its record and is sent to nobody again
\* (dispatcher.ts: "2xx -> ack (stop retries)"), as long as no claim of it outlives the
\* reaper's patience and no statement that changed its row reported an error.
AckStopsRetries ==
  [][\A d \in Deliveries : status[d] = "succeeded" /\ d \notin adrift =>
       /\ status'[d] = "succeeded"
       /\ \A n \in Nodes : step'[n][d] = "none"]_vars

\* A row, once inserted, is not forgotten in pending or delivering: after the last crash and
\* the last error it is delivered or its webhook is disabled.
EveryDeliveryEnds ==
  \A d \in Deliveries : status[d] \in {"pending", "delivering"} ~> status[d] \in Ended
=============================================================================
