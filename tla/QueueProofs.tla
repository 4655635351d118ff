---------------------------- MODULE QueueProofs ----------------------------
(***************************************************************************)
(* Proofs about the two tables whose rows are claimed, worked on and taken *)
(* back when the claim is old: the deliveries of webhooks, for any number  *)
(* of nodes, webhooks and events, any streak and any number of faults, and *)
(* the work queue of a self-hosted environment, for any sessions, calls    *)
(* and workers and any number of crashes and evictions.                    *)
(***************************************************************************)
EXTENDS WebhookDelivery, WorkQueue, FiniteSetTheorems, TLAPS

(* A delivery on its way to failed belongs to a webhook already disabled. *)
FailsOnDisabled ==
  \A n \in Nodes, d \in Deliveries : step[n][d] = "fail" => hook[d[1]] # "active"

(* Neither a row nor a copy of it counts an attempt that was not made; a    *)
(* copy counts the one in hand only once it has begun.                      *)
CountsTries ==
  /\ \A d \in Deliveries : attempt[d] <= tried[d] + 1
  /\ \A n \in Nodes, d \in Deliveries :
       /\ copy[n][d] <= tried[d] + 1
       /\ step[n][d] \notin {"none", "read"} => copy[n][d] <= tried[d]

(* A row that is not adrift is worked on by one node, which holds its claim. *)
Alone ==
  \A d \in Deliveries : d \notin adrift =>
    \A n \in Nodes : step[n][d] # "none" =>
      /\ status[d] = "delivering" /\ ~lapsed[d]
      /\ \A m \in Nodes : step[m][d] # "none" => m = n

Behaves == FailsOnDisabled /\ GivenUpOnlyIfDisabled /\ CountsTries /\ StreakNeedsTries /\ Alone

IInv == TypeOK /\ Behaves

-----------------------------------------------------------------------------
LEMMA HookOf ==
  ASSUME NEW d \in Deliveries PROVE d[1] \in Hooks
BY WebhookAssumption

LEMMA InitHolds == ASSUME Init PROVE IInv
<1> USE WebhookAssumption, HookOf DEF Init
<1>1. TypeOK BY DEF TypeOK, Steps, Ended
<1>2. Behaves
  BY DEF Behaves, FailsOnDisabled, GivenUpOnlyIfDisabled, CountsTries, StreakNeedsTries, Alone
<1> QED BY <1>1, <1>2 DEF IInv

(* Emission and insertion hold no row. *)
LEMMA FanoutPreserves ==
  ASSUME IInv, NEW e \in Events, NEW d \in Deliveries,
         Emit(e) \/ FanoutFails(e) \/ EnqueueDelivery(d)
  PROVE  IInv'
<1> USE WebhookAssumption DEF row, node, history
<1>1. CASE Emit(e)
  BY <1>1 DEF Emit, IInv, TypeOK, Behaves, FailsOnDisabled, GivenUpOnlyIfDisabled, CountsTries,
     StreakNeedsTries, Alone, Ended, Steps
<1>2. CASE FanoutFails(e)
  BY <1>2
     DEF FanoutFails, IInv, TypeOK, Behaves, FailsOnDisabled, GivenUpOnlyIfDisabled, CountsTries,
     StreakNeedsTries, Alone, Ended, Steps
<1>3. CASE EnqueueDelivery(d)
  BY <1>3 DEF EnqueueDelivery, IInv, TypeOK, Behaves, FailsOnDisabled, GivenUpOnlyIfDisabled,
     CountsTries, StreakNeedsTries, Alone, Ended, Steps
<1> QED BY <1>1, <1>2, <1>3

(* Time: a claim that lapses under the node that works on it leaves the row adrift. *)
LEMMA TimePreserves ==
  ASSUME IInv, NEW d \in Deliveries, BackoffElapses(d) \/ ClaimLapses(d)
  PROVE  IInv'
<1> USE WebhookAssumption DEF row, node, history
<1>1. CASE BackoffElapses(d)
  BY <1>1 DEF BackoffElapses, IInv, TypeOK, Behaves, FailsOnDisabled, GivenUpOnlyIfDisabled,
     CountsTries, StreakNeedsTries, Alone, Ended, Steps
<1>2. CASE ClaimLapses(d)
  <2>1. TypeOK' BY <1>2 DEF ClaimLapses, IInv, TypeOK, Ended, Steps
  <2>2. (FailsOnDisabled /\ GivenUpOnlyIfDisabled /\ CountsTries /\ StreakNeedsTries)'
    BY <1>2 DEF ClaimLapses, IInv, Behaves, FailsOnDisabled, GivenUpOnlyIfDisabled, CountsTries,
       StreakNeedsTries
  <2>3. Alone' BY <1>2 DEF ClaimLapses, IInv, TypeOK, Behaves, Alone
  <2> QED BY <2>1, <2>2, <2>3 DEF IInv, Behaves
<1> QED BY <1>1, <1>2

(* The reaper takes a lapsed claim from a node that is gone or has overrun. *)
LEMMA ReapPreserves ==
  ASSUME IInv, NEW n \in Nodes, ReapStuck(n)
  PROVE  IInv'
<1> USE WebhookAssumption DEF ReapStuck, Stuck, row, node, history
<1>1. TypeOK' BY DEF IInv, TypeOK, Ended
<1>2. (FailsOnDisabled /\ CountsTries /\ StreakNeedsTries)'
  BY DEF IInv, Behaves, FailsOnDisabled, CountsTries, StreakNeedsTries
<1>3. GivenUpOnlyIfDisabled' BY DEF IInv, TypeOK, Behaves, GivenUpOnlyIfDisabled
<1>4. Alone' BY DEF IInv, TypeOK, Behaves, Alone
<1> QED BY <1>1, <1>2, <1>3, <1>4 DEF IInv, Behaves

(* A claim takes rows nobody works on, except those that are adrift. *)
LEMMA ClaimPreserves ==
  ASSUME IInv, NEW n \in Nodes, ClaimDue(n)
  PROVE  IInv'
<1> USE WebhookAssumption DEF ClaimDue, Idle, row, node, history
<1>1. TypeOK' BY DEF IInv, TypeOK, Steps, Ended
<1>2. FailsOnDisabled' BY DEF IInv, TypeOK, Behaves, FailsOnDisabled
<1>3. GivenUpOnlyIfDisabled' BY DEF IInv, TypeOK, Behaves, GivenUpOnlyIfDisabled
<1>4. CountsTries' BY DEF IInv, TypeOK, Behaves, CountsTries
<1>5. StreakNeedsTries' BY DEF IInv, Behaves, StreakNeedsTries
<1>6. Alone'
  <2>1. \A m \in Nodes \ {n}, d \in Deliveries : step'[m][d] = step[m][d]
    BY DEF IInv, TypeOK
  <2>2. \A d \in Deliveries : step[n][d] = "none" OBVIOUS
  <2>3. \A d \in Deliveries : step'[n][d] # "none" =>
          status[d] = "pending" /\ status'[d] = "delivering" /\ ~lapsed'[d]
    BY DEF IInv, TypeOK
  <2>4. \A d \in Deliveries : status[d] = "delivering" =>
          status'[d] = "delivering" /\ (lapsed'[d] => lapsed[d])
    OBVIOUS
  <2>5. adrift' = adrift OBVIOUS
  <2> HIDE DEF ClaimDue, Idle, row, node, history
  <2> QED BY <2>1, <2>2, <2>3, <2>4, <2>5 DEF IInv, Behaves, Alone
<1> QED BY <1>1, <1>2, <1>3, <1>4, <1>5, <1>6 DEF IInv, Behaves

LEMMA CrashPreserves ==
  ASSUME IInv, NEW n \in Nodes, Crash(n)
  PROVE  IInv'
<1> USE WebhookAssumption DEF Crash, row, node, history
<1>1. TypeOK' BY DEF IInv, TypeOK, Steps, Ended
<1>2. FailsOnDisabled' BY DEF IInv, TypeOK, Behaves, FailsOnDisabled
<1>3. CountsTries' BY DEF IInv, TypeOK, Behaves, CountsTries
<1>4. (GivenUpOnlyIfDisabled /\ StreakNeedsTries)'
  BY DEF IInv, Behaves, GivenUpOnlyIfDisabled, StreakNeedsTries
<1>5. Alone' BY DEF IInv, TypeOK, Behaves, Alone
<1> QED BY <1>1, <1>2, <1>3, <1>4, <1>5 DEF IInv, Behaves

-----------------------------------------------------------------------------
(* A step of one delivery in one node that leaves the row alone. *)
LEMMA HandPreserves ==
  ASSUME IInv, NEW n \in Nodes, NEW d \in Deliveries, NEW s \in Steps,
         step[n][d] # "none", Goto(n, d, s),
         s = "fail" => hook'[d[1]] # "active",
         hook' \in [Hooks -> {"active", "streak", "unsafe"}],
         \A h \in Hooks : hook[h] # "active" => hook'[h] # "active",
         \A h \in Hooks : hook'[h] = "streak" =>
                         hook[h] = "streak" \/ (h = d[1] /\ tried[d] >= MaxAttempts - 1),
         tried' \in [Deliveries -> 0 .. MaxAttempts], \A u \in Deliveries : tried'[u] >= tried[u],
         s \notin {"none", "read"} => copy[n][d] <= tried'[d],
         rescue' \in [Nodes -> [Deliveries -> BOOLEAN]], faults' \in 0 .. MaxFaults,
         UNCHANGED <<fan, emitted, row, copy, adrift>>
  PROVE  IInv'
<1> USE WebhookAssumption, HookOf DEF row, Goto
<1>1. TypeOK' BY DEF IInv, TypeOK, Steps, Ended
<1>2. FailsOnDisabled' BY DEF IInv, TypeOK, Behaves, FailsOnDisabled
<1>3. GivenUpOnlyIfDisabled' BY DEF IInv, Behaves, GivenUpOnlyIfDisabled
<1>4. CountsTries' BY DEF IInv, TypeOK, Behaves, CountsTries
<1>5. StreakNeedsTries'
  <2> SUFFICES ASSUME NEW h \in Hooks, hook'[h] = "streak"
               PROVE  \E u \in Deliveries : u[1] = h /\ tried'[u] >= MaxAttempts - 1
    BY DEF StreakNeedsTries
  <2>1. CASE hook[h] = "streak"
    <3>1. PICK u \in Deliveries : u[1] = h /\ tried[u] >= MaxAttempts - 1
      BY <2>1 DEF IInv, Behaves, StreakNeedsTries
    <3> QED BY <3>1 DEF IInv, TypeOK
  <2>2. CASE h = d[1] /\ tried[d] >= MaxAttempts - 1
    BY <2>2 DEF IInv, TypeOK
  <2> QED BY <2>1, <2>2
<1>6. Alone' BY DEF IInv, TypeOK, Behaves, Alone
<1> QED BY <1>1, <1>2, <1>3, <1>4, <1>5, <1>6 DEF IInv, Behaves

(* A write of the row, after which the node has done with it or, if the write *)
(* reported an error, tries to put the row back.                              *)
LEMMA RowPreserves ==
  ASSUME IInv, NEW n \in Nodes, NEW d \in Deliveries, step[n][d] # "none",
         NEW t \in {"none", "retry"}, Goto(n, d, t),
         NEW c \in {1, copy[n][d]}, copy' = [copy EXCEPT ![n][d] = c],
         t = "retry" => d \in adrift' /\ copy[n][d] <= tried[d],
         rescue' \in [Nodes -> [Deliveries -> BOOLEAN]],
         NEW s \in {"absent", "pending", "delivering", "succeeded", "failed"},
         status' = [status EXCEPT ![d] = s],
         s = "failed" => status[d] = "failed" \/ hook[d[1]] # "active",
         hook' \in [Hooks -> {"active", "streak", "unsafe"}],
         \A h \in Hooks : hook[h] # "active" => hook'[h] # "active",
         \A h \in Hooks : hook'[h] = "streak" =>
                         hook[h] = "streak" \/ (h = d[1] /\ tried[d] >= MaxAttempts - 1),
         attempt' \in [Deliveries -> 1 .. MaxAttempts],
         \A u \in Deliveries : attempt'[u] <= tried[u] + 1,
         due' \in [Deliveries -> BOOLEAN], lapsed' \in [Deliveries -> BOOLEAN],
         \A u \in Deliveries \ {d} : lapsed'[u] = lapsed[u],
         tried' \in [Deliveries -> 0 .. MaxAttempts], \A u \in Deliveries : tried'[u] >= tried[u],
         faults' \in 0 .. MaxFaults, adrift' \in {adrift, adrift \cup {d}},
         UNCHANGED <<fan, emitted>>
  PROVE  IInv'
<1>0. /\ tried \in [Deliveries -> 0 .. MaxAttempts]
      /\ copy \in [Nodes -> [Deliveries -> 1 .. MaxAttempts]]
      /\ \A u \in Deliveries : tried[u] \in Nat /\ tried'[u] \in Nat
      /\ copy[n][d] \in 1 .. MaxAttempts /\ c \in 1 .. MaxAttempts
  <2>1. /\ tried \in [Deliveries -> 0 .. MaxAttempts]
        /\ copy \in [Nodes -> [Deliveries -> 1 .. MaxAttempts]]
    BY DEF IInv, TypeOK
  <2>2. \A u \in Deliveries : tried[u] \in Nat /\ tried'[u] \in Nat BY <2>1
  <2>3. copy[n][d] \in 1 .. MaxAttempts /\ 1 \in 1 .. MaxAttempts BY <2>1, WebhookAssumption
  <2> HIDE <2>1
  <2> QED BY <2>1, <2>2, <2>3
<1>9. \A u \in Deliveries : attempt'[u] \in Nat /\ tried'[u] >= tried[u] BY WebhookAssumption
<1>8. MaxAttempts \in Nat BY WebhookAssumption
<1> USE WebhookAssumption, HookOf DEF Goto
<1>1. TypeOK'
  <2>1. (step \in [Nodes -> [Deliveries -> Steps]])' BY DEF IInv, TypeOK, Steps
  <2>2. (copy \in [Nodes -> [Deliveries -> 1 .. MaxAttempts]])' BY <1>0
  <2>3. (status \in [Deliveries -> {"absent", "pending", "delivering"} \cup Ended])'
    BY DEF IInv, TypeOK, Ended
  <2>4. adrift' \subseteq Deliveries BY DEF IInv, TypeOK
  <2> QED BY <2>1, <2>2, <2>3, <2>4 DEF IInv, TypeOK
<1>2. FailsOnDisabled' BY DEF IInv, TypeOK, Behaves, FailsOnDisabled
<1>3. GivenUpOnlyIfDisabled' BY DEF IInv, TypeOK, Behaves, GivenUpOnlyIfDisabled
<1>4. CountsTries'
  <2>1. (\A u \in Deliveries : attempt[u] <= tried[u] + 1)'
    <3> HIDE DEF Goto
    <3> QED BY <1>0, <1>9
  <2>2. ASSUME NEW m \in Nodes, NEW u \in Deliveries
        PROVE  /\ copy'[m][u] <= tried'[u] + 1
               /\ step'[m][u] \notin {"none", "read"} => copy'[m][u] <= tried'[u]
    <3>1. copy'[m][u] = 1 \/ copy'[m][u] = copy[m][u] BY <1>0
    <3>2. \/ step'[m][u] = "none"
          \/ step'[m][u] = step[m][u] /\ copy'[m][u] = copy[m][u]
          \/ u = d /\ copy'[m][u] \in {1, copy[n][d]} /\ copy[n][d] <= tried[d]
      BY <1>0 DEF IInv, TypeOK
    <3>3. /\ tried[u] \in Nat /\ tried'[u] \in Nat /\ copy[m][u] \in 1 .. MaxAttempts
          /\ copy[n][d] \in 1 .. MaxAttempts
      BY <1>0, <1>8
    <3> HIDE DEF Goto
    <3> QED BY <1>8, <1>9, <3>1, <3>2, <3>3 DEF IInv, Behaves, CountsTries
  <2> QED BY <2>1, <2>2 DEF CountsTries
<1>5. StreakNeedsTries'
  <2> SUFFICES ASSUME NEW h \in Hooks, hook'[h] = "streak"
               PROVE  \E u \in Deliveries : u[1] = h /\ tried'[u] >= MaxAttempts - 1
    BY DEF StreakNeedsTries
  <2> HIDE DEF Goto
  <2>1. CASE hook[h] = "streak"
    <3>1. PICK u \in Deliveries : u[1] = h /\ tried[u] >= MaxAttempts - 1
      BY <2>1 DEF IInv, Behaves, StreakNeedsTries
    <3> QED BY <3>1, <1>0, <1>8, <1>9
  <2>2. CASE h = d[1] /\ tried[d] >= MaxAttempts - 1 BY <2>2, <1>0, <1>8, <1>9
  <2> QED BY <2>1, <2>2
<1>6. Alone'
  <2> SUFFICES ASSUME NEW u \in Deliveries, u \notin adrift', NEW m \in Nodes, step'[m][u] # "none"
               PROVE  /\ status'[u] = "delivering" /\ ~lapsed'[u]
                      /\ \A k \in Nodes : step'[k][u] # "none" => k = m
    BY DEF Alone
  <2>1. u \notin adrift OBVIOUS
  <2>2. \A k \in Nodes : step'[k][u] = step[k][u] \/ (k = n /\ u = d /\ step'[k][u] = t)
    BY DEF IInv, TypeOK
  <2>3. u # d
    <3>1. CASE u = d /\ t = "retry" BY <3>1
    <3>2. CASE u = d /\ t = "none"
      <4>1. m # n /\ step[m][d] # "none" BY <3>2, <2>2 DEF IInv, TypeOK
      <4> QED BY <3>2, <4>1, <2>1 DEF IInv, Behaves, Alone
    <3> QED BY <3>1, <3>2
  <2>4. \A k \in Nodes : step'[k][u] = step[k][u] BY <2>2, <2>3
  <2>5. status'[u] = status[u] /\ lapsed'[u] = lapsed[u] BY <2>3 DEF IInv, TypeOK
  <2> HIDE DEF Goto
  <2> QED BY <2>1, <2>4, <2>5 DEF IInv, Behaves, Alone
<1> QED BY <1>1, <1>2, <1>3, <1>4, <1>5, <1>6 DEF IInv, Behaves

(* A step that ends a node's work on a row: recorded, put back or given up. *)
LEMMA DonePreserves ==
  ASSUME IInv, NEW n \in Nodes, NEW d \in Deliveries, step[n][d] # "none", Done(n, d),
         NEW s \in {"absent", "pending", "delivering", "succeeded", "failed"},
         status' = [status EXCEPT ![d] = s],
         s = "failed" => status[d] = "failed" \/ hook[d[1]] # "active",
         attempt' \in [Deliveries -> 1 .. MaxAttempts],
         \A u \in Deliveries : attempt'[u] <= tried[u] + 1,
         due' \in [Deliveries -> BOOLEAN], lapsed' \in [Deliveries -> BOOLEAN],
         \A u \in Deliveries \ {d} : lapsed'[u] = lapsed[u],
         tried' \in [Deliveries -> 0 .. MaxAttempts], \A u \in Deliveries : tried'[u] >= tried[u],
         faults' \in 0 .. MaxFaults, UNCHANGED <<hook, fan, emitted, adrift>>
  PROVE  IInv'
<1>1. Goto(n, d, "none") /\ copy' = [copy EXCEPT ![n][d] = 1] BY DEF Done
<1>2. rescue' \in [Nodes -> [Deliveries -> BOOLEAN]] BY DEF Done, IInv, TypeOK
<1>3. hook' = hook /\ hook \in [Hooks -> {"active", "streak", "unsafe"}] BY DEF IInv, TypeOK
<1> QED BY <1>1, <1>2, <1>3, RowPreserves

LEMMA DeliverPreserves ==
  ASSUME IInv, NEW n \in Nodes, NEW d \in Deliveries, Deliver(n, d)
  PROVE  IInv'
<1> USE WebhookAssumption, HookOf DEF row, node, history
<1>0. /\ step[n][d] \in Steps /\ tried \in [Deliveries -> 0 .. MaxAttempts]
      /\ hook \in [Hooks -> {"active", "streak", "unsafe"}]
      /\ copy[n][d] \in 1 .. MaxAttempts
  BY DEF IInv, TypeOK
<1>8. /\ attempt \in [Deliveries -> 1 .. MaxAttempts]
      /\ \A u \in Deliveries : attempt[u] <= tried[u] + 1
      /\ due \in [Deliveries -> BOOLEAN] /\ lapsed \in [Deliveries -> BOOLEAN]
      /\ rescue \in [Nodes -> [Deliveries -> BOOLEAN]] /\ faults \in 0 .. MaxFaults
      /\ \A u \in Deliveries : tried[u] >= tried[u]
  BY DEF IInv, TypeOK, Behaves, CountsTries
<1>1. CASE ReadWebhook(n, d)
  <2> DEFINE s == IF hook[d[1]] = "active" THEN "post" ELSE "fail"
  <2>1. s \in Steps BY DEF Steps
  <2>2. /\ tried' \in [Deliveries -> 0 .. MaxAttempts] /\ \A u \in Deliveries : tried'[u] >= tried[u]
        /\ copy[n][d] <= tried'[d]
    BY <1>0, <1>1 DEF ReadWebhook, Begin, IInv, TypeOK, Behaves, CountsTries
  <2>3. rescue \in [Nodes -> [Deliveries -> BOOLEAN]] /\ faults \in 0 .. MaxFaults
    BY DEF IInv, TypeOK
  <2>4. Goto(n, d, s) /\ UNCHANGED <<hook, fan, emitted, row, copy, rescue, adrift, faults>>
    BY <1>1 DEF ReadWebhook
  <2> HIDE DEF s
  <2> QED BY <1>0, <1>1, <2>1, <2>2, <2>3, <2>4, HandPreserves DEF ReadWebhook, s
<1>2. CASE Post(n, d)
  <2>1. PICK s \in {"acked", "retry", "unsafe"} : Goto(n, d, s) BY <1>2 DEF Post
  <2>2. copy[n][d] <= tried[d] BY <1>2 DEF Post, IInv, Behaves, CountsTries
  <2>3. rescue \in [Nodes -> [Deliveries -> BOOLEAN]] /\ faults \in 0 .. MaxFaults
    BY DEF IInv, TypeOK
  <2> QED BY <1>0, <1>2, <2>1, <2>2, <2>3, HandPreserves DEF Post, Steps
<1>3. CASE MarkSucceeded(n, d)
  <2>1. /\ step[n][d] # "none" /\ Done(n, d) /\ status' = [status EXCEPT ![d] = "succeeded"]
        /\ UNCHANGED <<attempt, due, lapsed, tried, faults, hook, fan, emitted, adrift>>
    BY <1>3 DEF MarkSucceeded, SetStatus
  <2> QED BY <1>0, <2>1, <1>8, DonePreserves
<1>4. CASE MarkFailed(n, d)
  <2>1. /\ step[n][d] # "none" /\ Done(n, d) /\ status' = [status EXCEPT ![d] = "failed"]
        /\ UNCHANGED <<attempt, due, lapsed, tried, faults, hook, fan, emitted, adrift>>
    BY <1>4 DEF MarkFailed, SetStatus
  <2>2. hook[d[1]] # "active" BY <1>4 DEF MarkFailed, IInv, Behaves, FailsOnDisabled
  <2> QED BY <1>0, <2>1, <2>2, <1>8, DonePreserves
<1>5. CASE DisableAtOnce(n, d)
  <2>1. /\ step[n][d] # "none" /\ Goto(n, d, "fail")
        /\ hook' = [hook EXCEPT ![d[1]] = IF @ = "active" THEN "unsafe" ELSE @]
        /\ UNCHANGED <<fan, emitted, row, copy, rescue, tried, adrift, faults>>
    BY <1>5 DEF DisableAtOnce, DisableWebhook
  <2>2. copy[n][d] <= tried[d] BY <1>5 DEF DisableAtOnce, IInv, Behaves, CountsTries
  <2>3. /\ hook' \in [Hooks -> {"active", "streak", "unsafe"}] /\ hook'[d[1]] # "active"
        /\ \A h \in Hooks : hook[h] # "active" => hook'[h] # "active"
        /\ \A h \in Hooks : hook'[h] = "streak" => hook[h] = "streak"
    BY <1>0, <2>1
  <2> QED BY <1>0, <1>8, <2>1, <2>2, <2>3, HandPreserves DEF Steps
<1>6. CASE StreakDisables(n, d)
  <2>1. /\ step[n][d] # "none" /\ Goto(n, d, "fail")
        /\ hook' = [hook EXCEPT ![d[1]] = IF @ = "active" THEN "streak" ELSE @]
        /\ UNCHANGED <<fan, emitted, row, copy, rescue, tried, adrift, faults>>
    BY <1>6 DEF StreakDisables, DisableWebhook
  <2>2. copy[n][d] <= tried[d] BY <1>6 DEF StreakDisables, IInv, Behaves, CountsTries
  <2>3. tried[d] >= MaxAttempts - 1 BY <1>0, <1>6, <2>2 DEF StreakDisables, StreakReached
  <2>4. /\ hook' \in [Hooks -> {"active", "streak", "unsafe"}] /\ hook'[d[1]] # "active"
        /\ \A h \in Hooks : hook[h] # "active" => hook'[h] # "active"
        /\ \A h \in Hooks : hook'[h] = "streak" => hook[h] = "streak" \/ h = d[1]
    BY <1>0, <2>1
  <2> QED BY <1>0, <1>8, <2>1, <2>2, <2>3, <2>4, HandPreserves DEF Steps
<1>7. CASE ScheduleRetry(n, d)
  <2>1. copy[n][d] <= tried[d] BY <1>7 DEF ScheduleRetry, IInv, Behaves, CountsTries
  <2>2. /\ attempt' \in [Deliveries -> 1 .. MaxAttempts]
        /\ \A u \in Deliveries : attempt'[u] <= tried[u] + 1
    BY <1>0, <1>7, <2>1 DEF ScheduleRetry, PutBack, StreakReached, IInv, TypeOK, Behaves, CountsTries
  <2>3. /\ step[n][d] # "none" /\ Done(n, d) /\ status' = [status EXCEPT ![d] = "pending"]
        /\ lapsed' = [lapsed EXCEPT ![d] = FALSE] /\ due' = [due EXCEPT ![d] = FALSE]
        /\ UNCHANGED <<tried, faults, hook, fan, emitted, adrift>>
    BY <1>7 DEF ScheduleRetry, PutBack
  <2>4. /\ lapsed' \in [Deliveries -> BOOLEAN] /\ due' \in [Deliveries -> BOOLEAN]
        /\ \A u \in Deliveries \ {d} : lapsed'[u] = lapsed[u]
    BY <1>8, <2>3
  <2> QED BY <1>0, <1>8, <2>2, <2>3, <2>4, DonePreserves
<1> QED BY <1>1, <1>2, <1>3, <1>4, <1>5, <1>6, <1>7 DEF Deliver

(* A failed statement: where the node goes, and what it may have left behind. *)
LEMMA RescueLeads ==
  ASSUME IInv, NEW n \in Nodes, NEW d \in Deliveries, step[n][d] \notin {"none", "post"},
         Rescue(n, d)
  PROVE  /\ rescue' \in [Nodes -> [Deliveries -> BOOLEAN]]
         /\ \E t \in {"none", "retry"}, c \in {1, copy[n][d]} :
              /\ Goto(n, d, t) /\ copy' = [copy EXCEPT ![n][d] = c]
              /\ t = "retry" => copy' = copy
<1>1. CASE rescue[n][d]
  <2>1. Done(n, d) BY <1>1 DEF Rescue
  <2> QED BY <2>1 DEF Done, IInv, TypeOK
<1>2. CASE ~rescue[n][d]
  <2>1. Goto(n, d, "retry") /\ copy' = copy /\ rescue' = [rescue EXCEPT ![n][d] = TRUE]
    BY <1>2 DEF Rescue
  <2>2. copy' = [copy EXCEPT ![n][d] = copy[n][d]] BY <2>1 DEF IInv, TypeOK
  <2>3. rescue' \in [Nodes -> [Deliveries -> BOOLEAN]] BY <2>1 DEF IInv, TypeOK
  <2> QED BY <2>1, <2>2, <2>3
<1> QED BY <1>1, <1>2

LEMMA StatementFailsPreserves ==
  ASSUME IInv, NEW n \in Nodes, NEW d \in Deliveries, StatementFails(n, d)
  PROVE  IInv'
<1> USE WebhookAssumption, HookOf DEF row, node, history
<1>1. /\ tried' \in [Deliveries -> 0 .. MaxAttempts] /\ \A u \in Deliveries : tried'[u] >= tried[u]
      /\ step[n][d] \notin {"none", "post"} /\ faults' \in 0 .. MaxFaults
      /\ copy[n][d] <= tried'[d]
  <2>1. /\ tried \in [Deliveries -> 0 .. MaxAttempts] /\ copy[n][d] \in 1 .. MaxAttempts
        /\ copy[n][d] <= tried[d] + 1 /\ (step[n][d] # "read" => copy[n][d] <= tried[d])
        /\ step[n][d] \notin {"none", "post"} /\ faults' \in 0 .. MaxFaults
    BY DEF StatementFails, IInv, TypeOK, Behaves, CountsTries
  <2>2. CASE step[n][d] = "read" /\ Begin(d) BY <2>1, <2>2 DEF Begin
  <2>3. CASE step[n][d] # "read" /\ UNCHANGED tried BY <2>1, <2>3
  <2> QED BY <2>1, <2>2, <2>3 DEF StatementFails
<1>2. Rescue(n, d) /\ UNCHANGED <<hook, fan, emitted, row, adrift>> BY DEF StatementFails
<1>3. rescue' \in [Nodes -> [Deliveries -> BOOLEAN]] BY <1>1, <1>2, RescueLeads
<1>4. CASE rescue[n][d]
  <2>1. Done(n, d) BY <1>2, <1>4 DEF Rescue
  <2>2. /\ status' = [status EXCEPT ![d] = status[d]]
        /\ status[d] \in {"absent", "pending", "delivering", "succeeded", "failed"}
    BY <1>2 DEF IInv, TypeOK, Ended
  <2>3. /\ attempt' \in [Deliveries -> 1 .. MaxAttempts]
        /\ \A u \in Deliveries : attempt'[u] <= tried[u] + 1
        /\ due' \in [Deliveries -> BOOLEAN] /\ lapsed' \in [Deliveries -> BOOLEAN]
        /\ \A u \in Deliveries \ {d} : lapsed'[u] = lapsed[u]
    BY <1>2 DEF IInv, TypeOK, Behaves, CountsTries
  <2> QED BY <1>1, <1>2, <2>1, <2>2, <2>3, DonePreserves
<1>5. CASE ~rescue[n][d]
  <2>1. Goto(n, d, "retry") /\ UNCHANGED copy BY <1>2, <1>5 DEF Rescue
  <2> QED BY <1>1, <1>2, <1>3, <2>1, HandPreserves DEF IInv, TypeOK, Steps
<1> QED BY <1>4, <1>5

LEMMA DisableMistoldPreserves ==
  ASSUME IInv, NEW n \in Nodes, NEW d \in Deliveries, DisableMistold(n, d)
  PROVE  IInv'
<1> USE WebhookAssumption, HookOf
<1>1. /\ step[n][d] \notin {"none", "post", "read"} /\ faults' \in 0 .. MaxFaults /\ Rescue(n, d)
      /\ UNCHANGED <<fan, emitted, status, attempt, due, lapsed, tried, adrift>>
  BY DEF DisableMistold, IInv, TypeOK, row, history
<1>2. PICK t \in {"none", "retry"}, c \in {1, copy[n][d]} :
        /\ Goto(n, d, t) /\ copy' = [copy EXCEPT ![n][d] = c]
        /\ t = "retry" => copy' = copy
  BY <1>1, RescueLeads
<1>3. rescue' \in [Nodes -> [Deliveries -> BOOLEAN]] BY <1>1, RescueLeads
<1>4. /\ copy[n][d] <= tried[d] /\ copy[n][d] \in 1 .. MaxAttempts /\ tried[d] \in Nat
      /\ hook \in [Hooks -> {"active", "streak", "unsafe"}]
  BY <1>1 DEF IInv, TypeOK, Behaves, CountsTries
<1>5. /\ hook' \in [Hooks -> {"active", "streak", "unsafe"}]
      /\ \A h \in Hooks : hook[h] # "active" => hook'[h] # "active"
      /\ \A h \in Hooks : hook'[h] = "streak" =>
                         hook[h] = "streak" \/ (h = d[1] /\ tried[d] >= MaxAttempts - 1)
  BY <1>4 DEF DisableMistold, DisableWebhook, StreakReached
<1>6. /\ status' = [status EXCEPT ![d] = status[d]]
      /\ status[d] \in {"absent", "pending", "delivering", "succeeded", "failed"}
  BY <1>1 DEF IInv, TypeOK, Ended
<1>7. /\ attempt' \in [Deliveries -> 1 .. MaxAttempts]
      /\ \A u \in Deliveries : attempt'[u] <= tried[u] + 1
      /\ due' \in [Deliveries -> BOOLEAN] /\ lapsed' \in [Deliveries -> BOOLEAN]
      /\ \A u \in Deliveries \ {d} : lapsed'[u] = lapsed[u]
      /\ tried' \in [Deliveries -> 0 .. MaxAttempts] /\ \A u \in Deliveries : tried'[u] >= tried[u]
  BY <1>1 DEF IInv, TypeOK, Behaves, CountsTries
<1>8. CASE t = "none" BY <1>1, <1>2, <1>3, <1>5, <1>6, <1>7, <1>8, RowPreserves DEF IInv, Behaves,
        GivenUpOnlyIfDisabled
<1>9. CASE t = "retry"
  <2>1. Goto(n, d, "retry") /\ copy' = copy BY <1>2, <1>9
  <2> QED BY <1>1, <1>3, <1>4, <1>5, <1>7, <2>1, HandPreserves DEF Steps, row
<1> QED BY <1>8, <1>9

LEMMA UpdateMistoldPreserves ==
  ASSUME IInv, NEW n \in Nodes, NEW d \in Deliveries, UpdateMistold(n, d)
  PROVE  IInv'
<1> USE WebhookAssumption, HookOf
<1>1. /\ step[n][d] \notin {"none", "post", "read"} /\ faults' \in 0 .. MaxFaults /\ Rescue(n, d)
      /\ adrift' = adrift \cup {d} /\ UNCHANGED <<hook, fan, emitted, tried>>
  BY DEF UpdateMistold, IInv, TypeOK
<1>2. PICK t \in {"none", "retry"}, c \in {1, copy[n][d]} :
        /\ Goto(n, d, t) /\ copy' = [copy EXCEPT ![n][d] = c]
        /\ t = "retry" => copy' = copy
  BY <1>1, RescueLeads
<1>3. rescue' \in [Nodes -> [Deliveries -> BOOLEAN]] BY <1>1, RescueLeads
<1>4. /\ copy[n][d] <= tried[d] /\ copy[n][d] \in 1 .. MaxAttempts
      /\ tried \in [Deliveries -> 0 .. MaxAttempts]
      /\ hook \in [Hooks -> {"active", "streak", "unsafe"}]
      /\ attempt \in [Deliveries -> 1 .. MaxAttempts]
      /\ \A u \in Deliveries : attempt[u] <= tried[u] + 1
      /\ due \in [Deliveries -> BOOLEAN] /\ lapsed \in [Deliveries -> BOOLEAN]
  BY <1>1 DEF IInv, TypeOK, Behaves, CountsTries
<1>5. PICK s \in {"succeeded", "failed", "pending"} :
        /\ status' = [status EXCEPT ![d] = s]
        /\ s = "failed" => step[n][d] = "fail"
  BY DEF UpdateMistold, SetStatus, PutBack
<1>6. s = "failed" => hook[d[1]] # "active" BY <1>5 DEF IInv, Behaves, FailsOnDisabled
<1>7. /\ attempt' \in [Deliveries -> 1 .. MaxAttempts]
      /\ \A u \in Deliveries : attempt'[u] <= tried[u] + 1
      /\ due' \in [Deliveries -> BOOLEAN] /\ lapsed' \in [Deliveries -> BOOLEAN]
      /\ \A u \in Deliveries \ {d} : lapsed'[u] = lapsed[u]
  <2>1. CASE UNCHANGED <<attempt, due, lapsed>> BY <1>4, <2>1
  <2>2. CASE PutBack(n, d) /\ ~StreakReached(copy[n][d])
    BY <1>4, <2>2 DEF PutBack, StreakReached
  <2> QED BY <2>1, <2>2 DEF UpdateMistold, SetStatus
<1>8. /\ tried' \in [Deliveries -> 0 .. MaxAttempts] /\ \A u \in Deliveries : tried'[u] >= tried[u]
      /\ hook' \in [Hooks -> {"active", "streak", "unsafe"}]
      /\ \A h \in Hooks : hook[h] # "active" => hook'[h] # "active"
      /\ \A h \in Hooks : hook'[h] = "streak" =>
                         hook[h] = "streak" \/ (h = d[1] /\ tried[d] >= MaxAttempts - 1)
  BY <1>1, <1>4
<1>9. /\ step[n][d] # "none" /\ adrift' \in {adrift, adrift \cup {d}} /\ faults' \in 0 .. MaxFaults
      /\ t = "retry" => d \in adrift' /\ copy[n][d] <= tried[d]
      /\ UNCHANGED <<fan, emitted>>
  BY <1>1, <1>4
<1>10. /\ s \in {"absent", "pending", "delivering", "succeeded", "failed"}
       /\ status' = [status EXCEPT ![d] = s]
       /\ s = "failed" => status[d] = "failed" \/ hook[d[1]] # "active"
  BY <1>5, <1>6
<1>11. Goto(n, d, t) /\ copy' = [copy EXCEPT ![n][d] = c] BY <1>2
<1> HIDE WebhookAssumption, HookOf
<1> QED BY <1>3, <1>7, <1>8, <1>9, <1>10, <1>11, RowPreserves

LEMMA NextPreserves == ASSUME IInv, [Next]_vars PROVE IInv'
<1>1. CASE UNCHANGED vars
  BY <1>1 DEF vars, row, node, history, IInv, TypeOK, Behaves, FailsOnDisabled,
     GivenUpOnlyIfDisabled, CountsTries, StreakNeedsTries, Alone
<1>2. ASSUME NEW e \in Events, Emit(e) \/ FanoutFails(e) PROVE IInv'
  <2>1. CASE \E d \in Deliveries : TRUE BY <1>2, <2>1, FanoutPreserves
  <2>2. CASE Deliveries = {}
    BY <1>2, <2>2
       DEF Emit, FanoutFails, row, node, history, IInv, TypeOK, Behaves, FailsOnDisabled,
       GivenUpOnlyIfDisabled, CountsTries, StreakNeedsTries, Alone
  <2> QED BY <2>1, <2>2
<1>3. ASSUME NEW d \in Deliveries, EnqueueDelivery(d) PROVE IInv'
  <2>1. d[2] \in Events BY WebhookAssumption
  <2> QED BY <1>3, <2>1, FanoutPreserves
<1> QED
  BY <1>1, <1>2, <1>3, TimePreserves, ReapPreserves, ClaimPreserves, CrashPreserves,
     DeliverPreserves, StatementFailsPreserves, DisableMistoldPreserves, UpdateMistoldPreserves
     DEF Next, Passes, Breaks

THEOREM Invariance == Spec => []IInv
BY InitHolds, NextPreserves, PTL DEF Spec

\* The type invariant.
THEOREM TypeCorrect == Spec => []TypeOK
BY Invariance, PTL DEF IInv

\* No event is given up for a webhook that is active.
THEOREM GivenUpCorrect == Spec => []GivenUpOnlyIfDisabled
BY Invariance, PTL DEF IInv, Behaves

\* No webhook is disabled for a streak that was not tried.
THEOREM StreakCorrect == Spec => []StreakNeedsTries
BY Invariance, PTL DEF IInv, Behaves

LEMMA AckKept ==
  ASSUME IInv, Next, NEW d \in Deliveries, status[d] = "succeeded", d \notin adrift
  PROVE  status'[d] = "succeeded" /\ \A n \in Nodes : step'[n][d] = "none"
<1>1. \A n \in Nodes : step[n][d] = "none" BY DEF IInv, Behaves, Alone
<1>2. TypeOK BY DEF IInv
<1> USE <1>1, <1>2 DEF TypeOK, row, node, history
<1>3. ASSUME NEW e \in Events, Emit(e) \/ FanoutFails(e)
      PROVE  status'[d] = "succeeded" /\ \A n \in Nodes : step'[n][d] = "none"
  BY <1>3 DEF Emit, FanoutFails
<1>4. ASSUME NEW c \in Deliveries, EnqueueDelivery(c) \/ BackoffElapses(c) \/ ClaimLapses(c)
      PROVE  status'[d] = "succeeded" /\ \A n \in Nodes : step'[n][d] = "none"
  BY <1>4 DEF EnqueueDelivery, BackoffElapses, ClaimLapses
<1>5. ASSUME NEW m \in Nodes, ReapStuck(m) \/ ClaimDue(m) \/ Crash(m)
      PROVE  status'[d] = "succeeded" /\ \A n \in Nodes : step'[n][d] = "none"
  <2>1. CASE ReapStuck(m) BY <2>1 DEF ReapStuck, Stuck
  <2>2. CASE ClaimDue(m)
    <3>1. status'[d] = "succeeded" BY <2>2 DEF ClaimDue
    <3>2. \A n \in Nodes : step'[n][d] = "none" BY <2>2 DEF ClaimDue
    <3> QED BY <3>1, <3>2
  <2>3. CASE Crash(m) BY <2>3 DEF Crash
  <2> QED BY <1>5, <2>1, <2>2, <2>3
<1>6. ASSUME NEW m \in Nodes, NEW c \in Deliveries, Deliver(m, c) \/ Breaks(m, c)
      PROVE  status'[d] = "succeeded" /\ \A n \in Nodes : step'[n][d] = "none"
  <2>0. step[m][d] = "none" BY <1>1
  <2>1. c # d
    BY <1>6, <2>0 DEF Deliver, ReadWebhook, Post, MarkSucceeded, MarkFailed, DisableAtOnce,
     StreakDisables, ScheduleRetry, Breaks, StatementFails, DisableMistold, UpdateMistold,
       Rescue, SetStatus, PutBack
  <2>2. status'[d] = status[d]
    BY <1>6, <2>1 DEF Deliver, ReadWebhook, Post, MarkSucceeded, MarkFailed, DisableAtOnce,
       StreakDisables, ScheduleRetry, Breaks, StatementFails, DisableMistold, UpdateMistold,
       Rescue, SetStatus, PutBack
  <2>3. \E t \in Steps : step' = [step EXCEPT ![m][c] = t]
    BY <1>6 DEF Deliver, ReadWebhook, Post, MarkSucceeded, MarkFailed, DisableAtOnce,
       StreakDisables, ScheduleRetry, Breaks, StatementFails, DisableMistold, UpdateMistold,
       Rescue, Goto, Done, Steps
  <2>4. \A n \in Nodes : step'[n][d] = step[n][d] BY <2>1, <2>3
  <2> QED BY <1>1, <2>2, <2>4
<1>7. \/ \E e \in Events : Emit(e) \/ FanoutFails(e)
      \/ \E c \in Deliveries : EnqueueDelivery(c) \/ BackoffElapses(c) \/ ClaimLapses(c)
      \/ \E m \in Nodes : ReapStuck(m) \/ ClaimDue(m) \/ Crash(m)
      \/ \E m \in Nodes, c \in Deliveries : Deliver(m, c) \/ Breaks(m, c)
  BY DEF Next, Passes
<1> HIDE <1>1, <1>2
<1> QED BY <1>3, <1>4, <1>5, <1>6, <1>7

\* An acknowledged delivery is not sent again, unless it was adrift.
THEOREM AckCorrect == Spec => AckStopsRetries
<1> DEFINE Keeps == \A d \in Deliveries : status[d] = "succeeded" /\ d \notin adrift =>
                      /\ status'[d] = "succeeded"
                      /\ \A n \in Nodes : step'[n][d] = "none"
<1>1. IInv /\ [Next]_vars => [Keeps]_vars BY AckKept
<1>2. Spec => [][Keeps]_vars BY <1>1, Invariance, PTL DEF Spec
<1> QED BY <1>2 DEF AckStopsRetries

-----------------------------------------------------------------------------
(* The work queue. *)

Job == [session : Sessions, took : SUBSET Calls, left : SUBSET Calls, hand : SUBSET Calls]

RowTypes ==
  /\ workStatus \in [Sessions -> {"absent", "queued", "claimed", "done", "stopped"}]
  /\ stop \in [Sessions -> {"none", "clean", "force"}]
  /\ claimer \in [Sessions -> Workers \cup {NoWorker}]
  /\ leaseLapsed \in [Sessions -> BOOLEAN]
  /\ calls \in [Sessions -> SUBSET Calls] /\ results \in [Sessions -> SUBSET Calls]
  /\ line \in Seq(Sessions)

RuntimeTypes ==
  /\ live \in [Sessions -> BOOLEAN] /\ asked \subseteq Calls /\ enqueuing \subseteq Calls
  /\ pending \in [Sessions -> SUBSET Calls]
  /\ crashes \in 0..MaxCrashes

WorkerTypes ==
  /\ at \in [Workers -> {"idle", "posting", "storing", "delivering"}]
  /\ job \in [Workers -> Job]

Types == RowTypes /\ RuntimeTypes /\ WorkerTypes

(* The line holds the sessions with a row, each once. *)
LineOfRows ==
  /\ \A i, j \in 1..Len(line) : line[i] = line[j] => i = j
  /\ \A i \in 1..Len(line) : workStatus[line[i]] # "absent"

(* What a call has been through: a fresh one is nowhere, a row that was     *)
(* never inserted holds none, an evicted runtime waits for none.            *)
CallsAsked ==
  /\ enqueuing \subseteq asked
  /\ \A s \in Sessions : calls[s] \subseteq asked
  /\ \A s \in Sessions : workStatus[s] = "absent" => calls[s] = {}
  /\ \A s \in Sessions : ~live[s] => pending[s] = {}

(* Nothing waits on a completed row: completion needs the runtime gone, and *)
(* the runtime that comes back asks under fresh toolUseIds.                 *)
DoneIsUnawaited == \A s \in Sessions : workStatus[s] = "done" => pending[s] \cap calls[s] = {}

QueueInv == Types /\ LineOfRows /\ CallsAsked /\ DoneIsUnawaited /\ ClaimCoversCalls

-----------------------------------------------------------------------------
LEMMA QueueInitHolds == ASSUME QueueInit PROVE QueueInv
<1> USE QueueAssumption DEF QueueInit
<1>1. NoJob \in Job
  BY DEF NoJob, Job
<1>2. Types BY <1>1 DEF Types, RowTypes, RuntimeTypes, WorkerTypes
<1>3. LineOfRows /\ CallsAsked /\ DoneIsUnawaited BY DEF LineOfRows, CallsAsked, DoneIsUnawaited
<1>4. ClaimCoversCalls BY DEF ClaimCoversCalls
<1> QED BY <1>2, <1>3, <1>4 DEF QueueInv

-----------------------------------------------------------------------------
(* The session runtime. *)

(* A fresh call is on no row, so registering it makes no completed row awaited. *)
LEMMA ExecPreserves == ASSUME QueueInv, NEW c \in Calls, Exec(c) PROVE QueueInv'
<1> USE QueueAssumption DEF QueueInv, Exec, workRow, worker
<1>1. Types' BY DEF Types, RowTypes, RuntimeTypes, WorkerTypes
<1>2. LineOfRows' BY DEF LineOfRows
<1>3. CallsAsked' BY DEF Types, RowTypes, RuntimeTypes, WorkerTypes, CallsAsked
<1>4. DoneIsUnawaited'
  BY DEF Types, RowTypes, RuntimeTypes, WorkerTypes, CallsAsked, DoneIsUnawaited
<1>5. ClaimCoversCalls' BY DEF ClaimCoversCalls
<1> QED BY <1>1, <1>2, <1>3, <1>4, <1>5

(* A call lands on a row that is not completed any more, nor claimed. *)
LEMMA EnqueuePreserves == ASSUME QueueInv, NEW c \in Calls, EnqueueToolCall(c) PROVE QueueInv'
<1> USE QueueAssumption DEF QueueInv, EnqueueToolCall, Requeued, Inserts, worker
<1>1. Types' BY DEF Types, RowTypes, RuntimeTypes, WorkerTypes
<1>2. LineOfRows'
  <2>1. CASE workStatus[Owner[c]] = "absent"
    <3>1. line' = Append(line, Owner[c]) BY <2>1
    <3>2. \A i \in 1..Len(line) : line[i] # Owner[c] BY <2>1 DEF LineOfRows
    <3> QED BY <2>1, <3>1, <3>2 DEF Types, RowTypes, RuntimeTypes, WorkerTypes, LineOfRows
  <2>2. CASE workStatus[Owner[c]] # "absent"
    BY <2>2 DEF Types, RowTypes, RuntimeTypes, WorkerTypes, LineOfRows
  <2> QED BY <2>1, <2>2
<1>3. CallsAsked' BY DEF Types, RowTypes, RuntimeTypes, WorkerTypes, CallsAsked
<1>4. DoneIsUnawaited' BY DEF Types, RowTypes, RuntimeTypes, WorkerTypes, DoneIsUnawaited
<1>5. ClaimCoversCalls' BY DEF Types, RowTypes, RuntimeTypes, WorkerTypes, ClaimCoversCalls
<1> QED BY <1>1, <1>2, <1>3, <1>4, <1>5

LEMMA RefusalPreserves == ASSUME QueueInv, NEW c \in Calls, EnqueueRefused(c) PROVE QueueInv'
<1> USE DEF QueueInv, EnqueueRefused, workRow, worker
<1>1. Types' BY DEF Types, RowTypes, RuntimeTypes, WorkerTypes
<1>2. (LineOfRows /\ CallsAsked /\ DoneIsUnawaited)'
  BY DEF LineOfRows, CallsAsked, DoneIsUnawaited
<1>3. ClaimCoversCalls' BY DEF ClaimCoversCalls
<1> QED BY <1>1, <1>2, <1>3

LEMMA ResidencyPreserves ==
  ASSUME QueueInv, NEW s \in Sessions, Evict(s) \/ Wake(s) PROVE QueueInv'
<1> USE QueueAssumption DEF QueueInv, Evict, Wake, workRow, worker
<1>1. Types'
  <2>1. (RowTypes /\ WorkerTypes)' BY DEF Types, RowTypes, WorkerTypes
  <2>2. live' \in [Sessions -> BOOLEAN] BY DEF Types, RuntimeTypes
  <2>3. pending' \in [Sessions -> SUBSET Calls] BY DEF Types, RuntimeTypes
  <2>4. (asked \subseteq Calls /\ enqueuing \subseteq Calls /\ crashes \in 0..MaxCrashes)'
    BY DEF Types, RuntimeTypes
  <2> QED BY <2>1, <2>2, <2>3, <2>4 DEF Types, RuntimeTypes
<1>2. LineOfRows' BY DEF LineOfRows
<1>3. CallsAsked'
  <2>1. \A t \in Sessions : ~live'[t] => pending'[t] = {}
    BY DEF Types, RuntimeTypes, CallsAsked
  <2> QED BY <2>1 DEF CallsAsked
<1>5. DoneIsUnawaited'
  <2>1. \A t \in Sessions : pending'[t] \subseteq pending[t] BY DEF Types, RuntimeTypes
  <2> QED BY <2>1 DEF DoneIsUnawaited
<1>4. ClaimCoversCalls' BY DEF ClaimCoversCalls
<1> QED BY <1>1, <1>2, <1>3, <1>4, <1>5

-----------------------------------------------------------------------------
(* The queue. *)

LEMMA LapsePreserves == ASSUME QueueInv, NEW s \in Sessions, LeaseLapses(s) PROVE QueueInv'
<1> USE DEF QueueInv, LeaseLapses, runtime, worker
<1>1. Types' BY DEF Types, RowTypes, RuntimeTypes, WorkerTypes
<1>2. (LineOfRows /\ CallsAsked /\ DoneIsUnawaited)'
  BY DEF LineOfRows, CallsAsked, DoneIsUnawaited
<1>3. ClaimCoversCalls' BY DEF ClaimCoversCalls
<1> QED BY <1>1, <1>2, <1>3

(* The worker takes every call the row has. *)
LEMMA QueueClaimPreserves ==
  ASSUME QueueInv, NEW s \in Sessions, NEW w \in Workers, Claim(w, s) PROVE QueueInv'
<1> USE QueueAssumption DEF QueueInv, Claim, Stale, runtime, worker
<1>1. Types'
  <2>1. (workStatus \in [Sessions -> {"absent", "queued", "claimed", "done", "stopped"}])'
    BY DEF Types, RowTypes
  <2>2. (claimer \in [Sessions -> Workers \cup {NoWorker}])' BY DEF Types, RowTypes
  <2>3. (leaseLapsed \in [Sessions -> BOOLEAN])' BY DEF Types, RowTypes
  <2>4. RowTypes' BY <2>1, <2>2, <2>3 DEF Types, RowTypes
  <2>5. RuntimeTypes' BY DEF Types, RuntimeTypes
  <2>6. [session |-> s, took |-> calls[s], left |-> calls[s], hand |-> {}] \in Job
    BY DEF Types, RowTypes, Job
  <2>7. WorkerTypes' BY <2>6 DEF Types, WorkerTypes
  <2> QED BY <2>4, <2>5, <2>7 DEF Types
<1>2. LineOfRows' BY DEF Types, RowTypes, RuntimeTypes, WorkerTypes, LineOfRows
<1>3. CallsAsked' BY DEF Types, RowTypes, RuntimeTypes, WorkerTypes, CallsAsked
<1>4. DoneIsUnawaited' BY DEF Types, RowTypes, RuntimeTypes, WorkerTypes, DoneIsUnawaited
<1>5. ClaimCoversCalls'
  <2> SUFFICES ASSUME NEW v \in Workers, NEW t \in Sessions,
                      at'[v] # "idle", job'[v].session = t, workStatus'[t] = "claimed",
                      claimer'[t] = v
               PROVE  calls'[t] \subseteq job'[v].took
    BY DEF ClaimCoversCalls
  <2>1. CASE v = w BY <2>1 DEF Types, RowTypes, RuntimeTypes, WorkerTypes
  <2>2. CASE v # w
    <3>1. t # s /\ ~Stale(t) BY <2>2 DEF Types, RowTypes, RuntimeTypes, WorkerTypes
    <3>2. workStatus[t] = "claimed" /\ claimer[t] = v /\ at[v] # "idle" /\ job[v].session = t
      BY <2>2, <3>1 DEF Types, RowTypes, RuntimeTypes, WorkerTypes
    <3> QED BY <2>2, <3>2 DEF Types, RowTypes, RuntimeTypes, WorkerTypes, ClaimCoversCalls
  <2> QED BY <2>1, <2>2
<1> QED BY <1>1, <1>2, <1>3, <1>4, <1>5

LEMMA StopPreserves ==
  ASSUME QueueInv, NEW s \in Sessions, NEW how \in {"clean", "force"}, StopWork(s, how)
  PROVE  QueueInv'
<1> USE DEF QueueInv, StopWork, runtime, worker
<1>1. Types' BY DEF Types, RowTypes, RuntimeTypes, WorkerTypes
<1>2. (LineOfRows /\ CallsAsked /\ DoneIsUnawaited)'
  BY DEF Types, RowTypes, RuntimeTypes, WorkerTypes, LineOfRows, CallsAsked, DoneIsUnawaited
<1>3. ClaimCoversCalls' BY DEF Types, RowTypes, RuntimeTypes, WorkerTypes, ClaimCoversCalls
<1> QED BY <1>1, <1>2, <1>3

(* The channel completes the row of a session that is gone from memory. *)
LEMMA CompletionPreserves ==
  ASSUME QueueInv, NEW s \in Sessions, CompleteWorkItem(s) PROVE QueueInv'
<1> USE DEF QueueInv, CompleteWorkItem, runtime, worker
<1>1. Types' BY DEF Types, RowTypes, RuntimeTypes, WorkerTypes
<1>2. (LineOfRows /\ CallsAsked)'
  BY DEF Types, RowTypes, RuntimeTypes, WorkerTypes, LineOfRows, CallsAsked
<1>3. DoneIsUnawaited'
  BY DEF Types, RowTypes, RuntimeTypes, WorkerTypes, CallsAsked, DoneIsUnawaited
<1>4. ClaimCoversCalls' BY DEF Types, RowTypes, RuntimeTypes, WorkerTypes, ClaimCoversCalls
<1> QED BY <1>1, <1>2, <1>3, <1>4

-----------------------------------------------------------------------------
(* A worker's requests: what it took stays, or it drops the item. *)
LEMMA PostPreserves ==
  ASSUME QueueInv, NEW w \in Workers, PostStep(w) \/ WorkerCrash(w) PROVE QueueInv'
<1> USE QueueAssumption DEF QueueInv, PostStep, Quit, Accepts, workRow, runtime
<1>1. NoJob \in Job
  BY DEF NoJob, Job
<1>2. CASE PostChecked(w)
  <2>1. PICK c \in job[w].left :
          job' = [job EXCEPT ![w] = [@ EXCEPT !.left = job[w].left \ {c}, !.hand = {c}]]
    BY <1>2 DEF PostChecked, Types, RowTypes, RuntimeTypes, WorkerTypes
  <2>2. Types'
    <3> DEFINE shorter == [job[w] EXCEPT !.left = job[w].left \ {c}]
    <3>1. shorter \in Job BY DEF Types, WorkerTypes, Job
    <3>2. \A j \in Job : [j EXCEPT !.hand = {c}] \in Job BY DEF Types, WorkerTypes, Job
    <3>3. [shorter EXCEPT !.hand = {c}] \in Job BY <3>1, <3>2
    <3>4. WorkerTypes' BY <1>2, <2>1, <3>3 DEF PostChecked, Types, WorkerTypes
    <3> QED BY <1>2, <3>4 DEF PostChecked, Types, RowTypes, RuntimeTypes
  <2>3. (LineOfRows /\ CallsAsked /\ DoneIsUnawaited)'
    BY <1>2 DEF PostChecked, LineOfRows, CallsAsked, DoneIsUnawaited
  <2>4. \A v \in Workers : job'[v].session = job[v].session /\ job'[v].took = job[v].took
    BY <2>1 DEF Types, WorkerTypes, Job
  <2>5. \A v \in Workers : at'[v] # "idle" => at[v] # "idle"
    BY <1>2 DEF PostChecked, Types, WorkerTypes
  <2>6. ClaimCoversCalls' BY <1>2, <2>4, <2>5 DEF PostChecked, ClaimCoversCalls
  <2> QED BY <2>2, <2>3, <2>6
<1>3. CASE PostRefused(w) \/ PostTooLate(w) \/ WorkerCrash(w)
  <2>1. Types'
    <3>1. (RowTypes /\ WorkerTypes)'
      BY <1>1, <1>3 DEF PostRefused, PostTooLate, WorkerCrash, Types, RowTypes, WorkerTypes
    <3>2. crashes' \in 0..MaxCrashes
      BY <1>3 DEF PostRefused, PostTooLate, WorkerCrash, Types, RuntimeTypes
    <3>3. RuntimeTypes'
      BY <1>3, <3>2 DEF PostRefused, PostTooLate, WorkerCrash, Types, RuntimeTypes
    <3> QED BY <3>1, <3>3 DEF Types
  <2>2. (LineOfRows /\ CallsAsked /\ DoneIsUnawaited)'
    BY <1>3 DEF PostRefused, PostTooLate, WorkerCrash, LineOfRows, CallsAsked, DoneIsUnawaited
  <2>3. ClaimCoversCalls'
    BY <1>3
       DEF PostRefused, PostTooLate, WorkerCrash, Types, RowTypes, RuntimeTypes, WorkerTypes,
           ClaimCoversCalls
  <2> QED BY <2>1, <2>2, <2>3
<1>4. CASE PostStored(w)
  <2>1. Types'
    <3>1. (results \in [Sessions -> SUBSET Calls])'
      BY <1>4 DEF PostStored, Types, RowTypes, WorkerTypes, Job
    <3> QED BY <1>4, <3>1 DEF PostStored, Types, RowTypes, RuntimeTypes, WorkerTypes
  <2>2. (LineOfRows /\ CallsAsked /\ DoneIsUnawaited)'
    BY <1>4 DEF PostStored, LineOfRows, CallsAsked, DoneIsUnawaited
  <2>3. ClaimCoversCalls'
    BY <1>4 DEF PostStored, Types, RowTypes, RuntimeTypes, WorkerTypes, ClaimCoversCalls
  <2> QED BY <2>1, <2>2, <2>3
<1>5. CASE DeliverResult(w)
  <2>1. Types'
    <3>1. (pending \in [Sessions -> SUBSET Calls])' BY <1>5 DEF DeliverResult, Types, RuntimeTypes
    <3>2. (at \in [Workers -> {"idle", "posting", "storing", "delivering"}])'
      BY <1>5 DEF DeliverResult, Types, WorkerTypes
    <3>3. [job[w] EXCEPT !.hand = {}] \in Job BY DEF Types, WorkerTypes, Job
    <3>4. (job \in [Workers -> Job])'
      BY <1>1, <1>5, <3>3 DEF DeliverResult, Types, WorkerTypes
    <3> QED
      BY <1>5, <3>1, <3>2, <3>4 DEF DeliverResult, Types, RowTypes, RuntimeTypes, WorkerTypes
  <2>2. LineOfRows' BY <1>5 DEF DeliverResult, LineOfRows
  <2>3. (CallsAsked /\ DoneIsUnawaited)'
    BY <1>5
       DEF DeliverResult, Types, RowTypes, RuntimeTypes, WorkerTypes, CallsAsked, DoneIsUnawaited
  <2>4. \A v \in Workers : at'[v] # "idle" =>
          at[v] # "idle" /\ job'[v].session = job[v].session /\ job'[v].took = job[v].took
    BY <1>5 DEF DeliverResult, Types, WorkerTypes, Job
  <2>5. ClaimCoversCalls' BY <1>5, <2>4 DEF DeliverResult, ClaimCoversCalls
  <2> QED BY <2>1, <2>2, <2>3, <2>5
<1> QED BY <1>2, <1>3, <1>4, <1>5

-----------------------------------------------------------------------------
LEMMA StutterPreserves == ASSUME QueueInv, UNCHANGED queueVars PROVE QueueInv'
BY DEF QueueInv, Types, RowTypes, RuntimeTypes, WorkerTypes, LineOfRows, CallsAsked,
   DoneIsUnawaited, ClaimCoversCalls, queueVars, workRow, runtime, worker

LEMMA QueueNextPreserves == ASSUME QueueInv, QueueNext PROVE QueueInv'
<1>1. CASE \E c \in Calls : Exec(c) \/ EnqueueToolCall(c) \/ EnqueueRefused(c)
  BY <1>1, ExecPreserves, EnqueuePreserves, RefusalPreserves
<1>2. ASSUME NEW s \in Sessions,
             (\/ Evict(s) \/ Wake(s) \/ LeaseLapses(s) \/ CompleteWorkItem(s)
              \/ StopWork(s, "clean") \/ StopWork(s, "force")
              \/ \E w \in Workers : Claim(w, s))
      PROVE  QueueInv'
  BY <1>2, ResidencyPreserves, LapsePreserves, CompletionPreserves, StopPreserves,
     QueueClaimPreserves
<1>3. CASE \E w \in Workers : PostStep(w) \/ WorkerCrash(w) BY <1>3, PostPreserves
<1> QED BY <1>1, <1>2, <1>3 DEF QueueNext

LEMMA QueueInductive == QueueSpec => []QueueInv
<1>1. QueueInit => QueueInv BY QueueInitHolds
<1>2. QueueInv /\ [QueueNext]_queueVars => QueueInv' BY QueueNextPreserves, StutterPreserves
<1> QED BY <1>1, <1>2, PTL DEF QueueSpec

(* A line without repetitions is no longer than there are sessions. *)
LEMMA LineIsShort == ASSUME QueueInv PROVE Len(line) <= Cardinality(Sessions)
<1> USE QueueAssumption DEF QueueInv, Types, RowTypes, RuntimeTypes, WorkerTypes
<1> DEFINE D == 1..Len(line)
           f == [i \in D |-> line[i]]
<1>1. D \subseteq Nat /\ IsFiniteSet(D) /\ Cardinality(D) = Len(line) BY FS_Interval
<1>2. f \in Injection(D, Sessions)
  <2>1. f \in [D -> Sessions] OBVIOUS
  <2>2. \A a, b \in D : f[a] = f[b] => a = b BY DEF LineOfRows
  <2> HIDE DEF f
  <2> QED BY <2>1, <2>2 DEF Injection, IsInjective
<1> QED BY <1>1, <1>2, FS_Injection

-----------------------------------------------------------------------------
(* Every variable has its type, and the line of sessions by queued_at never *)
(* names a session twice: it is no longer than the environment's sessions.  *)
THEOREM QueueTypeCorrect == QueueSpec => []QueueTypeOK
<1>1. QueueInv => QueueTypeOK
  BY LineIsShort DEF QueueInv, Types, RowTypes, RuntimeTypes, WorkerTypes, Job, QueueTypeOK
<1> QED BY <1>1, QueueInductive, PTL

(* A call that arrives while its row is claimed, or after it was completed, *)
(* is never out of the workers' sight, whoever crashes or is evicted.       *)
THEOREM NothingHidden == QueueSpec => []NoCallHidden
<1>1. QueueInv => NoCallHidden
  <2> SUFFICES ASSUME QueueInv, NEW s \in Sessions, (pending[s] \cap calls[s]) \ results[s] # {}
               PROVE  workStatus[s] \in {"queued", "claimed", "stopped"}
    BY DEF NoCallHidden, PendingIsReachable, QueueInv
  <2> QED BY DEF QueueInv, Types, RowTypes, RuntimeTypes, WorkerTypes, CallsAsked, DoneIsUnawaited
<1> QED BY <1>1, QueueInductive, PTL

=============================================================================
