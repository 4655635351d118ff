----------------------------- MODULE WorkQueue -----------------------------
(***************************************************************************)
(* The work queue of one self-hosted environment: the row each session has *)
(* in self_hosted_work_queue, the session runtimes that append tool calls  *)
(* to it and wait for the answers, and the subscriber's workers that claim *)
(* a row, run its calls and post the results.                              *)
(*                                                                         *)
(* A claim's age is reduced to one bit, leaseLapsed.                       *)
(***************************************************************************)
EXTENDS Integers, Sequences, FiniteSets

CONSTANTS
  Sessions,   \* sessions assigned to the environment
  Calls,      \* tool calls; a call's toolUseId is fresh, so each runs exec once
  Owner,      \* the session of each call
  Workers,    \* workers polling the environment
  Echoing,    \* the workers whose results carry the toolUseId; packages/worker does not
  NoWorker,   \* a row nobody claimed
  MaxCrashes  \* bound: worker crashes and evictions together

ASSUME QueueAssumption ==
  /\ Sessions # {} /\ IsFiniteSet(Sessions) /\ Owner \in [Calls -> Sessions]
  /\ Echoing \subseteq Workers /\ NoWorker \notin Workers
  /\ MaxCrashes \in Nat

VARIABLES
  workStatus,  \* the row: "absent", "queued", "claimed", "done" or "stopped"
  stop,        \* stop_requested
  claimer,     \* claimed_by
  leaseLapsed, \* is claimed_at older than the lease
  calls,       \* work_spec.toolCalls
  results,     \* the calls with a row in results
  line,        \* sessions by queued_at
  live,        \* has the session a runtime in memory
  asked,       \* calls whose exec began
  pending,     \* pendingToolResults of the session's runtime
  enqueuing,   \* calls whose enqueueToolCall has not returned
  at,          \* where each worker is
  job,         \* the item a worker holds: session, calls it took, calls left, the one in hand
  crashes      \* worker crashes and evictions so far

workRow   == <<workStatus, stop, claimer, leaseLapsed, calls, results, line>>
runtime   == <<live, asked, pending, enqueuing>>
worker    == <<at, job>>
queueVars == <<workRow, runtime, worker, crashes>>

NoJob == [session |-> CHOOSE s \in Sessions : TRUE, took |-> {}, left |-> {}, hand |-> {}]

QueueInit ==
  /\ workStatus = [s \in Sessions |-> "absent"] /\ stop = [s \in Sessions |-> "none"]
  /\ claimer = [s \in Sessions |-> NoWorker] /\ leaseLapsed = [s \in Sessions |-> FALSE]
  /\ calls = [s \in Sessions |-> {}] /\ results = [s \in Sessions |-> {}] /\ line = <<>>
  /\ live = [s \in Sessions |-> TRUE] /\ asked = {}
  /\ pending = [s \in Sessions |-> {}] /\ enqueuing = {}
  /\ at = [w \in Workers |-> "idle"] /\ job = [w \in Workers |-> NoJob]
  /\ crashes = 0

-----------------------------------------------------------------------------
(* The session runtime.                                                     *)

\* exec registers the resolver before it enqueues.
Exec(c) ==
  LET s == Owner[c] IN
  /\ live[s] /\ c \notin asked
  /\ asked' = asked \cup {c}
  /\ pending' = [pending EXCEPT ![s] = @ \cup {c}]
  /\ enqueuing' = enqueuing \cup {c}
  /\ UNCHANGED <<workRow, live, worker, crashes>>

\* A claimed or done row returns to the queue, for a worker to see the new call.
RequeuedUnlessClaimed(st) == IF st \in {"absent", "done"} THEN "queued" ELSE st
RequeuedUnlessDone(st) == IF st \in {"absent", "claimed"} THEN "queued" ELSE st
Requeued(st) == IF st \in {"absent", "claimed", "done"} THEN "queued" ELSE st

\* ON CONFLICT (session_id): a session has one row.
Inserts(s) == workStatus[s] = "absent"

EnqueueToolCall(c) ==
  LET s == Owner[c] IN
  /\ c \in enqueuing /\ workStatus[s] # "stopped"
  /\ enqueuing' = enqueuing \ {c}
  /\ calls' = [calls EXCEPT ![s] = @ \cup {c}]
  /\ workStatus' = [workStatus EXCEPT ![s] = Requeued(@)]
  /\ line' = IF Inserts(s) THEN Append(line, s) ELSE line
  /\ UNCHANGED <<stop, claimer, leaseLapsed, results, live, asked, pending, worker, crashes>>

\* A stopped row accepts nothing more: exec throws 409, its resolver stays registered.
EnqueueRefused(c) ==
  /\ c \in enqueuing /\ workStatus[Owner[c]] = "stopped"
  /\ enqueuing' = enqueuing \ {c}
  /\ UNCHANGED <<workRow, live, asked, pending, worker, crashes>>

\* The runtime is evicted; a later wake asks again under a fresh toolUseId, so nothing
\* the wake replays from results is awaited.
Evict(s) ==
  /\ live[s] /\ crashes < MaxCrashes
  /\ crashes' = crashes + 1
  /\ live' = [live EXCEPT ![s] = FALSE]
  /\ pending' = [pending EXCEPT ![s] = {}]
  /\ UNCHANGED <<workRow, asked, enqueuing, worker>>

Wake(s) ==
  /\ ~live[s]
  /\ live' = [live EXCEPT ![s] = TRUE]
  /\ UNCHANGED <<workRow, asked, pending, enqueuing, worker, crashes>>

-----------------------------------------------------------------------------
(* The queue: leases, stops and completion.                                 *)

LeaseLapses(s) ==
  /\ workStatus[s] = "claimed" /\ ~leaseLapsed[s]
  /\ leaseLapsed' = [leaseLapsed EXCEPT ![s] = TRUE]
  /\ UNCHANGED <<workStatus, stop, claimer, calls, results, line, runtime, worker, crashes>>

\* Each claim first returns the stale ones to the queue.
NeverStale(s) == FALSE
Stale(s) == workStatus[s] = "claimed" /\ leaseLapsed[s]

\* The oldest queued row, claimed in the transaction that reaped the stale ones.  A worker
\* that sees a stop request leaves the row claimed and runs nothing.
Claim(w, s) ==
  LET waiting == {t \in Sessions : workStatus[t] = "queued" \/ Stale(t)} IN
  /\ at[w] = "idle" /\ s \in waiting
  /\ \E i \in DOMAIN line : line[i] = s /\ \A j \in 1..(i - 1) : line[j] \notin waiting
  /\ workStatus' = [t \in Sessions |-> IF t = s THEN "claimed"
                                      ELSE IF Stale(t) THEN "queued" ELSE workStatus[t]]
  /\ claimer' = [t \in Sessions |-> IF t = s THEN w
                                    ELSE IF Stale(t) THEN NoWorker ELSE claimer[t]]
  /\ leaseLapsed' = [t \in Sessions |-> leaseLapsed[t] /\ t # s /\ ~Stale(t)]
  /\ IF stop[s] = "none"
     THEN /\ at' = [at EXCEPT ![w] = "posting"]
          /\ job' = [job EXCEPT ![w] = [session |-> s, took |-> calls[s],
                                        left |-> calls[s], hand |-> {}]]
     ELSE UNCHANGED worker
  /\ UNCHANGED <<stop, calls, results, line, runtime, crashes>>

\* Clean: the worker shall finish and halt.  Force: the row accepts no more results.
StopWork(s, how) ==
  /\ workStatus[s] \notin {"absent", "stopped"} /\ stop[s] # how
  /\ stop' = [stop EXCEPT ![s] = how]
  /\ workStatus' = [workStatus EXCEPT ![s] = IF how = "force" THEN "stopped" ELSE @]
  /\ UNCHANGED <<claimer, leaseLapsed, calls, results, line, runtime, worker, crashes>>

\* destroy of the channel, once the session is no longer in memory.
CompleteWorkItem(s) ==
  /\ ~live[s] /\ workStatus[s] \in {"queued", "claimed"}
  /\ workStatus' = [workStatus EXCEPT ![s] = "done"]
  /\ UNCHANGED <<stop, claimer, leaseLapsed, calls, results, line, runtime, worker, crashes>>

-----------------------------------------------------------------------------
(* A worker: it has run every call it took and posts the results one by one. *)

Quit(w) == at' = [at EXCEPT ![w] = "idle"] /\ job' = [job EXCEPT ![w] = NoJob]

\* The route reads the row before it accepts a result.
PostChecked(w) ==
  /\ at[w] = "posting" /\ w \in Echoing
  /\ workStatus[job[w].session] # "stopped"
  /\ \E c \in job[w].left :
       job' = [job EXCEPT ![w].left = @ \ {c}, ![w].hand = {c}]
  /\ at' = [at EXCEPT ![w] = "storing"]
  /\ UNCHANGED <<workRow, runtime, crashes>>

\* A result without toolUseId is a 422, one for a stopped row a 409: the poll fails and
\* what is left is dropped.
PostRefused(w) ==
  /\ at[w] = "posting"
  /\ w \notin Echoing \/ workStatus[job[w].session] = "stopped"
  /\ Quit(w)
  /\ UNCHANGED <<workRow, runtime, crashes>>

\* The UPDATE repeats the check, for the stop that landed in between.
Accepts(s) == workStatus[s] # "stopped"

PostStored(w) ==
  LET s == job[w].session IN
  /\ at[w] = "storing" /\ Accepts(s)
  /\ results' = [results EXCEPT ![s] = @ \cup job[w].hand]
  /\ at' = [at EXCEPT ![w] = "delivering"]
  /\ UNCHANGED <<workStatus, stop, claimer, leaseLapsed, calls, line, runtime, job, crashes>>

PostTooLate(w) ==
  /\ at[w] = "storing" /\ ~Accepts(job[w].session)
  /\ Quit(w)
  /\ UNCHANGED <<workRow, runtime, crashes>>

\* The sink resolves the runtime's waiting exec; without a runtime the result only stays
\* on the row.  The worker posts the next result or has finished its item.
DeliverResult(w) ==
  LET s == job[w].session IN
  /\ at[w] = "delivering"
  /\ pending' = [pending EXCEPT ![s] = @ \ job[w].hand]
  /\ IF job[w].left = {} THEN Quit(w)
     ELSE at' = [at EXCEPT ![w] = "posting"] /\ job' = [job EXCEPT ![w].hand = {}]
  /\ UNCHANGED <<workRow, live, asked, enqueuing, crashes>>

\* The worker dies between two requests, its results unposted.
WorkerCrash(w) ==
  /\ at[w] = "posting" /\ crashes < MaxCrashes
  /\ crashes' = crashes + 1
  /\ Quit(w)
  /\ UNCHANGED <<workRow, runtime>>

-----------------------------------------------------------------------------
PostStep(w) ==
  \/ PostChecked(w) \/ PostRefused(w) \/ PostStored(w) \/ PostTooLate(w)
  \/ DeliverResult(w)

QueueNext ==
  \/ \E c \in Calls : Exec(c) \/ EnqueueToolCall(c) \/ EnqueueRefused(c)
  \/ \E s \in Sessions :
       \/ Evict(s) \/ Wake(s) \/ LeaseLapses(s) \/ CompleteWorkItem(s)
       \/ StopWork(s, "clean") \/ StopWork(s, "force")
       \/ \E w \in Workers : Claim(w, s)
  \/ \E w \in Workers : PostStep(w) \/ WorkerCrash(w)

QueueSpec == QueueInit /\ [][QueueNext]_queueVars

(* Fairness: the database answers, time passes, a worker finishes its item  *)
(* and polls for ever; a worker that keeps finding a row claimable claims   *)
(* it in the end, whoever else polls.                                       *)
QueueLiveSpec ==
  /\ QueueSpec
  /\ \A c \in Calls : WF_queueVars(EnqueueToolCall(c) \/ EnqueueRefused(c))
  /\ \A s \in Sessions : WF_queueVars(LeaseLapses(s))
  /\ \A w \in Workers : WF_queueVars(PostStep(w))
  /\ \A w \in Workers, s \in Sessions : SF_queueVars(Claim(w, s))

-----------------------------------------------------------------------------
(* Properties                                                               *)

\* Every variable has its type, and no session has two rows.
QueueTypeOK ==
  /\ workStatus \in [Sessions -> {"absent", "queued", "claimed", "done", "stopped"}]
  /\ stop \in [Sessions -> {"none", "clean", "force"}]
  /\ claimer \in [Sessions -> Workers \cup {NoWorker}]
  /\ leaseLapsed \in [Sessions -> BOOLEAN]
  /\ calls \in [Sessions -> SUBSET Calls] /\ results \in [Sessions -> SUBSET Calls]
  /\ line \in Seq(Sessions) /\ Len(line) <= Cardinality(Sessions)
  /\ live \in [Sessions -> BOOLEAN] /\ asked \subseteq Calls /\ enqueuing \subseteq Calls
  /\ pending \in [Sessions -> SUBSET Calls]
  /\ at \in [Workers -> {"idle", "posting", "storing", "delivering"}]
  /\ job \in [Workers -> [session : Sessions, took : SUBSET Calls, left : SUBSET Calls,
                          hand : SUBSET Calls]]
  /\ crashes \in 0..MaxCrashes

\* While a worker's claim stands, the worker has every call of the row: a call that arrives
\* during the claim puts the row back into the queue (R6.6).
ClaimCoversCalls ==
  \A w \in Workers : \A s \in Sessions :
    at[w] # "idle" /\ job[w].session = s /\ workStatus[s] = "claimed" /\ claimer[s] = w
      => calls[s] \subseteq job[w].took

\* A call the runtime waits for is never on a completed row, which nobody would look at
\* again: its row is in the queue, claimed, or stopped by force, where nothing is answered.
PendingIsReachable ==
  \A s \in Sessions :
    (pending[s] \cap calls[s]) \ results[s] # {}
      => workStatus[s] \in {"queued", "claimed", "stopped"}

\* No call is out of the workers' sight: one that arrives while the row is claimed, or after
\* it was completed, brings the row back into the queue.
NoCallHidden == ClaimCoversCalls /\ PendingIsReachable

Due(c) == /\ line # <<>> /\ Head(line) = Owner[c]
          /\ c \in pending[Owner[c]] /\ c \in calls[Owner[c]]

\* A call of the oldest session in line that is still unanswered is handed to a worker, again
\* and again, although the workers before died with it, dropped it, or posted results the
\* backend refuses, unless its session is stopped or evicted (ROB-11, the lease of a claim).
CallsHandedOut ==
  \A c \in Calls : Due(c) ~>
    \/ c \notin pending[Owner[c]] \/ stop[Owner[c]] # "none"
    \/ \E w \in Workers : job[w].session = Owner[c] /\ c \in job[w].left

\* A call of the oldest session in line is answered: the worker "echoes" the toolUseId of the
\* call on the result it posts (work-queue.ts, SelfHostedToolCall), so that the route knows
\* whom to answer.
CallsReturn ==
  \A c \in Calls : Due(c) ~> (c \notin pending[Owner[c]] \/ stop[Owner[c]] # "none")
=============================================================================
