----------------------------- MODULE Scheduler -----------------------------
(***************************************************************************)
(* The cron scheduler: the tick of every control-plane node over one job,  *)
(* the job_runs rows it claims, the recovery of runs whose node died, and  *)
(* the pause, unpause and archive of the job's owner.                      *)
(*                                                                         *)
(* The job is created at time 0.  The rows are those of its cron runs: a   *)
(* manual run has a row of its own, which no query of the tick reads.      *)
(***************************************************************************)
EXTENDS Integers

CONSTANTS
  Nodes,       \* control-plane nodes, all ticking on one database
  Occurrences, \* the times the job's schedule names
  CatchUp,     \* the catch-up window
  OneShot,     \* one_shot of the job
  MaxTime,     \* bound: the clock stops here, the ticks go on
  MaxFaults    \* bound: crashes and database failures together

ASSUME SchedulerAssumption ==
  /\ CatchUp \in Nat /\ MaxTime \in Nat /\ MaxFaults \in Nat
  /\ Occurrences \subseteq 1..MaxTime /\ OneShot \in BOOLEAN

VARIABLES
  clock,
  status,     \* of the job: "active", "paused" or "archived"
  run,        \* the row of each occurrence, by claimed_at and triggered_at
  pc,         \* where each node is in its tick
  now,        \* the clock as the tick read it, 0 between ticks
  todo,       \* rows the recovery scan returned, not yet tried
  due,        \* occurrences inside the window, not yet fired
  misses,     \* occurrences below the window, to be recorded as skipped
  at,         \* the occurrence being run
  recovering, \* is it run for the recovery scan
  outcome,    \* what tryExecute returned
  fired,      \* sessions created for each occurrence
  cut,        \* runs of each occurrence that ended after tryExecute, unrecorded
  faults

tickVars == <<now, todo, due, misses>>
runVars  == <<at, recovering, outcome>>
seen     == <<fired, cut>>
cronVars     == <<clock, status, run, pc, tickVars, runVars, seen, faults>>

\* claimed_at: NULL, within the lease, or older than it; "triggered" once stamped.
RowStates == {"absent", "unclaimed", "claimed", "stale", "triggered"}

\* In "run", "record", "pause" and "finish" the claim's heartbeat beats.
Beating == {"run", "record", "pause", "finish"}
Holding == Beating \cup {"release"}

CronTypeOK ==
  /\ clock \in 0..MaxTime
  /\ status \in {"active", "paused", "archived"}
  /\ run \in [Occurrences -> RowStates]
  /\ pc \in [Nodes -> {"rest", "scan", "recover", "fire"} \cup Holding]
  /\ now \in [Nodes -> 0..MaxTime]
  /\ todo \in [Nodes -> SUBSET Occurrences]
  /\ due \in [Nodes -> SUBSET Occurrences] /\ misses \in [Nodes -> SUBSET Occurrences]
  /\ at \in [Nodes -> Occurrences \cup {0}]
  /\ \A n \in Nodes : pc[n] \in Holding => at[n] \in Occurrences
  /\ recovering \in [Nodes -> BOOLEAN]
  /\ outcome \in [Nodes -> {"none", "session", "error", "pausing"}]
  /\ fired \in [Occurrences -> Nat] /\ cut \in [Occurrences -> Nat]
  /\ faults \in Nat

CronInit ==
  /\ clock = 0 /\ status = "active"
  /\ run = [t \in Occurrences |-> "absent"]
  /\ pc = [n \in Nodes |-> "rest"] /\ now = [n \in Nodes |-> 0]
  /\ todo = [n \in Nodes |-> {}]
  /\ due = [n \in Nodes |-> {}] /\ misses = [n \in Nodes |-> {}]
  /\ at = [n \in Nodes |-> 0] /\ recovering = [n \in Nodes |-> FALSE]
  /\ outcome = [n \in Nodes |-> "none"]
  /\ fired = [t \in Occurrences |-> 0] /\ cut = [t \in Occurrences |-> 0]
  /\ faults = 0

-----------------------------------------------------------------------------
(* Time, the job's owner, and the lease of a claim.                         *)

Advance ==
  /\ clock < MaxTime
  /\ clock' = clock + 1
  /\ UNCHANGED <<status, run, pc, tickVars, runVars, seen, faults>>

Pause ==
  /\ status # "archived"
  /\ status' = "paused"
  /\ UNCHANGED <<clock, run, pc, tickVars, runVars, seen, faults>>

Unpause ==
  /\ status = "paused"
  /\ status' = "active"
  /\ UNCHANGED <<clock, run, pc, tickVars, runVars, seen, faults>>

Archive ==
  /\ status # "archived"
  /\ status' = "archived"
  /\ UNCHANGED <<clock, run, pc, tickVars, runVars, seen, faults>>

\* A claim ages past the lease once nobody renews it.  A node that failed a run releases
\* its claim within the lease.
LeaseLapses(t) ==
  /\ run[t] = "claimed"
  /\ \A n \in Nodes : pc[n] \in Holding => at[n] # t
  /\ run' = [run EXCEPT ![t] = "stale"]
  /\ UNCHANGED <<clock, status, pc, tickVars, runVars, seen, faults>>

-----------------------------------------------------------------------------
(* The recovery scan of a tick.                                             *)

TickStart(n) ==
  /\ pc[n] = "rest"
  /\ pc' = [pc EXCEPT ![n] = "scan"] /\ now' = [now EXCEPT ![n] = clock]
  /\ UNCHANGED <<clock, status, run, todo, due, misses, runVars, seen, faults>>

\* The end of a tick, done or cut short.
DropTick(n) ==
  /\ now' = [now EXCEPT ![n] = 0]
  /\ todo' = [todo EXCEPT ![n] = {}]
  /\ due' = [due EXCEPT ![n] = {}]
  /\ misses' = [misses EXCEPT ![n] = {}]

InWindow(n, t) == t >= now[n] - CatchUp

\* Claimed by nobody, or by a node that stopped renewing.
OpenNeverStale(t) == run[t] = "unclaimed"
Open(t) == run[t] \in {"unclaimed", "stale"}

Scan(n) ==
  /\ pc[n] = "scan"
  /\ todo' = [todo EXCEPT ![n] = {t \in Occurrences : Open(t) /\ InWindow(n, t)}]
  /\ pc' = [pc EXCEPT ![n] = "recover"]
  /\ UNCHANGED <<clock, status, run, now, due, misses, runVars, seen, faults>>

Take(n, t, forRecovery) ==
  /\ run' = [run EXCEPT ![t] = "claimed"]
  /\ pc' = [pc EXCEPT ![n] = "run"]
  /\ at' = [at EXCEPT ![n] = t]
  /\ recovering' = [recovering EXCEPT ![n] = forRecovery]

\* The UPDATE that takes the row tests again what the scan saw; the window and the
\* job's status are not tested again.
RecoverUnchecked(n, t) ==
  /\ pc[n] = "recover" /\ t \in todo[n]
  /\ todo' = [todo EXCEPT ![n] = @ \ {t}]
  /\ Take(n, t, TRUE)
  /\ UNCHANGED <<clock, status, now, due, misses, outcome, seen, faults>>

Recover(n, t) ==
  /\ pc[n] = "recover" /\ t \in todo[n]
  /\ todo' = [todo EXCEPT ![n] = @ \ {t}]
  /\ \/ Open(t) /\ Take(n, t, TRUE)
     \/ ~Open(t) /\ UNCHANGED <<run, pc, at, recovering>>
  /\ UNCHANGED <<clock, status, now, due, misses, outcome, seen, faults>>

-----------------------------------------------------------------------------
(* The due occurrences.                                                     *)

\* Strictly after every recorded run: the rows' MAX(scheduled_at).
Beyond(t) == \A u \in Occurrences : run[u] # "absent" => u < t

\* Every occurrence since the cursor, up to the tick's now.

ListActiveJobs(n) ==
  /\ pc[n] = "recover" /\ todo[n] = {}
  /\ \/ /\ status = "active"
        /\ LET since == {t \in Occurrences : t <= now[n] /\ Beyond(t)} IN
             /\ due' = [due EXCEPT ![n] = {t \in since : InWindow(n, t)}]
             /\ misses' = [misses EXCEPT ![n] = {t \in since : ~InWindow(n, t)}]
        /\ pc' = [pc EXCEPT ![n] = "fire"]
        /\ UNCHANGED <<now, todo>>
     \/ status # "active" /\ pc' = [pc EXCEPT ![n] = "rest"] /\ DropTick(n)
  /\ UNCHANGED <<clock, status, run, runVars, seen, faults>>

\* INSERT ... ON CONFLICT DO NOTHING: a row of another node ends it here.
FireOccurrence(n, t) ==
  /\ pc[n] = "fire" /\ t \in due[n] /\ \A u \in due[n] : t <= u
  /\ due' = [due EXCEPT ![n] = @ \ {t}]
  /\ \/ run[t] = "absent" /\ Take(n, t, FALSE)
     \/ run[t] # "absent" /\ UNCHANGED <<run, pc, at, recovering>>
  /\ UNCHANGED <<clock, status, now, todo, misses, outcome, seen, faults>>

\* A bug: the status is read again, and the misses of a job paused since are dropped.
RecordSkippedIfActive(n) ==
  /\ pc[n] = "fire" /\ due[n] = {}
  /\ run' = [t \in Occurrences |-> IF t \in misses[n] /\ run[t] = "absent" /\ status = "active"
                                   THEN "unclaimed" ELSE run[t]]
  /\ pc' = [pc EXCEPT ![n] = "rest"]
  /\ DropTick(n)
  /\ UNCHANGED <<clock, status, runVars, seen, faults>>

\* The misses come last, when all that was due has run.
RecordSkipped(n) ==
  /\ pc[n] = "fire" /\ due[n] = {}
  /\ run' = [t \in Occurrences |-> IF t \in misses[n] /\ run[t] = "absent" THEN "unclaimed" ELSE run[t]]
  /\ pc' = [pc EXCEPT ![n] = "rest"]
  /\ DropTick(n)
  /\ UNCHANGED <<clock, status, runVars, seen, faults>>

-----------------------------------------------------------------------------
(* The run of a claimed row.                                                *)

\* The checks and createSession never throw: they answer a session or an error, which
\* may be one that pauses the job.
TryExecute(n) ==
  /\ pc[n] = "run"
  /\ pc' = [pc EXCEPT ![n] = "record"]
  /\ \/ /\ outcome' = [outcome EXCEPT ![n] = "session"]
        /\ fired' = [fired EXCEPT ![at[n]] = @ + 1]
     \/ /\ \E e \in {"error", "pausing"} : outcome' = [outcome EXCEPT ![n] = e]
        /\ UNCHANGED fired
  /\ UNCHANGED <<clock, status, run, tickVars, at, recovering, cut, faults>>

\* The outcome is written and stamps triggered_at.
RecordOutcome(n) ==
  /\ pc[n] = "record"
  /\ run' = [run EXCEPT ![at[n]] = "triggered"]
  /\ pc' = [pc EXCEPT ![n] = IF outcome[n] = "pausing" THEN "pause" ELSE "finish"]
  /\ outcome' = [outcome EXCEPT ![n] = "none"]
  /\ UNCHANGED <<clock, status, tickVars, at, recovering, seen, faults>>


AutoPause(n) ==
  /\ pc[n] = "pause"
  /\ status' = IF status = "active" THEN "paused" ELSE status
  /\ pc' = [pc EXCEPT ![n] = "finish"]
  /\ UNCHANGED <<clock, run, tickVars, runVars, seen, faults>>

\* What a node keeps of a run that is over.
Forget(n) ==
  /\ at' = [at EXCEPT ![n] = 0]
  /\ recovering' = [recovering EXCEPT ![n] = FALSE]
  /\ outcome' = [outcome EXCEPT ![n] = "none"]

\* A one-shot job is archived, and the loop the run was for goes on.
Finish(n) ==
  /\ pc[n] = "finish"
  /\ status' = IF OneShot /\ status = "active" THEN "archived" ELSE status
  /\ pc' = [pc EXCEPT ![n] = IF recovering[n] THEN "recover" ELSE "fire"]
  /\ Forget(n)
  /\ UNCHANGED <<clock, run, tickVars, seen, faults>>

-----------------------------------------------------------------------------
(* Failures.                                                                *)

CutShort(n) == cut' = IF pc[n] = "record" THEN [cut EXCEPT ![at[n]] = @ + 1] ELSE cut

Fault == faults < MaxFaults /\ faults' = faults + 1

\* A write fails during the run of a recovered row: the row is to be released.
RunFails(n) ==
  /\ pc[n] \in {"record", "pause", "finish"} /\ recovering[n] /\ Fault
  /\ CutShort(n)
  /\ pc' = [pc EXCEPT ![n] = "release"]
  /\ UNCHANGED <<clock, status, run, tickVars, runVars, fired>>

ReleaseStamped(n) ==
  /\ pc[n] = "release"
  /\ run' = [run EXCEPT ![at[n]] = "unclaimed"]
  /\ pc' = [pc EXCEPT ![n] = "recover"]
  /\ Forget(n)
  /\ UNCHANGED <<clock, status, tickVars, seen, faults>>

Release(n) ==
  /\ pc[n] = "release"
  /\ run' = [run EXCEPT ![at[n]] = IF @ = "triggered" THEN @ ELSE "unclaimed"]
  /\ pc' = [pc EXCEPT ![n] = "recover"]
  /\ Forget(n)
  /\ UNCHANGED <<clock, status, tickVars, seen, faults>>

\* Any other failed query ends the tick of this one job, and so does the node's death,
\* which ticks again after its restart: what was due and missed is forgotten.
TickFails(n) ==
  /\ pc[n] # "rest" /\ Fault
  /\ pc' = [pc EXCEPT ![n] = "rest"]
  /\ CutShort(n) /\ DropTick(n) /\ Forget(n)
  /\ UNCHANGED <<clock, status, run, fired>>

-----------------------------------------------------------------------------

Owner == Pause \/ Unpause \/ Archive

Sweep(n) ==
  \/ TickStart(n) \/ Scan(n) \/ (\E t \in Occurrences : Recover(n, t))
  \/ ListActiveJobs(n) \/ (\E t \in Occurrences : FireOccurrence(n, t)) \/ RecordSkipped(n)

Execution(n) == TryExecute(n) \/ RecordOutcome(n) \/ AutoPause(n) \/ Finish(n) \/ Release(n)

Failure(n) == RunFails(n) \/ TickFails(n)

CronNext ==
  \/ Advance \/ Owner
  \/ \E t \in Occurrences : LeaseLapses(t)
  \/ \E n \in Nodes : Sweep(n) \/ Execution(n) \/ Failure(n)

\* A live node's loop re-arms itself after every tick, a dead one's after its
\* restart, and its awaits settle; a lease nobody renews runs out.
Fairness ==
  /\ \A n \in Nodes : WF_cronVars(Sweep(n) \/ Execution(n))
  /\ \A t \in Occurrences : WF_cronVars(LeaseLapses(t))

CronSpec == CronInit /\ [][CronNext]_cronVars

FairSpec == CronSpec /\ Fairness

-----------------------------------------------------------------------------
(* Properties.                                                              *)

(* Two live nodes never run one occurrence at a time, whatever the scan of  *)
(* one of them saw before the other took, renewed or gave up the claim      *)
(* (tick.ts: only the node whose UPDATE returns the row executes it).       *)
OneExecutor ==
  \A m, n \in Nodes :
    m # n /\ pc[m] \in Holding /\ pc[n] \in Holding => at[m] # at[n]

(* An occurrence gets a second session only for each run that died between  *)
(* creating its session and recording it: at-least-once, and no more often  *)
(* than the failures make it (tick.ts: cannot double-fire).                 *)
NoDoubleFire == \A t \in Occurrences : fired[t] <= 1 + cut[t]

(* The cursor never passes an occurrence for good: while nothing fails, one *)
(* below it without a row is in some tick's hands, to be fired or recorded  *)
(* as skipped, whatever other nodes record and pauses come between.         *)
NoMissForgotten ==
  faults = 0 =>
    \A t \in Occurrences : run[t] = "absent" /\ ~Beyond(t) =>
      \E n \in Nodes : t \in due[n] \cup misses[n]

(* A run cut short is run again while its occurrence is inside the window:  *)
(* with the clock at rest, an untriggered row of the window is triggered.   *)
InterruptedRunsAgain ==
  \A t \in Occurrences : t >= MaxTime - CatchUp =>
    (run[t] \in {"unclaimed", "claimed", "stale"} ~> run[t] = "triggered")
=============================================================================
