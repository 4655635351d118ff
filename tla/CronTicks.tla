------------------------------ MODULE CronTicks ------------------------------
(***************************************************************************)
(* The cursor of a cron job: every tick enumerates what is due since the   *)
(* last recorded occurrence, or since the job was created, and records it. *)
(* Scheduler has the claims, nodes and failures; here one node ticks at    *)
(* arbitrary times and nothing fails.                                      *)
(***************************************************************************)
EXTENDS CronSchedule

CONSTANTS
  Exprs, Zones, Creations,  \* expressions, zones and times of creation tried
  MaxGap,                   \* bound: minutes between two ticks
  End                       \* bound: the clock stops here

VARIABLES job, clock, recorded
vars == <<job, clock, recorded>>

\* The job service refuses an expression that does not parse.
Init ==
  \E expr \in {e \in Exprs : IsValid(e)}, zone \in Zones, created \in Creations :
    /\ job = [cron |-> ParseCron(expr), zone |-> zone, created |-> created]
    /\ clock = created /\ recorded = {}

Cursor == IF recorded = {} THEN job.created ELSE Max(recorded)

Tick ==
  \E now \in clock + 1..clock + MaxGap :
    /\ now <= End
    /\ clock' = now
    /\ recorded' = recorded \cup EnumerateOccurrences(job.cron, job.zone, Cursor, now)
    /\ UNCHANGED job

Next == Tick
Spec == Init /\ [][Next]_vars

(* A wall time that occurs twice, both times after the creation of the job  *)
(* and by now, has fired twice (nextOccurrence over a fall-back overlap).   *)
RepeatedTimesFireTwice ==
  \A t, u \in InstantsOf(job.cron, job.zone, job.created, clock) :
    t # u /\ WallOf(t, job.zone) = WallOf(u, job.zone) => {t, u} \subseteq recorded
=============================================================================
