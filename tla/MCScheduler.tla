---- MODULE MCScheduler ----
(* The scheduler of two nodes, for TLC, over times cron.ts enumerates. *)
EXTENDS Scheduler, MCCronSchedule

CONSTANTS n1, n2

(* The times of the run are those of a job created at instant 40.           *)
ASSUME OccurrencesOfCron ==
  LET cron == ParseCron(At(FromTo(1, 2), Every(1)))
  IN Occurrences = {t - 40 : t \in EnumerateOccurrences(cron, Forward, 40, 40 + MaxTime)}
====
