---- MODULE MCCronTicks ----
(* The cursor of a job over a transition of its zone, for TLC. *)
EXTENDS CronTicks, MCCronSchedule
====
