---------------------------- MODULE MCScheduler ----------------------------
(* Scheduler on small instances: a cron expression is its period. *)
EXTENDS SchedulerInvariant

MCCronNext(c, t) == (t \div c + 1) * c
MCCronPrev(c, t) == (t \div c) * c
=============================================================================
