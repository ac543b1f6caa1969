---------------------------- MODULE MCScheduler ----------------------------
(* Scheduler for TLC: j is a job like any other, b has a bad cron expression. *)
EXTENDS Scheduler, TLC

Symmetry == Permutations(Schedulers)

=============================================================================
