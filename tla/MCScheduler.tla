---------------------------- MODULE MCScheduler ----------------------------
(* Small instances of Scheduler.                                           *)
EXTENDS Scheduler, TLC

Mixed  == {2, 3}
=============================================================================
