----------------------------- MODULE MCScheduler -----------------------------
(* Small instances of Scheduler.                                           *)
EXTENDS Scheduler

CONSTANTS x1, x2, x3
=============================================================================
