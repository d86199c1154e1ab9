---------------------------- MODULE MCScheduler ----------------------------
(***************************************************************************)
(* Scheduler on two meetings and two files.                                *)
(***************************************************************************)
EXTENDS Scheduler

CONSTANTS m1, m2
=============================================================================
