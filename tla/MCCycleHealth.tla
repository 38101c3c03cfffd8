---------------------------- MODULE MCCycleHealth ----------------------------
(* The cycle-health source on a short schedule.  *)
EXTENDS CycleHealth
=============================================================================
