---------------------------- MODULE MCScheduler ----------------------------
(***************************************************************************)
(* Scheduler with two nodes, so that an old leader and a new one trigger   *)
(* the same window, and two window numbers.                                *)
(***************************************************************************)
EXTENDS Scheduler
=============================================================================
