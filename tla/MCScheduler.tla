---------------------------- MODULE MCScheduler ----------------------------
(***************************************************************************)
(* Scheduler on a short clock: one id that is replaced and cancelled, one  *)
(* repeated job, delays of one and two ticks.                              *)
(***************************************************************************)
EXTENDS Scheduler

OneOrTwo == {1, 2}
=============================================================================
