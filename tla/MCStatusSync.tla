---------------------------- MODULE MCStatusSync ----------------------------
(***************************************************************************)
(* StatusSync with two songs: with more messages under way when there is no*)
(* visualiser, and with one at a time among its tabs, modals and faults.   *)
(***************************************************************************)
EXTENDS StatusSync
=============================================================================
