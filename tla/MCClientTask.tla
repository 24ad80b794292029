---------------------------- MODULE MCClientTask ----------------------------
(***************************************************************************)
(* ClientTask on small instances: the invariants the threads rely on, the  *)
(* contract of RequestService, and what must eventually happen.            *)
(***************************************************************************)
EXTENDS ClientTask
=============================================================================
