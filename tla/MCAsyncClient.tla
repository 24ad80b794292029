--------------------------- MODULE MCAsyncClient ---------------------------
(***************************************************************************)
(* AsyncClient with both callers: one event or status waiting while more   *)
(* come, a broken connection and a call that is given up.                  *)
(***************************************************************************)
EXTENDS AsyncClient
=============================================================================
