---------------------------- MODULE MCDownloads ----------------------------
(***************************************************************************)
(* Downloads with three ids and a few menus: a lower id can be queued      *)
(* again while a higher one is downloading, and menus can be stale.        *)
(***************************************************************************)
EXTENDS Downloads
=============================================================================
