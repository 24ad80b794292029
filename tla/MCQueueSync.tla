---------------------------- MODULE MCQueueSync ----------------------------
(***************************************************************************)
(* QueueSync for TLC.  Four songs are the fewest with which one MoveUp     *)
(* moves two separate blocks, so that its handler interleaves with the     *)
(* client; three are enough for a reconnect to drop a move.                *)
(***************************************************************************)
EXTENDS QueueSync

CONSTANTS a, b, c, d

ThreeSongs == {a, b, c}
FourSongs  == {a, b, c, d}
=============================================================================
