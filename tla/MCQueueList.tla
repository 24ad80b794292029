----------------------------- MODULE MCQueueList -----------------------------
(* Model values for QueueList. *)
EXTENDS QueueList

CONSTANTS s1, s2, s3, s4
MCSongs   == {s1, s2, s3, s4}
MCHeights == {1, 3}
MCSymmetry == Permutations(MCSongs)
=============================================================================
