------------------------------ MODULE MCBrowser ------------------------------
(* Model values for Browser: no container; one with two songs; and two, the first of     *)
(* them empty and the second with one of those songs.                                  *)
EXTENDS Browser

CONSTANTS s1, s2
MCTracks == {s1, s2}
MCWorlds == {<<>>, 2 :> <<s1, s2>>, <<<<>>, <<s2>>>>}
=============================================================================
