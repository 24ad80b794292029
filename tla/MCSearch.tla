------------------------------ MODULE MCSearch ------------------------------
(* Model values for Search: all inputs without the search button, and few with *)
(* it.                                                                         *)
EXTENDS Search

MCConfigs == {[tags |-> <<"title">>, query |-> TRUE, stickers |-> TRUE, strip |-> FALSE,
               button |-> FALSE, fold |-> 1, mode |-> 1, diacritics |-> 1],
              [tags |-> <<"title">>, query |-> FALSE, stickers |-> FALSE, strip |-> TRUE,
               button |-> TRUE, fold |-> 1, mode |-> 0, diacritics |-> 1]}
MCSpins == [rating |-> 2, liked |-> 2, mode |-> 2, fold |-> 2, strip |-> 2]
MCNumbers == {"", "0"}
MCTexts == MCNumbers \union {"x"}
=============================================================================
