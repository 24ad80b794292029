------------------------------- MODULE MCInput -------------------------------
(* Model values for Input: a few keys and sequences, one of them begun by a    *)
(* bound key, and the operators of LineEdit against what they promise.         *)
EXTENDS Input

MCBindings == <<"/">> :> "EnterSearch" @@ <<"r">> :> "Rename" @@ <<"m">> :> "ContextMenu"
              @@ <<"PopLeft">> :> "FocusInput"
              @@ <<"j">> :> "Close" @@ <<"j", "j">> :> "Confirm"

\* All lines of up to three graphemes, and all cursors.
Texts == UNION {[1..n -> {"j", "m", "/"}] : n \in 0..3}
Lines == {[Shown(Line(t), TRUE) EXCEPT !.cursor = c] : t \in Texts, c \in 0..3}

\* Every edit keeps the cursor in the text, what is left of the text stays in
\* order, and a line that is drawn shows its cursor unless the two graphemes
\* from there on do not fit.
ASSUME EditsKeepOrder ==
    \A l \in {k \in Lines : k.cursor <= Len(k.text)}, key \in EditKeys :
        LET e == Edit(l, key)
            cut == Len(l.text) - Len(e.text)
        IN  /\ e.cursor \in 0..Len(e.text)
            /\ \E i \in 0..Len(e.text) : e.text = Without(l.text, i, i + cut)
            /\ WidthOf(Part(e.text, e.cursor, Min({e.cursor + 2, Len(e.text)}))) <= Columns =>
                   LET s == Shown(e, TRUE) IN
                   s.cursor \in s.from..(s.to - IF s.cursor = Len(s.text) THEN 0 ELSE 1)
=============================================================================
