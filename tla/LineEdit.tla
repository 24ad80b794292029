------------------------------ MODULE LineEdit ------------------------------
(***************************************************************************)
(* The line editor of rmpc/src/ui/input/buffer.rs: what an InputEvent does *)
(* to the text, its cursor and the window of it that is shown.             *)
(*                                                                         *)
(* A text is a sequence of graphemes; their bytes are abstracted from, and *)
(* so is text that joins with its neighbours.  Only letters make words.    *)
(***************************************************************************)
EXTENDS Integers, SequencesExt, FiniteSetsExt

CONSTANTS
    Letters,  \* graphemes that are part of a word
    Others,   \* spaces and punctuation
    Wide,     \* graphemes that take two columns
    Columns   \* how wide the input is drawn

ASSUME LineEditAssumption == Wide \subseteq Letters \union Others /\ Columns \in Nat

Chars == Letters \union Others
Width(c) == IF c \in Wide THEN 2 ELSE 1
WidthOf(text) == FoldLeft(LAMBDA w, c : w + Width(c), 0, text)

Line(text) == [text |-> text, cursor |-> Len(text), from |-> 0, to |-> Len(text)]
EmptyLine == Line(<<>>)

Part(text, from, to) == SubSeq(text, from + 1, to)
Without(text, from, to) == Part(text, 0, from) \o Part(text, to, Len(text))

-----------------------------------------------------------------------------
(* Words.                                                                  *)

IsLetter(text, i) == i \in 0..(Len(text) - 1) /\ text[i + 1] \in Letters
WordStarts(text) == {i \in 0..(Len(text) - 1) : IsLetter(text, i) /\ ~IsLetter(text, i - 1)}
WordEnd(text, i) == Min({j \in i..Len(text) : ~IsLetter(text, j)})

StartsBefore(l) == {i \in WordStarts(l.text) : i < l.cursor}
StartsAfter(l)  == {i \in WordStarts(l.text) : i > l.cursor}
PrevWord(l) == IF StartsBefore(l) = {} THEN 0 ELSE Max(StartsBefore(l))
NextWord(l) == IF StartsAfter(l) = {} THEN Len(l.text) ELSE Min(StartsAfter(l))

\* To the end of the word the cursor is in, or of the next one.
RestOfWord(l) ==
    IF IsLetter(l.text, l.cursor) THEN WordEnd(l.text, l.cursor)
    ELSE IF StartsAfter(l) # {} THEN WordEnd(l.text, NextWord(l)) ELSE Len(l.text)

-----------------------------------------------------------------------------
(* The window.                                                             *)

\* The largest part that fits, from a position to the right or to the left.
FillRight(text, from, cols) ==
    Max({to \in from..Len(text) : WidthOf(Part(text, from, to)) <= cols})
FillLeft(text, to, cols) ==
    Min({from \in 0..to : WidthOf(Part(text, from, to)) <= cols})

Window(l, from, to) == [l EXCEPT !.from = from, !.to = to]

\* After an edit that moved the cursor out of the window.
Follow(l, oldCursor) ==
    IF l.cursor \in l.from..(l.to - 1) THEN l
    ELSE IF oldCursor > l.cursor
    THEN Window(l, l.cursor, FillRight(l.text, l.cursor, Columns))
    ELSE LET to == Min({l.cursor + 1, Len(l.text)})
         IN  Window(l, FillLeft(l.text, to, Columns), to)

\* as_spans.  At the end of an active line a column is kept for the caret.  To
\* the right the window is moved one grapheme further than the cursor needs.
Shown(l, active) ==
    LET cols == Columns - (IF active /\ l.cursor = Len(l.text) THEN 1 ELSE 0)
        from == Min({l.from, Len(l.text)})
    IN  IF cols <= 0 THEN Window(l, 0, 0)
        ELSE IF l.cursor < from
        THEN Window(l, l.cursor, FillRight(l.text, l.cursor, cols))
        ELSE IF l.cursor >= FillRight(l.text, from, cols)
        THEN LET to == Min({l.cursor + 2, Len(l.text)})
             IN  Window(l, FillLeft(l.text, to, cols), to)
        ELSE Window(l, from, FillRight(l.text, from, cols))

-----------------------------------------------------------------------------
(* Edits.                                                                  *)

Cut(l, from, to) == [l EXCEPT !.text = Without(@, from, to), !.cursor = from]
MoveTo(l, to) == [l EXCEPT !.cursor = to]

Pushed(l, c) == [l EXCEPT !.text = Part(@, 0, l.cursor) \o <<c>> \o Part(@, l.cursor, Len(@)),
                          !.cursor = @ + 1]

EditKeys == {"PopLeft", "PopRight", "PopWordLeft", "PopWordRight", "DeleteToStart",
             "DeleteToEnd", "Back", "Forward", "Start", "End", "BackWord", "ForwardWord"}

\* PopWordLeft is about the same word as BackWord.
Edited(l, key) ==
    LET c == l.cursor  end == Len(l.text) IN
    CASE key \in Chars                     -> Pushed(l, key)
      [] key = "PopLeft"                   -> Cut(l, c - 1, c)
      [] key = "PopRight"                  -> Cut(l, c, c + 1)
      [] key = "PopWordLeft"               -> Cut(l, PrevWord(l), c)
      [] key = "PopWordRight"              -> Cut(l, c, RestOfWord(l))
      [] key = "DeleteToStart"             -> Cut(l, 0, c)
      [] key = "DeleteToEnd"               -> Cut(l, c, end)
      [] key = "Back" /\ c > 0             -> MoveTo(l, c - 1)
      [] key = "Forward" /\ c < end        -> MoveTo(l, c + 1)
      [] key = "Start"                     -> MoveTo(l, 0)
      [] key = "End"                       -> MoveTo(l, end)
      [] key = "BackWord"                  -> MoveTo(l, PrevWord(l))
      [] key = "ForwardWord"               -> MoveTo(l, NextWord(l))
      [] OTHER                             -> l

\* What cannot delete anything does not even touch the window.
NoChange(l, key) ==
    \/ l.cursor = 0 /\ key \in {"PopLeft", "PopWordLeft", "DeleteToStart"}
    \/ l.cursor = Len(l.text) /\ key \in {"PopRight", "PopWordRight", "DeleteToEnd"}

Edit(l, key) == IF NoChange(l, key) THEN l ELSE Follow(Edited(l, key), l.cursor)

EditAll(l, keys) ==
    LET after[n \in 0..Len(keys)] == IF n = 0 THEN l ELSE Edit(after[n - 1], keys[n])
    IN  after[Len(keys)]
=============================================================================
