-------------------------------- MODULE Menu --------------------------------
(***************************************************************************)
(* The MenuModal of rmpc/src/ui/modals/menu: sections one below the other, *)
(* each with a selection of its own, and one highlight that is to walk     *)
(* through all of them.                                                    *)
(*                                                                         *)
(* A menu is a record of its sections and the current one.  The sections   *)
(* of a list and of a select behave alike; an input section is one row.    *)
(***************************************************************************)
EXTENDS Integers, SequencesExt, FiniteSetsExt

Unselected == -1

Section(kind, len) == [kind |-> kind, len |-> len, sel |-> Unselected]
Items(s) == 0..(s.len - 1)

-----------------------------------------------------------------------------
(* Sections.  A list without items neither takes the highlight nor passes  *)
(* it on.                                                                  *)

Go(s, row) == [s EXCEPT !.sel = row]
Unselect(s) == Go(s, Unselected)

StepFrom(s, first, next, last) ==
    IF s.kind = "list" /\ s.len = 0 /\ s.sel = Unselected THEN [section |-> s, stays |-> TRUE]
    ELSE IF s.sel = Unselected THEN [section |-> Go(s, first), stays |-> TRUE]
    ELSE IF s.sel = last THEN [section |-> Unselect(s), stays |-> FALSE]
    ELSE [section |-> Go(s, next), stays |-> TRUE]

LastItem(s) == IF s.len = 0 THEN 0 ELSE s.len - 1
Down(s) == StepFrom(s, 0, s.sel + 1, LastItem(s))
Up(s)   == StepFrom(s, LastItem(s), s.sel - 1, 0)

-----------------------------------------------------------------------------
(* The menu.                                                               *)

Current(m) == m.sections[m.cur]
Put(m, i, s) == [m EXCEPT !.sections[i] = s]

\* The highlight starts in the first section that has items.
NewMenu(sections) ==
    LET full == {i \in DOMAIN sections : sections[i].len > 0}
        cur  == IF full = {} THEN 1 ELSE Min(full)
    IN  [sections |-> [sections EXCEPT ![cur] = Down(@).section], cur |-> cur]

Walk(m, step(_), cur) ==
    LET n == Put(m, m.cur, step(Current(m)).section)
    IN  IF step(Current(m)).stays THEN n
        ELSE [Put(n, cur, step(n.sections[cur]).section) EXCEPT !.cur = cur]

After(m, i)  == (i % Len(m.sections)) + 1
Before(m, i) == IF i = 1 THEN Len(m.sections) ELSE i - 1
NextItem(m) == Walk(m, Down, After(m, m.cur))
PrevItem(m) == Walk(m, Up, Before(m, m.cur))

\* Seeded fault: the selection of the other section stays.
HighlightKeeping(m, i, row) == [Put(m, i, Go(m.sections[i], row)) EXCEPT !.cur = i]

\* Straight to an item, by key, click or search.
Highlight(m, i, row) ==
    LET n == IF i = m.cur THEN m ELSE Put(m, m.cur, Unselect(Current(m)))
    IN  [Put(n, i, Go(n.sections[i], row)) EXCEPT !.cur = i]

TopItem(m) == Highlight(m, 1, 0)
BottomItem(m) == Highlight(m, Len(m.sections), LastItem(Last(m.sections)))

\* The search: hits are the pairs of a section and an item that match.
InOrder(h, g) == h[1] < g[1] \/ (h[1] = g[1] /\ h[2] < g[2])
FirstHit(hits) == CHOOSE h \in hits : \A g \in hits : h = g \/ InOrder(h, g)
LastHit(hits)  == CHOOSE h \in hits : \A g \in hits : h = g \/ InOrder(g, h)

Ahead(m, hits)  == {h \in hits : InOrder(<<m.cur, Current(m).sel>>, h)}
Behind(m, hits) == {h \in hits : InOrder(h, <<m.cur, Current(m).sel>>)}

FirstResult(m, hits) ==
    IF hits = {} THEN m ELSE Highlight(m, FirstHit(hits)[1], FirstHit(hits)[2])

\* On from the highlight, and round.
NextResult(m, hits) ==
    FirstResult(m, IF Ahead(m, hits) # {} THEN Ahead(m, hits) ELSE hits)

\* Without a highlight the search begins at the end of the section.
PrevResult(m, hits) ==
    LET from == IF Current(m).sel = Unselected THEN Go(Current(m), Current(m).len)
                ELSE Current(m)
        behind == Behind(Put(m, m.cur, from), hits)
        hit == LastHit(IF behind # {} THEN behind ELSE hits)
    IN  IF hits = {} THEN m ELSE Highlight(m, hit[1], hit[2])

\* One item is highlighted, in the current section and no other; in a section
\* without items there may be none.
IsHighlighted(m) ==
    /\ \A i \in DOMAIN m.sections : i # m.cur => m.sections[i].sel = Unselected
    /\ Current(m).len > 0 => Current(m).sel \in Items(Current(m))
=============================================================================
