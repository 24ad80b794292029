-------------------------------- MODULE Lists --------------------------------
(***************************************************************************)
(* The scrolling list behind every pane and modal of rmpc:                 *)
(* DirState of rmpc/src/ui/dirstack/state.rs and the searches of Dir.      *)
(*                                                                         *)
(* A list is a record: sel, the selected row; off, the first row drawn;    *)
(* len and view, the numbers of items and of rows on screen the list was   *)
(* last told; marked, the marked rows.  Rows count from 0; sel, len and    *)
(* view are Options.  so is the configured scrolloff.                      *)
(***************************************************************************)
EXTENDS Integers, FiniteSets

CONSTANT UsizeMax    \* the largest usize

None == -1

Option(S) == S \union {None}
OrZero(n) == IF n = None THEN 0 ELSE n
SatSub(a, b) == IF a > b THEN a - b ELSE 0
AtMost(a, b) == IF a < b THEN a ELSE b
Least(S) == CHOOSE x \in S : \A y \in S : x <= y
Greatest(S) == CHOOSE x \in S : \A y \in S : x >= y

List == [sel : Option(Nat), off : Nat, len : Option(Nat), view : Option(Nat),
         marked : SUBSET Nat]

NewList == [sel |-> None, off |-> 0, len |-> None, view |-> None, marked |-> {}]

MaxOffset(l) == SatSub(OrZero(l.len), OrZero(l.view))

-----------------------------------------------------------------------------
(* Selecting a row.                                                        *)

\* ratatui forgets the offset when nothing is selected.
SelectScrolling(l, idx) ==
    [l EXCEPT !.sel = idx, !.off = IF idx = None THEN 0 ELSE @]

\* Seeded fault: one row too late.
LastCalmRowLate(l, so) == SatSub(l.off + OrZero(l.view), so)

\* The last row that may be selected without scrolling down.
LastCalmRow(l, so) == SatSub(l.off + OrZero(l.view), so + 1)

CentredOffset(l) ==
    AtMost(SatSub(OrZero(l.sel), OrZero(l.view) \div 2), MaxOffset(l))

ScrolledOffset(l, so) ==
    LET row == OrZero(l.sel) IN
    IF row > LastCalmRow(l, so)
    THEN AtMost(l.off + row - LastCalmRow(l, so), MaxOffset(l))
    ELSE IF row < l.off + so THEN SatSub(l.off, l.off + so - row) ELSE l.off

ApplyScrolloff(l, so) ==
    [l EXCEPT !.off = IF 2 * so >= OrZero(l.view) THEN CentredOffset(l)
                                                  ELSE ScrolledOffset(l, so)]

Clamped(l, idx) ==
    IF idx = None THEN None ELSE AtMost(idx, SatSub(OrZero(l.len), 1))

Select(l, idx, so) == ApplyScrolloff(SelectScrolling(l, Clamped(l, idx)), so)

\* select(Some(0)) of a list that has no length yet.
Started(l) == Select(l, 0, 0)

-----------------------------------------------------------------------------
(* What the owner tells the list.                                          *)

SetLens(l, len, view) ==
    [l EXCEPT !.len = len, !.view = view, !.off = AtMost(@, SatSub(len, view))]

SetLen(l, len) ==
    IF len # None /\ l.view # None THEN SetLens(l, len, l.view)
    ELSE [l EXCEPT !.len = len]

SetView(l, view) ==
    IF l.len # None /\ view # None THEN SetLens(l, l.len, view)
    ELSE [l EXCEPT !.view = view]

-----------------------------------------------------------------------------
(* Moving the cursor.                                                      *)

SelectFirst(l) == Select(l, IF OrZero(l.len) > 0 THEN 0 ELSE None, 0)
SelectLast(l)  == Select(l, IF OrZero(l.len) > 0 THEN l.len - 1 ELSE None, 0)

\* Where the cursor enters a list that has none.
Entry(l, row) == IF l.len > 0 THEN row ELSE None

NextRow(l, wrap) ==
    IF l.sel = None THEN Entry(l, 0)
    ELSE IF wrap /\ l.sel >= SatSub(l.len, 1) THEN 0
    ELSE IF ~wrap /\ l.sel = SatSub(l.len, 1) THEN l.sel ELSE l.sel + 1

PrevRow(l, wrap) ==
    IF l.sel = None THEN Entry(l, SatSub(l.len, 1))
    ELSE IF wrap /\ l.sel = 0 THEN SatSub(l.len, 1) ELSE SatSub(l.sel, 1)

\* Without a length the wrapping moves unselect, the others do nothing.
Unmeasured(l, wrap, so) == IF wrap THEN Select(l, None, so) ELSE l

NextOf(l, so, wrap) ==
    IF l.len = None THEN Unmeasured(l, wrap, so) ELSE Select(l, NextRow(l, wrap), so)
PrevOf(l, so, wrap) ==
    IF l.len = None THEN Unmeasured(l, wrap, so) ELSE Select(l, PrevRow(l, wrap), so)

\* Half pages and pages; a list that is not measured or has no cursor unselects.
Measured(l) == l.len # None /\ l.view # None
JumpDown(l, rows, so) ==
    Select(l, IF Measured(l) /\ l.sel # None
              THEN AtMost(l.sel + rows, SatSub(l.len, 1)) ELSE None, so)
JumpUp(l, rows, so) ==
    Select(l, IF Measured(l) /\ l.sel # None THEN SatSub(l.sel, rows) ELSE None, so)

NextHalfViewport(l, so) == JumpDown(l, OrZero(l.view) \div 2, so)
PrevHalfViewport(l, so) == JumpUp(l, OrZero(l.view) \div 2, so)
NextViewport(l, so)     == JumpDown(l, OrZero(l.view), so)
PrevViewport(l, so)     == JumpUp(l, OrZero(l.view), so)

-----------------------------------------------------------------------------
(* Scrolling without moving the cursor, which follows when it would leave  *)
(* the screen.                                                             *)

\* offset + viewport_len - scrolloff - 1 in usize, without overflow checks.
WrappingSub(a, b) == (a - b) % (UsizeMax + 1)

ClampToOffset(l, so) ==
    IF l.view = None \/ l.sel = None THEN l
    ELSE IF l.sel > LastCalmRow(l, so)
    THEN Select(l, WrappingSub(l.off + l.view, so + 1), so)
    ELSE IF l.sel < l.off + so THEN Select(l, l.off + so, so) ELSE l

ScrollTop(l, off, so) == ClampToOffset([l EXCEPT !.off = off], so)

ScrollUp(l, amount, so) ==
    IF l.len = None \/ l.off = 0 THEN l ELSE ScrollTop(l, SatSub(l.off, amount), so)

ScrollDown(l, amount, so) ==
    LET off == AtMost(l.off + amount, MaxOffset(l)) IN
    IF ~Measured(l) \/ off = l.off THEN l ELSE ScrollTop(l, off, so)

\* The scrollbar at part of steps of its height.
ScrollTo(l, part, steps, so) ==
    IF Measured(l) THEN ScrollTop(l, (part * MaxOffset(l)) \div steps, so) ELSE l

\* The row of the screen the cursor is scrolled to.
TargetRow(l, place, so) ==
    IF 2 * so >= l.view \/ place = "middle" THEN l.view \div 2
    ELSE IF place = "top" THEN so ELSE SatSub(l.view, so + 1)

ScrollFocusedTo(l, place, so) ==
    IF l.sel = None \/ ~Measured(l) THEN l
    ELSE [l EXCEPT !.off = AtMost(SatSub(l.sel, TargetRow(l, place, so)), MaxOffset(l))]

\* The item drawn at a row of the screen.
AtRenderedRow(l, row) == IF l.len # None /\ row + l.off < l.len THEN row + l.off ELSE None

-----------------------------------------------------------------------------
(* Marks.                                                                  *)

UnmarkAll(l) == [l EXCEPT !.marked = {}]
Toggled(S, x) == IF x \in S THEN S \ {x} ELSE S \union {x}
ToggleMark(l, row) == [l EXCEPT !.marked = Toggled(@, row)]
ToggleMarkSelected(l) == IF l.sel = None THEN l ELSE ToggleMark(l, l.sel)

InvertMarked(l) ==
    IF l.len = None THEN l ELSE [l EXCEPT !.marked = (0..(l.len - 1)) \ @]

-----------------------------------------------------------------------------
(* The filter of Dir: n items, of which the rows in matching match.        *)

JumpFirst(l, matching, so) ==
    IF matching = {} THEN l ELSE Select(l, Least(matching), so)

\* Forwards from the row after the cursor, which itself is not tried.
JumpNext(l, n, matching, so) ==
    LET steps == {k \in 1..(n - 1) : (l.sel + k) % n \in matching} IN
    IF l.sel = None \/ steps = {} THEN l
    ELSE Select(l, (l.sel + Least(steps)) % n, so)

\* Backwards, the row of the cursor last.
JumpPrevious(l, n, matching, so) ==
    LET steps == {k \in 0..(n - 1) : (l.sel + k) % n \in matching} IN
    IF l.sel = None \/ steps = {} THEN l
    ELSE Select(l, (l.sel + Greatest(steps)) % n, so)

-----------------------------------------------------------------------------
(* What a list promises.                                                   *)

\* The cursor is on an item, on screen, and the screen ends with the last item.
CursorShown(l) ==
    /\ l.sel # None => l.sel <= SatSub(OrZero(l.len), 1)
    /\ Measured(l) => l.off <= MaxOffset(l)
    /\ Measured(l) /\ l.sel # None /\ l.view > 0 => l.sel \in l.off..(l.off + l.view - 1)

\* so rows are shown above and below the cursor, or the list ends there.
Margin(l, so) ==
    /\ l.off = 0 \/ l.off + so <= l.sel
    /\ l.off >= MaxOffset(l) \/ l.sel + so < l.off + l.view
=============================================================================
