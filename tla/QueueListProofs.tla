-------------------------- MODULE QueueListProofs --------------------------
(***************************************************************************)
(* What TLAPS proves about Lists, Rows, QueueList and Browser, for lists,  *)
(* screens and music collections of any size and any scrolloff.            *)
(*                                                                         *)
(* Of the operators of Lists: whatever is done to a list that shows its    *)
(* cursor, it goes on showing it, and a cursor that has moved keeps its    *)
(* distance from the edges of the screen.                                  *)
(*                                                                         *)
(* Of the queue's table: through every sequence of keys, clicks, resizes   *)
(* and changes of the queue the cursor stays on a row and on screen, a     *)
(* cursor that moves keeps scrolloff, and the wheel goes the way it is     *)
(* turned; until MPD changes the queue the marks stay on the songs that    *)
(* were marked, moves of many rows included.                               *)
(*                                                                         *)
(* Of the browsing panes: once nothing is on its way a pane shows what MPD *)
(* has; left alone it stops asking; listing the playlists anew leaves the  *)
(* cursor on its item; a confirmed deletion takes the chosen songs and no  *)
(* others.                                                                 *)
(***************************************************************************)
EXTENDS QueueList, Browser, TLAPS, WellFoundedInduction, FiniteSetTheorems

-----------------------------------------------------------------------------
(* The operators of Lists.                                                 *)

\* Every set of rows that is not empty has a first one.
LEMMA LeastOfSet ==
    ASSUME NEW S \in SUBSET Nat, S # {}
    PROVE  Least(S) \in S /\ \A x \in S : Least(S) <= x
<1> DEFINE Below == {ss \in Nat \X Nat : ss[1] < ss[2]}
<1>1. IsWellFoundedOn(Below, Nat)  BY NatLessThanWellFounded, Zenon DEF OpToRel
<1>2. PICK x \in S : \A y \in S : ~(<<y, x>> \in Below)
      <2> HIDE DEF Below
      <2> QED  BY <1>1, WFMin
<1>3. \A y \in S : x <= y
      <2> TAKE y \in S
      <2>1. x \in Nat /\ y \in Nat  OBVIOUS
      <2>2. ~(y < x)
            <3>1. y < x => <<y, x>> \in Below  BY <2>1
            <3> QED  BY <1>2, <3>1
      <2> QED  BY <2>1, <2>2
<1> QED  BY <1>3 DEF Least

\* A bounded one also has a last one.
LEMMA GreatestOfSet ==
    ASSUME NEW n \in Nat, NEW S \in SUBSET (0..n), S # {}
    PROVE  Greatest(S) \in S /\ \A x \in S : x <= Greatest(S)
<1> DEFINE T == {n - x : x \in S}
<1>1. T \in SUBSET Nat  OBVIOUS
<1>2. T # {}  OBVIOUS
<1>3. PICK x \in S : Least(T) = n - x
      <2>1. Least(T) \in T  BY <1>1, <1>2, LeastOfSet
      <2> QED  BY <2>1
<1>4. \A y \in S : n - x <= n - y
      <2> TAKE y \in S
      <2>1. n - y \in T  OBVIOUS
      <2> QED  BY <2>1, <1>1, <1>2, <1>3, LeastOfSet
<1>5. \A y \in S : y <= x  BY <1>4
<1> QED  BY <1>5 DEF Greatest

\* Half of the rows, rounded down (state.rs:204, 470).
LEMMA HalfOf == ASSUME NEW n \in Nat
                PROVE  n \div 2 \in Nat /\ 2 * (n \div 2) <= n /\ n <= 2 * (n \div 2) + 1
OBVIOUS

\* The offset fits: whoever selects has measured the list.
Fits(l) == l \in List /\ (Measured(l) => l.off <= MaxOffset(l))

\* The types of the fields, unwrapped or not.
LEMMA Fields ==
    ASSUME NEW l \in List
    PROVE  /\ l.sel \in Option(Nat) /\ l.off \in Nat /\ l.len \in Option(Nat) /\ l.view \in Option(Nat)
           /\ OrZero(l.len) \in Nat /\ OrZero(l.view) \in Nat /\ OrZero(l.sel) \in Nat
           /\ MaxOffset(l) \in Nat
BY DEF List, Option, OrZero, None, MaxOffset, SatSub

\* The selected row is clamped to the last (state.rs:325).
LEMMA SelectedRow ==
    ASSUME NEW l \in List, NEW idx \in Option(Nat)
    PROVE  /\ Clamped(l, idx) \in Option(Nat)
           /\ Clamped(l, idx) # None => Clamped(l, idx) <= SatSub(OrZero(l.len), 1)
           /\ (idx # None => Clamped(l, idx) # None)
BY Fields DEF Clamped, AtMost, SatSub, Option, None

\* What selecting changes before it scrolls: the cursor alone.
LEMMA SelectFields ==
    ASSUME NEW l \in List, NEW idx \in Option(Nat), NEW so \in Nat
    PROVE  LET m == SelectScrolling(l, Clamped(l, idx)) IN
           /\ m \in List /\ m.sel = Clamped(l, idx) /\ m.len = l.len /\ m.view = l.view /\ m.marked = l.marked
           /\ m.off = IF m.sel = None THEN 0 ELSE l.off
BY SelectedRow DEF SelectScrolling, List, None

\* Centring shows the cursor and wastes no rows (state.rs:341-345).
LEMMA CentredShows ==
    ASSUME NEW m \in List, NEW so \in Nat,
           m.sel # None => m.sel <= SatSub(OrZero(m.len), 1)
    PROVE  /\ CentredOffset(m) \in Nat /\ CentredOffset(m) <= MaxOffset(m)
           /\ Measured(m) /\ m.sel # None /\ m.view > 0 =>
                  m.sel \in CentredOffset(m)..(CentredOffset(m) + m.view - 1)
BY Fields, HalfOf DEF CentredOffset, AtMost, SatSub, OrZero, Measured, MaxOffset, Option, None

\* So does scrolling no further than scrolloff asks for (state.rs:346-354).
LEMMA ScrolledShows ==
    ASSUME NEW m \in List, NEW so \in Nat, 2 * so < OrZero(m.view),
           m.sel # None => m.sel <= SatSub(OrZero(m.len), 1),
           Measured(m) => m.off <= MaxOffset(m)
    PROVE  /\ ScrolledOffset(m, so) \in Nat
           /\ Measured(m) => ScrolledOffset(m, so) <= MaxOffset(m)
           /\ Measured(m) /\ m.sel # None /\ m.view > 0 =>
                  m.sel \in ScrolledOffset(m, so)..(ScrolledOffset(m, so) + m.view - 1)
BY Fields DEF ScrolledOffset, LastCalmRow, AtMost, SatSub, OrZero, Measured, MaxOffset, Option, None

\* A centred cursor has more than scrolloff rows around it in a table of more
\* than twice as many.
LEMMA CentredMargin ==
    ASSUME NEW m \in List, NEW so \in Nat, m.sel # None, Measured(m), 2 * so < m.view,
           m.sel <= SatSub(m.len, 1)
    PROVE  LET off == CentredOffset(m) IN
           /\ off = 0 \/ off + so <= m.sel
           /\ off >= MaxOffset(m) \/ m.sel + so < off + m.view
BY Fields, HalfOf DEF CentredOffset, AtMost, SatSub, OrZero, Measured, MaxOffset, Option, None

\* So has a cursor scrolled to with at least that scrolloff.
LEMMA ScrolledMargin ==
    ASSUME NEW m \in List, NEW so \in Nat, NEW k \in Nat, so <= k, m.sel # None, Measured(m),
           2 * k < m.view, m.sel <= SatSub(m.len, 1), m.off <= MaxOffset(m)
    PROVE  LET off == ScrolledOffset(m, k) IN
           /\ off = 0 \/ off + so <= m.sel
           /\ off >= MaxOffset(m) \/ m.sel + so < off + m.view
BY Fields DEF ScrolledOffset, LastCalmRow, AtMost, SatSub, OrZero, Measured, MaxOffset, Option, None

\* The scrolloff so is kept in a table that has the height for it.
Calm(m, so) == m.sel # None /\ m.len # None /\ 2 * so < OrZero(m.view) => Margin(m, so)

\* apply_scrolloff keeps every scrolloff up to the one it is called with.
LEMMA ScrolloffCalms ==
    ASSUME NEW m \in List, NEW so \in Nat, NEW k \in Nat, so <= k,
           m.sel # None => m.sel <= SatSub(OrZero(m.len), 1),
           Measured(m) => m.off <= MaxOffset(m)
    PROVE  Calm(ApplyScrolloff(m, k), so)
<1> DEFINE off == IF 2 * k >= OrZero(m.view) THEN CentredOffset(m) ELSE ScrolledOffset(m, k)
           s == [m EXCEPT !.off = off]
<1>1. s.off = off /\ s.sel = m.sel /\ s.len = m.len /\ s.view = m.view
      BY DEF List
<1>2. SUFFICES ASSUME m.sel # None, m.len # None, 2 * so < OrZero(m.view) PROVE Margin(s, so)
      <2> HIDE DEF s
      <2> QED  BY <1>1 DEF Calm, ApplyScrolloff, s
<1>3. Measured(m) /\ OrZero(m.view) = m.view /\ OrZero(m.len) = m.len
      BY <1>2, Fields DEF Measured, OrZero
<1>4. (off = 0 \/ off + so <= m.sel) /\ (off >= MaxOffset(m) \/ m.sel + so < off + m.view)
      <2>1. 2 * so < m.view /\ m.sel <= SatSub(m.len, 1)  BY <1>2, <1>3
      <2>2. CASE 2 * k >= m.view  BY <1>2, <1>3, <2>1, <2>2, CentredMargin
      <2>3. CASE ~(2 * k >= m.view)
            <3>1. 2 * k < m.view  BY <1>3, <2>3, Fields DEF Measured, Option
            <3> QED  BY <1>2, <1>3, <2>1, <2>3, <3>1, ScrolledMargin
      <2> QED  BY <2>2, <2>3
<1>5. MaxOffset(s) = MaxOffset(m)
      <2> HIDE DEF s
      <2> QED BY <1>1 DEF MaxOffset
<1> HIDE DEF s, off
<1> QED  BY <1>1, <1>4, <1>5 DEF Margin

\* At either end of the list there is nothing to keep.
LEMMA EndsCalm ==
    ASSUME NEW m \in List, CursorShown(m), NEW so \in Nat, m.sel \in {0, SatSub(OrZero(m.len), 1)}
    PROVE  Calm(m, so)
BY Fields DEF CursorShown, Calm, Margin, MaxOffset, Measured, SatSub, OrZero, Option, None

\* apply_scrolloff shows the cursor, and leaves the marks.
LEMMA ScrolloffShows ==
    ASSUME NEW m \in List, NEW so \in Nat,
           m.sel # None => m.sel <= SatSub(OrZero(m.len), 1),
           Measured(m) => m.off <= MaxOffset(m)
    PROVE  /\ ApplyScrolloff(m, so) \in List /\ CursorShown(ApplyScrolloff(m, so))
           /\ ApplyScrolloff(m, so).marked = m.marked
<1> DEFINE off == IF 2 * so >= OrZero(m.view) THEN CentredOffset(m) ELSE ScrolledOffset(m, so)
           s == [m EXCEPT !.off = off]
<1>1. off \in Nat /\ (Measured(m) => off <= MaxOffset(m))
      /\ (Measured(m) /\ m.sel # None /\ m.view > 0 => m.sel \in off..(off + m.view - 1))
      BY CentredShows, ScrolledShows, Fields
<1>2. s \in List /\ s.off = off /\ s.sel = m.sel /\ s.len = m.len /\ s.view = m.view /\ s.marked = m.marked
      BY <1>1 DEF List
<1>3. CursorShown(s)
      <2> HIDE DEF off, s
      <2> QED  BY <1>1, <1>2 DEF CursorShown, Measured, MaxOffset
<1> QED  BY <1>2, <1>3 DEF ApplyScrolloff

\* select shows the cursor it sets, keeps scrolloff and leaves the marks.
LEMMA SelectShows ==
    ASSUME NEW l, Fits(l), NEW idx \in Option(Nat), NEW so \in Nat
    PROVE  /\ Select(l, idx, so) \in List /\ CursorShown(Select(l, idx, so))
           /\ Select(l, idx, so).marked = l.marked
           /\ \A calm \in 0..so : Calm(Select(l, idx, so), calm)
<1> DEFINE m == SelectScrolling(l, Clamped(l, idx))
<1>0. l \in List  BY DEF Fits
<1>1. /\ m \in List /\ m.sel = Clamped(l, idx) /\ m.len = l.len /\ m.view = l.view /\ m.marked = l.marked
      /\ m.off = IF m.sel = None THEN 0 ELSE l.off
      BY <1>0, SelectFields
<1>2. m.sel # None => m.sel <= SatSub(OrZero(m.len), 1)  BY <1>0, <1>1, SelectedRow
<1>3. Measured(m) => m.off <= MaxOffset(m)
      <2> HIDE DEF m
      <2> QED  BY <1>0, <1>1, Fields DEF Fits, Measured, MaxOffset
<1>4. Select(l, idx, so) = ApplyScrolloff(m, so)  BY DEF Select
<1> HIDE DEF m
<1> QED  BY <1>1, <1>2, <1>3, <1>4, ScrolloffShows, ScrolloffCalms

\* What every operation keeps, and what those that move the cursor with a
\* scrolloff of at least so do.
Shows(l) == l \in List /\ CursorShown(l)
Keeps(l, m, so) == Shows(m) /\ (m.sel \notin {l.sel, None} => Calm(m, so))

\* A list that shows its cursor has an offset that fits.
LEMMA ShowsFits == ASSUME NEW l, Shows(l) PROVE Fits(l)
BY DEF Shows, Fits, CursorShown

\* Selecting any row, or none, with at least scrolloff so.
LEMMA SelectKeeps ==
    ASSUME NEW l, NEW m, Fits(m), NEW idx \in Option(Nat), NEW so \in Nat, NEW k \in Nat, so <= k
    PROVE  Keeps(l, Select(m, idx, k), so)
BY SelectShows DEF Shows, Keeps

\* Only the marks are touched.
LEMMA MarksKeep ==
    ASSUME NEW l, Shows(l), NEW S \in SUBSET Nat
    PROVE  Shows([l EXCEPT !.marked = S])
<1> DEFINE m == [l EXCEPT !.marked = S]
<1>1. m \in List /\ m.sel = l.sel /\ m.off = l.off /\ m.len = l.len /\ m.view = l.view
      BY DEF Shows, List
<1> HIDE DEF m
<1>2. CursorShown(m)
      BY <1>1 DEF Shows, CursorShown, Measured, MaxOffset
<1> QED  BY <1>1, <1>2 DEF Shows, m

\* So they are for what an operation leaves behind.
LEMMA MarkedKeeps ==
    ASSUME NEW l, NEW m, NEW so \in Nat, Keeps(l, m, so), NEW S \in SUBSET Nat
    PROVE  Keeps(l, [m EXCEPT !.marked = S], so)
<1> DEFINE t == [m EXCEPT !.marked = S]
<1>1. Shows(t)  BY MarksKeep DEF Keeps
<1>2. t.sel = m.sel /\ t.off = m.off /\ t.len = m.len /\ t.view = m.view
      BY DEF Keeps, Shows, List
<1> HIDE DEF t
<1>3. Calm(m, so) => Calm(t, so)  BY <1>2 DEF Calm, Margin, MaxOffset
<1>4. m.sel \notin {l.sel, None} => Calm(m, so)  BY DEF Keeps
<1>5. Keeps(l, t, so)  BY <1>1, <1>2, <1>3, <1>4 DEF Keeps
<1> QED  BY <1>5 DEF t

\* Measuring clamps the offset, and may leave the cursor behind the last row:
\* whoever measures selects (state.rs:50-69).
LEMMA SetLensFits ==
    ASSUME NEW l \in List, NEW len \in Nat, NEW view \in Nat
    PROVE  Fits(SetLens(l, len, view)) /\ SetLens(l, len, view).sel \in Option(Nat)
<1> DEFINE m == SetLens(l, len, view)
<1>1. AtMost(l.off, SatSub(len, view)) \in Nat /\ AtMost(l.off, SatSub(len, view)) <= SatSub(len, view)
      BY Fields DEF AtMost, SatSub
<1>2. m \in List /\ m.off = AtMost(l.off, SatSub(len, view)) /\ m.len = len /\ m.view = view /\ m.sel = l.sel
      BY <1>1 DEF SetLens, List, Option
<1> HIDE DEF m
<1>3. MaxOffset(m) = SatSub(len, view)  BY <1>2 DEF MaxOffset, OrZero, None
<1> QED  BY <1>1, <1>2, <1>3, Fields DEF Fits, m

\* first and last pass no scrolloff, and need none (state.rs:95-113).
LEMMA FirstLastKeep ==
    ASSUME NEW l, Shows(l), NEW so \in Nat
    PROVE  Keeps(l, SelectFirst(l), so) /\ Keeps(l, SelectLast(l), so)
<1> DEFINE last == IF OrZero(l.len) > 0 THEN l.len - 1 ELSE None
           first == IF OrZero(l.len) > 0 THEN 0 ELSE None
<1>1. /\ first \in Option(Nat) /\ last \in Option(Nat)
      /\ Clamped(l, first) \in {0, None} /\ Clamped(l, last) \in {None, SatSub(OrZero(l.len), 1)}
      BY Fields DEF Shows, OrZero, Option, None, Clamped, AtMost, SatSub
<1>2. ASSUME NEW row \in {first, last}, NEW s, s = Select(l, row, 0)
      PROVE  Keeps(l, s, so)
      <2>1. row \in Option(Nat)  BY <1>1
      <2>2. Shows(s)  BY <1>2, <2>1, SelectShows, ShowsFits DEF Shows
      <2>3. s.sel = Clamped(l, row) /\ s.len = l.len
            <3> HIDE DEF first, last
            <3> QED BY <1>2, <2>1, SelectFields DEF Select, ApplyScrolloff, Shows, List
      <2>4. s.sel # None => s.sel \in {0, SatSub(OrZero(s.len), 1)}  BY <1>1, <2>3
      <2> QED  BY <2>2, <2>4, EndsCalm DEF Keeps, Shows
<1>3. SelectFirst(l) = Select(l, first, 0) /\ SelectLast(l) = Select(l, last, 0)
      BY DEF SelectFirst, SelectLast
<1> HIDE DEF first, last
<1> QED  BY <1>2, <1>3

\* What leaves the cursor on its row has only to show it.
LEMMA StaysKeeps == ASSUME NEW l, NEW m, NEW so, Shows(m), m.sel = l.sel PROVE Keeps(l, m, so)
BY DEF Keeps

\* next and prev, wrapping or not, of a list with a cursor or without.
LEMMA StepKeeps ==
    ASSUME NEW l, Shows(l), NEW so \in Nat, NEW wrap \in BOOLEAN
    PROVE  Keeps(l, NextOf(l, so, wrap), so) /\ Keeps(l, PrevOf(l, so, wrap), so)
<1>1. None \in Option(Nat)  BY DEF Option
<1>2. ASSUME l.len # None PROVE NextRow(l, wrap) \in Option(Nat) /\ PrevRow(l, wrap) \in Option(Nat)
      BY <1>2, Fields DEF Shows, NextRow, PrevRow, Entry, SatSub, Option, None
<1>3. Keeps(l, Unmeasured(l, wrap, so), so)  BY <1>1, SelectKeeps, ShowsFits, StaysKeeps DEF Unmeasured
<1> QED  BY <1>2, <1>3, SelectKeeps, ShowsFits DEF NextOf, PrevOf

\* Jumps by any number of rows.
LEMMA JumpKeeps ==
    ASSUME NEW l, Shows(l), NEW so \in Nat, NEW rows \in Nat
    PROVE  Keeps(l, JumpDown(l, rows, so), so) /\ Keeps(l, JumpUp(l, rows, so), so)
<1>1. None \in Option(Nat)  BY DEF Option
<1>2. ASSUME Measured(l), l.sel # None
      PROVE  AtMost(l.sel + rows, SatSub(l.len, 1)) \in Option(Nat) /\ SatSub(l.sel, rows) \in Option(Nat)
      BY <1>2, Fields DEF Shows, Measured, AtMost, SatSub, Option, None
<1> QED  BY <1>1, <1>2, SelectKeeps, ShowsFits DEF JumpDown, JumpUp

\* Half pages and pages, up and down (state.rs:201-255).
LEMMA PagesKeep ==
    ASSUME NEW l, Shows(l), NEW so \in Nat
    PROVE  /\ Keeps(l, NextHalfViewport(l, so), so) /\ Keeps(l, PrevHalfViewport(l, so), so)
           /\ Keeps(l, NextViewport(l, so), so) /\ Keeps(l, PrevViewport(l, so), so)
<1>1. OrZero(l.view) \in Nat  BY Fields DEF Shows
<1>2. OrZero(l.view) \div 2 \in Nat  BY <1>1, HalfOf
<1> QED  BY <1>1, <1>2, JumpKeeps DEF NextHalfViewport, PrevHalfViewport, NextViewport, PrevViewport

\* The cursor follows the offset.
LEMMA ScrollTopKeeps ==
    ASSUME NEW l, Shows(l), NEW off \in Nat, NEW so \in Nat, UsizeMax \in Nat,
           Measured(l) => off <= MaxOffset(l)
    PROVE  Keeps(l, ScrollTop(l, off, so), so)
<1> DEFINE m == [l EXCEPT !.off = off]
<1>1. m \in List /\ m.sel = l.sel /\ m.off = off /\ m.len = l.len /\ m.view = l.view
      BY DEF Shows, List
<1>2. ScrollTop(l, off, so) = ClampToOffset(m, so)  BY DEF ScrollTop
<1> HIDE DEF m
<1>3. Fits(m)  BY <1>1 DEF Fits, Measured, MaxOffset
<1>4. m.sel # None => m.sel <= SatSub(OrZero(m.len), 1)  BY <1>1 DEF Shows, CursorShown
<1>5. CASE m.view = None \/ m.sel = None
      <2>1. CursorShown(m)  BY <1>3, <1>4, <1>5 DEF CursorShown, Measured, Fits
      <2> QED  BY <1>1, <1>2, <1>5, <2>1, StaysKeeps DEF ClampToOffset, Shows
<1>6. CASE m.view # None /\ m.sel # None
      <2>1. m.view \in Nat /\ m.sel \in Nat /\ m.off \in Nat  BY <1>1, <1>6, Fields DEF Option
      <2>2. CASE m.sel > LastCalmRow(m, so)
            <3>1. WrappingSub(m.off + m.view, so + 1) \in Option(Nat)
                  BY <2>1 DEF WrappingSub, Option
            <3> QED  BY <1>2, <1>3, <1>6, <2>2, <3>1, SelectKeeps DEF ClampToOffset
      <2>3. CASE ~(m.sel > LastCalmRow(m, so)) /\ m.sel < m.off + so
            <3>1. m.off + so \in Option(Nat)  BY <2>1 DEF Option
            <3> QED  BY <1>2, <1>3, <1>6, <2>3, <3>1, SelectKeeps DEF ClampToOffset
      <2>4. CASE ~(m.sel > LastCalmRow(m, so)) /\ ~(m.sel < m.off + so)
            <3>1. LastCalmRow(m, so) = SatSub(m.off + m.view, so + 1)
                  BY <1>6 DEF LastCalmRow, OrZero
            <3>2. m.view > 0 => m.sel \in m.off..(m.off + m.view - 1)
                  BY <2>1, <2>4, <3>1 DEF SatSub
            <3>3. CursorShown(m)  BY <1>3, <1>4, <3>2 DEF CursorShown, Fits
            <3> QED  BY <1>1, <1>2, <1>6, <2>4, <3>3, StaysKeeps DEF ClampToOffset, Shows
      <2> QED  BY <2>2, <2>3, <2>4
<1> QED  BY <1>5, <1>6

\* The wheel, whatever it scrolls by (state.rs:257-292).
LEMMA WheelKeeps ==
    ASSUME NEW l, Shows(l), NEW amount \in Nat, NEW so \in Nat, UsizeMax \in Nat
    PROVE  Keeps(l, ScrollUp(l, amount, so), so) /\ Keeps(l, ScrollDown(l, amount, so), so)
<1>1. l.off \in Nat /\ MaxOffset(l) \in Nat  BY Fields DEF Shows
<1>2. SatSub(l.off, amount) \in Nat /\ SatSub(l.off, amount) <= l.off
      BY <1>1 DEF SatSub
<1>3. AtMost(l.off + amount, MaxOffset(l)) \in Nat /\ AtMost(l.off + amount, MaxOffset(l)) <= MaxOffset(l)
      BY <1>1 DEF AtMost
<1>4. Measured(l) => SatSub(l.off, amount) <= MaxOffset(l)
      BY <1>1, <1>2 DEF Shows, CursorShown
<1>5. Keeps(l, ScrollUp(l, amount, so), so)  BY <1>2, <1>4, ScrollTopKeeps, StaysKeeps DEF ScrollUp
<1>6. Keeps(l, ScrollDown(l, amount, so), so)  BY <1>3, ScrollTopKeeps, StaysKeeps DEF ScrollDown
<1> QED  BY <1>5, <1>6

\* A wrapped number is at most the number.
LEMMA ModAtMost == ASSUME NEW x \in Nat, NEW n \in Nat, n > 0 PROVE x % n \in Nat /\ x % n <= x
<1>1. x % n \in 0..(n - 1)  OBVIOUS
<1>2. CASE x >= n  BY <1>1, <1>2
<1>3. CASE x < n
      <2>1. x = n * (x \div n) + (x % n)  OBVIOUS
      <2>2. n * (x \div n) \in Nat  OBVIOUS
      <2> QED  BY <1>1, <2>1, <2>2
<1> QED  BY <1>2, <1>3

\* Scrolling up never moves the cursor down, if the table is higher than
\* scrolloff and the cursor not closer to the top (state.rs:306-321).
LEMMA ScrollUpRaises ==
    ASSUME NEW l, Shows(l), NEW amount \in Nat, NEW so \in Nat, UsizeMax \in Nat,
           so < OrZero(l.view), l.off + so <= l.sel
    PROVE  ScrollUp(l, amount, so).sel <= l.sel
<1> DEFINE off == SatSub(l.off, amount)
           m == [l EXCEPT !.off = off]
<1>1. l.off \in Nat /\ l.view \in Nat /\ l.sel \in Nat /\ so < l.view /\ l \in List
      BY Fields DEF Shows, OrZero, Option, None
<1>2. off \in Nat /\ off <= l.off  BY <1>1 DEF SatSub
<1>3. m \in List /\ m.sel = l.sel /\ m.off = off /\ m.len = l.len /\ m.view = l.view
      BY <1>1, <1>2 DEF List
<1> HIDE DEF m, off
<1>4. ASSUME NEW idx \in Nat, idx <= l.sel PROVE Select(m, idx, so).sel <= l.sel
      <2>1. Clamped(m, idx) <= idx  BY <1>3, <1>4, Fields DEF Clamped, AtMost, SatSub, None
      <2>2. Clamped(m, idx) \in Option(Nat)  BY <1>3, SelectedRow DEF Option
      <2>3. Select(m, idx, so).sel = Clamped(m, idx)
            <3>1. idx \in Option(Nat)  BY DEF Option
            <3> QED  BY <1>3, <3>1, SelectFields DEF Select, ApplyScrolloff, List
      <2> QED  BY <1>1, <1>4, <2>1, <2>2, <2>3 DEF Option, None
<1>5. ClampToOffset(m, so).sel <= l.sel
      <2>1. m.view # None /\ m.sel # None  BY <1>1, <1>3 DEF None
      <2>2. CASE m.sel > LastCalmRow(m, so)
            <3> DEFINE to == (off + l.view) - (so + 1)
            <3>1. to \in Nat /\ to = LastCalmRow(m, so)
                  BY <1>1, <1>2, <1>3, <2>1 DEF LastCalmRow, SatSub, OrZero
            <3>2. WrappingSub(m.off + m.view, so + 1) = to % (UsizeMax + 1)
                  BY <1>3 DEF WrappingSub
            <3>3. UsizeMax + 1 \in Nat /\ UsizeMax + 1 > 0  OBVIOUS
            <3> HIDE DEF to
            <3>4. to % (UsizeMax + 1) \in Nat /\ to % (UsizeMax + 1) <= to
                  BY <3>1, <3>3, ModAtMost
            <3>5. to % (UsizeMax + 1) <= l.sel  BY <1>1, <1>3, <2>2, <3>1, <3>4
            <3> QED  BY <1>4, <2>1, <2>2, <3>2, <3>4, <3>5 DEF ClampToOffset
      <2>3. CASE ~(m.sel > LastCalmRow(m, so)) /\ m.sel < m.off + so
            <3>1. FALSE  BY <1>1, <1>2, <1>3, <2>3
            <3> QED  BY <3>1
      <2>4. CASE ~(m.sel > LastCalmRow(m, so)) /\ ~(m.sel < m.off + so)
            BY <1>1, <1>3, <2>1, <2>4 DEF ClampToOffset
      <2> QED  BY <2>2, <2>3, <2>4
<1> QED  BY <1>1, <1>5 DEF ScrollUp, ScrollTop, m, off

\* A click into the scrollbar (state.rs:73-89).
LEMMA ScrollbarKeeps ==
    ASSUME NEW l, Shows(l), NEW part \in 0..2, NEW so \in Nat, UsizeMax \in Nat
    PROVE  Keeps(l, ScrollTo(l, part, 2, so), so)
<1>1. MaxOffset(l) \in Nat  BY Fields DEF Shows
<1>2. (part * MaxOffset(l)) \div 2 \in Nat /\ (part * MaxOffset(l)) \div 2 <= MaxOffset(l)
      <2>1. CASE part = 0  BY <1>1, <2>1
      <2>2. CASE part = 1  BY <1>1, <2>2, HalfOf
      <2>3. CASE part = 2  BY <1>1, <2>3
      <2> QED  BY <2>1, <2>2, <2>3
<1> QED  BY <1>2, ScrollTopKeeps, StaysKeeps DEF ScrollTo

\* Scrolling the row of the cursor to the top, the middle or the bottom
\* (state.rs:294-304, 464-486).
LEMMA ScrollFocusedKeeps ==
    ASSUME NEW l, Shows(l), NEW place, NEW so \in Nat
    PROVE  Keeps(l, ScrollFocusedTo(l, place, so), so)
<1>1. CASE l.sel = None \/ ~Measured(l)  BY <1>1, StaysKeeps DEF ScrollFocusedTo
<1>2. CASE ~(l.sel = None \/ ~Measured(l))
      <2> DEFINE row == TargetRow(l, place, so)
                 off == AtMost(SatSub(l.sel, row), MaxOffset(l))
                 m   == [l EXCEPT !.off = off]
      <2>1. l.view \in Nat /\ l.sel \in Nat /\ l.len \in Nat /\ MaxOffset(l) = SatSub(l.len, l.view)
            /\ l.sel <= SatSub(l.len, 1)
            BY <1>2, Fields DEF Shows, CursorShown, Measured, MaxOffset, OrZero, Option, None
      <2>2. row \in Nat /\ (l.view > 0 => row < l.view)
            BY <2>1, HalfOf DEF TargetRow, SatSub
      <2>3. off \in Nat /\ off <= MaxOffset(l) /\ (l.view > 0 => l.sel \in off..(off + l.view - 1))
            <3> HIDE DEF row
            <3> QED  BY <2>1, <2>2 DEF AtMost, SatSub
      <2>4. m \in List /\ m.sel = l.sel /\ m.off = off /\ m.len = l.len /\ m.view = l.view
            BY <2>3 DEF Shows, List
      <2>5. ScrollFocusedTo(l, place, so) = m  BY <1>2 DEF ScrollFocusedTo
      <2> HIDE DEF m, off
      <2>6. CursorShown(m)  BY <2>3, <2>4 DEF CursorShown, Measured, MaxOffset, Shows
      <2> QED  BY <2>4, <2>5, <2>6, StaysKeeps DEF Shows
<1> QED  BY <1>1, <1>2

\* The searches of a filter, whatever matches (dir.rs:311-366).
LEMMA SearchKeeps ==
    ASSUME NEW l, Shows(l), NEW n \in Nat, NEW matching \in SUBSET (0..(n - 1)), NEW so \in Nat
    PROVE  /\ Keeps(l, JumpFirst(l, matching, so), so)
           /\ Keeps(l, JumpNext(l, n, matching, so), so)
           /\ Keeps(l, JumpPrevious(l, n, matching, so), so)
<1>1. Keeps(l, JumpFirst(l, matching, so), so)
      <2>1. matching \in SUBSET Nat  OBVIOUS
      <2>2. matching # {} => Least(matching) \in Option(Nat)
            BY <2>1, LeastOfSet DEF Option
      <2> QED  BY <2>2, SelectKeeps, ShowsFits, StaysKeeps DEF JumpFirst
<1>2. l.sel # None => l.sel \in Nat  BY Fields DEF Shows, Option
<1>3. Keeps(l, JumpNext(l, n, matching, so), so)
      <2> DEFINE steps == {k \in 1..(n - 1) : (l.sel + k) % n \in matching}
      <2>1. ASSUME l.sel # None, steps # {} PROVE (l.sel + Least(steps)) % n \in Option(Nat)
            <3>1. Least(steps) \in steps  BY <2>1, LeastOfSet
            <3>2. (l.sel + Least(steps)) % n \in matching  BY <3>1
            <3>3. matching \subseteq Nat  OBVIOUS
            <3> HIDE DEF steps
            <3> QED  BY <3>2, <3>3 DEF Option
      <2> QED  BY <2>1, SelectKeeps, ShowsFits, StaysKeeps DEF JumpNext
<1>4. Keeps(l, JumpPrevious(l, n, matching, so), so)
      <2> DEFINE steps == {k \in 0..(n - 1) : (l.sel + k) % n \in matching}
      <2>1. ASSUME l.sel # None, steps # {} PROVE (l.sel + Greatest(steps)) % n \in Option(Nat)
            <3>0. steps \in SUBSET (0..n)  OBVIOUS
            <3>1. Greatest(steps) \in steps  BY <3>0, <2>1, GreatestOfSet
            <3>2. (l.sel + Greatest(steps)) % n \in matching  BY <3>1
            <3>3. matching \subseteq Nat  OBVIOUS
            <3> HIDE DEF steps
            <3> QED  BY <3>2, <3>3 DEF Option
      <2> QED  BY <2>1, SelectKeeps, ShowsFits, StaysKeeps DEF JumpPrevious
<1> QED  BY <1>1, <1>3, <1>4

-----------------------------------------------------------------------------
(* The table of the queue.                                                 *)

\* A sequence of anything.
IsSeq(q) == \E n \in Nat : q = [i \in 1..n |-> q[i]]

IInv == Shows(list) /\ IsSeq(items)

\* What every step does: IInv again, and a cursor it has moved keeps its distance.
Kept == IsSeq(items') /\ Keeps(list, list', Scrolloff)

\* The length of a sequence is a number, and it has so many places.
LEMMA LenIsNat == ASSUME NEW q, IsSeq(q) PROVE Len(q) \in Nat /\ DOMAIN q = 1..Len(q)
<1>1. PICK n \in Nat : q = [i \in 1..n |-> q[i]]  BY DEF IsSeq
<1> DEFINE S == {q[i] : i \in 1..n}
<1>2. q \in [1..n -> S]  BY <1>1
<1>3. q \in Seq(S)  BY <1>2
<1> QED  BY <1>3

\* What MPD sends is a sequence (queue.rs:539-541).
LEMMA QueuesAreSeqs == ASSUME NEW q \in Queues PROVE IsSeq(q)
<1>1. PICK n \in 0..Cardinality(Songs) : q \in [1..n -> Songs]  BY DEF Queues
<1>2. Cardinality(Songs) \in Nat  BY QueueListAssumption, FS_CardinalityType
<1>3. n \in Nat  BY <1>2
<1> QED  BY <1>1, <1>3 DEF IsSeq

\* Swapping two songs keeps the items a sequence.
LEMMA SwappedIsSeq == ASSUME NEW q, NEW i, NEW j, IsSeq(q) PROVE IsSeq(Swapped(q, i, j))
<1>1. PICK n \in Nat : q = [k \in 1..n |-> q[k]]  BY DEF IsSeq
<1>2. DOMAIN q = 1..n  BY <1>1
<1> QED  BY <1>2 DEF IsSeq, Swapped

\* The recursion of Shifted, as far as n rows.
ShiftAfter(q, rows, by, n, f) ==
    [k \in 0..n |-> IF k = 0 THEN q
                    ELSE IF ShiftRow(q, by, k) \in rows
                    THEN Swapped(f[k - 1], ShiftRow(q, by, k) + 1, ShiftRow(q, by, k) + 1 + by)
                    ELSE f[k - 1]]

\* It has a solution for every n.
LEMMA ShiftExists ==
    ASSUME NEW q, NEW rows, NEW by, NEW n \in Nat
    PROVE  \E f : f = ShiftAfter(q, rows, by, n, f)
<1> DEFINE Bad == {m \in Nat : ~ \E f : f = ShiftAfter(q, rows, by, m, f)}
<1> SUFFICES Bad = {}  OBVIOUS
<1> SUFFICES ASSUME Bad # {} PROVE FALSE  OBVIOUS
<1>1. PICK m \in Bad : \A x \in Bad : m <= x
      <2>1. Bad \in SUBSET Nat  OBVIOUS
      <2> HIDE DEF Bad
      <2> QED  BY <2>1, LeastOfSet
<1>2. CASE m = 0
      <2> DEFINE f == [k \in 0..0 |-> q]
      <2>1. f = ShiftAfter(q, rows, by, 0, f)  BY DEF ShiftAfter
      <2> QED  BY <1>2, <2>1
<1>3. CASE m # 0
      <2>1. m \in Nat /\ m - 1 \in Nat /\ ~(m <= m - 1)  BY <1>3
      <2>2. PICK f : f = ShiftAfter(q, rows, by, m - 1, f)  BY <1>1, <2>1
      <2> DEFINE last == IF ShiftRow(q, by, m) \in rows
                         THEN Swapped(f[m - 1], ShiftRow(q, by, m) + 1, ShiftRow(q, by, m) + 1 + by)
                         ELSE f[m - 1]
                 g == [k \in 0..m |-> IF k = m THEN last ELSE f[k]]
      <2>3. \A k \in 0..m : g[k] = ShiftAfter(q, rows, by, m, g)[k]
            <3> TAKE k \in 0..m
            <3>1. CASE k = m
                  <4>1. g[k] = last /\ m - 1 \in 0..m /\ m - 1 # m  BY <3>1, <2>1
                  <4>2. g[m - 1] = f[m - 1]  BY <4>1
                  <4> QED  BY <3>1, <4>1, <4>2, <1>3 DEF ShiftAfter
            <3>2. CASE k # m
                  <4>1. k \in 0..(m - 1) /\ g[k] = f[k]  BY <3>2, <2>1
                  <4>2. f[k] = ShiftAfter(q, rows, by, m - 1, f)[k]  BY <2>2
                  <4>3. k # 0 => k - 1 \in 0..m /\ k - 1 # m  BY <4>1, <2>1
                  <4>4. k # 0 => g[k - 1] = f[k - 1]  BY <4>3
                  <4> HIDE DEF g
                  <4> QED  BY <4>1, <4>2, <4>4 DEF ShiftAfter
            <3> QED  BY <3>1, <3>2
      <2>4. g = ShiftAfter(q, rows, by, m, g)
            <3>1. g = [k \in 0..m |-> g[k]]  OBVIOUS
            <3> HIDE DEF g
            <3> QED  BY <3>1, <2>3 DEF ShiftAfter
      <2> HIDE DEF g
      <2> QED  BY <2>4
<1> QED  BY <1>2, <1>3

\* Shifted is the last value of a solution: f[n] is the list after n rows
\* (queue.rs:927-932, 970-975).
LEMMA ShiftedIsLast ==
    ASSUME NEW q, NEW rows, NEW by, Len(q) \in Nat
    PROVE  \E f : /\ f[0] = q /\ Shifted(q, rows, by) = f[Len(q)]
                  /\ \A n \in 1..Len(q) :
                         f[n] = IF ShiftRow(q, by, n) \in rows
                                THEN Swapped(f[n - 1], ShiftRow(q, by, n) + 1, ShiftRow(q, by, n) + 1 + by)
                                ELSE f[n - 1]
<1> DEFINE after[n \in 0..Len(q)] ==
            IF n = 0 THEN q
            ELSE IF ShiftRow(q, by, n) \in rows
            THEN Swapped(after[n - 1], ShiftRow(q, by, n) + 1, ShiftRow(q, by, n) + 1 + by)
            ELSE after[n - 1]
<1>1. after = ShiftAfter(q, rows, by, Len(q), after)
      <2>1. after = CHOOSE f : f = ShiftAfter(q, rows, by, Len(q), f)  BY DEF ShiftAfter
      <2> HIDE DEF after
      <2> QED  BY <2>1, ShiftExists
<1>2. Shifted(q, rows, by) = after[Len(q)]  BY DEF Shifted
<1> HIDE DEF after
<1>3. \A n \in 0..Len(q) : after[n] = ShiftAfter(q, rows, by, Len(q), after)[n]  BY <1>1
<1>4. after[0] = q  BY <1>3 DEF ShiftAfter
<1>5. ASSUME NEW n \in 1..Len(q)
      PROVE  after[n] = IF ShiftRow(q, by, n) \in rows
                        THEN Swapped(after[n - 1], ShiftRow(q, by, n) + 1, ShiftRow(q, by, n) + 1 + by)
                        ELSE after[n - 1]
      <2>1. n \in 0..Len(q) /\ n # 0  OBVIOUS
      <2> QED  BY <2>1, <1>3 DEF ShiftAfter
<1> QED  BY <1>2, <1>4, <1>5

\* Sequences with the same places have the same length.
LEMMA IntervalsSame == ASSUME NEW a \in Nat, NEW b \in Nat, 1..a = 1..b PROVE a = b
<1>1. a > 0 => a \in 1..b  BY Z3
<1>2. b > 0 => b \in 1..a  BY Z3
<1> QED  BY <1>1, <1>2

\* Two sequences of the same length.
SameLength(q, a) == IsSeq(a) /\ DOMAIN a = DOMAIN q

\* Moving rows leaves a sequence of that length.
LEMMA ShiftedIsSeq ==
    ASSUME NEW q, IsSeq(q), NEW rows, NEW by
    PROVE  IsSeq(Shifted(q, rows, by)) /\ DOMAIN Shifted(q, rows, by) = DOMAIN q
<1>1. Len(q) \in Nat  BY LenIsNat
<1>2. PICK f : /\ f[0] = q /\ Shifted(q, rows, by) = f[Len(q)]
               /\ \A n \in 1..Len(q) :
                      f[n] = IF ShiftRow(q, by, n) \in rows
                             THEN Swapped(f[n - 1], ShiftRow(q, by, n) + 1, ShiftRow(q, by, n) + 1 + by)
                             ELSE f[n - 1]
      BY <1>1, ShiftedIsLast
<1> DEFINE Bad == {n \in Nat : n <= Len(q) /\ ~SameLength(q, f[n])}
<1>3. Bad = {}
      <2> SUFFICES ASSUME Bad # {} PROVE FALSE  OBVIOUS
      <2>1. PICK n \in Bad : \A x \in Bad : n <= x
            <3>1. Bad \in SUBSET Nat  OBVIOUS
            <3> HIDE DEF Bad
            <3> QED  BY <3>1, LeastOfSet
      <2>2. n # 0  BY <1>2 DEF SameLength
      <2>3. n \in 1..Len(q) /\ n - 1 \in Nat /\ n - 1 <= Len(q) /\ ~(n <= n - 1)  BY <1>1, <2>2
      <2>4. SameLength(q, f[n - 1])  BY <2>1, <2>3
      <2>5. SameLength(q, f[n])
            <3>1. ASSUME NEW i, NEW j PROVE SameLength(q, Swapped(f[n - 1], i, j))
                  <4>1. DOMAIN Swapped(f[n - 1], i, j) = DOMAIN f[n - 1]  BY DEF Swapped
                  <4> QED  BY <2>4, <4>1, SwappedIsSeq DEF SameLength
            <3> QED  BY <1>2, <2>3, <2>4, <3>1
      <2> QED  BY <2>5
<1> QED  BY <1>1, <1>2, <1>3 DEF SameLength

\* The swap of two places of a sequence.
LEMMA SwappedPlaces ==
    ASSUME NEW q, IsSeq(q), NEW i \in DOMAIN q, NEW j \in DOMAIN q
    PROVE  LET s == Swapped(q, i, j) IN
           /\ s[i] = q[j] /\ s[j] = q[i]
           /\ \A k \in DOMAIN q : k \notin {i, j} => s[k] = q[k]
           /\ IsInjective(q) => IsInjective(s)
<1> DEFINE s == Swapped(q, i, j)
<1>1. PICK n \in Nat : q = [k \in 1..n |-> q[k]]  BY DEF IsSeq
<1>2. DOMAIN s = DOMAIN q /\ \A k \in DOMAIN q : s[k] = IF k = j THEN q[i] ELSE IF k = i THEN q[j] ELSE q[k]
      BY <1>1 DEF Swapped
<1> HIDE DEF s
<1>3. IsInjective(q) => IsInjective(s)  BY <1>2 DEF IsInjective
<1> QED  BY <1>2, <1>3 DEF s

\* Moving rows by one, none of them out of the list, takes the item of each row
\* along and duplicates none: no swap runs over a row that has been moved
\* (queue.rs:927-932, 970-975, playlists.rs:452).
LEMMA ShiftedMoves ==
    ASSUME NEW q, IsSeq(q), NEW rows \in SUBSET Rows(q), NEW by \in {-1, 1},
           \A r \in rows : r + by \in Rows(q)
    PROVE  LET s == Shifted(q, rows, by) IN
           /\ \A r \in rows : s[r + by + 1] = q[r + 1]
           /\ IsInjective(q) => IsInjective(s)
<1>1. Len(q) \in Nat /\ DOMAIN q = 1..Len(q)  BY LenIsNat
<1>2. PICK f : /\ f[0] = q /\ Shifted(q, rows, by) = f[Len(q)]
               /\ \A n \in 1..Len(q) :
                      f[n] = IF ShiftRow(q, by, n) \in rows
                             THEN Swapped(f[n - 1], ShiftRow(q, by, n) + 1, ShiftRow(q, by, n) + 1 + by)
                             ELSE f[n - 1]
      BY <1>1, ShiftedIsLast
<1> DEFINE Done(r, n) == IF by = 1 THEN r >= Len(q) - n ELSE r < n
           At(r, n) == IF Done(r, n) THEN r + by + 1 ELSE r + 1
           Moved(n) == /\ IsSeq(f[n]) /\ DOMAIN f[n] = DOMAIN q
                       /\ \A r \in rows : f[n][At(r, n)] = q[r + 1]
                       /\ IsInjective(q) => IsInjective(f[n])
           Bad == {n \in Nat : n <= Len(q) /\ ~Moved(n)}
<1>0. \A r \in rows : r \in 0..(Len(q) - 1) /\ r + by \in 0..(Len(q) - 1)  BY DEF Rows
<1>3. Bad = {}
      <2> SUFFICES ASSUME Bad # {} PROVE FALSE  OBVIOUS
      <2>1. PICK n \in Bad : \A x \in Bad : n <= x
            <3>1. Bad \in SUBSET Nat  OBVIOUS
            <3> HIDE DEF Bad
            <3> QED  BY <3>1, LeastOfSet
      <2>2. CASE n = 0
            <3>1. \A r \in rows : ~Done(r, 0)  BY <1>0, <1>1
            <3>2. Moved(0)  BY <1>2, <3>1
            <3> QED  BY <2>2, <3>2
      <2>3. CASE n # 0
            <3> DEFINE m == ShiftRow(q, by, n)
            <3>1. n \in 1..Len(q) /\ n - 1 \in Nat /\ n - 1 <= Len(q) /\ ~(n <= n - 1)  BY <1>1, <2>3
            <3>2. Moved(n - 1)  BY <2>1, <3>1
            <3>3. m \in 0..(Len(q) - 1) /\ m = IF by = 1 THEN Len(q) - n ELSE n - 1
                  BY <1>1, <3>1 DEF ShiftRow
            <3>4. f[n] = IF m \in rows THEN Swapped(f[n - 1], m + 1, m + 1 + by) ELSE f[n - 1]
                  BY <1>2, <3>1
            <3> HIDE DEF m
            <3>5. \A r \in rows : Done(r, n) <=> Done(r, n - 1) \/ r = m  BY <1>0, <1>1, <3>1, <3>3
            <3>6. ~Done(m, n - 1)
                  <4>1. n \in Nat /\ m \in Int  BY <3>1, <3>3
                  <4>2. CASE by = 1  BY <1>1, <4>1, <4>2, <3>3
                  <4>3. CASE by = -1  BY <1>1, <4>1, <4>3, <3>3
                  <4> QED  BY <4>2, <4>3
            <3>7. CASE m \notin rows
                  <4>1. \A r \in rows : At(r, n) = At(r, n - 1)  BY <3>5, <3>7
                  <4> HIDE DEF At
                  <4>2. f[n] = f[n - 1]  BY <3>4, <3>7
                  <4> QED  BY <3>2, <4>1, <4>2
            <3>8. CASE m \in rows
                  <4> DEFINE a == f[n - 1]
                  <4>1. m + 1 \in DOMAIN a /\ m + 1 + by \in DOMAIN a  BY <1>0, <1>1, <3>2, <3>8
                  <4>2. f[n] = Swapped(a, m + 1, m + 1 + by)  BY <3>4, <3>8
                  <4>3. IsSeq(a) /\ DOMAIN a = DOMAIN q /\ (IsInjective(q) => IsInjective(a))  BY <3>2
                  <4>4. \A r \in rows : a[At(r, n - 1)] = q[r + 1]  BY <3>2
                  <4> HIDE DEF a
                  <4>5. IsSeq(f[n]) /\ DOMAIN f[n] = DOMAIN q
                        <5>1. DOMAIN Swapped(a, m + 1, m + 1 + by) = DOMAIN a  BY DEF Swapped
                        <5> QED  BY <4>2, <4>3, <5>1, SwappedIsSeq
                  <4>6. IsInjective(q) => IsInjective(f[n])  BY <4>1, <4>2, <4>3, SwappedPlaces
                  <4>7. /\ f[n][m + 1 + by] = a[m + 1]
                        /\ \A k \in DOMAIN a : k \notin {m + 1, m + 1 + by} => f[n][k] = a[k]
                        BY <4>1, <4>2, <4>3, SwappedPlaces
                  <4>8. ASSUME NEW r \in rows PROVE f[n][At(r, n)] = q[r + 1]
                        <5>1. CASE r = m
                              <6>1. At(r, n) = m + 1 + by /\ At(r, n - 1) = m + 1
                                    BY <1>0, <3>5, <3>6, <5>1
                              <6> HIDE DEF At
                              <6> QED  BY <4>4, <4>7, <5>1, <6>1
                        <5>2. CASE r # m
                              <6>1. At(r, n) = At(r, n - 1)  BY <3>5, <5>2
                              <6>2. r \in 0..(Len(q) - 1) /\ r + by \in 0..(Len(q) - 1)  BY <1>0
                              <6>3. At(r, n - 1) \in DOMAIN a  BY <6>2, <1>1, <4>3
                              <6>4. At(r, n - 1) \notin {m + 1, m + 1 + by}
                                    <7>1. n \in Nat /\ m \in Int  BY <3>1, <3>3
                                    <7>2. CASE by = 1
                                          <8>1. Len(q) - n = m /\ Len(q) - (n - 1) = m + 1
                                                BY <7>1, <7>2, <1>1, <3>3
                                          <8>2. At(r, n - 1) = IF r >= m + 1 THEN r + 2 ELSE r + 1
                                                BY <7>2, <8>1, <6>2
                                          <8> HIDE DEF At
                                          <8> QED  BY <6>2, <7>1, <7>2, <8>2, <5>2
                                    <7>3. CASE by = -1  BY <6>2, <7>1, <1>1, <3>3, <5>2, <7>3
                                    <7> QED  BY <7>2, <7>3
                              <6> HIDE DEF At
                              <6> QED  BY <4>4, <4>7, <6>1, <6>3, <6>4
                        <5> QED  BY <5>1, <5>2
                  <4> QED  BY <4>5, <4>6, <4>8
            <3> QED  BY <3>7, <3>8
      <2> QED  BY <2>2, <2>3
<1>4. \A r \in rows : At(r, Len(q)) = r + by + 1  BY <1>0, <1>1
<1>5. Moved(Len(q))  BY <1>1, <1>3
<1> QED  BY <1>2, <1>4, <1>5

\* The list the pane is made with (queue.rs:111-129, dir.rs:52-68).
LEMMA InitShows == Init => IInv
<1> SUFFICES ASSUME Init PROVE IInv  OBVIOUS
<1>1. IsSeq(items)  BY QueuesAreSeqs DEF Init
<1>2. Len(items) \in Nat  BY <1>1, LenIsNat
<1>3. Shows(NewList)  BY DEF Shows, NewList, List, CursorShown, Measured, Option, None
<1>4. Shows(Started(NewList))
      <2>1. 0 \in Option(Nat)  BY DEF Option
      <2> QED  BY <1>3, <2>1, SelectShows, ShowsFits DEF Started, Shows
<1>5. Started(NewList).sel = 0 /\ Started(NewList).view = None
      BY DEF Started, Select, ApplyScrolloff, SelectScrolling, Clamped, AtMost, SatSub, OrZero, NewList, None
<1>6. Shows(SetLen(Started(NewList), Len(items)))
      <2> DEFINE s == Started(NewList)  m == [s EXCEPT !.len = Len(items)]
      <2>1. SetLen(s, Len(items)) = m  BY <1>5 DEF SetLen
      <2>2. s \in List  BY <1>4 DEF Shows
      <2> HIDE DEF s
      <2>3. m \in List /\ m.sel = s.sel /\ m.view = s.view /\ m.len = Len(items)
            BY <1>2, <2>2 DEF List, Option
      <2> HIDE DEF m
      <2>4. CursorShown(m)
            BY <1>2, <1>5, <2>3 DEF s, CursorShown, Measured, SatSub, OrZero, None
      <2> QED  BY <2>1, <2>3, <2>4 DEF Shows, s
<1> QED  BY <1>1, <1>3, <1>6 DEF Init, DirOf, IInv

\* Drawing measures the list and puts the cursor onto the last row if it is
\* behind it (virtualized_table.rs:52-84).
LEMMA RenderKeeps == IInv /\ Render => Kept
<1> SUFFICES ASSUME IInv, Render PROVE Kept  OBVIOUS
<1>1. PICK area \in Heights : list' = Drawn(SatSub(area, IF filter THEN 1 ELSE 0))  BY DEF Render
<1>2. SatSub(area, IF filter THEN 1 ELSE 0) \in Nat  BY QueueListAssumption DEF SatSub
<1>3. Len(items) \in Nat  BY LenIsNat DEF IInv
<1>4. ASSUME NEW h \in Nat PROVE Keeps(list, Drawn(h), Scrolloff)
      <2> DEFINE l == SetLens(list, Len(items), h)  m == Select(l, l.sel, 0)
      <2>1. list \in List  BY DEF IInv, Shows
      <2>2. Fits(l) /\ l.sel \in Option(Nat)  BY <1>3, <2>1, SetLensFits
      <2>3. l.sel = list.sel  BY <2>1 DEF SetLens, List
      <2> HIDE DEF l
      <2>4. Shows(m)  BY <2>2, SelectShows DEF Shows
      <2>5. m.sel = Clamped(l, l.sel) /\ m.len = l.len
            BY <2>2, SelectFields DEF Select, ApplyScrolloff, Fits, List
      <2> HIDE DEF m
      <2>6. m.sel \notin {list.sel, None} => m.sel = SatSub(OrZero(m.len), 1)
            BY <2>3, <2>5 DEF Clamped, AtMost
      <2>7. Keeps(list, m, Scrolloff)
            BY <2>4, <2>6, EndsCalm, QueueListAssumption DEF Keeps, Shows
      <2> QED  BY <2>7 DEF Drawn, m, l
<1>5. IsSeq(items)'  BY DEF Render, IInv
<1>6. Keeps(list, list', Scrolloff)  BY <1>1, <1>2, <1>4
<1> QED  BY <1>5, <1>6 DEF Kept

\* before_show and resize measure the list and select (queue.rs:501-530).
LEMMA ReselectKeeps ==
    ASSUME IInv, NEW current \in Option(Nat), NEW centre, NEW so \in Nat, Scrolloff <= so,
           Reselect(current, centre, so)
    PROVE  Kept
<1> DEFINE l == SetLens(list, Len(items), OrZero(list.view))
<1>1. Len(items) \in Nat  BY LenIsNat DEF IInv
<1>2. list \in List /\ OrZero(list.view) \in Nat  BY Fields DEF IInv, Shows
<1>3. Fits(l) /\ l.sel \in Option(Nat)  BY <1>1, <1>2, SetLensFits
<1>4. PICK to \in Option(Nat) : list' = Select(l, to, so)
      <2> DEFINE own == IF l.sel = None THEN IF current = None THEN 0 ELSE current ELSE l.sel
                 to == IF centre /\ current # None THEN current ELSE own
      <2> HIDE DEF l
      <2>1. to \in Option(Nat)  BY <1>3 DEF Option
      <2>2. list' = Select(l, to, so)  BY DEF Reselect, l
      <2> QED  BY <2>1, <2>2
<1>5. Keeps(list, list', Scrolloff)
      <2> HIDE DEF l
      <2> QED  BY <1>3, <1>4, SelectKeeps, QueueListAssumption
<1>6. IsSeq(items)'  BY DEF Reselect, IInv
<1> QED  BY <1>5, <1>6 DEF Kept

\* Rows are numbers.
LEMMA CurrentRows == IInv => Rows(items) \subseteq Nat /\ Current \subseteq Option(Nat)
BY LenIsNat DEF IInv, Rows, Current, Option

\* Moving nothing but the cursor.
LEMMA MoveKeeps == ASSUME IInv, NEW l, Keeps(list, l, Scrolloff), Move(l) PROVE Kept
BY DEF Move, IInv, Kept

\* Dropping the marks leaves the cursor alone.
LEMMA UnmarkKeeps == ASSUME NEW l, Shows(l) PROVE Keeps(l, UnmarkAll(l), Scrolloff)
<1>1. Shows(UnmarkAll(l))  BY MarksKeep DEF UnmarkAll
<1>2. UnmarkAll(l).sel = l.sel  BY DEF UnmarkAll, Shows, List
<1> QED  BY <1>1, <1>2, StaysKeeps

\* What the event loop tells the pane.
LEMMA TellKeeps == IInv /\ Tell => Kept
<1> SUFFICES ASSUME IInv, Tell PROVE Kept  OBVIOUS
<1>1. CASE Render  BY <1>1, RenderKeeps
<1>2. CASE BeforeShow
      <2>1. PICK current \in Current, centre \in BOOLEAN : Reselect(current, centre, Huge)
            BY <1>2 DEF BeforeShow
      <2>2. Huge \in Nat /\ Scrolloff <= Huge  BY QueueListAssumption DEF Huge
      <2> QED  BY <2>1, <2>2, CurrentRows, ReselectKeeps
<1>3. CASE Resize
      <2>1. PICK current \in Current : Reselect(current, FALSE, Scrolloff)  BY <1>3 DEF Resize
      <2>2. Scrolloff \in Nat /\ Scrolloff <= Scrolloff  BY QueueListAssumption
      <2> QED  BY <2>1, <2>2, CurrentRows, ReselectKeeps
<1>4. CASE QueueChanged
      <2>1. Keeps(list, list', Scrolloff)  BY <1>4, StaysKeeps DEF QueueChanged, IInv
      <2> QED  BY <1>4, <2>1, QueuesAreSeqs DEF QueueChanged, Kept
<1>5. CASE Database
      <2>1. IsSeq(items')  BY <1>5, QueuesAreSeqs DEF Database
      <2>2. Keeps(list, list', Scrolloff)  BY <1>5, UnmarkKeeps DEF Database, IInv
      <2> QED  BY <2>1, <2>2 DEF Kept
<1>6. CASE SongChanged
      <2>1. PICK row \in Rows(items), so \in {Scrolloff, Huge} : Move(Select(list, row, so))
            BY <1>6 DEF SongChanged
      <2>2. row \in Option(Nat) /\ so \in Nat /\ Scrolloff <= so /\ Scrolloff \in Nat
            BY CurrentRows, QueueListAssumption DEF Huge, Option
      <2>3. Keeps(list, Select(list, row, so), Scrolloff)  BY <2>2, SelectKeeps, ShowsFits DEF IInv
      <2> QED  BY <2>1, <2>3, MoveKeeps
<1> QED  BY <1>1, <1>2, <1>3, <1>4, <1>5, <1>6 DEF Tell

\* The keys that move the cursor; a jump to the current song centres it.
LEMMA CursorKeeps == IInv /\ Cursor => Kept
<1> SUFFICES ASSUME IInv, Cursor PROVE Kept  OBVIOUS
<1> USE DEF Key
<1>0. Shows(list) /\ Scrolloff \in Nat  BY QueueListAssumption DEF IInv
<1>1. CASE Up \/ Down
      BY <1>0, <1>1, StepKeeps, MoveKeeps DEF Up, Down
<1>2. CASE DownHalf \/ UpHalf \/ PageDown \/ PageUp
      BY <1>0, <1>2, PagesKeep, MoveKeeps DEF DownHalf, UpHalf, PageDown, PageUp
<1>3. CASE Bottom \/ Top
      BY <1>0, <1>3, FirstLastKeep, MoveKeeps DEF Bottom, Top
<1>4. CASE ScrollFocused
      BY <1>0, <1>4, ScrollFocusedKeeps, MoveKeeps DEF ScrollFocused
<1>5. CASE JumpToCurrent
      <2>1. PICK row \in Rows(items) :
                Move(Select(list, row, IF list.sel = row THEN Huge ELSE Scrolloff))
            BY <1>5 DEF JumpToCurrent
      <2>2. /\ row \in Option(Nat) /\ (IF list.sel = row THEN Huge ELSE Scrolloff) \in Nat
            /\ Scrolloff <= (IF list.sel = row THEN Huge ELSE Scrolloff)
            BY CurrentRows, QueueListAssumption DEF Huge, Option
      <2>3. Keeps(list, Select(list, row, IF list.sel = row THEN Huge ELSE Scrolloff), Scrolloff)
            BY <1>0, <2>2, SelectKeeps, ShowsFits
      <2> QED  BY <2>1, <2>3, MoveKeeps
<1> QED  BY <1>1, <1>2, <1>3, <1>4, <1>5 DEF Cursor

\* Clicks, the wheel and the scrollbar.
LEMMA MouseKeeps == IInv /\ Mouse => Kept
<1> SUFFICES ASSUME IInv, Mouse PROVE Kept  OBVIOUS
<1>0. Shows(list) /\ Scrolloff \in Nat /\ ScrollAmount \in Nat /\ UsizeMax \in Nat
      BY QueueListAssumption DEF IInv
<1>1. CASE Click
      <2>1. PICK row \in 0..(OrZero(list.view) - 1) :
                AtRenderedRow(list, row) # None /\ Move(Select(list, AtRenderedRow(list, row), Scrolloff))
            BY <1>1 DEF Click
      <2>2. row \in Nat /\ list.off \in Nat  BY <1>0, Fields DEF Shows
      <2>3. AtRenderedRow(list, row) \in Option(Nat)  BY <2>2 DEF AtRenderedRow, Option
      <2>4. Keeps(list, Select(list, AtRenderedRow(list, row), Scrolloff), Scrolloff)
            BY <1>0, <2>3, SelectKeeps, ShowsFits
      <2> QED  BY <2>1, <2>4, MoveKeeps
<1>2. CASE WheelUp \/ WheelDown
      BY <1>0, <1>2, WheelKeeps, MoveKeeps DEF WheelUp, WheelDown
<1>3. CASE Scrollbar
      BY <1>0, <1>3, ScrollbarKeeps, MoveKeeps DEF Scrollbar
<1> QED  BY <1>1, <1>2, <1>3 DEF Mouse

\* The filter, whatever it matches.
LEMMA FilterKeeps == IInv /\ Filter => Kept
<1> SUFFICES ASSUME IInv, Filter PROVE Kept  OBVIOUS
<1>0. Shows(list) /\ Scrolloff \in Nat /\ Len(items) \in Nat
      BY QueueListAssumption, LenIsNat DEF IInv
<1>1. CASE EnterSearch \/ Cancel  BY <1>1, StaysKeeps DEF EnterSearch, Cancel, IInv, Kept
<1>2. ASSUME NEW matching \in SUBSET Rows(items)
      PROVE  /\ Keeps(list, JumpFirst(list, matching, Scrolloff), Scrolloff)
             /\ Keeps(list, JumpNext(list, Len(items), matching, Scrolloff), Scrolloff)
             /\ Keeps(list, JumpPrevious(list, Len(items), matching, Scrolloff), Scrolloff)
      BY <1>0, SearchKeeps DEF Rows
<1>3. CASE Push  BY <1>2, <1>3, MoveKeeps DEF Push, Search
<1>4. CASE NextResult  BY <1>2, <1>4, MoveKeeps DEF NextResult, Search
<1>5. CASE PreviousResult  BY <1>2, <1>5, MoveKeeps DEF PreviousResult, Search
<1> QED  BY <1>1, <1>3, <1>4, <1>5 DEF Filter

\* Marks are rows, or were.
LEMMA MarkedRows == IInv => list.marked \in SUBSET Nat
BY DEF IInv, Shows, List

\* Marking rows.
LEMMA MarkWithKeeps == ASSUME IInv, NEW l, Keeps(list, l, Scrolloff), NEW songs, MarkWith(l, songs) PROVE Kept
BY DEF MarkWith, IInv, Kept

\* Acting on the marks drops them.
LEMMA DropMarksKeeps == IInv /\ DropMarks => Kept
<1> SUFFICES ASSUME IInv, DropMarks PROVE Kept  OBVIOUS
<1>1. Keeps(list, UnmarkAll(list), Scrolloff)  BY UnmarkKeeps DEF IInv
<1> QED  BY <1>1 DEF DropMarks, IInv, Kept

\* The keys that mark.
LEMMA MarkingKeeps == IInv /\ Marks => Kept
<1> SUFFICES ASSUME IInv, Marks PROVE Kept  OBVIOUS
<1>0. Shows(list) /\ Scrolloff \in Nat /\ list.marked \in SUBSET Nat
      BY QueueListAssumption, MarkedRows DEF IInv
<1>a. Keeps(list, list, Scrolloff)  BY <1>0, StaysKeeps
<1>1. CASE SelectKey
      <2>1. PICK wrap \in BOOLEAN :
                MarkWith(NextOf(ToggleMarkSelected(list), Scrolloff, wrap), Toggled(meant, items[list.sel + 1]))
            BY <1>1 DEF SelectKey
      <2>2. ASSUME list.sel # None PROVE Toggled(list.marked, list.sel) \in SUBSET Nat
            <3>1. list.sel \in Nat  BY <1>0, <2>2, Fields DEF Shows, Option
            <3> QED  BY <1>0, <3>1 DEF Toggled
      <2>3. Shows(ToggleMarkSelected(list))
            BY <1>0, <2>2, MarksKeep DEF ToggleMarkSelected, ToggleMark
      <2>4. ToggleMarkSelected(list).sel = list.sel
            BY <1>0 DEF ToggleMarkSelected, ToggleMark, Shows, List
      <2>5. Keeps(list, NextOf(ToggleMarkSelected(list), Scrolloff, wrap), Scrolloff)
            <3>1. Keeps(ToggleMarkSelected(list), NextOf(ToggleMarkSelected(list), Scrolloff, wrap), Scrolloff)
                  BY <1>0, <2>3, StepKeeps
            <3> QED  BY <2>4, <3>1 DEF Keeps
      <2> QED  BY <2>1, <2>5, MarkWithKeeps
<1>2. CASE InvertSelection
      <2>1. (0..(list.len - 1)) \ list.marked \in SUBSET Nat  OBVIOUS
      <2>2. Keeps(list, InvertMarked(list), Scrolloff)
            BY <1>0, <1>a, <2>1, MarkedKeeps DEF InvertMarked
      <2> QED  BY <1>2, <2>2, MarkWithKeeps DEF InvertSelection
<1>3. CASE SelectAlbum
      <2>1. PICK from \in Rows(items), to \in Rows(items) :
                MarkWith([list EXCEPT !.marked = SymDiff(@, from..to)], SymDiff(meant, SongsAt(items, from..to)))
            BY <1>3 DEF SelectAlbum
      <2>2. from \in Nat /\ to \in Nat  BY CurrentRows
      <2>3. SymDiff(list.marked, from..to) \in SUBSET Nat  BY <1>0, <2>2 DEF SymDiff
      <2>4. Keeps(list, [list EXCEPT !.marked = SymDiff(@, from..to)], Scrolloff)
            BY <1>0, <1>a, <2>3, MarkedKeeps
      <2> QED  BY <2>1, <2>4, MarkWithKeeps
<1>4. CASE Close \/ DeleteMarked \/ AddMarked
      BY <1>4, DropMarksKeeps DEF Close, DeleteMarked, AddMarked
<1> QED  BY <1>1, <1>2, <1>3, <1>4 DEF Marks

\* Moving songs, and the cursor with them.
LEMMA ShiftKeeps ==
    ASSUME IInv, NEW q, IsSeq(q), NEW l, Keeps(list, l, Scrolloff), Shift(q, l)
    PROVE  Kept
BY DEF Shift, Kept

\* Moving marked songs takes the cursor to the first or the last of them
\* (queue.rs:918-1051).
LEMMA ShiftsKeep == IInv /\ Shifts => Kept
<1> SUFFICES ASSUME IInv, Shifts PROVE Kept  OBVIOUS
<1>0. Shows(list) /\ Scrolloff \in Nat /\ list.marked \in SUBSET Nat /\ Fits(list)
      /\ IsSeq(items) /\ Len(items) \in Nat
      BY QueueListAssumption, MarkedRows, ShowsFits, LenIsNat DEF IInv
<1>1. CASE MoveMarkedUp
      <2> DEFINE l == Select(list, Least(list.marked) - 1, Scrolloff)
      <2>1. Least(list.marked) \in list.marked /\ 0 \notin list.marked
            BY <1>0, <1>1, LeastOfSet DEF MoveMarkedUp, MarksExist
      <2>2. Least(list.marked) - 1 \in Option(Nat)  BY <1>0, <2>1 DEF Option
      <2>3. Keeps(list, l, Scrolloff) /\ l.marked = list.marked
            BY <1>0, <2>2, SelectShows, SelectKeeps
      <2>4. {r - 1 : r \in l.marked} \in SUBSET Nat
            <3>1. \A r \in list.marked : r - 1 \in Nat  BY <1>0, <2>1
            <3> QED  BY <2>3, <3>1
      <2> HIDE DEF l
      <2>5. Keeps(list, [l EXCEPT !.marked = {r - 1 : r \in @}], Scrolloff)
            BY <1>0, <2>3, <2>4, MarkedKeeps
      <2>6. IsSeq(ShiftedUp(items, list.marked))  BY <1>0, ShiftedIsSeq DEF ShiftedUp
      <2> QED  BY <1>1, <2>5, <2>6, ShiftKeeps DEF MoveMarkedUp, l
<1>2. CASE MoveMarkedDown
      <2> DEFINE l == Select(list, Greatest(list.marked) + 1, Scrolloff)
      <2>1. list.marked \in SUBSET (0..Len(items)) /\ list.marked # {}
            BY <1>0, <1>2 DEF MoveMarkedDown, MarksExist, Rows
      <2>2. Greatest(list.marked) + 1 \in Option(Nat)
            <3>1. Greatest(list.marked) \in list.marked  BY <1>0, <2>1, GreatestOfSet
            <3> QED  BY <1>0, <3>1 DEF Option
      <2>3. Keeps(list, l, Scrolloff) /\ l.marked = list.marked
            BY <1>0, <2>2, SelectShows, SelectKeeps
      <2>4. {r + 1 : r \in l.marked} \in SUBSET Nat  BY <1>0, <2>3
      <2> HIDE DEF l
      <2>5. Keeps(list, [l EXCEPT !.marked = {r + 1 : r \in @}], Scrolloff)
            BY <1>0, <2>3, <2>4, MarkedKeeps
      <2>6. IsSeq(ShiftedDown(items, list.marked))  BY <1>0, ShiftedIsSeq DEF ShiftedDown
      <2> QED  BY <1>2, <2>5, <2>6, ShiftKeeps DEF MoveMarkedDown, l
<1>3. CASE MoveUp
      <2>1. list.sel - 1 \in Option(Nat)
            BY <1>0, <1>3, CurrentRows DEF MoveUp, HasSelected, Rows, Option, IInv
      <2>2. Keeps(list, Select(list, list.sel - 1, Scrolloff), Scrolloff)  BY <1>0, <2>1, SelectKeeps
      <2>3. IsSeq(Swapped(items, list.sel + 1, list.sel))  BY <1>0, SwappedIsSeq
      <2> QED  BY <1>3, <2>2, <2>3, ShiftKeeps DEF MoveUp
<1>4. CASE MoveDown
      <2> DEFINE to == AtMost(list.sel + 1, Len(items) - 1)
      <2>1. to \in Option(Nat)
            BY <1>0, <1>4 DEF MoveDown, HasSelected, Rows, AtMost, Option
      <2>2. Keeps(list, Select(list, to, Scrolloff), Scrolloff)  BY <1>0, <2>1, SelectKeeps
      <2>3. IsSeq(Swapped(items, list.sel + 1, to + 1))  BY <1>0, SwappedIsSeq
      <2> QED  BY <1>4, <2>2, <2>3, ShiftKeeps DEF MoveDown
<1> QED  BY <1>1, <1>2, <1>3, <1>4 DEF Shifts

\* Every step does what Kept says.
LEMMA NextKeeps == IInv /\ [Next]_vars => Kept
<1> SUFFICES ASSUME IInv, [Next]_vars PROVE Kept  OBVIOUS
<1>1. CASE Next
      BY <1>1, TellKeeps, CursorKeeps, MouseKeeps, FilterKeeps, MarkingKeeps, ShiftsKeep DEF Next
<1>2. CASE UNCHANGED vars  BY <1>2, StaysKeeps DEF vars, IInv, Kept
<1> QED  BY <1>1, <1>2

\* The invariant of the list: it shows its cursor, in a sequence of songs.
\* Without the second part the rows there are would not be a set of numbers.
THEOREM CursorInvariant == Spec => []IInv
<1>1. Kept => IInv'  BY DEF Kept, Keeps, IInv
<1> QED  BY InitShows, NextKeeps, <1>1, PTL DEF Spec

\* In every reachable state the cursor is on a row of the list and on screen,
\* and no rows are wasted below the last one (state.rs:306-354).
THEOREM CursorIsShown == Spec => []CursorStaysShown
<1>1. IInv => CursorStaysShown  BY DEF IInv, Shows, CursorStaysShown
<1> QED  BY CursorInvariant, <1>1, PTL

\* Whatever moves the cursor leaves scrolloff rows above and below it, or the
\* end of the list (state.rs:333-354).
THEOREM ScrolloffIsKept == Spec => ScrolloffKept
<1>1. Kept => [list'.sel \notin {list.sel, None} /\ list'.len # None
               /\ 2 * Scrolloff < OrZero(list'.view)
               => Margin(list', Scrolloff)]_vars
      BY DEF Kept, Keeps, Calm
<1> QED  BY CursorInvariant, NextKeeps, <1>1, PTL DEF Spec, ScrolloffKept

\* The wheel turned up never moves the cursor down, unless the table is too
\* low or has grown (state.rs:316-317).
THEOREM WheelUpIsUp == Spec => WheelUpGoesUp
<1>1. IInv => [WheelUp /\ Scrolloff < OrZero(list.view) /\ list.off + Scrolloff <= list.sel
               => list'.sel <= list.sel]_vars
      <2> SUFFICES ASSUME IInv, WheelUp, Scrolloff < OrZero(list.view),
                          list.off + Scrolloff <= list.sel
                   PROVE  list'.sel <= list.sel
          OBVIOUS
      <2>1. list' = ScrollUp(list, ScrollAmount, Scrolloff)  BY DEF WheelUp, Move
      <2> QED  BY <2>1, ScrollUpRaises, QueueListAssumption DEF IInv
<1> QED  BY CursorInvariant, <1>1, PTL DEF Spec, WheelUpGoesUp

-----------------------------------------------------------------------------
(* Marks and their songs.                                                  *)

\* m has the marks and the length of l.
Fielded(l) == {"sel", "off", "len", "view", "marked"} \subseteq DOMAIN l
SameMarks(l, m) == Fielded(m) /\ m.marked = l.marked /\ m.len = l.len

\* Selecting touches neither.
LEMMA SelectMarks ==
    ASSUME NEW l, Fielded(l), NEW idx, NEW so
    PROVE  SameMarks(l, Select(l, idx, so))
<1> DEFINE m == SelectScrolling(l, Clamped(l, idx))
<1>1. SameMarks(l, m)  BY DEF SameMarks, Fielded, SelectScrolling
<1>2. Select(l, idx, so) = ApplyScrolloff(m, so)  BY DEF Select
<1> HIDE DEF m
<1>3. SameMarks(m, ApplyScrolloff(m, so))  BY <1>1 DEF SameMarks, Fielded, ApplyScrolloff
<1> QED  BY <1>1, <1>2, <1>3 DEF SameMarks

\* Nor does anything else that moves the cursor (state.rs:95-304).
LEMMA MovesKeepMarks ==
    ASSUME NEW l, Fielded(l), NEW so
    PROVE  /\ \A wrap \in BOOLEAN : SameMarks(l, NextOf(l, so, wrap)) /\ SameMarks(l, PrevOf(l, so, wrap))
           /\ SameMarks(l, NextHalfViewport(l, so)) /\ SameMarks(l, PrevHalfViewport(l, so))
           /\ SameMarks(l, NextViewport(l, so)) /\ SameMarks(l, PrevViewport(l, so))
           /\ SameMarks(l, SelectFirst(l)) /\ SameMarks(l, SelectLast(l))
           /\ \A place : SameMarks(l, ScrollFocusedTo(l, place, so))
<1>1. SameMarks(l, l)  BY DEF SameMarks
<1>2. \A rows : SameMarks(l, JumpDown(l, rows, so)) /\ SameMarks(l, JumpUp(l, rows, so))
      BY SelectMarks DEF JumpDown, JumpUp
<1>3. \A place : SameMarks(l, ScrollFocusedTo(l, place, so))
      <2>1. \A off : SameMarks(l, [l EXCEPT !.off = off])  BY DEF SameMarks, Fielded
      <2> QED  BY <1>1, <2>1 DEF ScrollFocusedTo
<1>4. \A wrap \in BOOLEAN : SameMarks(l, NextOf(l, so, wrap)) /\ SameMarks(l, PrevOf(l, so, wrap))
      BY <1>1, SelectMarks DEF NextOf, PrevOf, Unmeasured
<1>5. SameMarks(l, SelectFirst(l)) /\ SameMarks(l, SelectLast(l))
      BY SelectMarks DEF SelectFirst, SelectLast
<1> QED  BY <1>2, <1>3, <1>4, <1>5 DEF NextHalfViewport, PrevHalfViewport, NextViewport, PrevViewport

\* Nor the wheel, the scrollbar and the searches.
LEMMA ScrollsKeepMarks ==
    ASSUME NEW l, Fielded(l), NEW so
    PROVE  /\ \A amount : SameMarks(l, ScrollUp(l, amount, so)) /\ SameMarks(l, ScrollDown(l, amount, so))
           /\ \A part, steps : SameMarks(l, ScrollTo(l, part, steps, so))
           /\ \A matching : SameMarks(l, JumpFirst(l, matching, so))
           /\ \A n, matching : /\ SameMarks(l, JumpNext(l, n, matching, so))
                               /\ SameMarks(l, JumpPrevious(l, n, matching, so))
<1>1. SameMarks(l, l)  BY DEF SameMarks
<1>2. \A off : SameMarks(l, ScrollTop(l, off, so))
      <2> TAKE off
      <2> DEFINE m == [l EXCEPT !.off = off]
      <2>1. SameMarks(l, m)  BY DEF SameMarks, Fielded
      <2>2. ScrollTop(l, off, so) = ClampToOffset(m, so)  BY DEF ScrollTop
      <2> HIDE DEF m
      <2>3. SameMarks(m, m) /\ Fielded(m)  BY <2>1 DEF SameMarks
      <2>4. SameMarks(m, ClampToOffset(m, so))  BY <2>3, SelectMarks DEF ClampToOffset
      <2> QED  BY <2>1, <2>2, <2>4 DEF SameMarks
<1>3. \A amount : SameMarks(l, ScrollUp(l, amount, so)) /\ SameMarks(l, ScrollDown(l, amount, so))
      BY <1>1, <1>2 DEF ScrollUp, ScrollDown
<1>4. \A part, steps : SameMarks(l, ScrollTo(l, part, steps, so))  BY <1>1, <1>2 DEF ScrollTo
<1>5. \A matching : SameMarks(l, JumpFirst(l, matching, so))  BY <1>1, SelectMarks DEF JumpFirst
<1>6. \A n, matching : SameMarks(l, JumpNext(l, n, matching, so))  BY <1>1, SelectMarks DEF JumpNext
<1>7. \A n, matching : SameMarks(l, JumpPrevious(l, n, matching, so))
      BY <1>1, SelectMarks DEF JumpPrevious
<1> QED  BY <1>3, <1>4, <1>5, <1>6, <1>7

\* Measuring keeps the marks.
LEMMA SetLensMarks ==
    ASSUME NEW l, Fielded(l), NEW len, NEW view
    PROVE  LET m == SetLens(l, len, view) IN Fielded(m) /\ m.marked = l.marked /\ m.len = len
BY DEF Fielded, SetLens

\* The marks as long as the queue has not changed under them; the list then has
\* the length of the queue, or has not been told one.
AtSongs(q, l, songs) == l.marked \subseteq Rows(q) /\ SongsAt(q, l.marked) = songs

MarksInv ==
    /\ IInv /\ IsInjective(items)
    /\ stale => meant = {}
    /\ ~stale => list.len \in {None, Len(items)} /\ AtSongs(items, list, meant)

\* In an injective queue the songs at rows toggled are the songs toggled.
LEMMA TogglesSongs ==
    ASSUME NEW q, IsSeq(q), IsInjective(q)
    PROVE  \A A, B \in SUBSET Rows(q) :
               /\ SongsAt(q, SymDiff(A, B)) = SymDiff(SongsAt(q, A), SongsAt(q, B))
               /\ SymDiff(A, B) \subseteq Rows(q)
               /\ SongsAt(q, Rows(q) \ A) = ToSet(q) \ SongsAt(q, A)
<1> TAKE A \in SUBSET Rows(q), B \in SUBSET Rows(q)
<1>1. Len(q) \in Nat /\ DOMAIN q = 1..Len(q)  BY LenIsNat
<1>2. \A r \in Rows(q) : r \in Int /\ r + 1 \in DOMAIN q  BY <1>1 DEF Rows
<1>3. \A r, s \in Rows(q) : q[r + 1] = q[s + 1] => r = s
      <2> TAKE r \in Rows(q), s \in Rows(q)
      <2>1. r + 1 \in DOMAIN q /\ s + 1 \in DOMAIN q /\ r \in Int /\ s \in Int  BY <1>2
      <2>2. q[r + 1] = q[s + 1] => r + 1 = s + 1  BY <2>1 DEF IsInjective
      <2> QED  BY <2>1, <2>2
<1>4. ToSet(q) = SongsAt(q, Rows(q))
      <2>1. \A i \in DOMAIN q : i - 1 \in Rows(q) /\ q[i] = q[(i - 1) + 1]  BY <1>1 DEF Rows
      <2> QED  BY <1>2, <2>1 DEF ToSet, SongsAt
<1>5. SongsAt(q, SymDiff(A, B)) = SymDiff(SongsAt(q, A), SongsAt(q, B))
      BY <1>3 DEF SongsAt, SymDiff
<1>6. SongsAt(q, Rows(q) \ A) = SongsAt(q, Rows(q)) \ SongsAt(q, A)  BY <1>3 DEF SongsAt
<1> QED  BY <1>4, <1>5, <1>6 DEF SymDiff

\* What MPD sends has no song twice.
LEMMA QueuesAreInjective == ASSUME NEW q \in Queues PROVE IsInjective(q)
BY DEF Queues

\* The list the pane is made with has no marks.
LEMMA InitMarks == Init => MarksInv
<1> SUFFICES ASSUME Init PROVE MarksInv  OBVIOUS
<1>1. Fielded(NewList) /\ NewList.marked = {} /\ NewList.len = None  BY DEF Fielded, NewList
<1>2. SameMarks(NewList, Started(NewList))  BY <1>1, SelectMarks DEF Started
<1>3. list.marked = {} /\ list.len \in {None, Len(items)}
      <2>1. CASE Len(items) = 0  BY <1>1, <2>1 DEF Init, DirOf
      <2>2. CASE Len(items) # 0
            <3> DEFINE s == Started(NewList)
            <3>1. list = SetLen(s, Len(items))  BY <2>2 DEF Init, DirOf
            <3>2. Fielded(s) /\ s.marked = {}  BY <1>1, <1>2 DEF SameMarks
            <3> HIDE DEF s
            <3>3. LET m == SetLens(s, Len(items), s.view) IN m.marked = {} /\ m.len = Len(items)
                  BY <3>2, SetLensMarks
            <3>4. LET m == [s EXCEPT !.len = Len(items)] IN m.marked = {} /\ m.len = Len(items)
                  BY <3>2 DEF Fielded
            <3> QED  BY <3>1, <3>3, <3>4 DEF SetLen
      <2> QED  BY <2>1, <2>2
<1>4. AtSongs(items, list, meant)  BY <1>3 DEF AtSongs, SongsAt, Init
<1> QED  BY <1>3, <1>4, InitShows, QueuesAreInjective DEF Init, MarksInv

\* Nothing but the cursor moves.
LEMMA MovedKeepsMarks ==
    ASSUME MarksInv, IInv', UNCHANGED <<items, meant, stale>>,
           list'.marked = list.marked, list'.len = list.len
    PROVE  MarksInv'
BY DEF MarksInv, AtSongs

\* The list is measured: a stale one without marks is no longer stale.
LEMMA MeasuredKeepsMarks ==
    ASSUME MarksInv, IInv', UNCHANGED <<items, meant>>, Forgotten,
           list'.marked = list.marked, list'.len = Len(items)
    PROVE  MarksInv'
<1>1. CASE ~stale  BY <1>1 DEF MarksInv, AtSongs, Forgotten
<1>2. CASE stale
      <2>1. meant' = {} /\ (~stale' => list'.marked = {})  BY <1>2 DEF MarksInv, Forgotten
      <2> QED  BY <2>1 DEF MarksInv, AtSongs, SongsAt
<1> QED  BY <1>1, <1>2

\* What the event loop tells the pane.  A changed queue leaves the marks behind
\* (queue.rs:534-541).
LEMMA TellKeepsMarks == MarksInv /\ Tell /\ IInv' => MarksInv'
<1> SUFFICES ASSUME MarksInv, Tell, IInv' PROVE MarksInv'  OBVIOUS
<1>0. Fielded(list)  BY DEF MarksInv, IInv, Shows, List, Fielded
<1>1. CASE Render
      <2>1. PICK h : list' = Drawn(h)  BY <1>1 DEF Render
      <2> DEFINE l == SetLens(list, Len(items), h)
      <2>2. Fielded(l) /\ l.marked = list.marked /\ l.len = Len(items)  BY <1>0, SetLensMarks
      <2>3. list' = Select(l, l.sel, 0)  BY <2>1 DEF Drawn
      <2> HIDE DEF l
      <2>4. list'.marked = list.marked /\ list'.len = Len(items)
            BY <2>2, <2>3, SelectMarks DEF SameMarks
      <2> QED  BY <1>1, <2>4, MeasuredKeepsMarks DEF Render
<1>2. ASSUME NEW current, NEW centre, NEW so, Reselect(current, centre, so) PROVE MarksInv'
      <2> DEFINE l == SetLens(list, Len(items), OrZero(list.view))
      <2>1. Fielded(l) /\ l.marked = list.marked /\ l.len = Len(items)  BY <1>0, SetLensMarks
      <2>2. PICK to : list' = Select(l, to, so)  BY <1>2 DEF Reselect
      <2> HIDE DEF l
      <2>3. list'.marked = list.marked /\ list'.len = Len(items)
            BY <2>1, <2>2, SelectMarks DEF SameMarks
      <2> QED  BY <1>2, <2>3, MeasuredKeepsMarks DEF Reselect
<1>3. CASE BeforeShow \/ Resize  BY <1>2, <1>3 DEF BeforeShow, Resize
<1>4. CASE QueueChanged  BY <1>4, QueuesAreInjective DEF QueueChanged, MarksInv
<1>5. CASE Database
      <2>1. list'.marked = {} /\ list'.len = list.len  BY <1>0, <1>5 DEF Database, UnmarkAll, Fielded
      <2>2. AtSongs(items', list', meant')  BY <1>5, <2>1 DEF Database, AtSongs, SongsAt
      <2> QED  BY <1>5, <2>1, <2>2, QueuesAreInjective DEF Database, MarksInv
<1>6. CASE SongChanged
      <2>1. list'.marked = list.marked /\ list'.len = list.len
            BY <1>0, <1>6, SelectMarks DEF SongChanged, Move, SameMarks
      <2> QED  BY <1>6, <2>1, MovedKeepsMarks DEF SongChanged, Move
<1> QED  BY <1>1, <1>3, <1>4, <1>5, <1>6 DEF Tell

\* The cursor, however it is moved.
LEMMA MovesKeepInv == MarksInv /\ (Cursor \/ Mouse \/ Filter) /\ IInv' => MarksInv'
<1> SUFFICES ASSUME MarksInv, Cursor \/ Mouse \/ Filter, IInv' PROVE MarksInv'  OBVIOUS
<1>0. Fielded(list)  BY DEF MarksInv, IInv, Shows, List, Fielded
<1>1. ASSUME NEW l, SameMarks(list, l), Move(l) PROVE MarksInv'
      BY <1>1, MovedKeepsMarks DEF Move, SameMarks
<1>2. CASE Cursor
      <2>1. CASE Up \/ Down  BY <1>0, <1>1, <2>1, MovesKeepMarks DEF Up, Down, Key
      <2>2. CASE DownHalf \/ UpHalf \/ PageDown \/ PageUp
            BY <1>0, <1>1, <2>2, MovesKeepMarks DEF DownHalf, UpHalf, PageDown, PageUp, Key
      <2>3. CASE Bottom \/ Top \/ ScrollFocused
            BY <1>0, <1>1, <2>3, MovesKeepMarks DEF Bottom, Top, ScrollFocused, Key
      <2>4. CASE JumpToCurrent  BY <1>0, <1>1, <2>4, SelectMarks DEF JumpToCurrent
      <2> QED  BY <1>2, <2>1, <2>2, <2>3, <2>4 DEF Cursor
<1>3. CASE Mouse
      <2>1. CASE Click  BY <1>0, <1>1, <2>1, SelectMarks DEF Click
      <2>2. CASE WheelUp \/ WheelDown \/ Scrollbar
            BY <1>0, <1>1, <2>2, ScrollsKeepMarks DEF WheelUp, WheelDown, Scrollbar
      <2> QED  BY <1>3, <2>1, <2>2 DEF Mouse
<1>4. CASE Filter
      <2>1. CASE EnterSearch \/ Cancel  BY <2>1, MovedKeepsMarks DEF EnterSearch, Cancel
      <2>2. CASE Push  BY <1>0, <1>1, <2>2, ScrollsKeepMarks DEF Push, Search
      <2>3. CASE NextResult  BY <1>0, <1>1, <2>3, ScrollsKeepMarks DEF NextResult, Search
      <2>4. CASE PreviousResult  BY <1>0, <1>1, <2>4, ScrollsKeepMarks DEF PreviousResult, Search
      <2> QED  BY <1>4, <2>1, <2>2, <2>3, <2>4 DEF Filter
<1> QED  BY <1>2, <1>3, <1>4

\* The marks toggled are the songs toggled.
LEMMA MarkWithKeepsInv ==
    ASSUME MarksInv, IInv', NEW l, NEW songs, MarkWith(l, songs), l.len = list.len,
           ~stale => AtSongs(items, l, songs)
    PROVE  MarksInv'
BY DEF MarkWith, MarksInv, AtSongs

\* The keys that mark (queue.rs:836-848, 1134-1146, 1182-1213).
LEMMA MarkingKeepsMarks == MarksInv /\ Marks /\ IInv' => MarksInv'
<1> SUFFICES ASSUME MarksInv, Marks, IInv' PROVE MarksInv'  OBVIOUS
<1>0. Fielded(list)  BY DEF MarksInv, IInv, Shows, List, Fielded
<1>a. IsSeq(items) /\ IsInjective(items)  BY DEF MarksInv, IInv
<1>b. ~stale => AtSongs(items, list, meant) /\ list.len \in {None, Len(items)}  BY DEF MarksInv
<1>c. \A A, B \in SUBSET Rows(items) :
          /\ SongsAt(items, SymDiff(A, B)) = SymDiff(SongsAt(items, A), SongsAt(items, B))
          /\ SymDiff(A, B) \subseteq Rows(items)
          /\ SongsAt(items, Rows(items) \ A) = ToSet(items) \ SongsAt(items, A)
      BY <1>a, TogglesSongs
<1>1. CASE SelectKey
      <2> DEFINE m == ToggleMarkSelected(list)
      <2>1. PICK wrap \in BOOLEAN :
                MarkWith(NextOf(m, Scrolloff, wrap), Toggled(meant, items[list.sel + 1]))
            BY <1>1 DEF SelectKey
      <2>2. list.sel \in Rows(items)  BY <1>1 DEF SelectKey, HasSelected
      <2>3. list.sel # None
            <3>1. Rows(items) \subseteq Nat  BY CurrentRows DEF MarksInv
            <3> QED  BY <2>2, <3>1 DEF None
      <2>4. Fielded(m) /\ m.len = list.len /\ m.marked = Toggled(list.marked, list.sel)
            BY <1>0, <2>3 DEF ToggleMarkSelected, ToggleMark, Fielded
      <2> HIDE DEF m
      <2> DEFINE l == NextOf(m, Scrolloff, wrap)
      <2>5. l.len = list.len /\ l.marked = Toggled(list.marked, list.sel)
            <3>1. SameMarks(m, l)  BY <2>4, MovesKeepMarks
            <3> HIDE DEF l
            <3> QED  BY <2>4, <3>1 DEF SameMarks
      <2>6. MarkWith(l, Toggled(meant, items[list.sel + 1]))  BY <2>1
      <2> HIDE DEF l
      <2>7. ASSUME ~stale PROVE AtSongs(items, l, Toggled(meant, items[list.sel + 1]))
            <3>1. \A S, x : Toggled(S, x) = SymDiff(S, {x})  BY DEF Toggled, SymDiff
            <3>2. SongsAt(items, {list.sel}) = {items[list.sel + 1]}  BY DEF SongsAt
            <3>3. {list.sel} \in SUBSET Rows(items)  BY <2>2
            <3>4. list.marked \in SUBSET Rows(items) /\ SongsAt(items, list.marked) = meant
                  BY <1>b, <2>7 DEF AtSongs
            <3>5. l.marked = SymDiff(list.marked, {list.sel})  BY <2>5, <3>1
            <3>6. /\ SymDiff(list.marked, {list.sel}) \subseteq Rows(items)
                  /\ SongsAt(items, SymDiff(list.marked, {list.sel}))
                        = SymDiff(meant, {items[list.sel + 1]})
                  BY <1>c, <3>2, <3>3, <3>4
            <3> QED  BY <3>1, <3>5, <3>6 DEF AtSongs
      <2> QED  BY <2>5, <2>6, <2>7, MarkWithKeepsInv
<1>2. CASE InvertSelection
      <2> DEFINE l == InvertMarked(list)
      <2>1. list.len # None /\ MarkWith(l, ToSet(items) \ meant)  BY <1>2 DEF InvertSelection
      <2>2. l.len = list.len /\ l.marked = (0..(list.len - 1)) \ list.marked
            BY <1>0, <2>1 DEF InvertMarked, Fielded
      <2> HIDE DEF l
      <2>3. ASSUME ~stale PROVE AtSongs(items, l, ToSet(items) \ meant)
            <3>1. l.marked = Rows(items) \ list.marked  BY <1>b, <2>1, <2>2, <2>3 DEF Rows
            <3>2. list.marked \in SUBSET Rows(items) /\ SongsAt(items, list.marked) = meant
                  BY <1>b, <2>3 DEF AtSongs
            <3>3. SongsAt(items, Rows(items) \ list.marked) = ToSet(items) \ meant
                  BY <1>c, <3>2
            <3> QED  BY <3>1, <3>3 DEF AtSongs
      <2> QED  BY <2>1, <2>2, <2>3, MarkWithKeepsInv
<1>3. CASE SelectAlbum
      <2>1. PICK from \in Rows(items), to \in Rows(items) :
                MarkWith([list EXCEPT !.marked = SymDiff(@, from..to)], SymDiff(meant, SongsAt(items, from..to)))
            BY <1>3 DEF SelectAlbum
      <2> DEFINE l == [list EXCEPT !.marked = SymDiff(@, from..to)]
      <2>2. l.len = list.len /\ l.marked = SymDiff(list.marked, from..to)  BY <1>0 DEF Fielded
      <2>3. MarkWith(l, SymDiff(meant, SongsAt(items, from..to)))  BY <2>1
      <2> HIDE DEF l
      <2>4. from..to \in SUBSET Rows(items)  BY <1>a, LenIsNat DEF Rows
      <2>5. ASSUME ~stale PROVE AtSongs(items, l, SymDiff(meant, SongsAt(items, from..to)))
            <3>1. list.marked \in SUBSET Rows(items) /\ SongsAt(items, list.marked) = meant
                  BY <1>b, <2>5 DEF AtSongs
            <3>2. /\ SymDiff(list.marked, from..to) \subseteq Rows(items)
                  /\ SongsAt(items, SymDiff(list.marked, from..to))
                        = SymDiff(meant, SongsAt(items, from..to))
                  BY <1>c, <2>4, <3>1
            <3> QED  BY <2>2, <3>2 DEF AtSongs
      <2> QED  BY <2>2, <2>3, <2>5, MarkWithKeepsInv
<1>4. CASE DropMarks
      <2>1. list'.marked = {} /\ list'.len = list.len /\ meant' = {}
            BY <1>0, <1>4 DEF DropMarks, UnmarkAll, Fielded
      <2>2. AtSongs(items', list', meant')  BY <2>1 DEF AtSongs, SongsAt
      <2>3. ~stale' => list'.len \in {None, Len(items')}  BY <1>b, <1>4, <2>1 DEF DropMarks
      <2> QED  BY <1>a, <1>4, <2>1, <2>2, <2>3 DEF DropMarks, MarksInv
<1> QED  BY <1>1, <1>2, <1>3, <1>4 DEF Marks, Close, DeleteMarked, AddMarked

\* Moving songs moves the marks with them (queue.rs:918-1051).
LEMMA ShiftsKeepMarks == MarksInv /\ Shifts /\ IInv' => MarksInv'
<1> SUFFICES ASSUME MarksInv, Shifts, IInv' PROVE MarksInv'  OBVIOUS
<1>0. Fielded(list)  BY DEF MarksInv, IInv, Shows, List, Fielded
<1>a. IsSeq(items) /\ IsInjective(items) /\ Len(items) \in Nat /\ DOMAIN items = 1..Len(items)
      BY LenIsNat DEF MarksInv, IInv
<1>b. ~stale => AtSongs(items, list, meant) /\ list.len \in {None, Len(items)}  BY DEF MarksInv
<1>1. ASSUME NEW by \in {-1, 1}, MarksExist, \A r \in list.marked : r + by \in Rows(items),
             items' = Shifted(items, list.marked, by), list'.len = list.len,
             list'.marked = {r + by : r \in list.marked},
             meant' = meant, stale' = stale
      PROVE  MarksInv'
      <2> DEFINE s == Shifted(items, list.marked, by)
      <2>1. list.marked \in SUBSET Rows(items)  BY <1>1 DEF MarksExist
      <2>2. /\ \A r \in list.marked : s[r + by + 1] = items[r + 1]
            /\ IsInjective(s)
            BY <1>a, <1>1, <2>1, ShiftedMoves
      <2>3. IsSeq(s) /\ DOMAIN s = DOMAIN items  BY <1>a, ShiftedIsSeq
      <2>4. Len(s) = Len(items)
            <3> HIDE DEF s
            <3>1. Len(s) \in Nat /\ 1..Len(s) = 1..Len(items)  BY <1>a, <2>3, LenIsNat
            <3> QED  BY <1>a, <3>1, IntervalsSame
      <2> HIDE DEF s
      <2>5. items' = s  BY <1>1 DEF s
      <2>6. Rows(items') = Rows(items)  BY <2>4, <2>5 DEF Rows
      <2>7. SongsAt(items', list'.marked) = SongsAt(items, list.marked)
            <3>1. SongsAt(s, list'.marked) = {s[(r + by) + 1] : r \in list.marked}
                  BY <1>1 DEF SongsAt
            <3> QED  BY <2>2, <2>5, <3>1 DEF SongsAt
      <2>8. list'.marked \subseteq Rows(items')  BY <1>1, <2>6
      <2>9. ~stale' => list'.len \in {None, Len(items')} /\ AtSongs(items', list', meant')
            BY <1>b, <1>1, <2>4, <2>5, <2>7, <2>8 DEF AtSongs
      <2> QED  BY <1>1, <2>2, <2>5, <2>9 DEF MarksInv
<1>2. ASSUME NEW i \in DOMAIN items, NEW j \in DOMAIN items, list.marked = {},
             items' = Swapped(items, i, j), list'.len = list.len, list'.marked = {},
             meant' = meant, stale' = stale
      PROVE  MarksInv'
      <2>1. IsInjective(items')  BY <1>a, <1>2, SwappedPlaces
      <2>2. Len(items') = Len(items)
            <3>1. IsSeq(items') /\ DOMAIN items' = DOMAIN items
                  BY <1>a, <1>2, SwappedIsSeq DEF Swapped
            <3>2. Len(items') \in Nat /\ 1..Len(items') = 1..Len(items)  BY <1>a, <3>1, LenIsNat
            <3> QED  BY <1>a, <3>2, IntervalsSame
      <2>3. ~stale' => list'.len \in {None, Len(items')} /\ AtSongs(items', list', meant')
            BY <1>b, <1>2, <2>2 DEF AtSongs, SongsAt
      <2> QED  BY <1>2, <2>1, <2>3 DEF MarksInv
<1>3. ASSUME NEW row, NEW S PROVE LET l == [Select(list, row, Scrolloff) EXCEPT !.marked = S] IN
                                  l.len = list.len /\ l.marked = S
      <2> DEFINE m == Select(list, row, Scrolloff)
      <2>1. Fielded(m) /\ m.len = list.len  BY <1>0, SelectMarks DEF SameMarks
      <2> HIDE DEF m
      <2>2. LET l == [m EXCEPT !.marked = S] IN l.len = list.len /\ l.marked = S
            BY <2>1 DEF Fielded
      <2> QED  BY <2>2 DEF m
<1>4. \A row : SameMarks(list, Select(list, row, Scrolloff))  BY <1>0, SelectMarks
<1>5. CASE MoveMarkedUp
      <2> DEFINE to == Least(list.marked) - 1
                 m  == Select(list, to, Scrolloff)
      <2>1. m.marked = list.marked  BY <1>4 DEF SameMarks
      <2>2. list' = [m EXCEPT !.marked = {r - 1 : r \in m.marked}]  BY <1>5 DEF MoveMarkedUp, Shift
      <2>3. list'.len = list.len /\ list'.marked = {r - 1 : r \in list.marked}
            BY <1>3, <2>1, <2>2
      <2>4. MarksExist /\ 0 \notin list.marked /\ items' = Shifted(items, list.marked, -1)
            /\ meant' = meant /\ stale' = stale
            BY <1>5 DEF MoveMarkedUp, Shift, ShiftedUp
      <2>5. \A r \in list.marked : r \in Int /\ r + (-1) = r - 1 /\ r - 1 \in Rows(items)
            BY <1>a, <2>4 DEF MarksExist, Rows
      <2>6. list'.marked = {r + (-1) : r \in list.marked}  BY <2>3, <2>5
      <2> QED  BY <1>1, <2>3, <2>4, <2>5, <2>6
<1>6. CASE MoveMarkedDown
      <2> DEFINE to == Greatest(list.marked) + 1
                 m  == Select(list, to, Scrolloff)
      <2>1. m.marked = list.marked  BY <1>4 DEF SameMarks
      <2>2. list' = [m EXCEPT !.marked = {r + 1 : r \in m.marked}]  BY <1>6 DEF MoveMarkedDown, Shift
      <2>3. list'.len = list.len /\ list'.marked = {r + 1 : r \in list.marked}
            BY <1>3, <2>1, <2>2
      <2>4. MarksExist /\ Len(items) - 1 \notin list.marked /\ items' = Shifted(items, list.marked, 1)
            /\ meant' = meant /\ stale' = stale
            BY <1>6 DEF MoveMarkedDown, Shift, ShiftedDown
      <2>5. \A r \in list.marked : r + 1 \in Rows(items)  BY <1>a, <2>4 DEF MarksExist, Rows
      <2> QED  BY <1>1, <2>3, <2>4, <2>5
<1>7. CASE MoveUp
      <2>1. list.sel + 1 \in DOMAIN items /\ list.sel \in DOMAIN items
            BY <1>a, <1>7 DEF MoveUp, HasSelected, Rows
      <2>2. list.marked = {} /\ list'.marked = {} /\ list'.len = list.len
            BY <1>4, <1>7 DEF MoveUp, Shift, SameMarks
      <2> QED  BY <1>2, <1>7, <2>1, <2>2 DEF MoveUp, Shift
<1>8. CASE MoveDown
      <2> DEFINE to == AtMost(list.sel + 1, Len(items) - 1)
      <2>1. list.sel + 1 \in DOMAIN items /\ to + 1 \in DOMAIN items
            BY <1>a, <1>8 DEF MoveDown, HasSelected, Rows, AtMost
      <2>2. items' = Swapped(items, list.sel + 1, to + 1) /\ list' = Select(list, to, Scrolloff)
            /\ list.marked = {} /\ meant' = meant /\ stale' = stale
            BY <1>8 DEF MoveDown, Shift
      <2> HIDE DEF to
      <2>3. list'.marked = {} /\ list'.len = list.len  BY <1>4, <2>2 DEF SameMarks
      <2> QED  BY <1>2, <2>1, <2>2, <2>3
<1> QED  BY <1>5, <1>6, <1>7, <1>8 DEF Shifts

\* The inductive invariant of the marks: no song is in the queue twice, a list
\* whose queue has not changed knows its length, and the marks are where the
\* marked songs are.  Without the first two a song that is unmarked, or all that
\* are not marked, could be others than the user sees (queue.rs:1134-1146).
THEOREM MarksInvariant == Spec => []MarksInv
<1>1. IInv /\ [Next]_vars => IInv'
      BY NextKeeps DEF Kept, Keeps, IInv
<1>2. MarksInv /\ [Next]_vars => MarksInv'
      <2> SUFFICES ASSUME MarksInv, [Next]_vars PROVE MarksInv'  OBVIOUS
      <2>1. IInv'  BY <1>1 DEF MarksInv
      <2>2. CASE Next
            BY <2>1, <2>2, TellKeepsMarks, MovesKeepInv, MarkingKeepsMarks, ShiftsKeepMarks DEF Next
      <2>3. CASE UNCHANGED vars  BY <2>1, <2>3 DEF vars, MarksInv, AtSongs
      <2> QED  BY <2>2, <2>3
<1> QED  BY InitMarks, <1>2, PTL DEF Spec

\* Until the queue changes under them the marks are on the songs the user has
\* marked, through moves, inversions and albums (queue.rs:918-1000, 1134-1146).
THEOREM MarksAreOnTheirSongs == Spec => []MarksKeepTheirSongs
<1>1. MarksInv => MarksKeepTheirSongs  BY DEF MarksInv, AtSongs, MarksKeepTheirSongs
<1> QED  BY MarksInvariant, <1>1, PTL

-----------------------------------------------------------------------------
(* Sequences.                                                              *)

\* A sequence is one over any set that has its elements.
LEMMA InSeq == ASSUME NEW q, IsSeq(q), NEW S, \A i \in DOMAIN q : q[i] \in S PROVE q \in Seq(S)
<1>1. PICK n \in Nat : q = [i \in 1..n |-> q[i]]  BY DEF IsSeq
<1>2. DOMAIN q = 1..n  BY <1>1
<1>3. [i \in 1..n |-> q[i]] \in Seq(S)  BY <1>2
<1> QED  BY <1>1, <1>3, Zenon

\* A member of Seq(S) is a sequence.
LEMMA SeqIs == ASSUME NEW S, NEW q \in Seq(S) PROVE IsSeq(q)
<1>1. q = [i \in 1..Len(q) |-> q[i]]  OBVIOUS
<1> QED  BY <1>1 DEF IsSeq

\* Append adds one element at the end.
LEMMA AppendIsSeq ==
    ASSUME NEW q, IsSeq(q), NEW a
    PROVE  /\ IsSeq(Append(q, a)) /\ Len(Append(q, a)) = Len(q) + 1
           /\ Append(q, a)[Len(q) + 1] = a
           /\ \A i \in 1..Len(q) : Append(q, a)[i] = q[i]
<1> DEFINE S == {q[i] : i \in DOMAIN q} \union {a}
<1>1. q \in Seq(S)
      <2>1. \A i \in DOMAIN q : q[i] \in S  OBVIOUS
      <2> HIDE DEF S
      <2> QED  BY <2>1, InSeq
<1>2. a \in S  OBVIOUS
<1> HIDE DEF S
<1>3. Append(q, a) \in Seq(S)  BY <1>1, <1>2
<1>4. Len(q) \in Nat  BY <1>1
<1>5. Len(Append(q, a)) = Len(q) + 1  BY <1>1, <1>2, <1>4
<1>6. Append(q, a)[Len(q) + 1] = a  BY <1>1, <1>2, <1>4
<1>7. \A i \in 1..Len(q) : Append(q, a)[i] = q[i]  BY <1>1, <1>2, <1>4
<1> QED  BY <1>3, <1>5, <1>6, <1>7, SeqIs

\* Tail takes the first element off.
LEMMA TailIsSeq ==
    ASSUME NEW q, IsSeq(q), q # <<>>
    PROVE  /\ IsSeq(Tail(q)) /\ Len(q) > 0 /\ Len(Tail(q)) = Len(q) - 1 /\ Head(q) = q[1]
           /\ \A i \in 1..Len(Tail(q)) : Tail(q)[i] = q[i + 1]
<1> DEFINE S == {q[i] : i \in DOMAIN q}
<1>1. q \in Seq(S)
      <2>1. \A i \in DOMAIN q : q[i] \in S  OBVIOUS
      <2> HIDE DEF S
      <2> QED  BY <2>1, InSeq
<1> HIDE DEF S
<1>2. Len(q) \in Nat /\ Len(q) > 0  BY <1>1
<1>3. Tail(q) \in Seq(S)  BY <1>1, <1>2
<1>4. Len(Tail(q)) = Len(q) - 1  BY <1>1, <1>2
<1>5. \A i \in 1..(Len(q) - 1) : Tail(q)[i] = q[i + 1]  BY <1>1, <1>2
<1>6. Head(q) = q[1]  BY <1>1, <1>2
<1> QED  BY <1>2, <1>3, <1>4, <1>5, <1>6, SeqIs

\* Concatenation puts the second behind the first.
LEMMA ConcatIsSeq ==
    ASSUME NEW p, NEW q, IsSeq(p), IsSeq(q)
    PROVE  /\ IsSeq(p \o q) /\ Len(p \o q) = Len(p) + Len(q)
           /\ \A i \in 1..Len(p) : (p \o q)[i] = p[i]
           /\ \A i \in 1..Len(q) : (p \o q)[Len(p) + i] = q[i]
<1> DEFINE S == {q[i] : i \in DOMAIN q} \union {p[i] : i \in DOMAIN p}
<1>1. q \in Seq(S) /\ p \in Seq(S)
      <2>1. \A i \in DOMAIN q : q[i] \in S  OBVIOUS
      <2>2. \A i \in DOMAIN p : p[i] \in S  OBVIOUS
      <2> HIDE DEF S
      <2> QED  BY <2>1, <2>2, InSeq
<1> HIDE DEF S
<1>3. p \o q \in Seq(S)  BY <1>1
<1>4. \A i \in 1..Len(q) : (p \o q)[Len(p) + i] = q[i]
      <2> TAKE i \in 1..Len(q)
      <2>1. Len(p) \in Nat /\ Len(q) \in Nat  BY <1>1
      <2>2. Len(p) + i \in 1..(Len(p) + Len(q)) /\ ~(Len(p) + i <= Len(p)) /\ Len(p) + i - Len(p) = i  BY <2>1
      <2> QED  BY <1>1, <2>1, <2>2
<1>5. Len(p \o q) = Len(p) + Len(q)  BY <1>1
<1>6. \A i \in 1..Len(p) : (p \o q)[i] = p[i]  BY <1>1
<1> QED  BY <1>3, <1>4, <1>5, <1>6, SeqIs

\* RemoveAt takes one element out and keeps the order of the rest.
LEMMA RemoveIsSeq ==
    ASSUME NEW q, IsSeq(q), NEW n \in 1..Len(q)
    PROVE  /\ IsSeq(RemoveAt(q, n)) /\ Len(RemoveAt(q, n)) = Len(q) - 1
           /\ \A i \in 1..(Len(q) - 1) : RemoveAt(q, n)[i] = IF i < n THEN q[i] ELSE q[i + 1]
<1> DEFINE S == {q[i] : i \in DOMAIN q}
           a == SubSeq(q, 1, n - 1)
           b == SubSeq(q, n + 1, Len(q))
<1>1. q \in Seq(S)
      <2>1. \A i \in DOMAIN q : q[i] \in S  OBVIOUS
      <2> HIDE DEF S
      <2> QED  BY <2>1, InSeq
<1> HIDE DEF S
<1>2. Len(q) \in Nat /\ n \in Nat /\ n >= 1 /\ n <= Len(q)  BY <1>1
<1>3. a \in Seq(S) /\ Len(a) = n - 1 /\ \A i \in 1..(n - 1) : a[i] = q[i]  BY <1>1, <1>2
<1>4. b \in Seq(S) /\ Len(b) = Len(q) - n /\ \A i \in 1..(Len(q) - n) : b[i] = q[n + i]  BY <1>1, <1>2
<1>5. RemoveAt(q, n) = a \o b  BY DEF RemoveAt
<1> HIDE DEF a, b
<1>6. IsSeq(a) /\ IsSeq(b)  BY <1>3, <1>4, SeqIs
<1>7. \A i \in 1..(Len(q) - 1) : (a \o b)[i] = IF i < n THEN q[i] ELSE q[i + 1]
      <2> TAKE i \in 1..(Len(q) - 1)
      <2>1. CASE i < n
            <3>1. i \in 1..Len(a) /\ i \in 1..(n - 1)  BY <1>2, <1>3, <2>1
            <3> QED  BY <3>1, <1>3, <1>6, <2>1, ConcatIsSeq
      <2>2. CASE ~(i < n)
            <3>1. i - n + 1 \in 1..Len(b) /\ i - n + 1 \in 1..(Len(q) - n)
                  /\ Len(a) + (i - n + 1) = i /\ n + (i - n + 1) = i + 1  BY <1>2, <1>3, <1>4, <2>2
            <3>2. (a \o b)[Len(a) + (i - n + 1)] = b[i - n + 1]  BY <3>1, <1>6, ConcatIsSeq
            <3> QED  BY <3>1, <3>2, <1>4, <2>2
      <2> QED  BY <2>1, <2>2
<1>8. IsSeq(a \o b) /\ Len(a \o b) = Len(a) + Len(b)  BY <1>6, ConcatIsSeq
<1>9. Len(a \o b) = Len(q) - 1  BY <1>2, <1>3, <1>4, <1>8
<1> QED  BY <1>5, <1>7, <1>8, <1>9
-----------------------------------------------------------------------------
\* The recursion of RowsDeleted, as far as n rows.
LeftAfter(q, rows, n, f) ==
    [k \in 0..n |-> IF k = 0 THEN q
                    ELSE IF Len(q) - k \in rows THEN RemoveAt(f[k - 1], Len(q) - k + 1)
                    ELSE f[k - 1]]

\* It has a solution for every n.
LEMMA LeftExists ==
    ASSUME NEW q, NEW rows, NEW n \in Nat
    PROVE  \E f : f = LeftAfter(q, rows, n, f)
<1> DEFINE Bad == {m \in Nat : ~ \E f : f = LeftAfter(q, rows, m, f)}
<1> SUFFICES Bad = {}  OBVIOUS
<1> SUFFICES ASSUME Bad # {} PROVE FALSE  OBVIOUS
<1>1. PICK m \in Bad : \A x \in Bad : m <= x
      <2>1. Bad \in SUBSET Nat  OBVIOUS
      <2> HIDE DEF Bad
      <2> QED  BY <2>1, LeastOfSet
<1>2. CASE m = 0
      <2> DEFINE f == [k \in 0..0 |-> q]
      <2>1. f = LeftAfter(q, rows, 0, f)  BY DEF LeftAfter
      <2> QED  BY <1>2, <2>1
<1>3. CASE m # 0
      <2>1. m \in Nat /\ m - 1 \in Nat /\ ~(m <= m - 1)  BY <1>3
      <2>2. PICK f : f = LeftAfter(q, rows, m - 1, f)  BY <1>1, <2>1
      <2> DEFINE Next1 == IF Len(q) - m \in rows THEN RemoveAt(f[m - 1], Len(q) - m + 1) ELSE f[m - 1]
                 g == [k \in 0..m |-> IF k = m THEN Next1 ELSE f[k]]
      <2>3. \A k \in 0..m : g[k] = LeftAfter(q, rows, m, g)[k]
            <3> TAKE k \in 0..m
            <3>1. CASE k = m
                  <4>1. g[k] = Next1 /\ m - 1 \in 0..m /\ m - 1 # m  BY <3>1, <2>1
                  <4>2. g[m - 1] = f[m - 1]  BY <4>1
                  <4> QED  BY <3>1, <4>1, <4>2, <1>3 DEF LeftAfter
            <3>2. CASE k # m
                  <4>1. k \in 0..(m - 1) /\ g[k] = f[k]  BY <3>2, <2>1
                  <4>2. f[k] = LeftAfter(q, rows, m - 1, f)[k]  BY <2>2
                  <4>3. k # 0 => k - 1 \in 0..m /\ k - 1 # m  BY <4>1, <2>1
                  <4>4. k # 0 => g[k - 1] = f[k - 1]  BY <4>3
                  <4> HIDE DEF g
                  <4> QED  BY <4>1, <4>2, <4>4 DEF LeftAfter
            <3> QED  BY <3>1, <3>2
      <2>4. g = LeftAfter(q, rows, m, g)
            <3>1. g = [k \in 0..m |-> g[k]]  OBVIOUS
            <3> HIDE DEF g
            <3> QED  BY <3>1, <2>3 DEF LeftAfter
      <2> HIDE DEF g
      <2> QED  BY <2>4
<1> QED  BY <1>2, <1>3

\* RowsDeleted is the last value of a solution (mpd_client_ext.rs:222-234).
LEMMA RowsDeletedIsLeft ==
    ASSUME NEW q, NEW rows, Len(q) \in Nat
    PROVE  \E f : f = LeftAfter(q, rows, Len(q), f) /\ RowsDeleted(q, rows) = f[Len(q)]
<1> DEFINE left[n \in 0..Len(q)] ==
            IF n = 0 THEN q
            ELSE IF Len(q) - n \in rows THEN RemoveAt(left[n - 1], Len(q) - n + 1)
            ELSE left[n - 1]
<1>1. left = LeftAfter(q, rows, Len(q), left)
      <2>1. left = CHOOSE f : f = LeftAfter(q, rows, Len(q), f)  BY DEF LeftAfter
      <2> HIDE DEF left
      <2> QED  BY <2>1, LeftExists
<1>2. RowsDeleted(q, rows) = left[Len(q)]  BY DEF RowsDeleted
<1> HIDE DEF left
<1> QED  BY <1>1, <1>2

\* new is old without the rows, and every place of it is one.
Shrunk(old, rows, new) ==
    /\ IsSeq(new) /\ Remains(old, rows, new)
    /\ \A i \in DOMAIN old : i - 1 \notin rows => 
         i - Cardinality({r \in rows : r < i - 1}) \in 1..Len(new)

\* Deleting a row above those that are gone leaves the others in their order.
LEMMA ShrunkByOne ==
    ASSUME NEW q, NEW now, IsSeq(q), NEW m \in 0..(Len(q) - 1),
           NEW gone \in SUBSET ((m + 1)..(Len(q) - 1)), Shrunk(q, gone, now)
    PROVE  Shrunk(q, gone \union {m}, RemoveAt(now, m + 1))
<1> DEFINE Before(i) == {r \in gone : r < i - 1}
           new == RemoveAt(now, m + 1)
<1>1. Len(q) \in Nat /\ m \in Nat /\ DOMAIN q = 1..Len(q)  BY LenIsNat
<1>0. \A r \in gone : r \in Nat /\ m < r /\ r < Len(q)  BY <1>1
<1>2. IsFiniteSet(gone) /\ Cardinality(gone) \in Nat
      <2>1. IsFiniteSet((m + 1)..(Len(q) - 1))  BY <1>1, FS_Interval
      <2> QED  BY <2>1, FS_Subset, FS_CardinalityType
<1>3. \A i : IsFiniteSet(Before(i)) /\ Cardinality(Before(i)) \in Nat
      BY <1>2, FS_Subset, FS_CardinalityType
<1>4. ASSUME NEW i, i = m + 1 PROVE i \in 1..Len(now)
      <2>0. \A r \in gone : ~(r < i - 1)
            <3> TAKE r \in gone
            <3>1. r \in Nat /\ m < r  BY <1>0
            <3> QED  BY <3>1, <1>1, <1>4
      <2>1. Before(i) = {}  BY <2>0
      <2>2. Cardinality(Before(i)) = 0  BY <2>1, FS_EmptySet
      <2>3. i \in DOMAIN q /\ i - 1 \notin gone /\ i - 0 = i  BY <1>0, <1>1, <1>4
      <2>4. i - Cardinality(Before(i)) \in 1..Len(now)
            BY <2>3 DEF Shrunk, Before
      <2> HIDE DEF Before
      <2> QED  BY <2>2, <2>3, <2>4
<1>5. IsSeq(now) /\ Len(now) \in Nat /\ Len(now) = Len(q) - Cardinality(gone)
      BY LenIsNat DEF Shrunk, Remains
<1>6. /\ IsSeq(new) /\ Len(new) = Len(now) - 1
      /\ \A i \in 1..(Len(now) - 1) : new[i] = IF i < m + 1 THEN now[i] ELSE now[i + 1]
      BY <1>4, <1>5, RemoveIsSeq
<1>7. m \notin gone  BY <1>1
<1>8. Cardinality(gone \union {m}) = Cardinality(gone) + 1  BY <1>2, <1>7, FS_AddElement
<1>9. ASSUME NEW i \in 1..Len(q), i - 1 \notin gone \union {m}
      PROVE  LET p == i - Cardinality({r \in gone \union {m} : r < i - 1})
             IN  p \in 1..Len(new) /\ new[p] = q[i]
      <2> DEFINE k == Cardinality(Before(i))
      <2>1. k \in Nat /\ i - k \in 1..Len(now) /\ now[i - k] = q[i]
            <3>1. k \in Nat  BY <1>3
            <3>2. i \in DOMAIN q /\ i - 1 \notin gone  BY <1>1, <1>9
            <3> QED  BY <3>1, <3>2 DEF Shrunk, Remains
      <2>2. CASE i - 1 < m
            <3>0. \A r \in gone \union {m} : ~(r < i - 1)
                  <4> TAKE r \in gone \union {m}
                  <4>1. r \in Nat /\ m <= r  BY <1>0, <1>1
                  <4> QED  BY <4>1, <1>1, <2>2
            <3>1. {r \in gone \union {m} : r < i - 1} = {} /\ Before(i) = {}  BY <3>0, Zenon
            <3>2. Cardinality({r \in gone \union {m} : r < i - 1}) = 0 /\ k = 0  BY <3>1, FS_EmptySet
            <3> HIDE DEF k
            <3>3. i - k = i /\ i - 0 = i /\ i < m + 1  BY <3>2, <2>2, <1>1
            <3>4. i \in 1..(Len(now) - 1)  BY <3>3, <1>4, <1>5, <1>1
            <3> HIDE DEF new
            <3> QED  BY <3>2, <3>3, <3>4, <2>1, <1>6, <1>5
      <2>3. CASE i - 1 > m
            <3>1. {r \in gone \union {m} : r < i - 1} = Before(i) \union {m} /\ m \notin Before(i)
                  <4>1. m < i - 1  BY <1>1, <2>3
                  <4> QED  BY <4>1, <1>7, Zenon
            <3>2. Cardinality({r \in gone \union {m} : r < i - 1}) = k + 1
                  <4>1. Cardinality(Before(i) \union {m}) = Cardinality(Before(i)) + 1
                        <5> HIDE DEF Before
                        <5> QED  BY <3>1, <1>3, FS_AddElement
                  <4> QED  BY <3>1, <4>1
            <3>3. k <= i - 2 - m
                  <4>1. ASSUME NEW r \in Before(i) PROVE r \in (m + 1)..(i - 2)
                        <5>1. r \in Nat /\ m < r /\ r < i - 1  BY <1>0
                        <5> QED  BY <5>1, <1>1
                  <4>2. IsFiniteSet((m + 1)..(i - 2)) /\ Cardinality((m + 1)..(i - 2)) = i - 2 - m
                        <5>1. m + 1 \in Int /\ i - 2 \in Int /\ m + 1 <= i - 2 + 1
                              /\ i - 2 - (m + 1) + 1 = i - 2 - m  BY <1>1, <2>3
                        <5>2. m + 1 > i - 2 => i - 2 - m = 0  BY <1>1, <2>3
                        <5> QED  BY <5>1, <5>2, FS_Interval
                  <4>3. Before(i) \subseteq (m + 1)..(i - 2)  BY <4>1
                  <4> HIDE DEF Before
                  <4>4. Cardinality(Before(i)) <= Cardinality((m + 1)..(i - 2))  BY <4>2, <4>3, FS_Subset
                  <4> QED  BY <4>2, <4>4
            <3> HIDE DEF k
            <3>4. i - (k + 1) \in 1..(Len(now) - 1) /\ i - (k + 1) + 1 = i - k /\ ~(i - (k + 1) < m + 1)
                  BY <3>3, <2>1, <1>1, <1>5, <2>3
            <3> HIDE DEF new
            <3>5. new[i - (k + 1)] = q[i]  BY <3>4, <2>1, <1>6
            <3> QED  BY <3>2, <3>4, <3>5, <1>6
      <2> HIDE DEF k
      <2> QED  BY <2>2, <2>3, <1>1, <1>9
<1>10. Len(new) = Len(q) - Cardinality(gone \union {m})
      <2> HIDE DEF new
      <2>1. Len(new) = Len(q) - Cardinality(gone) - 1  BY <1>5, <1>6
      <2>2. Len(q) - Cardinality(gone) - 1 = Len(q) - (Cardinality(gone) + 1)  BY <1>1, <1>2
      <2> QED  BY <2>1, <2>2, <1>8
<1> HIDE DEF new
<1> QED  BY <1>1, <1>6, <1>9, <1>10 DEF Shrunk, Remains, new

\* Deleting from the last row upwards takes the rows and nothing else
\* (mpd_client_ext.rs:222-234).
LEMMA RowsDeletedRemains ==
    ASSUME NEW q, IsSeq(q), NEW rows \in SUBSET Rows(q)
    PROVE  Shrunk(q, rows, RowsDeleted(q, rows))
<1>1. Len(q) \in Nat /\ DOMAIN q = 1..Len(q)  BY LenIsNat
<1>2. PICK f : f = LeftAfter(q, rows, Len(q), f) /\ RowsDeleted(q, rows) = f[Len(q)]
      BY <1>1, RowsDeletedIsLeft
<1> DEFINE Gone(n) == {r \in rows : r >= Len(q) - n}
           Bad == {n \in Nat : n <= Len(q) /\ ~Shrunk(q, Gone(n), f[n])}
<1>0. \A r \in rows : r \in Nat /\ r < Len(q)  BY <1>1 DEF Rows
<1>3. Bad = {}
  <2> SUFFICES ASSUME Bad # {} PROVE FALSE  OBVIOUS
  <2>1. PICK n \in Bad : \A x \in Bad : n <= x
        <3>1. Bad \in SUBSET Nat  OBVIOUS
        <3> HIDE DEF Bad
        <3> QED  BY <3>1, LeastOfSet
  <2>2. n \in Nat /\ n <= Len(q)  OBVIOUS
  <2>3. CASE n = 0
        <3>1. f[0] = q  BY <1>1, <1>2 DEF LeftAfter
        <3>2. Gone(0) = {}  BY <1>0, <1>1
        <3>3. \A i : {r \in {} : r < i - 1} = {}  OBVIOUS
        <3>4. Shrunk(q, {}, q)  BY <1>1, <3>3, FS_EmptySet DEF Shrunk, Remains
        <3> QED  BY <2>3, <3>1, <3>2, <3>4
  <2>4. CASE n # 0
        <3> DEFINE m == Len(q) - n
        <3>1. n - 1 \in Nat /\ n - 1 <= Len(q) /\ ~(n <= n - 1)  BY <2>2, <2>4, <1>1
        <3>2. Shrunk(q, Gone(n - 1), f[n - 1])  BY <2>1, <3>1
        <3>3. f[n] = IF m \in rows THEN RemoveAt(f[n - 1], m + 1) ELSE f[n - 1]
              <4>1. n \in 0..Len(q)  BY <2>2, <1>1
              <4>2. f[n] = LeftAfter(q, rows, Len(q), f)[n]  BY <1>2
              <4> QED  BY <4>1, <4>2, <2>4 DEF LeftAfter
        <3>4. CASE m \in rows
              <4>1. Gone(n) = Gone(n - 1) \union {m}  BY <3>4, <2>2, <1>0, <1>1
              <4>2. m \in 0..(Len(q) - 1) /\ Gone(n - 1) \in SUBSET ((m + 1)..(Len(q) - 1))
                    BY <3>4, <2>2, <1>0, <1>1
              <4> HIDE DEF m, Gone
              <4> QED  BY <3>2, <3>3, <3>4, <4>1, <4>2, ShrunkByOne
        <3>5. CASE m \notin rows
              <4>1. Gone(n) = Gone(n - 1)  BY <3>5, <2>2, <1>0, <1>1
              <4> QED  BY <3>2, <3>3, <3>5, <4>1
        <3> QED  BY <3>4, <3>5
  <2> QED  BY <2>3, <2>4
<1>4. Gone(Len(q)) = rows  BY <1>0, <1>1
<1> QED  BY <1>1, <1>2, <1>3, <1>4

-----------------------------------------------------------------------------
(* The browsing panes.                                                     *)

IsDir(d) ==
    /\ d = [items |-> d.items, marked |-> d.marked, sel |-> d.sel]
    /\ IsSeq(d.items) /\ d.sel \in Int

Root(s) == s.dirs[<<>>]
Target(s) == <<Selected(Root(s))>>

\* The root is known, and what is shown below it is the container under its cursor.
IsStack(s) ==
    /\ s = [path |-> s.path, dirs |-> [p \in DOMAIN s.dirs |-> s.dirs[p]]]
    /\ <<>> \in DOMAIN s.dirs /\ s.path \in DOMAIN s.dirs
    /\ \A p \in DOMAIN s.dirs : IsDir(s.dirs[p])
    /\ s.path # <<>> => IsSelected(Root(s)) /\ s.path = Target(s)

\* Nothing is known in the one that is not in the other.
SameSongs(s, t) ==
    /\ DOMAIN s.dirs \subseteq DOMAIN t.dirs
    /\ \A p \in DOMAIN t.dirs :
           t.dirs[p].items = IF p \in DOMAIN s.dirs THEN s.dirs[p].items ELSE <<>>

\* The empty sequence is one.
LEMMA EmptyIsSeq == IsSeq(<<>>) /\ Len(<<>>) = 0
<1>1. <<>> \in Seq({}) /\ Len(<<>>) = 0  OBVIOUS
<1> QED  BY <1>1, SeqIs

\* A selection moves only the cursor, to a row if there is one (state.rs:323-330).
LEMMA SelectInIs ==
    ASSUME NEW d, IsDir(d), NEW row \in Int
    PROVE  /\ IsDir(SelectIn(d, row))
           /\ SelectIn(d, row).items = d.items /\ SelectIn(d, row).marked = d.marked
           /\ row \in Rows(d.items) => SelectIn(d, row).sel = row
           /\ d.items # <<>> /\ row >= 0 => IsSelected(SelectIn(d, row))
<1>1. Len(d.items) \in Nat /\ IsSeq(d.items) /\ (d.items # <<>> => Len(d.items) > 0)
      BY LenIsNat, TailIsSeq DEF IsDir
<1> DEFINE r == IF row < Len(d.items) THEN row ELSE IF d.items = <<>> THEN 0 ELSE Len(d.items) - 1
<1>2. r \in Int  BY <1>1
<1>3. SelectIn(d, row) = [items |-> d.items, marked |-> d.marked, sel |-> r]
      BY DEF SelectIn, IsDir
<1>4. row \in Rows(d.items) => r = row  BY <1>1 DEF Rows
<1>5. d.items # <<>> /\ row >= 0 => r \in Rows(d.items)  BY <1>1 DEF Rows
<1> HIDE DEF r
<1> QED  BY <1>1, <1>2, <1>3, <1>4, <1>5 DEF IsDir, IsSelected

\* A new list has its first row selected, if it has any (stack.rs:113-121).
LEMMA DirIs == ASSUME NEW q, IsSeq(q)
               PROVE  IsDir(Dir(q)) /\ Dir(q).items = q /\ (q # <<>> => IsSelected(Dir(q)))
<1>1. Len(q) \in Nat /\ (q # <<>> => Len(q) > 0)  BY LenIsNat, TailIsSeq
<1> QED  BY <1>1 DEF Dir, IsDir, IsSelected, Rows, NoRow

\* A new stack knows its root alone (stack.rs:33-39).
LEMMA NewStackIs ==
    ASSUME NEW q, IsSeq(q)
    PROVE  /\ IsStack(NewStack(q)) /\ NewStack(q).path = <<>>
           /\ DOMAIN NewStack(q).dirs = {<<>>} /\ Root(NewStack(q)) = Dir(q)
BY DirIs DEF NewStack, IsStack, Root

\* Only the shown list is another.
LEMMA WithCurrentIs ==
    ASSUME NEW s, IsStack(s), NEW d, IsDir(d)
    PROVE  /\ IsStack(WithCurrent(s, d))
           /\ d.items = CurrentDir(s).items => SameSongs(s, WithCurrent(s, d))
           /\ WithCurrent(s, d).path = s.path /\ CurrentDir(WithCurrent(s, d)) = d
           /\ Root(WithCurrent(s, d)) = IF s.path = <<>> THEN d ELSE Root(s)
<1> DEFINE t == WithCurrent(s, d)
           fs == [p \in DOMAIN s.dirs |-> IF p = s.path THEN d ELSE s.dirs[p]]
<1>1. t = [path |-> s.path, dirs |-> fs]
      BY DEF WithCurrent, IsStack
<1>2. t.path = s.path /\ t.dirs = fs  BY <1>1
<1> HIDE DEF t
<1>3. DOMAIN t.dirs = DOMAIN s.dirs /\ \A p \in DOMAIN s.dirs : t.dirs[p] = IF p = s.path THEN d ELSE s.dirs[p]
      BY <1>2
<1>4. t = [path |-> t.path, dirs |-> [p \in DOMAIN t.dirs |-> t.dirs[p]]]
      BY <1>1, <1>2
<1> HIDE DEF fs
<1>5. s.path \in DOMAIN s.dirs /\ <<>> \in DOMAIN s.dirs  BY DEF IsStack
<1>6. IsStack(t)  BY <1>2, <1>3, <1>4, <1>5 DEF IsStack, Root, Target
<1>7. d.items = CurrentDir(s).items => SameSongs(s, t)  BY <1>3 DEF SameSongs, CurrentDir
<1> QED  BY <1>2, <1>3, <1>5, <1>6, <1>7 DEF CurrentDir, Root, t

\* t is s with the list q at the path p.
Inserted(s, p, q, t) ==
    /\ IsStack(t) /\ t.path = s.path /\ Root(t) = Root(s)
    /\ DOMAIN t.dirs = DOMAIN s.dirs \union {p}
    /\ t.dirs[p].items = q
    /\ \A o \in DOMAIN s.dirs : o # p => t.dirs[o] = s.dirs[o]

\* Below the root a list may be put at any path (stack.rs:113-121).
LEMMA InsertDirIs ==
    ASSUME NEW s, IsStack(s), NEW p, p # <<>>, NEW d, IsDir(d), NEW q, q = d.items
    PROVE  Inserted(s, p, q, InsertDir(s, p, d)) /\ InsertDir(s, p, d).dirs[p] = d
<1> DEFINE t == InsertDir(s, p, d)
           fs == [o \in DOMAIN s.dirs \union {p} |-> IF o = p THEN d ELSE s.dirs[o]]
<1>1. t = [path |-> s.path, dirs |-> fs]  BY DEF InsertDir, IsStack
<1>2. t.path = s.path /\ t.dirs = fs  BY <1>1
<1> HIDE DEF t
<1>3. /\ DOMAIN t.dirs = DOMAIN s.dirs \union {p}
      /\ \A o \in DOMAIN s.dirs \union {p} : t.dirs[o] = IF o = p THEN d ELSE s.dirs[o]
      BY <1>2
<1>4. t = [path |-> t.path, dirs |-> [o \in DOMAIN t.dirs |-> t.dirs[o]]]  BY <1>1, <1>2
<1> HIDE DEF fs
<1>5. s.path \in DOMAIN s.dirs /\ <<>> \in DOMAIN s.dirs  BY DEF IsStack
<1>6. IsStack(t)  BY <1>2, <1>3, <1>4, <1>5 DEF IsStack, Root, Target
<1>7. Inserted(s, p, q, t) /\ t.dirs[p] = d  BY <1>2, <1>3, <1>5, <1>6 DEF Inserted, Root
<1> QED  BY <1>7 DEF t

\* So may a list of items (stack.rs:113-121).
LEMMA InsertIs ==
    ASSUME NEW s, IsStack(s), NEW p, p # <<>>, NEW q, IsSeq(q)
    PROVE  Inserted(s, p, q, Insert(s, p, q))
<1> DEFINE d == Dir(q)
<1>1. IsDir(d) /\ q = d.items  BY DirIs
<1>2. Insert(s, p, q) = InsertDir(s, p, d)  BY DEF Insert
<1> HIDE DEF d
<1> QED  BY <1>1, <1>2, InsertDirIs

\* The root, listed anew (playlists.rs:175-281).
LEMMA NewRootIs ==
    ASSUME NEW d, IsDir(d)
    PROVE  LET s == InsertDir(NewStack(<<>>), <<>>, d)
           IN  IsStack(s) /\ s.path = <<>> /\ DOMAIN s.dirs = {<<>>} /\ Root(s) = d /\ CurrentDir(s) = d
<1> DEFINE s == InsertDir(NewStack(<<>>), <<>>, d)
<1>1. s = [path |-> <<>>, dirs |-> [o \in {<<>>} |-> d]]
      BY DEF InsertDir, NewStack
<1> QED  BY <1>1 DEF IsStack, Root, CurrentDir

\* A path of one container is not that of the root.
LEMMA PathIsNotRoot == \A x : <<x>> # <<>> /\ <<x>>[1] = x
OBVIOUS

\* The container under the cursor is the target.
LEMMA HoveredIsTarget ==
    ASSUME NEW s, OnContainer(s)
    PROVE  Hovered(s) = Target(s) /\ IsSelected(Root(s)) /\ s.path = <<>> /\ CurrentDir(s) = Root(s)
BY DEF OnContainer, Hovered, Target, CurrentDir, Root

\* Entering shows the container under the cursor (stack.rs:138-149).
LEMMA EnteredIs ==
    ASSUME NEW s, IsStack(s)
    PROVE  /\ IsStack(Entered(s)) /\ SameSongs(s, Entered(s)) /\ Root(Entered(s)) = Root(s)
           /\ Entered(s).path = IF OnContainer(s) THEN Hovered(s) ELSE s.path
           /\ DOMAIN s.dirs \subseteq DOMAIN Entered(s).dirs
           /\ \A p \in DOMAIN s.dirs : Entered(s).dirs[p] = s.dirs[p]
<1>1. CASE ~OnContainer(s)
      BY <1>1 DEF Entered, SameSongs
<1>2. CASE OnContainer(s)
      <2> DEFINE h == Hovered(s)
                 u == IF h \in DOMAIN s.dirs THEN s ELSE Insert(s, h, <<>>)
                 t == Entered(s)
      <2>1. h # <<>> /\ h = Target(s) /\ IsSelected(Root(s))  BY <1>2, HoveredIsTarget, PathIsNotRoot DEF Target
      <2> HIDE DEF h
      <2>2. /\ IsStack(u) /\ Root(u) = Root(s) /\ SameSongs(s, u)
            /\ DOMAIN u.dirs = DOMAIN s.dirs \union {h}
            /\ \A p \in DOMAIN s.dirs : u.dirs[p] = s.dirs[p]
            <3>1. CASE h \in DOMAIN s.dirs
                  BY <3>1 DEF SameSongs
            <3>2. CASE h \notin DOMAIN s.dirs
                  <4>1. u = Insert(s, h, <<>>)  BY <3>2
                  <4> HIDE DEF u
                  <4>2. IsSeq(<<>>)  BY EmptyIsSeq
                  <4>3. Inserted(s, h, <<>>, u)  BY <4>1, <4>2, <2>1, InsertIs
                  <4> QED  BY <3>2, <4>3 DEF SameSongs, Inserted
            <3> QED  BY <3>1, <3>2
      <2>3. t = [u EXCEPT !.path = h]  BY <1>2 DEF Entered, h
      <2> HIDE DEF t, u
      <2>4. t = [path |-> h, dirs |-> [p \in DOMAIN u.dirs |-> u.dirs[p]]]  BY <2>2, <2>3 DEF IsStack
      <2>5. t.path = h /\ t.dirs = u.dirs  BY <2>2, <2>3, <2>4 DEF IsStack
      <2>6. IsStack(t)  BY <2>1, <2>2, <2>4, <2>5 DEF IsStack, Root, Target
      <2> QED  BY <1>2, <2>2, <2>5, <2>6 DEF t, h, SameSongs, Root
<1> QED  BY <1>1, <1>2

\* Leaving changes the path only (stack.rs:151-158).
LEMMA LeftIs ==
    ASSUME NEW s, IsStack(s)
    PROVE  IsStack(Left(s)) /\ Left(s).path = <<>> /\ Left(s).dirs = s.dirs /\ SameSongs(s, Left(s))
<1>1. Left(s) = [path |-> <<>>, dirs |-> [p \in DOMAIN s.dirs |-> s.dirs[p]]]  BY DEF Left, IsStack
<1>2. Left(s).path = <<>> /\ Left(s).dirs = s.dirs  BY <1>1 DEF Left, IsStack
<1> QED  BY <1>1, <1>2 DEF IsStack, Root, Target, SameSongs

\* Moving the cursor changes no list.
LEMMA GoIs ==
    ASSUME NEW s, IsStack(s), NEW row \in Int
    PROVE  /\ IsStack(Go(s, row)) /\ SameSongs(s, Go(s, row)) /\ Go(s, row).path = s.path
           /\ s.path # <<>> => Root(Go(s, row)) = Root(s)
<1>1. IsDir(CurrentDir(s))  BY DEF IsStack, CurrentDir
<1> QED  BY <1>1, SelectInIs, WithCurrentIs DEF Go

\* A finite set of numbers can be listed in order.
LEMMA InOrderExists ==
    ASSUME NEW S \in SUBSET Nat, IsFiniteSet(S)
    PROVE  \E l \in [1..Cardinality(S) -> S] : \A i, j \in DOMAIN l : i < j => l[i] < l[j]
<1> DEFINE Ordered(l) == \A i, j \in DOMAIN l : i < j => l[i] < l[j]
           Bad == {n \in Nat : \E T \in SUBSET Nat : /\ IsFiniteSet(T) /\ Cardinality(T) = n
                                                   /\ ~ \E l \in [1..n -> T] : Ordered(l)}
<1>1. Bad = {}
  <2> SUFFICES ASSUME Bad # {} PROVE FALSE  OBVIOUS
  <2>1. PICK n \in Bad : \A x \in Bad : n <= x
        <3>1. Bad \in SUBSET Nat  OBVIOUS
        <3> HIDE DEF Bad
        <3> QED  BY <3>1, LeastOfSet
  <2>2. PICK T \in SUBSET Nat : /\ IsFiniteSet(T) /\ Cardinality(T) = n
                                /\ ~ \E l \in [1..n -> T] : Ordered(l)
        OBVIOUS
  <2>3. CASE T = {}
        <3>1. n = 0  BY <2>2, <2>3, FS_EmptySet
        <3> DEFINE l == [i \in 1..0 |-> 0]
        <3>2. l \in [1..n -> T] /\ Ordered(l)  BY <3>1
        <3> QED  BY <3>2, <2>2
  <2>4. CASE T # {}
        <3>1. PICK m \in T : \A x \in T : m <= x  BY <2>4, LeastOfSet
        <3> DEFINE U == T \ {m}
        <3>2. IsFiniteSet(U) /\ Cardinality(U) = n - 1 /\ n \in Nat
              BY <2>2, <3>1, FS_RemoveElement
        <3>3. n - 1 \in Nat /\ ~(n <= n - 1)  BY <3>2, FS_CardinalityType
        <3>4. PICK l \in [1..(n - 1) -> U] : Ordered(l)
              <4>1. n - 1 \notin Bad  BY <2>1, <3>3
              <4> QED  BY <4>1, <3>2, <3>3
        <3> DEFINE k == [i \in 1..n |-> IF i = 1 THEN m ELSE l[i - 1]]
        <3>5. \A i \in 1..n : k[i] = IF i = 1 THEN m ELSE l[i - 1]  OBVIOUS
        <3>6. \A i \in 1..n : i # 1 => i - 1 \in 1..(n - 1) /\ l[i - 1] \in T /\ m < l[i - 1]
              <4> TAKE i \in 1..n
              <4> HAVE i # 1
              <4>1. i - 1 \in 1..(n - 1)  BY <3>2
              <4>2. l[i - 1] \in T /\ l[i - 1] # m  BY <4>1
              <4>3. m <= l[i - 1] /\ m \in Nat /\ l[i - 1] \in Nat  BY <4>2, <3>1
              <4> QED  BY <4>1, <4>2, <4>3
        <3>7. k \in [1..n -> T]  BY <3>1, <3>6
        <3>8. ASSUME NEW i \in 1..n, NEW j \in 1..n, i < j PROVE k[i] < k[j]
              <4>1. j # 1  BY <3>8
              <4>2. CASE i = 1
                    BY <4>1, <4>2, <3>6
              <4>3. CASE i # 1
                    <5>1. i - 1 \in DOMAIN l /\ j - 1 \in DOMAIN l /\ i - 1 < j - 1  BY <4>1, <4>3, <3>6, <3>8
                    <5>2. l[i - 1] < l[j - 1]  BY <5>1, <3>4
                    <5> QED  BY <4>1, <4>3, <5>2
              <4> QED  BY <4>2, <4>3
        <3>9. Ordered(k)
              <4>1. DOMAIN k = 1..n  OBVIOUS
              <4> HIDE DEF k
              <4> QED  BY <3>8, <4>1
        <3> HIDE DEF k
        <3> QED  BY <3>7, <3>9, <2>2
  <2> QED  BY <2>3, <2>4
<1>2. Cardinality(S) \in Nat  BY FS_CardinalityType
<1>3. Cardinality(S) \notin Bad  BY <1>1
<1> QED  BY <1>2, <1>3

\* The list of MPD's containers is one.
LEMMA ListingIs ==
    ASSUME DOMAIN world \in SUBSET Nat, IsFiniteSet(DOMAIN world)
    PROVE  IsSeq(Listing) /\ \A i \in DOMAIN Listing : Listing[i] \in DOMAIN world
<1> DEFINE n == Cardinality(DOMAIN world)
<1>1. n \in Nat  BY FS_CardinalityType
<1>2. Listing \in [1..n -> DOMAIN world]  BY InOrderExists DEF Listing
<1> HIDE DEF n
<1>3. Listing = [i \in 1..n |-> Listing[i]]  BY <1>2
<1> QED  BY <1>1, <1>2, <1>3 DEF IsSeq

-----------------------------------------------------------------------------
(* Questions and answers.                                                  *)

Ids == {"init", "reinit", "fetch"}
IsPath(p) == \E x : p = <<x>>

IsAsk(a) ==
    /\ a = [id |-> a.id, path |-> a.path] /\ a.id \in Ids
    /\ IF a.id = "fetch" THEN IsPath(a.path) ELSE a.path = <<>>

\* The questions at the client thread: none replaces another.
AreAsks(q) ==
    /\ IsSeq(q) /\ \A i \in DOMAIN q : IsAsk(q[i])
    /\ \A i, j \in DOMAIN q : q[i].id = q[j].id => i = j

IsReply(a) ==
    /\ IsSeq(a.data) /\ a.id \in Ids
    /\ a.id = "fetch" => IsPath(a.path)

AreReplies(q) == IsSeq(q) /\ \A i \in DOMAIN q : IsReply(q[i])

\* Of the places at most one is left out.
LEMMA WithoutIs ==
    ASSUME NEW q, IsSeq(q), NEW P \in SUBSET DOMAIN q, \A i, j \in P : i = j
    PROVE  /\ IsSeq(Without(q, P))
           /\ \A i, k \in DOMAIN Without(q, P) : i <= k =>
                  \E j, l \in DOMAIN q : /\ j \notin P /\ l \notin P /\ (j = l => i = k)
                                        /\ Without(q, P)[i] = q[j] /\ Without(q, P)[k] = q[l]
           /\ \A j \in DOMAIN q : j \notin P => \E i \in DOMAIN Without(q, P) : Without(q, P)[i] = q[j]
<1>1. Len(q) \in Nat /\ DOMAIN q = 1..Len(q)  BY LenIsNat
<1>2. CASE P = {}
      <2>1. Without(q, P) = q  BY <1>2 DEF Without
      <2> QED  BY <1>2, <2>1
<1>3. CASE P # {}
      <2> DEFINE n == CHOOSE i \in P : TRUE
                 w == Without(q, P)
      <2>1. n \in P /\ P = {n}  BY <1>3
      <2>2. w = RemoveAt(q, n)  BY <1>3 DEF Without
      <2>3. n \in 1..Len(q)  BY <2>1, <1>1
      <2> HIDE DEF n, w
      <2>4. /\ IsSeq(w) /\ Len(w) = Len(q) - 1
            /\ \A i \in 1..(Len(q) - 1) : w[i] = IF i < n THEN q[i] ELSE q[i + 1]
            BY <2>2, <2>3, RemoveIsSeq
      <2>5. DOMAIN w = 1..(Len(q) - 1)  BY <2>4, LenIsNat
      <2> DEFINE At(i) == IF i < n THEN i ELSE i + 1
      <2>6. \A i \in DOMAIN w : At(i) \in DOMAIN q /\ At(i) \notin P /\ w[i] = q[At(i)]
            BY <2>1, <2>3, <2>4, <2>5, <1>1
      <2>7. \A i, k \in DOMAIN w : At(i) = At(k) => i = k
            BY <2>3, <2>5, <1>1
      <2>8. ASSUME NEW j \in DOMAIN q, j \notin P PROVE \E i \in DOMAIN w : w[i] = q[j]
            <3>1. CASE j < n
                  <4>1. j \in DOMAIN w /\ w[j] = q[j]  BY <3>1, <2>3, <2>4, <2>5, <1>1
                  <4> QED  BY <4>1
            <3>2. CASE ~(j < n)
                  <4>1. j # n  BY <2>1, <2>8
                  <4>2. j - 1 \in DOMAIN w /\ ~(j - 1 < n) /\ j - 1 + 1 = j
                        BY <4>1, <3>2, <2>3, <2>5, <1>1
                  <4>3. w[j - 1] = q[j]  BY <4>2, <2>4, <2>5
                  <4> QED  BY <4>2, <4>3
            <3> QED  BY <3>1, <3>2
      <2> HIDE DEF At
      <2>9. \A i, k \in DOMAIN w : i <= k =>
                  \E j, l \in DOMAIN q : /\ j \notin P /\ l \notin P /\ (j = l => i = k)
                                        /\ w[i] = q[j] /\ w[k] = q[l]
            BY <2>6, <2>7
      <2> QED  BY <2>4, <2>8, <2>9 DEF w
<1> QED  BY <1>2, <1>3

Question(id, path) == [id |-> id, path |-> path]

\* r is q with a question of the id, instead of another of it.
Asked(q, id, path, r) ==
    /\ AreAsks(r)
    /\ ToSet(r) = {a \in ToSet(q) : a.id # id} \union {Question(id, path)}

\* A question takes the place of the one with its id (core/client.rs:67-75).
LEMMA AskIs ==
    ASSUME NEW q, AreAsks(q), NEW id \in Ids, NEW path,
           IF id = "fetch" THEN IsPath(path) ELSE path = <<>>
    PROVE  Asked(q, id, path, Ask(q, id, path))
<1> DEFINE P == {i \in DOMAIN q : q[i].id = id}
           w == Without(q, P)
           a == Question(id, path)
           r == Ask(q, id, path)
<1>1. IsSeq(q) /\ P \in SUBSET DOMAIN q /\ \A i, j \in P : i = j  BY DEF AreAsks
<1>2. r = Append(w, a)  BY DEF Ask, Question
<1>3. IsAsk(a) /\ a.id = id  BY DEF IsAsk, Question
<1> HIDE DEF a, r
<1>4. IsSeq(w)  BY <1>1, WithoutIs
<1>5. \A i \in DOMAIN w : \E j \in DOMAIN q : q[j].id # id /\ w[i] = q[j]
      <2>1. \A i \in DOMAIN w : \E j \in DOMAIN q : j \notin P /\ w[i] = q[j]
            <3> HIDE DEF P
            <3>1. Len(w) \in Nat /\ DOMAIN w = 1..Len(w)  BY <1>4, LenIsNat
            <3>2. \A i \in DOMAIN w : i <= i  BY <3>1
            <3> QED  BY <1>1, <3>2, WithoutIs
      <2> QED  BY <2>1
<1>6. \A i, k \in DOMAIN w : i < k => w[i].id # w[k].id
      <2> TAKE i, k \in DOMAIN w
      <2> HAVE i < k
      <2>0. Len(w) \in Nat /\ DOMAIN w = 1..Len(w)  BY <1>4, LenIsNat
      <2>1. i <= k /\ i # k  BY <2>0
      <2>2. PICK j, l \in DOMAIN q : j # l /\ w[i] = q[j] /\ w[k] = q[l]
            <3> HIDE DEF P
            <3> QED  BY <1>1, <2>1, WithoutIs
      <2> QED  BY <2>2 DEF AreAsks
<1>7. \A j \in DOMAIN q : q[j].id # id => \E i \in DOMAIN w : w[i] = q[j]
      <2>1. \A j \in DOMAIN q : j \notin P => \E i \in DOMAIN w : w[i] = q[j]
            <3> HIDE DEF P
            <3> QED  BY <1>1, WithoutIs
      <2> QED  BY <2>1
<1> HIDE DEF w
<1>8. /\ IsSeq(r) /\ DOMAIN w = 1..Len(w) /\ Len(w) \in Nat /\ DOMAIN r = 1..(Len(w) + 1)
      /\ r[Len(w) + 1] = a /\ \A i \in 1..Len(w) : r[i] = w[i]
      BY <1>2, <1>4, AppendIsSeq, LenIsNat
<1>9. \A i \in DOMAIN r : IF i \in DOMAIN w THEN r[i] = w[i] ELSE i = Len(w) + 1 /\ r[i] = a
      BY <1>8
<1>10. ToSet(r) = {b \in ToSet(q) : b.id # id} \union {a}
      <2>1. \A i \in DOMAIN r : r[i] \in {b \in ToSet(q) : b.id # id} \union {a}
            BY <1>5, <1>9 DEF ToSet
      <2>2. a \in ToSet(r)  BY <1>8 DEF ToSet
      <2>3. \A j \in DOMAIN q : q[j].id # id => \E i \in DOMAIN r : r[i] = q[j]
            <3>1. \A i \in DOMAIN w : i \in DOMAIN r /\ r[i] = w[i]  BY <1>8
            <3> QED  BY <1>7, <3>1
      <2> QED  BY <2>1, <2>2, <2>3 DEF ToSet
<1>11. \A i \in DOMAIN r : IsAsk(r[i])  BY <1>3, <1>5, <1>9 DEF AreAsks
<1>12. \A i, k \in DOMAIN r : i < k => r[i].id # r[k].id
      <2> TAKE i, k \in DOMAIN r
      <2> HAVE i < k
      <2>1. i \in DOMAIN w  BY <1>8
      <2>2. CASE k \in DOMAIN w  BY <2>1, <2>2, <1>6, <1>9
      <2>3. CASE k \notin DOMAIN w  BY <2>1, <2>3, <1>5, <1>9, <1>3
      <2> QED  BY <2>2, <2>3
<1>13. \A i, k \in DOMAIN r : r[i].id = r[k].id => i = k
      <2>1. \A i, k \in DOMAIN r : i = k \/ i < k \/ k < i  BY <1>8
      <2> QED  BY <2>1, <1>12
<1> QED  BY <1>8, <1>10, <1>11, <1>13 DEF Asked, AreAsks, r, a

\* MPD's containers are numbers, finitely many, with a sequence each.
IsWorld ==
    /\ world = [x \in DOMAIN world |-> world[x]]
    /\ DOMAIN world \in SUBSET Nat /\ IsFiniteSet(DOMAIN world)
    /\ \A x \in DOMAIN world : IsSeq(world[x])

\* What other clients make of MPD is a world, too.
LEMMA WorldsAreWorlds ==
    ASSUME NEW w \in Worlds
    PROVE  /\ w = [x \in DOMAIN w |-> w[x]] /\ DOMAIN w \in SUBSET Nat /\ IsFiniteSet(DOMAIN w)
           /\ \A x \in DOMAIN w : IsSeq(w[x])
<1>1. DOMAIN w \in SUBSET Nat /\ IsFiniteSet(DOMAIN w) /\ w \in [DOMAIN w -> Seq(Tracks)]
      BY BrowserAssumption
<1>2. \A x \in DOMAIN w : w[x] \in Seq(Tracks)  BY <1>1
<1> QED  BY <1>1, <1>2, SeqIs

\* What MPD says to a question, as things are.
LEMMA AnswerToIs ==
    ASSUME IsWorld, NEW a, IsAsk(a)
    PROVE  IsReply(AnswerTo(a)) /\ AnswerTo(a).id = a.id /\ AnswerTo(a).path = a.path
<1>1. IsSeq(Listing)  BY ListingIs DEF IsWorld
<1>2. a.id = "fetch" /\ a.path[1] \in DOMAIN world => IsSeq(world[a.path[1]])  BY DEF IsWorld
<1> QED  BY <1>1, <1>2, EmptyIsSeq DEF AnswerTo, IsReply, IsAsk

\* The client thread takes the first question (core/client.rs:358-379).
LEMMA TailOfAsks ==
    ASSUME AreAsks(asks), asks # <<>>
    PROVE  /\ AreAsks(Tail(asks)) /\ Head(asks) \in ToSet(asks) /\ IsAsk(Head(asks))
           /\ ToSet(Tail(asks)) = ToSet(asks) \ {Head(asks)}
<1>1. IsSeq(asks)  BY DEF AreAsks
<1>2. /\ IsSeq(Tail(asks)) /\ Len(asks) > 0 /\ Len(Tail(asks)) = Len(asks) - 1 /\ Head(asks) = asks[1]
      /\ \A i \in 1..Len(Tail(asks)) : Tail(asks)[i] = asks[i + 1]
      BY <1>1, TailIsSeq
<1>3. /\ Len(asks) \in Nat /\ DOMAIN asks = 1..Len(asks) /\ DOMAIN Tail(asks) = 1..(Len(asks) - 1)
      BY <1>1, <1>2, LenIsNat
<1>4. \A i \in DOMAIN Tail(asks) : i + 1 \in DOMAIN asks /\ i + 1 # 1 /\ Tail(asks)[i] = asks[i + 1]
      BY <1>2, <1>3
<1>5. \A j \in DOMAIN asks : j # 1 => j - 1 \in DOMAIN Tail(asks) /\ Tail(asks)[j - 1] = asks[j]
      BY <1>2, <1>3
<1>6. 1 \in DOMAIN asks  BY <1>2, <1>3
<1>7. ToSet(Tail(asks)) = ToSet(asks) \ {Head(asks)}
      <2>1. \A j \in DOMAIN asks : j # 1 => asks[j] # asks[1]  BY <1>6 DEF AreAsks
      <2>2. ASSUME NEW i \in DOMAIN Tail(asks) PROVE Tail(asks)[i] \in ToSet(asks) \ {asks[1]}
            BY <1>4, <2>1 DEF ToSet
      <2>3. ASSUME NEW j \in DOMAIN asks, asks[j] # asks[1] PROVE asks[j] \in ToSet(Tail(asks))
            BY <1>5, <2>3 DEF ToSet
      <2> QED  BY <1>2, <2>2, <2>3 DEF ToSet
<1>8. \A i, j \in DOMAIN Tail(asks) : Tail(asks)[i].id = Tail(asks)[j].id => i = j
      <2> TAKE i, j \in DOMAIN Tail(asks)
      <2>1. i + 1 = j + 1 => i = j  BY <1>3
      <2> QED  BY <1>4, <2>1 DEF AreAsks
<1> QED  BY <1>2, <1>4, <1>6, <1>7, <1>8 DEF AreAsks, ToSet

-----------------------------------------------------------------------------
(* What the pane shows and what it is told.                                *)

\* What the pane has not heard of yet, or will never hear of.
Unheard == notices \union (missed \intersect {<<>>})

\* Something MPD has may be new to the pane.
Stale(q, n) == n # {} \/ \E a \in ToSet(q) : a.id # "fetch"

OnlySongs(r) == \A j \in DOMAIN r : r[j].id = "fetch"
Latest(r, i) == \A j \in DOMAIN r : j > i => r[j].id = "fetch"

IsCurrent(a) == a.data = AnswerTo(a).data
AnswersCurrent(r) == \A i \in DOMAIN r : Latest(r, i) => IsCurrent(r[i])

Known(s, p) ==
    /\ p \in DOMAIN s.dirs /\ p[1] \in DOMAIN world
    /\ ToSet(s.dirs[p].items) = ToSet(world[p[1]])

Coming(q, r, p) ==
    \/ Question("fetch", p) \in ToSet(q)
    \/ \E i \in DOMAIN r : r[i].id = "fetch" /\ r[i].path = p

ListsCurrent(s) ==
    /\ Root(s).items = Listing
    /\ \A p \in DOMAIN s.dirs : p # <<>> /\ s.dirs[p].items # <<>> => Known(s, p)

TargetComes(s, q, r, m) ==
    IsSelected(Root(s)) => Known(s, Target(s)) \/ Coming(q, r, Target(s)) \/ Target(s) \in m

\* Once it has heard all that is new, the answers since the last list are right, and
\* with none of a list to come so are the lists, and the songs under the
\* cursor are there or coming, or the question for them has no answer.
Fresh(s, q, r, n, l, m) ==
    ~Stale(q, n) => /\ AnswersCurrent(r)
                    /\ OnlySongs(r) /\ ~l => ListsCurrent(s) /\ TargetComes(s, q, r, m)

\* The containers of a current list are MPD's.
LEMMA TargetExists ==
    ASSUME IsWorld, NEW s, IsStack(s), Root(s).items = Listing, IsSelected(Root(s))
    PROVE  Target(s)[1] \in DOMAIN world
<1> DEFINE d == Root(s)
<1>1. IsSeq(Listing) /\ \A i \in DOMAIN Listing : Listing[i] \in DOMAIN world  BY ListingIs DEF IsWorld
<1>2. Len(Listing) \in Nat /\ DOMAIN Listing = 1..Len(Listing)  BY <1>1, LenIsNat
<1>3. d.sel + 1 \in DOMAIN Listing  BY <1>2 DEF IsSelected, Rows
<1>4. Selected(d) = Listing[d.sel + 1]  BY DEF Selected
<1> HIDE DEF d
<1>5. Selected(d) \in DOMAIN world  BY <1>1, <1>3, <1>4
<1> QED  BY <1>5 DEF Target, d

\* Lists that are current stay so when no song of them changes.
LEMMA SameSongsCurrent ==
    ASSUME NEW s, NEW t, IsStack(s), IsStack(t), SameSongs(s, t), ListsCurrent(s)
    PROVE  ListsCurrent(t) /\ \A p : Known(s, p) => Known(t, p)
<1>1. Root(t).items = Root(s).items  BY DEF SameSongs, IsStack, Root
<1>2. \A p : Known(s, p) => Known(t, p)  BY DEF SameSongs, Known
<1>3. \A p \in DOMAIN t.dirs : t.dirs[p].items # <<>> => p \in DOMAIN s.dirs /\ s.dirs[p].items = t.dirs[p].items
      BY DEF SameSongs
<1>4. \A p \in DOMAIN t.dirs : p # <<>> /\ t.dirs[p].items # <<>> => Known(t, p)
      BY <1>2, <1>3 DEF ListsCurrent
<1> QED  BY <1>1, <1>2, <1>4 DEF ListsCurrent

\* r2 is r with the answer to the question a behind it.
Added(r, a, r2) ==
    /\ AreReplies(r2) /\ DOMAIN r2 = 1..(Len(r) + 1)
    /\ \A i \in 1..Len(r) : r2[i] = r[i]
    /\ r2[Len(r) + 1] = AnswerTo(a)

\* Turning a question into its answer keeps the pane fresh: an answer given now is
\* current, and one that was expected comes (core/client.rs:231-238).
LEMMA AnsweringIsFresh ==
    ASSUME IsWorld, NEW s, IsStack(s), NEW q, AreAsks(q), NEW r, AreReplies(r), NEW n, NEW l, NEW m,
           Fresh(s, q, r, n, l, m),
           NEW a \in ToSet(q), NEW q2, ToSet(q2) = ToSet(q) \ {a},
           NEW r2, Added(r, a, r2), NEW n2, NEW m2,
           a.id = "fetch" => n2 = n /\ m2 = m \ {a.path}
    PROVE  Fresh(s, q2, r2, n2, l, m2)
<1> SUFFICES ASSUME ~Stale(q2, n2)
             PROVE  /\ AnswersCurrent(r2)
                    /\ OnlySongs(r2) /\ ~l => ListsCurrent(s) /\ TargetComes(s, q2, r2, m2)
    BY DEF Fresh
<1>1. Len(r) \in Nat /\ DOMAIN r = 1..Len(r)  BY LenIsNat DEF AreReplies
<1>2. /\ \A i \in DOMAIN r : i \in DOMAIN r2 /\ r2[i] = r[i] /\ Len(r) + 1 > i
      /\ Len(r) + 1 \in DOMAIN r2 /\ \A i \in DOMAIN r2 : i \in DOMAIN r \/ i = Len(r) + 1
      BY <1>1 DEF Added
<1>3. IsAsk(a)  BY DEF AreAsks, ToSet
<1>4. AnswerTo(a).id = a.id /\ AnswerTo(a).path = a.path /\ IsCurrent(AnswerTo(a))
      BY <1>3, AnswerToIs DEF IsCurrent, AnswerTo
<1>5. r2[Len(r) + 1] = AnswerTo(a)  BY DEF Added
<1>6. CASE a.id # "fetch"
      <2>1. ~OnlySongs(r2)  BY <1>2, <1>4, <1>5, <1>6 DEF OnlySongs
      <2>2. \A i \in DOMAIN r : ~Latest(r2, i)  BY <1>2, <1>4, <1>5, <1>6 DEF Latest
      <2>3. AnswersCurrent(r2)  BY <1>2, <1>4, <1>5, <2>2 DEF AnswersCurrent
      <2> QED  BY <2>1, <2>3
<1>7. CASE a.id = "fetch"
      <2>1. ~Stale(q, n)  BY <1>7 DEF Stale
      <2>2. AnswersCurrent(r2)
            <3> SUFFICES ASSUME NEW i \in DOMAIN r2, Latest(r2, i) PROVE IsCurrent(r2[i])
                BY DEF AnswersCurrent
            <3>1. CASE i \in DOMAIN r
                  <4>1. Latest(r, i)  BY <1>2 DEF Latest
                  <4> QED  BY <1>2, <2>1, <3>1, <4>1 DEF Fresh, AnswersCurrent
            <3>2. CASE i = Len(r) + 1  BY <1>4, <1>5, <3>2
            <3> QED  BY <1>2, <3>1, <3>2
      <2>3. ASSUME OnlySongs(r2), ~l PROVE ListsCurrent(s) /\ TargetComes(s, q2, r2, m2)
            <3>1. OnlySongs(r)  BY <1>2, <2>3 DEF OnlySongs
            <3>2. ListsCurrent(s) /\ TargetComes(s, q, r, m)  BY <2>1, <2>3, <3>1 DEF Fresh
            <3> DEFINE t == Target(s)
            <3>3. CASE t = a.path
                  <4>1. Coming(q2, r2, t)  BY <1>2, <1>4, <1>5, <1>7, <3>3 DEF Coming
                  <4> QED  BY <3>2, <4>1 DEF TargetComes
            <3>4. CASE t # a.path
                  <4>1. Coming(q, r, t) => Coming(q2, r2, t)
                        <5>1. Question("fetch", t) # a  BY <3>4 DEF Question
                        <5> HIDE DEF t
                        <5> QED  BY <1>2, <5>1 DEF Coming
                  <4>2. t \in m => t \in m2  BY <1>7, <3>4
                  <4> QED  BY <3>2, <4>1, <4>2 DEF TargetComes
            <3> QED  BY <3>2, <3>3, <3>4
      <2> QED  BY <2>2, <2>3
<1> QED  BY <1>6, <1>7

\* Questions that have no answer keep the pane fresh if that is noted, and so does
\* what was never reported (core/client.rs:239-253).
LEMMA LosingIsFresh ==
    ASSUME NEW s, NEW q, NEW r, NEW n, NEW l, NEW m, Fresh(s, q, r, n, l, m),
           NEW Q \in SUBSET ToSet(q), NEW q2, ToSet(q2) = ToSet(q) \ Q,
           NEW n2, NEW m2, m \subseteq m2, n2 = {} => n = {},
           \A a \in Q : IF a.id = "fetch" THEN a.path \in m2 ELSE n2 # {}
    PROVE  Fresh(s, q2, r, n2, l, m2)
<1> SUFFICES ASSUME ~Stale(q2, n2)
             PROVE  /\ AnswersCurrent(r)
                    /\ OnlySongs(r) /\ ~l => ListsCurrent(s) /\ TargetComes(s, q2, r, m2)
    BY DEF Fresh
<1>1. ~Stale(q, n)  BY DEF Stale
<1>2. AnswersCurrent(r)  BY <1>1 DEF Fresh
<1>3. ASSUME OnlySongs(r), ~l PROVE ListsCurrent(s) /\ TargetComes(s, q2, r, m2)
      <2>1. ListsCurrent(s) /\ TargetComes(s, q, r, m)  BY <1>1, <1>3 DEF Fresh
      <2> DEFINE t == Target(s)
                 a == Question("fetch", t)
      <2>2. a.id = "fetch" /\ a.path = t  BY DEF Question
      <2> HIDE DEF a, t
      <2>3. a \in Q => t \in m2  BY <2>2
      <2>4. Coming(q, r, t) => Coming(q2, r, t) \/ t \in m2  BY <2>3 DEF Coming, a
      <2> QED  BY <2>1, <2>4 DEF TargetComes, t
<1> QED  BY <1>2, <1>3

\* Without the first answer.
LEMMA TailOfReplies ==
    ASSUME NEW r, AreReplies(r), r # <<>>
    PROVE  /\ AreReplies(Tail(r)) /\ 1 \in DOMAIN r /\ Head(r) = r[1] /\ IsReply(Head(r))
           /\ Len(r) \in Nat /\ Len(Tail(r)) = Len(r) - 1
           /\ DOMAIN r = 1..Len(r) /\ DOMAIN Tail(r) = 1..(Len(r) - 1)
           /\ \A i \in DOMAIN Tail(r) : i + 1 \in DOMAIN r /\ i + 1 > 1 /\ Tail(r)[i] = r[i + 1]
           /\ \A i \in DOMAIN r : i = 1 \/ (i - 1 \in DOMAIN Tail(r) /\ Tail(r)[i - 1] = r[i])
<1>1. IsSeq(r)  BY DEF AreReplies
<1>2. /\ IsSeq(Tail(r)) /\ Len(r) > 0 /\ Len(Tail(r)) = Len(r) - 1 /\ Head(r) = r[1]
      /\ \A i \in 1..Len(Tail(r)) : Tail(r)[i] = r[i + 1]
      BY <1>1, TailIsSeq
<1>3. Len(r) \in Nat /\ DOMAIN r = 1..Len(r) /\ DOMAIN Tail(r) = 1..(Len(r) - 1)
      BY <1>1, <1>2, LenIsNat
<1>4. \A i \in DOMAIN Tail(r) : i + 1 \in DOMAIN r /\ i + 1 > 1 /\ Tail(r)[i] = r[i + 1]
      BY <1>2, <1>3
<1>5. \A i \in DOMAIN r : i = 1 \/ (i - 1 \in DOMAIN Tail(r) /\ Tail(r)[i - 1] = r[i])
      BY <1>2, <1>3
<1>6. 1 \in DOMAIN r  BY <1>2, <1>3
<1> QED  BY <1>2, <1>3, <1>4, <1>5, <1>6 DEF AreReplies

\* The first answer is current if no list comes after it.
LEMMA TailIsCurrent ==
    ASSUME NEW r, AreReplies(r), r # <<>>, AnswersCurrent(r)
    PROVE  AnswersCurrent(Tail(r)) /\ (OnlySongs(Tail(r)) => IsCurrent(Head(r)))
<1>1. ASSUME NEW i \in DOMAIN Tail(r), Latest(Tail(r), i) PROVE IsCurrent(Tail(r)[i])
      <2>1. i + 1 \in DOMAIN r /\ Tail(r)[i] = r[i + 1]  BY TailOfReplies
      <2>2. ASSUME NEW j \in DOMAIN r, j > i + 1 PROVE r[j].id = "fetch"
            <3>0. i \in Nat /\ i >= 1 /\ j \in Nat  BY TailOfReplies
            <3>1. j # 1 /\ j - 1 > i  BY <2>2, <3>0
            <3>2. j - 1 \in DOMAIN Tail(r) /\ Tail(r)[j - 1] = r[j]  BY <3>1, TailOfReplies
            <3> QED  BY <3>1, <3>2, <1>1 DEF Latest
      <2> QED  BY <2>1, <2>2 DEF AnswersCurrent, Latest
<1>2. ASSUME OnlySongs(Tail(r)) PROVE IsCurrent(Head(r))
      <2>1. ASSUME NEW j \in DOMAIN r, j > 1 PROVE r[j].id = "fetch"
            <3>1. j - 1 \in DOMAIN Tail(r) /\ Tail(r)[j - 1] = r[j]  BY <2>1, TailOfReplies
            <3> QED  BY <3>1, <1>2 DEF OnlySongs
      <2>2. 1 \in DOMAIN r /\ Head(r) = r[1]  BY TailOfReplies
      <2> QED  BY <2>1, <2>2 DEF AnswersCurrent, Latest
<1> QED  BY <1>1, <1>2 DEF AnswersCurrent

\* A question for songs does not make anything stale (browser.rs:134-143).
LEMMA FetchIs ==
    ASSUME NEW s, NEW q, AreAsks(q)
    PROVE  /\ AreAsks(Fetch(s, q)) /\ \A n : Stale(Fetch(s, q), n) <=> Stale(q, n)
           /\ ~OnContainer(s) => Fetch(s, q) = q
           /\ OnContainer(s) =>
                \/ /\ Fetch(s, q) = q
                   /\ Hovered(s) \in DOMAIN s.dirs /\ s.dirs[Hovered(s)].items # <<>>
                \/ Asked(q, "fetch", Hovered(s), Fetch(s, q))
<1> DEFINE h == Hovered(s)
           r == Fetch(s, q)
<1>1. CASE OnContainer(s) /\ (h \notin DOMAIN s.dirs \/ s.dirs[h].items = <<>>)
      <2>1. r = Ask(q, "fetch", h)  BY <1>1 DEF Fetch
      <2>2. IsPath(h) /\ "fetch" \in Ids  BY DEF IsPath, Hovered, Ids
      <2> HIDE DEF r, h
      <2>3. Asked(q, "fetch", h, r)  BY <2>1, <2>2, AskIs
      <2>4. \A n : Stale(r, n) <=> Stale(q, n)  BY <2>3 DEF Asked, Stale, Question
      <2> QED  BY <1>1, <2>3, <2>4 DEF r, h, Asked
<1>2. CASE ~(OnContainer(s) /\ (h \notin DOMAIN s.dirs \/ s.dirs[h].items = <<>>))
      <2>1. r = q  BY <1>2 DEF Fetch
      <2> QED  BY <1>2, <2>1
<1> QED  BY <1>1, <1>2

\* Whatever the cursor is on now is known or asked for.
LEMMA FetchIsFresh ==
    ASSUME NEW s, IsStack(s), NEW q, AreAsks(q), NEW r, NEW n, NEW l, NEW m,
           ~Stale(q, n) =>
               /\ AnswersCurrent(r)
               /\ OnlySongs(r) /\ ~l =>
                      ListsCurrent(s) /\ (s.path # <<>> => TargetComes(s, q, r, m))
    PROVE  Fresh(s, Fetch(s, q), r, n, l, m)
<1> DEFINE q2 == Fetch(s, q)
<1> HIDE DEF q2
<1> SUFFICES ASSUME ~Stale(q2, n)
             PROVE  /\ AnswersCurrent(r)
                    /\ OnlySongs(r) /\ ~l => ListsCurrent(s) /\ TargetComes(s, q2, r, m)
    BY DEF Fresh, q2
<1>1. ~Stale(q, n)  BY FetchIs DEF q2
<1>2. ASSUME OnlySongs(r), ~l, IsSelected(Root(s)) PROVE Known(s, Target(s)) \/ Coming(q2, r, Target(s)) \/ Target(s) \in m
      <2>1. CASE ~OnContainer(s)
            <3>1. s.path # <<>>  BY <1>2, <2>1 DEF OnContainer, CurrentDir, Root
            <3>2. q2 = q  BY <2>1, FetchIs DEF q2
            <3> QED  BY <1>1, <1>2, <3>1, <3>2 DEF TargetComes
      <2>2. CASE OnContainer(s)
            <3>1. Hovered(s) = Target(s)  BY <2>2, HoveredIsTarget
            <3>2. CASE Target(s) \in DOMAIN s.dirs /\ s.dirs[Target(s)].items # <<>>
                  <4>1. Target(s) # <<>>  BY PathIsNotRoot DEF Target
                  <4> QED  BY <1>1, <1>2, <3>2, <4>1 DEF ListsCurrent
            <3>3. CASE Asked(q, "fetch", Target(s), q2)
                  BY <3>3 DEF Asked, Coming
            <3> QED  BY <2>2, <3>1, <3>2, <3>3, FetchIs DEF q2
      <2> QED  BY <2>1, <2>2
<1> QED  BY <1>1, <1>2 DEF TargetComes

\* What the user does with the pane changes nothing that it knows.
LEMMA PressIsFresh ==
    ASSUME NEW s, IsStack(s), NEW t, IsStack(t), SameSongs(s, t),
           t.path # <<>> => IsSelected(Root(s)) /\ Target(t) = Target(s),
           NEW q, AreAsks(q), NEW r, NEW n, NEW l, NEW m, Fresh(s, q, r, n, l, m)
    PROVE  Fresh(t, Fetch(t, q), r, n, l, m)
<1>1. ASSUME ~Stale(q, n), OnlySongs(r), ~l
      PROVE  ListsCurrent(t) /\ (t.path # <<>> => TargetComes(t, q, r, m))
      <2>1. ListsCurrent(s) /\ TargetComes(s, q, r, m)  BY <1>1 DEF Fresh
      <2>2. ListsCurrent(t) /\ \A p : Known(s, p) => Known(t, p)  BY <2>1, SameSongsCurrent
      <2> QED  BY <2>1, <2>2 DEF TargetComes
<1> QED  BY <1>1, FetchIsFresh DEF Fresh

\* So does what the user does without a question, under the same container.
LEMMA MarksAreFresh ==
    ASSUME NEW s, IsStack(s), NEW t, IsStack(t), SameSongs(s, t),
           IsSelected(Root(t)) => IsSelected(Root(s)) /\ Target(t) = Target(s),
           NEW q, NEW r, NEW n, NEW l, NEW m, Fresh(s, q, r, n, l, m)
    PROVE  Fresh(t, q, r, n, l, m)
<1>1. ASSUME ListsCurrent(s), TargetComes(s, q, r, m) PROVE ListsCurrent(t) /\ TargetComes(t, q, r, m)
      <2>1. ListsCurrent(t) /\ \A p : Known(s, p) => Known(t, p)  BY <1>1, SameSongsCurrent
      <2> QED  BY <1>1, <2>1 DEF TargetComes
<1> QED  BY <1>1 DEF Fresh

-----------------------------------------------------------------------------
(* How many answers may still lead to a question.                          *)

\* An answer does not if it brings songs for the container under the cursor.
Costly(r, p) == {i \in DOMAIN r : r[i].id = "fetch" /\ ~(r[i].path = p /\ r[i].data # <<>>)}
Elsewhere(q, p) == \E a \in ToSet(q) : a.id = "fetch" /\ a.path # p
Costs(q, r, p) == Cardinality(Costly(r, p)) + IF Elsewhere(q, p) THEN 1 ELSE 0

HasSongs(s) ==
    OnContainer(s) /\ Hovered(s)[1] \in DOMAIN world /\ world[Hovered(s)[1]] # <<>>

Enough(s, q, r, n) ==
    /\ n \in Int /\ (~OnContainer(s) => n >= 0)
    /\ HasSongs(s) => n >= Costs(q, r, Hovered(s))

\* There are at most as many costly answers as answers.
LEMMA CostlyIsNat ==
    ASSUME NEW r, IsSeq(r), NEW p
    PROVE  /\ IsFiniteSet(Costly(r, p)) /\ Cardinality(Costly(r, p)) \in Nat
           /\ Cardinality(Costly(r, p)) <= Len(r)
<1>1. Len(r) \in Nat /\ DOMAIN r = 1..Len(r)  BY LenIsNat
<1>2. Costly(r, p) \subseteq 1..Len(r)  BY <1>1 DEF Costly
<1>3. IsFiniteSet(1..Len(r)) /\ Cardinality(1..Len(r)) = Len(r)
      <2>1. 1 \in Int /\ Len(r) \in Int /\ (IF 1 > Len(r) THEN 0 ELSE Len(r) - 1 + 1) = Len(r)  BY <1>1
      <2> QED  BY <2>1, FS_Interval
<1> QED  BY <1>2, <1>3, FS_Subset, FS_CardinalityType

\* Enough for any container.
Ample(q, r, n) == n \in Nat /\ \A p : n >= Costs(q, r, p)

\* One for each question and answer on its way is ample (browser.rs:131-143).
LEMMA AnewIsAmple ==
    ASSUME NEW q, AreAsks(q), NEW r, AreReplies(r), NEW n, n = Len(q) + Len(r)
    PROVE  Ample(q, r, n)
<1>1. Len(q) \in Nat /\ DOMAIN q = 1..Len(q) /\ Len(r) \in Nat  BY LenIsNat DEF AreAsks, AreReplies
<1>2. \A p : Cardinality(Costly(r, p)) \in Nat /\ Cardinality(Costly(r, p)) <= Len(r)
      BY CostlyIsNat DEF AreReplies
<1>3. \A p : Elsewhere(q, p) => Len(q) >= 1  BY <1>1 DEF Elsewhere, ToSet
<1>4. \A p : n >= Costs(q, r, p)  BY <1>1, <1>2, <1>3 DEF Costs
<1> QED  BY <1>1, <1>4 DEF Ample

-----------------------------------------------------------------------------
(* The panes, step by step.                                                *)

PanesInv ==
    /\ IsWorld /\ IsStack(stack) /\ AreAsks(asks) /\ AreReplies(answers)
    /\ Fresh(stack, asks, answers, Unheard, lost, missed)
    /\ Enough(stack, asks, answers, owed)

\* A step that leaves MPD alone keeps the invariant if the new state has it now.
LEMMA SameWorld ==
    ASSUME IsWorld, world' = world, IsStack(stack'), AreAsks(asks'), AreReplies(answers'),
           Fresh(stack', asks', answers', Unheard', lost', missed'),
           Enough(stack', asks', answers', owed')
    PROVE  PanesInv'
<1>1. IsWorld'  BY DEF IsWorld
<1>2. Fresh(stack, asks, answers, Unheard, lost, missed)'
      BY DEF Fresh, Stale, AnswersCurrent, OnlySongs, Latest, IsCurrent, AnswerTo, Listing,
             ListsCurrent, TargetComes, Known, Coming, Root, Target, Unheard
<1>3. Enough(stack, asks, answers, owed)'
      BY DEF Enough, HasSongs, Costs, Costly, Elsewhere
<1>4. IsStack(stack)' /\ AreAsks(asks)' /\ AreReplies(answers)'
      BY DEF IsStack, AreAsks, AreReplies
<1> QED  BY <1>1, <1>2, <1>3, <1>4 DEF PanesInv

\* So does one after which the pane has something to hear.
LEMMA NewWorld ==
    ASSUME IsWorld', IsStack(stack'), AreAsks(asks'), AreReplies(answers'),
           Stale(asks', Unheard'), Enough(stack, asks, answers, owed)'
    PROVE  PanesInv'
<1>1. Fresh(stack, asks, answers, Unheard, lost, missed)'  BY DEF Fresh, Stale
<1>2. IsStack(stack)' /\ AreAsks(asks)' /\ AreReplies(answers)'
      BY DEF IsStack, AreAsks, AreReplies
<1> QED  BY <1>1, <1>2 DEF PanesInv

\* Ample is enough wherever the cursor is.
LEMMA AmpleIsEnough ==
    ASSUME Ample(asks', answers', owed')
    PROVE  Enough(stack', asks', answers', owed') /\ Enough(stack, asks, answers, owed)'
<1>1. Enough(stack', asks', answers', owed')  BY DEF Ample, Enough
<1>2. owed' \in Nat /\ (\A p : owed >= Costs(asks, answers, p))'
      BY DEF Ample, Costs, Costly, Elsewhere
<1>3. Enough(stack, asks, answers, owed)'  BY <1>2 DEF Enough
<1> QED  BY <1>1, <1>3

\* Counting anew is enough.
LEMMA AnewIsEnough ==
    ASSUME AreAsks(asks'), AreReplies(answers'), Anew
    PROVE  Enough(stack', asks', answers', owed') /\ Enough(stack, asks, answers, owed)'
<1>1. Ample(asks', answers', owed')  BY AnewIsAmple DEF Anew
<1> QED  BY <1>1, AmpleIsEnough

\* A pane that is shown for the first time has asked for its list
\* (directories.rs:39-70).
LEMMA InitPanes == PanesInit => PanesInv
<1> SUFFICES ASSUME PanesInit PROVE PanesInv  OBVIOUS
<1>1. IsWorld  BY WorldsAreWorlds DEF PanesInit, IsWorld
<1>2. IsStack(stack) /\ stack.path = <<>> /\ Root(stack) = Dir(<<>>)  BY EmptyIsSeq, NewStackIs DEF PanesInit
<1>3. AreAsks(<<>>) /\ AreReplies(<<>>)  BY EmptyIsSeq, LenIsNat DEF AreAsks, AreReplies
<1>4. Asked(<<>>, "init", <<>>, asks)  BY <1>3, AskIs DEF PanesInit, Ids
<1>5. Stale(asks, Unheard)
      <2>1. Question("init", <<>>) \in ToSet(asks)  BY <1>4 DEF Asked
      <2>2. Question("init", <<>>).id = "init"  BY DEF Question
      <2> QED  BY <2>1, <2>2 DEF Stale
<1>6. ~OnContainer(stack)
      <2>1. Rows(<<>>) = {}  BY EmptyIsSeq DEF Rows
      <2>2. Dir(<<>>).items = <<>>  BY EmptyIsSeq, DirIs
      <2> QED  BY <1>2, <2>1, <2>2 DEF OnContainer, CurrentDir, Root, IsSelected
<1>7. Enough(stack, asks, answers, owed)  BY <1>6 DEF Enough, HasSongs, PanesInit
<1>8. AreReplies(answers)  BY <1>3 DEF PanesInit
<1> QED  BY <1>1, <1>2, <1>4, <1>5, <1>7, <1>8 DEF PanesInv, Fresh, Asked

\* An answer at the end.
LEMMA AddedIs ==
    ASSUME NEW r, AreReplies(r), NEW a, IsReply(AnswerTo(a))
    PROVE  Added(r, a, Append(r, AnswerTo(a)))
<1> DEFINE x == AnswerTo(a)
           e == Append(r, x)
<1> HIDE DEF x
<1>1. IsSeq(r) /\ Len(r) \in Nat /\ DOMAIN r = 1..Len(r)  BY LenIsNat DEF AreReplies
<1>2. /\ IsSeq(e) /\ Len(e) = Len(r) + 1 /\ e[Len(r) + 1] = x
      /\ \A i \in 1..Len(r) : e[i] = r[i]
      BY <1>1, AppendIsSeq
<1> HIDE DEF e
<1>3. DOMAIN e = 1..(Len(r) + 1)  BY <1>2, LenIsNat
<1>4. \A i \in DOMAIN e : i \in DOMAIN r \/ i = Len(r) + 1  BY <1>1, <1>3
<1>5. \A i \in DOMAIN e : IsReply(e[i])  BY <1>1, <1>2, <1>4 DEF AreReplies, x
<1> QED  BY <1>2, <1>3, <1>5 DEF Added, AreReplies, e, x

\* The client thread answers (core/client.rs:358-379).
LEMMA WorkKeepsPanes == ASSUME PanesInv, Work PROVE PanesInv'
<1> DEFINE a == Head(asks)
<1>1. /\ IsWorld /\ IsStack(stack) /\ AreAsks(asks) /\ AreReplies(answers)
      /\ Fresh(stack, asks, answers, Unheard, lost, missed) /\ Enough(stack, asks, answers, owed)
      BY DEF PanesInv
<1>2. /\ asks' = Tail(asks) /\ answers' = Append(answers, AnswerTo(a))
      /\ missed' = IF a.id = "fetch" THEN missed \ {a.path} ELSE {}
      /\ world' = world /\ stack' = stack /\ notices' = notices
      /\ lost' = lost /\ owed' = owed
      BY DEF Work
<1>3. AreAsks(asks') /\ a \in ToSet(asks) /\ IsAsk(a) /\ ToSet(asks') = ToSet(asks) \ {a}
      BY <1>1, <1>2, TailOfAsks DEF Work
<1>4. IsReply(AnswerTo(a)) /\ AnswerTo(a).id = a.id /\ AnswerTo(a).path = a.path
      BY <1>1, <1>3, AnswerToIs
<1>5. IsSeq(answers) /\ Len(answers) \in Nat /\ DOMAIN answers = 1..Len(answers)
      BY <1>1, LenIsNat DEF AreReplies
<1> HIDE DEF a
<1>6. Added(answers, a, answers')  BY <1>1, <1>2, <1>4, AddedIs
<1>7. AreReplies(answers')  BY <1>6 DEF Added
<1>8. a.id = "fetch" => Unheard' = Unheard
      <2>1. a.id = "fetch" => a.path # <<>>  BY <1>3, PathIsNotRoot DEF IsAsk, IsPath
      <2> QED  BY <1>2, <2>1 DEF Unheard
<1>9. Fresh(stack', asks', answers', Unheard', lost', missed')
      BY <1>1, <1>2, <1>3, <1>6, <1>8, AnsweringIsFresh
<1>10. Enough(stack', asks', answers', owed')
      <2> SUFFICES ASSUME HasSongs(stack) PROVE owed >= Costs(asks', answers', Hovered(stack))
          BY <1>1, <1>2 DEF Enough
      <2> DEFINE h == Hovered(stack)
                 old == Costly(answers, h)
                 new == Costly(answers', h)
      <2>1. owed \in Int /\ owed >= Costs(asks, answers, h)  BY <1>1 DEF Enough
      <2>2. /\ IsFiniteSet(old) /\ Cardinality(old) \in Nat
            /\ IsFiniteSet(new) /\ Cardinality(new) \in Nat
            BY <1>1, <1>7, CostlyIsNat DEF AreReplies
      <2>3. h[1] \in DOMAIN world /\ world[h[1]] # <<>>  BY DEF HasSongs
      <2> HIDE DEF h
      <2>4. \A i \in 1..Len(answers) : i \in new <=> i \in old
            <3>1. \A i \in 1..Len(answers) : i \in DOMAIN answers' /\ answers'[i] = answers[i]
                  BY <1>5, <1>6 DEF Added
            <3> QED  BY <1>5, <3>1 DEF Costly
      <2>5. \A i \in new : i \in 1..Len(answers) \/ i = Len(answers) + 1
            BY <1>5, <1>6 DEF Costly, Added
      <2>6. \A i \in old : i \in 1..Len(answers)  BY <1>5 DEF Costly
      <2>7. CASE a.id = "fetch" /\ a.path # h
            <3>1. Elsewhere(asks, h)  BY <1>3, <2>7 DEF Elsewhere
            <3>2. ~Elsewhere(asks', h)
                  <4> SUFFICES ASSUME NEW b \in ToSet(asks'), b.id = "fetch" PROVE FALSE
                      BY DEF Elsewhere
                  <4>1. b \in ToSet(asks) /\ b # a  BY <1>3
                  <4> QED  BY <4>1, <1>1, <1>3, <2>7 DEF AreAsks, ToSet
            <3>3. new \subseteq old \union {Len(answers) + 1}  BY <2>4, <2>5
            <3>4. Len(answers) + 1 \notin old  BY <2>6, <1>5
            <3> HIDE DEF old, new
            <3>5. Cardinality(old \union {Len(answers) + 1}) = Cardinality(old) + 1
                  /\ IsFiniteSet(old \union {Len(answers) + 1})  BY <2>2, <3>4, FS_AddElement
            <3>6. Cardinality(new) <= Cardinality(old) + 1  BY <3>3, <3>5, FS_Subset
            <3>7. Costs(asks, answers, h) = Cardinality(old) + 1  BY <3>1 DEF Costs, old
            <3>8. Costs(asks', answers', h) = Cardinality(new)  BY <3>2, <2>2 DEF Costs, new
            <3> QED  BY <2>1, <2>2, <3>6, <3>7, <3>8 DEF h
      <2>8. CASE ~(a.id = "fetch" /\ a.path # h)
            <3>1. Elsewhere(asks', h) => Elsewhere(asks, h)  BY <1>3 DEF Elsewhere
            <3>2. Len(answers) + 1 \notin new
                  <4> SUFFICES ASSUME Len(answers) + 1 \in new PROVE FALSE  OBVIOUS
                  <4>1. answers'[Len(answers) + 1] = AnswerTo(a)  BY <1>6 DEF Added
                  <4>2. AnswerTo(a).id = "fetch"  BY <4>1 DEF Costly
                  <4>3. a.id = "fetch" /\ a.path = h  BY <4>2, <1>4, <2>8
                  <4>4. AnswerTo(a).data = world[h[1]]  BY <4>3, <2>3 DEF AnswerTo
                  <4> QED  BY <4>1, <4>3, <4>4, <1>4, <2>3 DEF Costly
            <3>3. new \subseteq old  BY <2>4, <2>5, <3>2
            <3> HIDE DEF old, new
            <3>4. Cardinality(new) <= Cardinality(old)  BY <2>2, <3>3, FS_Subset
            <3>5. Costs(asks', answers', h) <= Costs(asks, answers, h)
                  BY <2>2, <3>1, <3>4 DEF Costs, old, new
            <3>6. Costs(asks', answers', h) \in Int /\ Costs(asks, answers, h) \in Int
                  BY <2>2 DEF Costs, old, new
            <3> QED  BY <2>1, <3>5, <3>6 DEF h
      <2> QED  BY <2>7, <2>8
<1> QED  BY <1>1, <1>2, <1>3, <1>7, <1>9, <1>10, SameWorld

\* After a late answer the pane has heard of everything only if there was nothing to
\* hear of (core/client.rs:239-253).
LEMMA NotAnsweredIs ==
    ASSUME NEW paths, NEW events, NotAnswered(paths, events)
    PROVE  /\ Unheard' = {} => Unheard = {} /\ events = {} /\ <<>> \notin paths
           /\ missed \subseteq missed' /\ paths \subseteq missed'
<1>1. missed \subseteq missed' /\ paths \subseteq missed'  BY DEF NotAnswered
<1>2. ASSUME Unheard' = {} PROVE Unheard = {} /\ events = {} /\ <<>> \notin paths
      <2>1. notices' = {} /\ <<>> \notin missed'  BY <1>2 DEF Unheard
      <2>2. notices' = notices \union events  BY <2>1 DEF NotAnswered
      <2> QED  BY <1>1, <2>1, <2>2 DEF Unheard
<1> QED  BY <1>1, <1>2

\* With fewer questions what was enough is.
LEMMA FewerIsEnough ==
    ASSUME AreReplies(answers), Enough(stack, asks, answers, owed),
           stack' = stack, answers' = answers, owed' = owed, ToSet(asks') \subseteq ToSet(asks)
    PROVE  Enough(stack', asks', answers', owed')
<1>1. \A p : Cardinality(Costly(answers, p)) \in Nat  BY CostlyIsNat DEF AreReplies
<1>2. \A p : Elsewhere(asks', p) => Elsewhere(asks, p)  BY DEF Elsewhere
<1>3. \A p : Costs(asks', answers, p) <= Costs(asks, answers, p)
             /\ Costs(asks', answers, p) \in Int /\ Costs(asks, answers, p) \in Int
      BY <1>1, <1>2 DEF Costs
<1>4. owed \in Int  BY DEF Enough
<1>5. HasSongs(stack) => owed >= Costs(asks', answers, Hovered(stack))  BY <1>3, <1>4 DEF Enough
<1> QED  BY <1>5 DEF Enough

\* A late answer to something else (core/client.rs:239-253).
LEMMA NothingHeardIsFresh ==
    ASSUME Fresh(stack, asks, answers, Unheard, lost, missed), NotAnswered({}, {})
    PROVE  Fresh(stack, asks, answers, Unheard', lost, missed')
<1>1. (Unheard' = {} => Unheard = {}) /\ missed \subseteq missed'  BY NotAnsweredIs
<1>2. {} \in SUBSET ToSet(asks) /\ ToSet(asks) = ToSet(asks) \ {}  OBVIOUS
<1>3. \A a \in {} : IF a.id = "fetch" THEN a.path \in missed' ELSE Unheard' # {}  OBVIOUS
<1> QED  BY <1>1, <1>2, <1>3, LosingIsFresh

\* A question without an answer (core/client.rs:239-253).
LEMMA WorkLostKeepsPanes == ASSUME PanesInv, WorkLost PROVE PanesInv'
<1> DEFINE a == Head(asks)
           Q == {a}
<1>1. /\ IsWorld /\ IsStack(stack) /\ AreAsks(asks) /\ AreReplies(answers)
      /\ Fresh(stack, asks, answers, Unheard, lost, missed) /\ Enough(stack, asks, answers, owed)
      BY DEF PanesInv
<1>2. /\ asks' = Tail(asks) /\ answers' = answers /\ NotAnswered({a.path}, {})
      /\ world' = world /\ stack' = stack /\ lost' = lost /\ owed' = owed
      BY DEF WorkLost
<1>3. AreAsks(asks') /\ a \in ToSet(asks) /\ IsAsk(a) /\ ToSet(asks') = ToSet(asks) \ Q
      BY <1>1, <1>2, TailOfAsks DEF WorkLost
<1>4. /\ Unheard' = {} => Unheard = {} /\ <<>> # a.path
      /\ missed \subseteq missed' /\ a.path \in missed'
      BY <1>2, NotAnsweredIs
<1> HIDE DEF a
<1>5. a.path = <<>> => Unheard' # {}  BY <1>4
<1>6. IF a.id = "fetch" THEN a.path \in missed' ELSE Unheard' # {}
      BY <1>3, <1>4, <1>5 DEF IsAsk
<1>7. Fresh(stack', asks', answers', Unheard', lost', missed')
      <2>1. Q \in SUBSET ToSet(asks)  BY <1>3
      <2>2. \A x \in Q : IF x.id = "fetch" THEN x.path \in missed' ELSE Unheard' # {}  BY <1>6
      <2>3. Unheard' = {} => Unheard = {}  BY <1>4
      <2> HIDE DEF Q
      <2>4. Fresh(stack, asks', answers, Unheard', lost, missed')
            <3>1. Fresh(stack, asks, answers, Unheard, lost, missed)  BY <1>1
            <3>2. ToSet(asks') = ToSet(asks) \ Q  BY <1>3 DEF Q
            <3>3. missed \subseteq missed'  BY <1>4
            <3> QED  BY <2>1, <2>2, <2>3, <3>1, <3>2, <3>3, LosingIsFresh
      <2> QED  BY <1>2, <2>4
<1>8. Enough(stack', asks', answers', owed')
      BY <1>1, <1>2, <1>3, FewerIsEnough
<1> QED  BY <1>1, <1>2, <1>3, <1>7, <1>8, SameWorld

\* A list with more songs is a list.
LEMMA WithItems ==
    ASSUME NEW o, IsDir(o), NEW x
    PROVE  [o EXCEPT !.items = x] = [items |-> x, marked |-> o.marked, sel |-> o.sel]
BY DEF IsDir

\* Songs of a tag are added to those that are known (stack.rs:123-136).
LEMMA AppendedIs ==
    ASSUME NEW s, IsStack(s), NEW p \in DOMAIN s.dirs, p # <<>>, NEW q, IsSeq(q)
    PROVE  Inserted(s, p, s.dirs[p].items \o q, InsertOrAppend(s, p, q))
<1> DEFINE o == s.dirs[p]
           d == [items |-> o.items \o q, marked |-> o.marked, sel |-> o.sel]
           t == InsertOrAppend(s, p, q)
<1>1. IsDir(o)  BY DEF IsStack
<1>2. IsSeq(o.items \o q)  BY <1>1, ConcatIsSeq DEF IsDir
<1>3. IsDir(d) /\ o.items \o q = d.items  BY <1>1, <1>2 DEF IsDir
<1>4. [o EXCEPT !.items = @ \o q] = d  BY <1>1, WithItems
<1>8. t = InsertDir(s, p, d)  BY <1>4 DEF InsertOrAppend
<1> HIDE DEF d, t
<1> QED  BY <1>3, <1>8, InsertDirIs DEF t, o

\* The elements of a concatenation are those of its parts.
LEMMA SetOfConcat ==
    ASSUME NEW p, NEW q, IsSeq(p), IsSeq(q)
    PROVE  ToSet(p \o q) = ToSet(p) \union ToSet(q) /\ (p # <<>> \/ q # <<>> => p \o q # <<>>)
<1>1. /\ IsSeq(p \o q) /\ Len(p \o q) = Len(p) + Len(q)
      /\ \A i \in 1..Len(p) : (p \o q)[i] = p[i]
      /\ \A i \in 1..Len(q) : (p \o q)[Len(p) + i] = q[i]
      BY ConcatIsSeq
<1>2. /\ Len(p) \in Nat /\ Len(q) \in Nat /\ DOMAIN p = 1..Len(p) /\ DOMAIN q = 1..Len(q)
      /\ DOMAIN (p \o q) = 1..(Len(p) + Len(q))
      BY <1>1, LenIsNat
<1>3. \A i \in DOMAIN p : i \in DOMAIN (p \o q) /\ (p \o q)[i] = p[i]  BY <1>1, <1>2
<1>4. \A i \in DOMAIN q : Len(p) + i \in DOMAIN (p \o q) /\ (p \o q)[Len(p) + i] = q[i]  BY <1>1, <1>2
<1>5. \A i \in DOMAIN (p \o q) : i \in DOMAIN p \/ (i - Len(p) \in DOMAIN q /\ (p \o q)[i] = q[i - Len(p)])
      <2> SUFFICES ASSUME NEW i \in DOMAIN (p \o q), i \notin DOMAIN p
                   PROVE  i - Len(p) \in DOMAIN q /\ (p \o q)[i] = q[i - Len(p)]
          OBVIOUS
      <2>1. i - Len(p) \in DOMAIN q /\ Len(p) + (i - Len(p)) = i  BY <1>2
      <2> QED  BY <2>1, <1>4
<1>6. ToSet(p \o q) = ToSet(p) \union ToSet(q)
      <2>1. \A i \in DOMAIN (p \o q) : (p \o q)[i] \in ToSet(p) \union ToSet(q)
            BY <1>3, <1>5 DEF ToSet
      <2>2. \A i \in DOMAIN p : p[i] \in ToSet(p \o q)  BY <1>3 DEF ToSet
      <2>3. \A i \in DOMAIN q : q[i] \in ToSet(p \o q)  BY <1>4 DEF ToSet
      <2> QED  BY <2>1, <2>2, <2>3 DEF ToSet
<1>7. p # <<>> \/ q # <<>> => p \o q # <<>>
      <2>1. (p # <<>> => Len(p) > 0) /\ (q # <<>> => Len(q) > 0)  BY TailIsSeq
      <2> QED  BY <1>1, <1>2, <2>1, EmptyIsSeq
<1> QED  BY <1>6, <1>7

\* The pane with the answer to a question for songs.
Received(s, p, q) == IF kind = "tags" THEN InsertOrAppend(s, p, q) ELSE Insert(s, p, q)
After(s, p, q) == IF kind = "tags" /\ p \in DOMAIN s.dirs THEN s.dirs[p].items \o q ELSE q

\* Songs arrive (directories.rs:123-132).
LEMMA ReceivedIs ==
    ASSUME NEW s, IsStack(s), NEW p, p # <<>>, NEW q, IsSeq(q)
    PROVE  Inserted(s, p, After(s, p, q), Received(s, p, q)) /\ (q # <<>> => After(s, p, q) # <<>>)
<1>1. CASE kind = "tags" /\ p \in DOMAIN s.dirs
      <2>1. IsSeq(s.dirs[p].items)  BY <1>1 DEF IsStack, IsDir
      <2>2. After(s, p, q) = s.dirs[p].items \o q /\ Received(s, p, q) = InsertOrAppend(s, p, q)
            BY <1>1 DEF After, Received
      <2> QED  BY <1>1, <2>1, <2>2, AppendedIs, SetOfConcat
<1>2. CASE ~(kind = "tags" /\ p \in DOMAIN s.dirs)
      <2>1. After(s, p, q) = q /\ Received(s, p, q) = Insert(s, p, q)
            BY <1>2 DEF After, Received, InsertOrAppend
      <2> QED  BY <2>1, InsertIs
<1> QED  BY <1>1, <1>2

\* Without its first answer a pane needs one less, if that was costly.
LEMMA TailCosts ==
    ASSUME NEW r, AreReplies(r), r # <<>>, NEW p
    PROVE  /\ Cardinality(Costly(Tail(r), p)) \in Nat /\ Cardinality(Costly(r, p)) \in Nat
           /\ Cardinality(Costly(Tail(r), p)) <= Cardinality(Costly(r, p))
           /\ 1 \in Costly(r, p) => Cardinality(Costly(Tail(r), p)) <= Cardinality(Costly(r, p)) - 1
<1> DEFINE S == Costly(r, p)
           T == Costly(Tail(r), p)
           f == [i \in T |-> i + 1]
<1>1. IsFiniteSet(S) /\ Cardinality(S) \in Nat /\ IsFiniteSet(T) /\ Cardinality(T) \in Nat
      BY TailOfReplies, CostlyIsNat DEF AreReplies
<1>2. \A i \in T : i \in DOMAIN Tail(r)  BY DEF Costly
<1>3. \A i \in T : i + 1 \in S \ {1}
      <2> TAKE i \in T
      <2>1. /\ i \in DOMAIN Tail(r) /\ i + 1 \in DOMAIN r /\ i \in Nat /\ i + 1 # 1
            /\ Tail(r)[i] = r[i + 1]
            BY <1>2, TailOfReplies
      <2> QED  BY <2>1 DEF Costly
<1>4. \A i \in T : i \in Nat  BY <1>2, TailOfReplies
<1> HIDE DEF S, T
<1>5. f \in Injection(T, S \ {1})
      <2>1. f \in [T -> S \ {1}]  BY <1>3
      <2>2. \A i, j \in T : f[i] = f[j] => i = j  BY <1>4
      <2> HIDE DEF f
      <2> QED  BY <2>1, <2>2 DEF Injection, IsInjective
<1>6. IsFiniteSet(S \ {1}) /\ Cardinality(S \ {1}) <= Cardinality(S)
      /\ (1 \in S => Cardinality(S \ {1}) = Cardinality(S) - 1) /\ Cardinality(S \ {1}) \in Nat
      BY <1>1, FS_Subset, FS_RemoveElement, FS_CardinalityType
<1>7. Cardinality(T) <= Cardinality(S \ {1})  BY <1>5, <1>6, FS_Injection
<1> QED  BY <1>1, <1>6, <1>7 DEF S, T

\* The container under the cursor depends on the root list alone.
LEMMA SameRoot ==
    ASSUME NEW s, NEW t, t.path = s.path, Root(t) = Root(s)
    PROVE  /\ OnContainer(t) <=> OnContainer(s)
           /\ Target(t) = Target(s)
           /\ OnContainer(s) => Hovered(t) = Hovered(s)
           /\ HasSongs(t) <=> HasSongs(s)
<1>1. OnContainer(t) <=> OnContainer(s)  BY DEF OnContainer, CurrentDir, Root
<1>2. OnContainer(s) => Hovered(t) = Hovered(s)  BY <1>1, HoveredIsTarget DEF Target
<1> QED  BY <1>1, <1>2 DEF HasSongs, Target

\* Songs that were asked for (directories.rs:123-132, browser.rs:131-143).
LEMMA FetchFinishedKeepsPanes == ASSUME PanesInv, FetchFinished PROVE PanesInv'
<1> DEFINE a == Head(answers)
           r == Tail(answers)
           s == Received(stack, a.path, a.data)
           q == After(stack, a.path, a.data)
<1>1. /\ IsWorld /\ IsStack(stack) /\ AreAsks(asks) /\ AreReplies(answers)
      /\ Fresh(stack, asks, answers, Unheard, lost, missed) /\ Enough(stack, asks, answers, owed)
      BY DEF PanesInv
<1>2. /\ answers # <<>> /\ a.id = "fetch" /\ stack' = s /\ asks' = Fetch(s, asks) /\ answers' = r
      /\ world' = world /\ Unheard' = Unheard /\ missed' = missed /\ lost' = lost
      /\ owed' = IF asks' = asks \/ owed < 0 THEN owed ELSE owed - 1
      BY DEF FetchFinished, Take, Unheard, IsAnswer, Received
<1>3. AreReplies(r) /\ 1 \in DOMAIN answers /\ answers[1] = a /\ IsReply(a)
      BY <1>1, <1>2, TailOfReplies
<1>4. a.path # <<>> /\ IsSeq(a.data)  BY <1>2, <1>3, PathIsNotRoot DEF IsReply, IsPath
<1>5. Inserted(stack, a.path, q, s) /\ (a.data # <<>> => q # <<>>)  BY <1>1, <1>4, ReceivedIs
<1>6. \A i \in DOMAIN answers : i # 1 => \E j \in DOMAIN r : r[j] = answers[i]
      BY <1>1, <1>2, TailOfReplies
<1>7. AnswersCurrent(answers) => AnswersCurrent(r) /\ (OnlySongs(r) => IsCurrent(a))
      BY <1>1, <1>2, TailIsCurrent
<1>8. \A p : Cardinality(Costly(r, p)) \in Nat /\ Cardinality(Costly(answers, p)) \in Nat
             /\ Cardinality(Costly(r, p)) <= Cardinality(Costly(answers, p))
             /\ (1 \in Costly(answers, p) => Cardinality(Costly(r, p)) <= Cardinality(Costly(answers, p)) - 1)
      BY <1>1, <1>2, TailCosts
<1>9. IsStack(s) /\ s.path = stack.path /\ Root(s) = Root(stack)  BY <1>5 DEF Inserted
<1>10. /\ After(stack, a.path, a.data) = q
       /\ a.path \in DOMAIN stack.dirs => IsSeq(stack.dirs[a.path].items)
       BY <1>1 DEF IsStack, IsDir
<1>11. q = a.data \/ (/\ a.path \in DOMAIN stack.dirs /\ IsSeq(stack.dirs[a.path].items)
                      /\ q = stack.dirs[a.path].items \o a.data)
       BY <1>10 DEF After
<1> HIDE DEF a, r, s, q
<1>12. ASSUME ~Stale(asks, Unheard), OnlySongs(r), ~lost
       PROVE  ListsCurrent(s) /\ (s.path # <<>> => TargetComes(s, asks, r, missed))
      <2>1. OnlySongs(answers)  BY <1>2, <1>3, <1>6, <1>12 DEF OnlySongs
      <2>2. ListsCurrent(stack) /\ TargetComes(stack, asks, answers, missed) /\ IsCurrent(a)
            BY <1>1, <1>7, <1>12, <2>1 DEF Fresh
      <2>3. a.data = IF a.path[1] \in DOMAIN world THEN world[a.path[1]] ELSE <<>>
            BY <1>2, <2>2 DEF IsCurrent, AnswerTo
      <2>4. q # <<>> => a.path[1] \in DOMAIN world
            <3> SUFFICES ASSUME a.path[1] \notin DOMAIN world, q # <<>> PROVE FALSE  OBVIOUS
            <3>1. a.data = <<>>  BY <2>3
            <3>2. a.path \in DOMAIN stack.dirs /\ stack.dirs[a.path].items # <<>>
                  <4> SUFFICES ASSUME a.path \in DOMAIN stack.dirs, stack.dirs[a.path].items = <<>>,
                                      q = <<>> \o <<>>
                               PROVE  FALSE
                      BY <1>11, <3>1
                  <4>1. <<>> \o <<>> = <<>>  OBVIOUS
                  <4> QED  BY <4>1
            <3> QED  BY <3>2, <2>2, <1>4 DEF ListsCurrent, Known
      <2>5. a.path[1] \in DOMAIN world => ToSet(q) = ToSet(world[a.path[1]])
            <3> HAVE a.path[1] \in DOMAIN world
            <3>1. a.data = world[a.path[1]]  BY <2>3
            <3>2. CASE q = a.data  BY <3>1, <3>2
            <3>3. CASE /\ a.path \in DOMAIN stack.dirs /\ IsSeq(stack.dirs[a.path].items)
                       /\ q = stack.dirs[a.path].items \o a.data
                  <4> DEFINE o == stack.dirs[a.path].items
                  <4>1. ToSet(q) = ToSet(o) \union ToSet(a.data)  BY <3>3, <1>4, SetOfConcat
                  <4>2. o # <<>> => ToSet(o) = ToSet(a.data)
                        BY <3>1, <3>3, <2>2, <1>4 DEF ListsCurrent, Known
                  <4>3. o = <<>> => ToSet(o) = {}  BY EmptyIsSeq, LenIsNat DEF ToSet
                  <4> HIDE DEF o
                  <4> QED  BY <4>1, <4>2, <4>3, <3>1
            <3> QED  BY <1>11, <3>2, <3>3
      <2>6. a.path[1] \in DOMAIN world => Known(s, a.path)
            BY <1>5, <2>5 DEF Known, Inserted
      <2>7. \A p : p # a.path /\ Known(stack, p) => Known(s, p)
            BY <1>5 DEF Known, Inserted
      <2>8. ListsCurrent(s)
            <3>1. \A p \in DOMAIN s.dirs : p # a.path => p \in DOMAIN stack.dirs /\ s.dirs[p] = stack.dirs[p]
                  BY <1>5 DEF Inserted
            <3>2. s.dirs[a.path].items = q  BY <1>5 DEF Inserted
            <3>3. \A p \in DOMAIN s.dirs : p # <<>> /\ s.dirs[p].items # <<>> => Known(s, p)
                  <4> SUFFICES ASSUME NEW p \in DOMAIN s.dirs, p # <<>>, s.dirs[p].items # <<>>
                               PROVE  Known(s, p)
                      OBVIOUS
                  <4>1. CASE p = a.path  BY <4>1, <3>2, <2>4, <2>6
                  <4>2. CASE p # a.path  BY <4>2, <3>1, <2>2, <2>7 DEF ListsCurrent
                  <4> QED  BY <4>1, <4>2
            <3> QED  BY <3>3, <1>9, <2>2 DEF ListsCurrent
      <2>9. TargetComes(s, asks, r, missed)
            <3> SUFFICES ASSUME IsSelected(Root(stack))
                         PROVE  \/ Known(s, Target(stack)) \/ Coming(asks, r, Target(stack))
                                \/ Target(stack) \in missed
                BY <1>9 DEF TargetComes, Target
            <3> DEFINE t == Target(stack)
            <3>1. t[1] \in DOMAIN world  BY <1>1, <2>2, TargetExists DEF ListsCurrent
            <3> HIDE DEF t
            <3>2. CASE t = a.path  BY <3>1, <3>2, <2>6 DEF t
            <3>3. CASE t # a.path
                  <4>1. Known(stack, t) \/ Coming(asks, answers, t) \/ t \in missed  BY <2>2 DEF TargetComes, t
                  <4>2. CASE Known(stack, t)  BY <4>2, <3>3, <2>7 DEF t
                  <4>3. CASE Coming(asks, answers, t)
                        <5>1. ASSUME NEW i \in DOMAIN answers, answers[i].id = "fetch", answers[i].path = t
                              PROVE  \E j \in DOMAIN r : r[j].id = "fetch" /\ r[j].path = t
                              BY <5>1, <1>3, <1>6, <3>3
                        <5> QED  BY <4>3, <5>1 DEF Coming, t
                  <4> QED  BY <4>1, <4>2, <4>3 DEF t
            <3> QED  BY <3>2, <3>3
      <2> QED  BY <2>8, <2>9
<1>13. Fresh(stack', asks', answers', Unheard', lost', missed')
      <2>1. ~Stale(asks, Unheard) => AnswersCurrent(r)  BY <1>1, <1>7 DEF Fresh
      <2> QED  BY <1>1, <1>2, <1>9, <1>12, <2>1, FetchIsFresh
<1>14. Enough(stack', asks', answers', owed')
      <2>1. (OnContainer(s) <=> OnContainer(stack)) /\ (HasSongs(s) <=> HasSongs(stack))
            /\ (OnContainer(stack) => Hovered(s) = Hovered(stack))
            BY <1>9, SameRoot
      <2>2. owed \in Int  BY <1>1 DEF Enough
      <2>3. CASE asks' = asks
            <3>1. owed' = owed  BY <1>2, <2>3
            <3>2. \A p : Costs(asks, r, p) <= Costs(asks, answers, p)
                         /\ Costs(asks, r, p) \in Int /\ Costs(asks, answers, p) \in Int
                  BY <1>8 DEF Costs
            <3>3. HasSongs(s) => owed >= Costs(asks, r, Hovered(s))
                  BY <1>1, <2>1, <2>2, <3>2 DEF Enough, HasSongs
            <3> QED  BY <1>1, <1>2, <2>1, <2>2, <2>3, <3>1, <3>3 DEF Enough
      <2>4. CASE asks' # asks
            <3> DEFINE h == Hovered(s)
            <3>1. OnContainer(s) /\ Asked(asks, "fetch", h, asks')
                  BY <1>1, <1>2, <2>4, FetchIs
            <3>2. h \notin DOMAIN s.dirs \/ s.dirs[h].items = <<>>
                  BY <1>2, <2>4 DEF Fetch
            <3>3. owed' \in Int  BY <1>2, <2>2
            <3>4. ASSUME HasSongs(s) PROVE owed' >= Costs(asks', r, h)
                  <4>1. owed >= Costs(asks, answers, h)  BY <1>1, <2>1, <3>1, <3>4 DEF Enough
                  <4>2. 1 \in Costly(answers, h)
                        <5>1. a.path = h => a.data = <<>>
                              BY <1>5, <3>2 DEF Inserted
                        <5> QED  BY <1>2, <1>3, <5>1 DEF Costly
                  <4> HIDE DEF h
                  <4>3. ~Elsewhere(asks', h)
                        <5> SUFFICES ASSUME NEW b \in ToSet(asks'), b.id = "fetch", b.path # h PROVE FALSE
                            BY DEF Elsewhere
                        <5>1. b = Question("fetch", h)  BY <3>1 DEF Asked
                        <5> QED  BY <5>1 DEF Question
                  <4>4. Costs(asks', r, h) = Cardinality(Costly(r, h))  BY <4>3, <1>8 DEF Costs
                  <4>5. Costs(asks, answers, h) >= Cardinality(Costly(answers, h))
                        /\ Costs(asks, answers, h) \in Int
                        BY <1>8 DEF Costs
                  <4>6. /\ Cardinality(Costly(r, h)) \in Nat /\ Cardinality(Costly(answers, h)) \in Nat
                        /\ Cardinality(Costly(r, h)) <= Cardinality(Costly(answers, h)) - 1
                        BY <1>8, <4>2
                  <4>7. owed >= 1  BY <2>2, <4>1, <4>5, <4>6
                  <4>8. owed' = owed - 1  BY <1>2, <2>2, <2>4, <4>7
                  <4> QED  BY <2>2, <4>1, <4>4, <4>5, <4>6, <4>8
            <3> QED  BY <1>2, <3>1, <3>3, <3>4 DEF Enough
      <2> QED  BY <2>3, <2>4
<1>15. AreAsks(asks')  BY <1>1, <1>2, FetchIs
<1> QED  BY <1>1, <1>2, <1>3, <1>9, <1>13, <1>14, <1>15, SameWorld

\* An item that is in the list is found there (playlists.rs:194-199).
LEMMA RowOfIs ==
    ASSUME NEW q, IsSeq(q), NEW x, NEW row \in Int
    PROVE  /\ RowOf(x, q, row) \in Int /\ (row >= 0 => RowOf(x, q, row) >= 0)
           /\ x \in ToSet(q) => RowOf(x, q, row) \in Rows(q) /\ q[RowOf(x, q, row) + 1] = x
<1>1. Len(q) \in Nat /\ DOMAIN q = 1..Len(q)  BY LenIsNat
<1>2. CASE x \in ToSet(q)
      <2>1. PICK i \in DOMAIN q : q[i] = x  BY <1>2 DEF ToSet
      <2>2. i - 1 \in Rows(q) /\ q[i - 1 + 1] = x  BY <1>1, <2>1 DEF Rows
      <2>3. RowOf(x, q, row) \in Rows(q) /\ q[RowOf(x, q, row) + 1] = x
            <3>1. RowOf(x, q, row) = CHOOSE r \in Rows(q) : q[r + 1] = x  BY <1>2 DEF RowOf
            <3> DEFINE y == CHOOSE r \in Rows(q) : q[r + 1] = x
            <3>2. \E r \in Rows(q) : q[r + 1] = x  BY <2>2
            <3>3. y \in Rows(q) /\ q[y + 1] = x  BY <3>2
            <3> HIDE DEF y
            <3> QED  BY <3>1, <3>3 DEF y
      <2> QED  BY <1>1, <2>3 DEF Rows
<1>3. CASE x \notin ToSet(q)
      BY <1>3 DEF RowOf
<1> QED  BY <1>2, <1>3

\* The cursor is on its item again, if that is in the new list (playlists.rs:237-249).
LEMMA ReselectedIs ==
    ASSUME NEW old, IsDir(old), NEW new, IsDir(new)
    PROVE  /\ IsDir(Reselected(old, new)) /\ Reselected(old, new).items = new.items
           /\ IsSelected(old) /\ Selected(old) \in ToSet(new.items) =>
                  /\ Reselected(old, new).sel \in Rows(new.items)
                  /\ new.items[Reselected(old, new).sel + 1] = Selected(old)
<1> DEFINE row == RowOf(Selected(old), new.items, old.sel)
<1>1. IsSeq(new.items) /\ old.sel \in Int  BY DEF IsDir
<1>2. /\ row \in Int
      /\ Selected(old) \in ToSet(new.items) => row \in Rows(new.items) /\ new.items[row + 1] = Selected(old)
      BY <1>1, RowOfIs
<1> HIDE DEF row
<1>3. CASE IsSelected(old)
      <2>1. Reselected(old, new) = SelectIn(new, row)  BY <1>3 DEF Reselected, row
      <2> QED  BY <1>2, <2>1, SelectInIs
<1>4. CASE ~IsSelected(old)
      <2>1. Reselected(old, new) = new  BY <1>4 DEF Reselected
      <2> QED  BY <1>4, <2>1
<1> QED  BY <1>3, <1>4

\* A new stack with MPD's list is current.
LEMMA NewListIsCurrent ==
    ASSUME NEW s, DOMAIN s.dirs = {<<>>}, Root(s).items = Listing
    PROVE  ListsCurrent(s)
BY DEF ListsCurrent

\* A new list of the containers (directories.rs:133-137).
LEMMA InitFinishedKeepsPanes == ASSUME PanesInv, InitFinished PROVE PanesInv'
<1> DEFINE a == Head(answers)
           r == Tail(answers)
           s == NewStack(a.data)
<1>1. /\ IsWorld /\ IsStack(stack) /\ AreAsks(asks) /\ AreReplies(answers)
      /\ Fresh(stack, asks, answers, Unheard, lost, missed)
      BY DEF PanesInv
<1>2. /\ answers # <<>> /\ a.id = "init" /\ stack' = s /\ asks' = Fetch(s, asks) /\ answers' = r
      /\ world' = world /\ Unheard' = Unheard /\ missed' = missed /\ lost' = FALSE /\ Anew
      BY DEF InitFinished, Take, Unheard, IsAnswer
<1>3. AreReplies(r) /\ IsReply(a)  BY <1>1, <1>2, TailOfReplies
<1>4. IsSeq(a.data)  BY <1>3 DEF IsReply
<1>5. IsStack(s) /\ s.path = <<>> /\ DOMAIN s.dirs = {<<>>} /\ Root(s).items = a.data
      BY <1>4, NewStackIs, DirIs
<1>6. AnswersCurrent(answers) => AnswersCurrent(r) /\ (OnlySongs(r) => IsCurrent(a))
      BY <1>1, <1>2, TailIsCurrent
<1> HIDE DEF a, r, s
<1>7. IsCurrent(a) => ListsCurrent(s)
      <2>1. IsCurrent(a) => a.data = Listing  BY <1>2 DEF IsCurrent, AnswerTo
      <2> QED  BY <1>5, <2>1, NewListIsCurrent
<1>8. Fresh(stack', asks', answers', Unheard', lost', missed')
      <2>1. ~Stale(asks, Unheard) => AnswersCurrent(r) /\ (OnlySongs(r) => ListsCurrent(s))
            BY <1>1, <1>6, <1>7 DEF Fresh
      <2> QED  BY <1>1, <1>2, <1>5, <2>1, FetchIsFresh
<1>9. AreAsks(asks')  BY <1>1, <1>2, FetchIs
<1>10. Enough(stack', asks', answers', owed')  BY <1>2, <1>3, <1>9, AnewIsEnough
<1> QED  BY <1>1, <1>2, <1>3, <1>5, <1>8, <1>9, <1>10, SameWorld

\* A new list for the playlists pane at its root (playlists.rs:255-281).
LEMMA ReinitAtRootKeepsPanes ==
    ASSUME PanesInv, ReinitAtRoot
    PROVE  /\ PanesInv'
           /\ LET d == CurrentDir(stack) e == CurrentDir(stack') IN
              Selected(d) \in ToSet(e.items) => IsSelected(e) /\ Selected(e) = Selected(d)
<1> DEFINE a == Head(answers)
           r == Tail(answers)
           old == CurrentDir(stack)
           e == Reselected(old, Dir(a.data))
           s == InsertDir(NewStack(<<>>), <<>>, e)
<1>1. /\ IsWorld /\ IsStack(stack) /\ AreAsks(asks) /\ AreReplies(answers)
      /\ Fresh(stack, asks, answers, Unheard, lost, missed)
      BY DEF PanesInv
<1>2. /\ answers # <<>> /\ a.id = "reinit" /\ stack' = s /\ asks' = Fetch(s, asks) /\ answers' = r
      /\ world' = world /\ Unheard' = Unheard /\ missed' = missed /\ lost' = FALSE /\ Anew /\ IsSelected(old)
      BY DEF ReinitAtRoot, Take, Unheard, IsAnswer
<1>3. AreReplies(r) /\ IsReply(a)  BY <1>1, <1>2, TailOfReplies
<1>4. IsSeq(a.data)  BY <1>3 DEF IsReply
<1>5. IsDir(Dir(a.data)) /\ Dir(a.data).items = a.data /\ IsDir(old)
      BY <1>1, <1>4, DirIs DEF IsStack, CurrentDir
<1> HIDE DEF a, r, old
<1>6. /\ IsDir(e) /\ e.items = a.data
      /\ Selected(old) \in ToSet(a.data) => e.sel \in Rows(a.data) /\ a.data[e.sel + 1] = Selected(old)
      BY <1>2, <1>5, ReselectedIs
<1> HIDE DEF e
<1>7. IsStack(s) /\ s.path = <<>> /\ DOMAIN s.dirs = {<<>>} /\ Root(s) = e /\ CurrentDir(s) = e
      BY <1>6, NewRootIs
<1>8. AnswersCurrent(answers) => AnswersCurrent(r) /\ (OnlySongs(r) => IsCurrent(a))
      BY <1>1, <1>2, TailIsCurrent DEF a, r
<1> HIDE DEF s
<1>9. IsCurrent(a) => ListsCurrent(s)
      <2>1. IsCurrent(a) => a.data = Listing  BY <1>2 DEF IsCurrent, AnswerTo
      <2> QED  BY <1>6, <1>7, <2>1, NewListIsCurrent
<1>10. Fresh(stack', asks', answers', Unheard', lost', missed')
      <2>1. ~Stale(asks, Unheard) => AnswersCurrent(r) /\ (OnlySongs(r) => ListsCurrent(s))
            BY <1>1, <1>8, <1>9 DEF Fresh
      <2> QED  BY <1>1, <1>2, <1>7, <2>1, FetchIsFresh
<1>11. AreAsks(asks')  BY <1>1, <1>2, FetchIs
<1>12. Enough(stack', asks', answers', owed')  BY <1>2, <1>3, <1>11, AnewIsEnough
<1>13. PanesInv'  BY <1>1, <1>2, <1>3, <1>7, <1>10, <1>11, <1>12, SameWorld
<1>14. CurrentDir(stack') = e  BY <1>2, <1>7
<1> QED  BY <1>6, <1>13, <1>14 DEF IsSelected, Selected, old

\* A list that cannot be used (playlists.rs:211-216).
LEMMA ReinitDroppedKeepsPanes == ASSUME PanesInv, ReinitDropped PROVE PanesInv'
<1> DEFINE r == Tail(answers)
<1>1. /\ IsWorld /\ IsStack(stack) /\ AreAsks(asks) /\ AreReplies(answers)
      /\ Fresh(stack, asks, answers, Unheard, lost, missed) /\ Enough(stack, asks, answers, owed)
      BY DEF PanesInv
<1>2. /\ answers # <<>> /\ stack' = stack /\ asks' = asks /\ answers' = r
      /\ world' = world /\ Unheard' = Unheard /\ missed' = missed /\ lost' = TRUE /\ owed' = owed
      BY DEF ReinitDropped, Take, Unheard, IsAnswer
<1>3. AreReplies(r)  BY <1>1, <1>2, TailOfReplies
<1>4. AnswersCurrent(answers) => AnswersCurrent(r)  BY <1>1, <1>2, TailIsCurrent
<1>5. \A p : Cardinality(Costly(r, p)) \in Nat /\ Cardinality(Costly(answers, p)) \in Nat
             /\ Cardinality(Costly(r, p)) <= Cardinality(Costly(answers, p))
      BY <1>1, <1>2, TailCosts
<1> HIDE DEF r
<1>6. Fresh(stack', asks', answers', Unheard', lost', missed')  BY <1>1, <1>2, <1>4 DEF Fresh
<1>7. \A p : Costs(asks, r, p) <= Costs(asks, answers, p)
             /\ Costs(asks, r, p) \in Int /\ Costs(asks, answers, p) \in Int
      BY <1>5 DEF Costs
<1>8. Enough(stack, asks, r, owed)
      <2>1. owed \in Int  BY <1>1 DEF Enough
      <2>2. HasSongs(stack) => owed >= Costs(asks, r, Hovered(stack))  BY <1>1, <1>7, <2>1 DEF Enough
      <2> QED  BY <1>1, <2>2 DEF Enough
<1> QED  BY <1>1, <1>2, <1>3, <1>6, <1>8, SameWorld

\* No questions are questions, too.
LEMMA NoAsks == AreAsks(<<>>) /\ ToSet(<<>>) = {}
<1>1. IsSeq(<<>>) /\ DOMAIN <<>> = {}  BY EmptyIsSeq, LenIsNat
<1> QED  BY <1>1 DEF AreAsks, ToSet

\* The root of ReinitInside and what is entered (playlists.rs:175-254).
NewRow(data) ==
    IF IsSelected(Root(stack)) THEN RowOf(Selected(Root(stack)), data, Root(stack).sel)
    ELSE RowOf(stack.path[1], data, 0)
Relisted(data) ==
    InsertDir(NewStack(<<>>), <<>>, SelectIn(Dir(data), NewRow(data)))
SongsOf(data) ==
    Reselected(CurrentDir(stack), Dir(world[Hovered(Relisted(data))[1]]))
Reentered(data) ==
    Entered(InsertDir(Relisted(data), Hovered(Relisted(data)),
                [SongsOf(data) EXCEPT !.marked = CurrentDir(stack).marked]))

\* The new root has the old playlist, or the one in its row, under the cursor
\* (playlists.rs:175-209).
LEMMA RelistedIs ==
    ASSUME IsStack(stack), stack.path # <<>>, NEW data, IsSeq(data), data # <<>>
    PROVE  LET s == Relisted(data) IN
           /\ IsStack(s) /\ s.path = <<>> /\ DOMAIN s.dirs = {<<>>} /\ Root(s).items = data
           /\ OnContainer(s) /\ \E i \in DOMAIN data : Hovered(s) = <<data[i]>>
<1> DEFINE row == NewRow(data)
           e == SelectIn(Dir(data), row)
           s == Relisted(data)
<1>1. IsDir(Root(stack)) /\ IsSelected(Root(stack))  BY DEF IsStack, Root
<1>2. Root(stack).sel \in Int /\ Root(stack).sel >= 0
      <2>1. IsSeq(Root(stack).items)  BY <1>1 DEF IsDir
      <2>2. Len(Root(stack).items) \in Nat  BY <2>1, LenIsNat
      <2> QED  BY <1>1, <2>2 DEF IsSelected, Rows
<1>3. row \in Int /\ row >= 0  BY <1>1, <1>2, RowOfIs DEF NewRow
<1>4. IsDir(Dir(data)) /\ Dir(data).items = data  BY DirIs
<1> HIDE DEF row
<1>5. IsDir(e) /\ e.items = data /\ IsSelected(e)  BY <1>3, <1>4, SelectInIs
<1>6. s = InsertDir(NewStack(<<>>), <<>>, e)  BY DEF Relisted, row
<1> HIDE DEF e, s
<1>7. IsStack(s) /\ s.path = <<>> /\ DOMAIN s.dirs = {<<>>} /\ Root(s) = e /\ CurrentDir(s) = e
      BY <1>5, <1>6, NewRootIs
<1>8. OnContainer(s)  BY <1>5, <1>7 DEF OnContainer
<1>9. Hovered(s) = <<data[e.sel + 1]>>  BY <1>5, <1>7 DEF Hovered, Selected
<1>10. e.sel + 1 \in DOMAIN data
      <2>1. Len(data) \in Nat /\ DOMAIN data = 1..Len(data)  BY LenIsNat
      <2> QED  BY <1>5, <2>1 DEF IsSelected, Rows
<1> QED  BY <1>5, <1>7, <1>8, <1>9, <1>10 DEF s

\* Marking changes neither songs nor cursor.
LEMMA WithMarks ==
    ASSUME NEW d, IsDir(d), NEW m
    PROVE  LET e == [d EXCEPT !.marked = m]
           IN  IsDir(e) /\ e.items = d.items /\ e.sel = d.sel /\ e.marked = m
<1>1. [d EXCEPT !.marked = m] = [items |-> d.items, marked |-> m, sel |-> d.sel]  BY DEF IsDir
<1> QED  BY <1>1 DEF IsDir

\* Entering it with its songs (playlists.rs:210-254).
LEMMA ReenteredIs ==
    ASSUME IsWorld, IsStack(stack), stack.path # <<>>, NEW data, IsSeq(data), data # <<>>,
           Hovered(Relisted(data))[1] \in DOMAIN world
    PROVE  LET t == Reentered(data) d == SongsOf(data) IN
           /\ IsStack(t) /\ t.path # <<>>
           /\ data = Listing => ListsCurrent(t) /\ Known(t, t.path)
           /\ CurrentDir(t).items = d.items /\ CurrentDir(t).sel = d.sel
           /\ d.items = world[Hovered(Relisted(data))[1]]
<1> DEFINE s == Relisted(data)
           h == Hovered(s)
           d == SongsOf(data)
           e == [d EXCEPT !.marked = CurrentDir(stack).marked]
           u == InsertDir(s, h, e)
           t == Reentered(data)
<1>1. /\ IsStack(s) /\ s.path = <<>> /\ DOMAIN s.dirs = {<<>>} /\ Root(s).items = data
      /\ OnContainer(s) /\ \E i \in DOMAIN data : h = <<data[i]>>
      BY RelistedIs
<1>2. h # <<>>  BY <1>1, PathIsNotRoot
<1>3. h[1] \in DOMAIN world /\ IsSeq(world[h[1]])  BY DEF IsWorld
<1>4. IsDir(CurrentDir(stack))  BY DEF IsStack, CurrentDir
<1>5. IsDir(Dir(world[h[1]])) /\ Dir(world[h[1]]).items = world[h[1]]  BY <1>3, DirIs
<1>6. d = Reselected(CurrentDir(stack), Dir(world[h[1]]))  BY DEF SongsOf
<1>7. t = Entered(u)  BY DEF Reentered
<1> HIDE DEF s, h, d
<1>8. IsDir(d) /\ d.items = world[h[1]]  BY <1>4, <1>5, <1>6, ReselectedIs
<1>9. IsDir(e) /\ e.items = d.items /\ e.sel = d.sel  BY <1>8, WithMarks
<1> HIDE DEF e
<1>10. Inserted(s, h, world[h[1]], u) /\ u.dirs[h] = e
      <2> DEFINE w == world[h[1]]
      <2>1. w = e.items  BY <1>8, <1>9
      <2> HIDE DEF w
      <2>2. Inserted(s, h, w, InsertDir(s, h, e)) /\ InsertDir(s, h, e).dirs[h] = e
            <3>1. IsStack(s) /\ h # <<>> /\ IsDir(e)  BY <1>1, <1>2, <1>9
            <3> QED  BY <3>1, <2>1, InsertDirIs
      <2> QED  BY <2>2 DEF w
<1> HIDE DEF u, t
<1>11. IsStack(u) /\ u.path = <<>> /\ Root(u) = Root(s) /\ DOMAIN u.dirs = {<<>>, h}
       BY <1>1, <1>10 DEF Inserted
<1>12. OnContainer(u) /\ Hovered(u) = h  BY <1>1, <1>11, SameRoot DEF h
<1>13. /\ IsStack(t) /\ SameSongs(u, t) /\ t.path = h
       /\ \A p \in DOMAIN u.dirs : t.dirs[p] = u.dirs[p]
       BY <1>7, <1>11, <1>12, EnteredIs
<1>14. CurrentDir(t) = e  BY <1>10, <1>11, <1>13 DEF CurrentDir
<1>15. ASSUME data = Listing PROVE ListsCurrent(t) /\ Known(t, t.path)
       <2>1. Known(u, h)  BY <1>3, <1>8, <1>9, <1>10, <1>11 DEF Known
       <2>2. ListsCurrent(u)  BY <1>1, <1>11, <1>15, <2>1 DEF ListsCurrent
       <2> QED  BY <1>11, <1>13, <2>1, <2>2, SameSongsCurrent
<1> QED  BY <1>2, <1>8, <1>9, <1>13, <1>14, <1>15 DEF s, h, d, t

\* Inside a playlist; the cursor stays on its song (playlists.rs:191-254).
LEMMA ReinitInsideKeepsPanes ==
    ASSUME PanesInv, ReinitInside
    PROVE  /\ PanesInv'
           /\ LET d == CurrentDir(stack) e == CurrentDir(stack') IN
              IsSelected(d) /\ Selected(d) \in ToSet(e.items) /\ stack' # stack =>
                  IsSelected(e) /\ Selected(e) = Selected(d)
<1> DEFINE a == Head(answers)
           r == Tail(answers)
           s == Relisted(a.data)
           h == Hovered(s)
<1>1. /\ IsWorld /\ IsStack(stack) /\ AreAsks(asks) /\ AreReplies(answers)
      /\ Fresh(stack, asks, answers, Unheard, lost, missed) /\ Enough(stack, asks, answers, owed)
      BY DEF PanesInv
<1>2. /\ answers # <<>> /\ a.id = "reinit" /\ stack.path # <<>>
      /\ asks = <<>> /\ asks' = <<>> /\ answers' = r /\ world' = world /\ owed' = owed
      BY DEF ReinitInside, IsAnswer
<1>3. AreReplies(r) /\ IsReply(a)  BY <1>1, <1>2, TailOfReplies
<1>4. IsSeq(a.data)  BY <1>3 DEF IsReply
<1>5. IsDir(Dir(a.data)) /\ Dir(a.data).items = a.data  BY <1>4, DirIs
<1>6. /\ a.data # <<>>
      /\ \/ /\ h[1] \in DOMAIN world /\ stack' = Reentered(a.data) /\ lost' = FALSE
            /\ Unheard' = Unheard /\ missed' = missed
         \/ NotAnswered({<<>>}, {}) /\ stack' = stack /\ lost' = lost
      BY <1>5 DEF ReinitInside, Relisted, NewRow, SongsOf, Reentered, Root, Unheard
<1>7. AnswersCurrent(answers) => AnswersCurrent(r) /\ (OnlySongs(r) => IsCurrent(a))
      BY <1>1, <1>2, TailIsCurrent
<1> HIDE DEF a, r, s
<1>8. IsCurrent(a) => a.data = Listing  BY <1>2 DEF IsCurrent, AnswerTo
<1>9. ASSUME stack' = Reentered(a.data), h[1] \in DOMAIN world
       PROVE  /\ IsStack(stack') /\ stack'.path # <<>>
              /\ a.data = Listing => ListsCurrent(stack') /\ Known(stack', stack'.path)
              /\ CurrentDir(stack').items = SongsOf(a.data).items
              /\ CurrentDir(stack').sel = SongsOf(a.data).sel
              /\ SongsOf(a.data).items = world[h[1]]
       BY <1>1, <1>2, <1>4, <1>6, <1>9, ReenteredIs DEF s
<1>10. IsStack(stack') /\ stack'.path # <<>>  BY <1>1, <1>2, <1>6, <1>9
<1> HIDE DEF h
<1>11. Fresh(stack', asks', answers', Unheard', lost', missed')
       <2>1. CASE NotAnswered({<<>>}, {})
             <3>1. Unheard' # {}  BY <2>1, NotAnsweredIs
             <3> QED  BY <3>1 DEF Fresh, Stale
       <2>2. CASE /\ h[1] \in DOMAIN world /\ stack' = Reentered(a.data) /\ lost' = FALSE
                  /\ Unheard' = Unheard /\ missed' = missed
             <3> SUFFICES ASSUME ~Stale(asks, Unheard)
                          PROVE  /\ AnswersCurrent(r)
                                 /\ OnlySongs(r) => ListsCurrent(stack') /\ TargetComes(stack', asks, r, missed)
                 BY <1>2, <2>2 DEF Fresh
             <3>1. AnswersCurrent(r) /\ (OnlySongs(r) => IsCurrent(a))  BY <1>1, <1>7 DEF Fresh
             <3>2. ASSUME OnlySongs(r) PROVE ListsCurrent(stack') /\ TargetComes(stack', asks, r, missed)
                   <4>1. ListsCurrent(stack') /\ Known(stack', stack'.path)
                         BY <1>8, <1>9, <2>2, <3>1, <3>2
                   <4>2. stack'.path = Target(stack')  BY <1>10 DEF IsStack
                   <4> QED  BY <4>1, <4>2 DEF TargetComes
             <3> QED  BY <3>1, <3>2
       <2> QED  BY <1>6, <2>1, <2>2
<1>12. Enough(stack', asks', answers', owed')
       <2>1. ~OnContainer(stack) /\ ~OnContainer(stack')  BY <1>2, <1>10 DEF OnContainer
       <2> QED  BY <1>1, <1>2, <2>1 DEF Enough, HasSongs
<1>13. AreAsks(asks')  BY <1>2, NoAsks
<1>14. PanesInv'  BY <1>1, <1>2, <1>3, <1>10, <1>11, <1>12, <1>13, SameWorld
<1>15. ASSUME IsSelected(CurrentDir(stack)), Selected(CurrentDir(stack)) \in ToSet(CurrentDir(stack').items),
              stack' # stack
       PROVE  IsSelected(CurrentDir(stack')) /\ Selected(CurrentDir(stack')) = Selected(CurrentDir(stack))
       <2> DEFINE new == Dir(world[h[1]])
       <2>1. h[1] \in DOMAIN world /\ stack' = Reentered(a.data)  BY <1>6, <1>15
       <2>2. IsSeq(world[h[1]])  BY <1>1, <2>1 DEF IsWorld
       <2>3. IsDir(new) /\ new.items = world[h[1]]  BY <2>2, DirIs
       <2>4. IsDir(CurrentDir(stack))  BY <1>1 DEF IsStack, CurrentDir
       <2>5. SongsOf(a.data) = Reselected(CurrentDir(stack), new)  BY DEF SongsOf, s, h
       <2> HIDE DEF new
       <2>6. /\ SongsOf(a.data).sel \in Rows(world[h[1]])
             /\ world[h[1]][SongsOf(a.data).sel + 1] = Selected(CurrentDir(stack))
             <3>1. Selected(CurrentDir(stack)) \in ToSet(new.items)  BY <1>9, <1>15, <2>1, <2>3
             <3> QED  BY <1>15, <2>3, <2>4, <2>5, <3>1, ReselectedIs
       <2> QED  BY <1>9, <2>1, <2>6 DEF IsSelected, Selected
<1> QED  BY <1>14, <1>15

-----------------------------------------------------------------------------
(* Others, and the user.                                                   *)

\* Other clients, MPD's update, and the connection (directories.rs:72-98,
\* core/client.rs:239-253).
LEMMA OthersKeepPanes == ASSUME PanesInv, Others PROVE PanesInv'
<1>1. /\ IsWorld /\ IsStack(stack) /\ AreAsks(asks) /\ AreReplies(answers)
      /\ Fresh(stack, asks, answers, Unheard, lost, missed) /\ Enough(stack, asks, answers, owed)
      BY DEF PanesInv
<1>2. CASE Change \/ Rescan \/ Reconnect
      <2>1. stack' = stack /\ asks' \in {asks, <<>>} /\ answers' = answers /\ Anew
            BY <1>2 DEF Change, Rescan, Reconnect
      <2>2. IsWorld'
            <3>1. CASE world' \in Worlds  BY <3>1, WorldsAreWorlds DEF IsWorld
            <3>2. CASE world' = world  BY <1>1, <3>2 DEF IsWorld
            <3> QED  BY <1>2, <3>1, <3>2 DEF Change, Rescan, Reconnect
      <2>3. notices' # {}  BY <1>2 DEF Change, Rescan, Reconnect
      <2>4. AreAsks(asks')  BY <1>1, <2>1, NoAsks
      <2>5. Enough(stack, asks, answers, owed)'  BY <1>1, <2>1, <2>4, AnewIsEnough
      <2>6. Stale(asks', Unheard')  BY <2>3 DEF Stale, Unheard
      <2> QED  BY <1>1, <2>1, <2>2, <2>4, <2>5, <2>6, NewWorld
<1>3. CASE OtherAnswerLate
      <2>1. /\ stack' = stack /\ asks' = asks /\ answers' = answers /\ owed' = owed
            /\ world' = world /\ lost' = lost /\ NotAnswered({}, {})
            BY <1>3 DEF OtherAnswerLate
      <2>2. Fresh(stack', asks', answers', Unheard', lost', missed')
            BY <1>1, <2>1, NothingHeardIsFresh
      <2> QED  BY <1>1, <2>1, <2>2, SameWorld
<1> QED  BY <1>2, <1>3 DEF Others

\* The pane hears of a change and asks for the list (directories.rs:72-98).
LEMMA NoticeKeepsPanes == ASSUME PanesInv, Notice PROVE PanesInv'
<1>1. IsWorld /\ IsStack(stack) /\ AreAsks(asks) /\ AreReplies(answers)  BY DEF PanesInv
<1>2. world' = world /\ answers' = answers /\ Anew  BY DEF Notice
<1>3. PICK id \in {"init", "reinit"} : asks' = Ask(asks, id, <<>>)  BY DEF Notice
<1>4. Asked(asks, id, <<>>, asks')  BY <1>1, <1>3, AskIs DEF Ids
<1>5. Stale(asks', Unheard')
      <2>1. Question(id, <<>>) \in ToSet(asks')  BY <1>4 DEF Asked
      <2>2. Question(id, <<>>).id # "fetch"  BY <1>3 DEF Question
      <2> QED  BY <2>1, <2>2 DEF Stale
<1>6. IsStack(stack')  BY <1>1, EmptyIsSeq, NewStackIs DEF Notice
<1>7. IsWorld'  BY <1>1, <1>2 DEF IsWorld
<1>8. AreAsks(asks')  BY <1>4 DEF Asked
<1>9. Enough(stack, asks, answers, owed)'  BY <1>1, <1>2, <1>8, AnewIsEnough
<1> QED  BY <1>1, <1>2, <1>5, <1>6, <1>7, <1>8, <1>9, NewWorld

\* Whatever the user does that ends in fetch_data_internal (browser.rs:412-421).
LEMMA PressKeepsPanes ==
    ASSUME PanesInv, NEW s, Press(s), IsStack(s), SameSongs(stack, s),
           s.path # <<>> => IsSelected(Root(stack)) /\ Root(s) = Root(stack)
    PROVE  PanesInv'
<1>1. /\ IsWorld /\ IsStack(stack) /\ AreAsks(asks) /\ AreReplies(answers)
      /\ Fresh(stack, asks, answers, Unheard, lost, missed)
      BY DEF PanesInv
<1>2. /\ stack' = s /\ asks' = Fetch(s, asks) /\ world' = world /\ answers' = answers
      /\ Unheard' = Unheard /\ missed' = missed /\ lost' = lost /\ Anew
      BY DEF Press, Unheard
<1>3. s.path # <<>> => IsSelected(Root(stack)) /\ Target(s) = Target(stack)  BY DEF Target
<1>4. Fresh(stack', asks', answers', Unheard', lost', missed')  BY <1>1, <1>2, <1>3, PressIsFresh
<1>5. AreAsks(asks')  BY <1>1, <1>2, FetchIs
<1>6. Enough(stack', asks', answers', owed')  BY <1>1, <1>2, <1>5, AnewIsEnough
<1> QED  BY <1>1, <1>2, <1>4, <1>5, <1>6, SameWorld

\* SameSongs is transitive.
LEMMA SameSongsTwice ==
    ASSUME NEW s, NEW t, NEW u, SameSongs(s, t), SameSongs(t, u) PROVE SameSongs(s, u)
BY DEF SameSongs

\* Rows are numbers.
LEMMA RowsAreInts == ASSUME NEW q, IsSeq(q) PROVE Rows(q) \subseteq Int
<1>1. Len(q) \in Nat  BY LenIsNat
<1> QED  BY <1>1 DEF Rows

\* Keys and clicks that move (browser.rs:77-109, 304-483).
LEMMA MovesKeepPanes ==
    ASSUME PanesInv, MoveCursor \/ Right \/ Left_ \/ ClickPrevious \/ ClickPreview
    PROVE  PanesInv'
<1>1. IsStack(stack)  BY DEF PanesInv
<1>2. stack.path # <<>> => IsSelected(Root(stack))  BY <1>1 DEF IsStack
<1>3. IsDir(CurrentDir(stack)) /\ IsDir(Root(stack))  BY <1>1 DEF IsStack, CurrentDir, Root
<1>4. CASE MoveCursor
      <2>1. PICK row \in Rows(CurrentDir(stack).items) : Press(Go(stack, row))  BY <1>4 DEF MoveCursor
      <2>2. row \in Int  BY <1>3, <2>1, RowsAreInts DEF IsDir
      <2> QED  BY <1>1, <1>2, <2>1, <2>2, GoIs, PressKeepsPanes
<1>5. CASE Right
      <2>1. Press(Entered(stack)) /\ OnContainer(stack)  BY <1>5 DEF Right
      <2>2. IsSelected(Root(stack))  BY <2>1, HoveredIsTarget
      <2> QED  BY <1>1, <2>1, <2>2, EnteredIs, PressKeepsPanes
<1>6. CASE Left_
      <2>1. Press(Left(stack))  BY <1>6 DEF Left_
      <2> QED  BY <1>1, <2>1, LeftIs, PressKeepsPanes
<1>7. CASE ClickPrevious
      <2>1. PICK row \in Rows(Root(stack).items) : Press(Go(Left(stack), row))
            BY <1>7 DEF ClickPrevious, Root
      <2>2. row \in Int  BY <1>3, <2>1, RowsAreInts DEF IsDir
      <2> DEFINE s == Left(stack)
                 t == Go(s, row)
      <2>3. IsStack(s) /\ s.path = <<>> /\ SameSongs(stack, s)  BY <1>1, LeftIs
      <2> HIDE DEF s
      <2>4. IsStack(t) /\ t.path = <<>> /\ SameSongs(s, t)  BY <2>2, <2>3, GoIs
      <2>5. Press(t)  BY <2>1 DEF s
      <2> HIDE DEF t
      <2>6. SameSongs(stack, t)  BY <2>3, <2>4, SameSongsTwice
      <2> QED  BY <2>4, <2>5, <2>6, PressKeepsPanes
<1>8. CASE ClickPreview
      <2> DEFINE s == Entered(stack)
      <2>1. IsStack(s) /\ SameSongs(stack, s) /\ Root(s) = Root(stack)
            /\ (OnContainer(stack) \/ s.path = stack.path)
            BY <1>1, EnteredIs
      <2>2. IsSeq(CurrentDir(s).items)  BY <2>1 DEF IsStack, CurrentDir, IsDir
      <2>3. PICK row \in Rows(CurrentDir(s).items) \union {0} : Press(Go(s, row))
            BY <1>8 DEF ClickPreview
      <2>4. row \in Int  BY <2>2, <2>3, RowsAreInts
      <2> HIDE DEF s
      <2> DEFINE t == Go(s, row)
      <2>5. IsStack(t) /\ t.path = s.path /\ SameSongs(s, t) /\ (s.path # <<>> => Root(t) = Root(s))
            BY <2>1, <2>4, GoIs
      <2>6. t.path # <<>> => IsSelected(Root(stack)) /\ Root(t) = Root(stack)
            <3>1. OnContainer(stack) => IsSelected(Root(stack))  BY HoveredIsTarget
            <3> QED  BY <1>2, <2>1, <2>5, <3>1
      <2>7. Press(t)  BY <2>3
      <2> HIDE DEF t
      <2>8. SameSongs(stack, t)  BY <2>1, <2>5, SameSongsTwice
      <2> QED  BY <2>5, <2>6, <2>7, <2>8, PressKeepsPanes
<1> QED  BY <1>4, <1>5, <1>6, <1>7, <1>8

\* Space (browser.rs:509-516).
LEMMA MarkRowKeepsPanes == ASSUME PanesInv, MarkRow PROVE PanesInv'
<1> DEFINE d == CurrentDir(stack)
           e == [d EXCEPT !.marked = SymDiff(@, {d.sel})]
<1>1. IsStack(stack) /\ IsDir(d) /\ (stack.path # <<>> => IsSelected(Root(stack)))
      BY DEF PanesInv, IsStack, CurrentDir
<1>2. PICK row \in {0, d.sel + 1} : Press(WithCurrent(stack, SelectIn(e, row)))  BY DEF MarkRow
<1>3. IsDir(e) /\ e.items = d.items  BY <1>1, WithMarks
<1>4. row \in Int  BY <1>1, <1>2 DEF IsDir
<1> HIDE DEF e
<1>5. IsDir(SelectIn(e, row)) /\ SelectIn(e, row).items = CurrentDir(stack).items
      BY <1>3, <1>4, SelectInIs
<1> DEFINE f == SelectIn(e, row)
           s == WithCurrent(stack, f)
<1> HIDE DEF f
<1>6. IsStack(s) /\ SameSongs(stack, s) /\ s.path = stack.path /\ (stack.path # <<>> => Root(s) = Root(stack))
      BY <1>1, <1>5, WithCurrentIs DEF f
<1>7. Press(s)  BY <1>2 DEF f
<1> HIDE DEF s
<1> QED  BY <1>1, <1>6, <1>7, PressKeepsPanes

\* Marks are rows: nothing else depends on them (browser.rs:504-508, 550-553).
LEMMA MarkedIs ==
    ASSUME IsStack(stack), NEW m
    PROVE  LET t == WithCurrent(stack, [CurrentDir(stack) EXCEPT !.marked = m]) IN
           /\ IsStack(t) /\ SameSongs(stack, t) /\ t.path = stack.path
           /\ IsSelected(Root(t)) => IsSelected(Root(stack)) /\ Target(t) = Target(stack)
<1> DEFINE d == CurrentDir(stack)
           e == [d EXCEPT !.marked = m]
           t == WithCurrent(stack, e)
<1>1. IsDir(d)  BY DEF IsStack, CurrentDir
<1>2. IsDir(e) /\ e.items = d.items /\ e.sel = d.sel  BY <1>1, WithMarks
<1> HIDE DEF e
<1>3. IsStack(t) /\ SameSongs(stack, t) /\ t.path = stack.path
      /\ Root(t) = IF stack.path = <<>> THEN e ELSE Root(stack)
      BY <1>2, WithCurrentIs
<1>4. stack.path = <<>> => d = Root(stack)  BY DEF CurrentDir, Root
<1> HIDE DEF t
<1>5. IsSelected(Root(t)) => IsSelected(Root(stack)) /\ Target(t) = Target(stack)
      BY <1>2, <1>3, <1>4 DEF IsSelected, Target, Selected
<1> QED  BY <1>3, <1>5 DEF t, e

\* Keys that only mark (browser.rs:504-508, 550-553).
LEMMA MarksKeepPanes == ASSUME PanesInv, InvertMarks \/ CloseMarks PROVE PanesInv'
<1>1. /\ IsWorld /\ IsStack(stack) /\ AreAsks(asks) /\ AreReplies(answers)
      /\ Fresh(stack, asks, answers, Unheard, lost, missed)
      BY DEF PanesInv
<1>2. PICK m : Mark(m)  BY DEF InvertMarks, CloseMarks
<1>3. /\ stack' = WithCurrent(stack, [CurrentDir(stack) EXCEPT !.marked = m])
      /\ asks' = asks /\ world' = world /\ answers' = answers
      /\ Unheard' = Unheard /\ missed' = missed /\ lost' = lost /\ Anew
      BY <1>2 DEF Mark, Unheard
<1>4. /\ IsStack(stack') /\ SameSongs(stack, stack')
      /\ IsSelected(Root(stack')) => IsSelected(Root(stack)) /\ Target(stack') = Target(stack)
      BY <1>1, <1>3, MarkedIs
<1>5. Fresh(stack', asks', answers', Unheard', lost', missed')  BY <1>1, <1>3, <1>4, MarksAreFresh
<1>6. Enough(stack', asks', answers', owed')  BY <1>1, <1>3, AnewIsEnough
<1> QED  BY <1>1, <1>3, <1>4, <1>5, <1>6, SameWorld

-----------------------------------------------------------------------------
(* What the user does to MPD's playlists.                                  *)

\* MPD has another sequence of songs in one of its playlists.
LEMMA WorldWith ==
    ASSUME IsWorld, NEW x \in DOMAIN world, NEW q, IsSeq(q), world' = [world EXCEPT ![x] = q]
    PROVE  IsWorld'
<1>1. world = [y \in DOMAIN world |-> world[y]] /\ \A y \in DOMAIN world : IsSeq(world[y])
      BY DEF IsWorld
<1>2. world' = [y \in DOMAIN world |-> IF y = x THEN q ELSE world[y]]  BY <1>1
<1>3. DOMAIN world' = DOMAIN world /\ \A y \in DOMAIN world : world'[y] = IF y = x THEN q ELSE world[y]
      BY <1>2
<1>4. world' = [y \in DOMAIN world' |-> world'[y]]  BY <1>2, <1>3
<1>5. \A y \in DOMAIN world' : IsSeq(world'[y])  BY <1>1, <1>3
<1>6. DOMAIN world' \in SUBSET Nat /\ IsFiniteSet(DOMAIN world')  BY <1>3 DEF IsWorld
<1> QED  BY <1>4, <1>5, <1>6 DEF IsWorld

\* MPD is told first, behind every question; the pane follows if MPD could
\* (playlists.rs:427-503).
LEMMA MoveSongsKeepsPanes ==
    ASSUME PanesInv, NEW by, NEW s, IsStack(s), MoveSongs(by, s)
    PROVE  PanesInv'
<1>1. /\ IsWorld /\ IsStack(stack) /\ AreAsks(asks) /\ AreReplies(answers)
      /\ Fresh(stack, asks, answers, Unheard, lost, missed)
      BY DEF PanesInv
<1>2. answers' = answers /\ asks' = asks /\ lost' = lost /\ Anew
      BY DEF MoveSongs
<1>3. PICK moved \in Begun(Chosen(CurrentDir(stack))) :
          \/ NotAnswered({}, {}) /\ world' = world /\ stack' = stack
          \/ /\ Playlist \in DOMAIN world
             /\ world' = [world EXCEPT ![Playlist] = Shifted(@, moved, by)]
             /\ \/ stack' = s /\ notices' = notices \union {Idle}
                \/ NotAnswered({}, {Idle}) /\ stack' = stack
      BY DEF MoveSongs
<1>4. Enough(stack', asks', answers', owed') /\ Enough(stack, asks, answers, owed)'
      BY <1>1, <1>2, AnewIsEnough
<1>5. CASE NotAnswered({}, {}) /\ world' = world /\ stack' = stack
      <2>1. Fresh(stack', asks', answers', Unheard', lost', missed')
            BY <1>1, <1>2, <1>5, NothingHeardIsFresh
      <2> QED  BY <1>1, <1>2, <1>4, <1>5, <2>1, SameWorld
<1>6. CASE /\ Playlist \in DOMAIN world
           /\ world' = [world EXCEPT ![Playlist] = Shifted(@, moved, by)]
           /\ \/ stack' = s /\ notices' = notices \union {Idle}
              \/ NotAnswered({}, {Idle}) /\ stack' = stack
      <2> DEFINE q == Shifted(world[Playlist], moved, by)
      <2>1. Playlist \in DOMAIN world /\ IsSeq(world[Playlist])  BY <1>1, <1>6 DEF IsWorld
      <2>2. IsSeq(q)  BY <2>1, ShiftedIsSeq
      <2>3. world' = [world EXCEPT ![Playlist] = q]  BY <1>6
      <2> HIDE DEF q
      <2>4. IsWorld'  BY <1>1, <2>1, <2>2, <2>3, WorldWith
      <2>5. Unheard' # {}
            <3>1. CASE notices' = notices \union {Idle}  BY <3>1 DEF Unheard
            <3>2. CASE NotAnswered({}, {Idle})  BY <3>2, NotAnsweredIs
            <3> QED  BY <1>6, <3>1, <3>2
      <2>6. Stale(asks', Unheard')  BY <2>5 DEF Stale
      <2>7. IsStack(stack')  BY <1>1, <1>6
      <2> QED  BY <1>1, <1>2, <1>4, <2>4, <2>6, <2>7, NewWorld
<1> QED  BY <1>3, <1>5, <1>6

\* Moving the selected song or the marked ones (playlists.rs:427-499).
LEMMA MovesOfSongsKeepPanes == ASSUME PanesInv, MoveSelected \/ MoveMarked PROVE PanesInv'
<1> DEFINE d == CurrentDir(stack)
<1>1. IsStack(stack) /\ IsDir(d)  BY DEF PanesInv, IsStack, CurrentDir
<1>2. CASE MoveSelected
      <2>1. PICK by \in {-1, 1} : MoveSongs(by, Go(WithCurrent(stack,
                [d EXCEPT !.items = Shifted(@, {d.sel}, by)]), d.sel + by))
            BY <1>2 DEF MoveSelected
      <2> DEFINE e == [d EXCEPT !.items = Shifted(@, {d.sel}, by)]
                 s == WithCurrent(stack, e)
      <2>2. IsSeq(Shifted(d.items, {d.sel}, by)) /\ d.sel + by \in Int
            BY <1>1, ShiftedIsSeq DEF IsDir
      <2>3. e = [items |-> Shifted(d.items, {d.sel}, by), marked |-> d.marked, sel |-> d.sel]
            BY <1>1 DEF IsDir
      <2>4. IsDir(e)  BY <1>1, <2>2, <2>3 DEF IsDir
      <2>5. MoveSongs(by, Go(s, d.sel + by))  BY <2>1
      <2> HIDE DEF e
      <2>6. IsStack(s)  BY <1>1, <2>4, WithCurrentIs
      <2> HIDE DEF s
      <2>7. IsStack(Go(s, d.sel + by))  BY <2>2, <2>6, GoIs
      <2> QED  BY <2>5, <2>7, MoveSongsKeepsPanes
<1>3. CASE MoveMarked
      <2>1. PICK by \in {-1, 1} : MoveSongs(by, WithCurrent(stack,
                [d EXCEPT !.marked = {r + by : r \in @}]))
            BY <1>3 DEF MoveMarked
      <2> DEFINE m == {r + by : r \in d.marked}
                 s == WithCurrent(stack, [d EXCEPT !.marked = m])
      <2>2. MoveSongs(by, s)  BY <2>1
      <2> HIDE DEF m
      <2>3. IsStack(s)  BY <1>1, MarkedIs
      <2> HIDE DEF s
      <2> QED  BY <2>2, <2>3, MoveSongsKeepsPanes
<1> QED  BY <1>2, <1>3

\* The modal opens and the marks go (browser.rs:554-583).
LEMMA DeleteKeepsPanes == ASSUME PanesInv, Delete PROVE PanesInv'
<1>1. /\ IsWorld /\ IsStack(stack) /\ AreAsks(asks) /\ AreReplies(answers)
      /\ Fresh(stack, asks, answers, Unheard, lost, missed) /\ Enough(stack, asks, answers, owed)
      BY DEF PanesInv
<1>2. /\ stack' = WithCurrent(stack, [CurrentDir(stack) EXCEPT !.marked = {}])
      /\ stack.path # <<>>
      /\ world' = world /\ asks' = asks /\ answers' = answers
      /\ Unheard' = Unheard /\ missed' = missed /\ lost' = lost /\ owed' = owed
      BY DEF Delete, InPlaylist, Unheard
<1>3. /\ IsStack(stack') /\ SameSongs(stack, stack') /\ stack'.path = stack.path
      /\ IsSelected(Root(stack')) => IsSelected(Root(stack)) /\ Target(stack') = Target(stack)
      BY <1>1, <1>2, MarkedIs
<1>4. Fresh(stack', asks', answers', Unheard', lost', missed')  BY <1>1, <1>2, <1>3, MarksAreFresh
<1>5. ~OnContainer(stack) /\ ~OnContainer(stack')  BY <1>2, <1>3 DEF OnContainer
<1>6. Enough(stack', asks', answers', owed')  BY <1>1, <1>2, <1>5 DEF Enough, HasSongs
<1> QED  BY <1>1, <1>2, <1>3, <1>4, <1>6, SameWorld

\* What MPD has left is the rest of the playlist (mpd_client_ext.rs:222-234).
LEMMA DeletedIs ==
    ASSUME PanesInv, ConfirmDelete, world' # world
    PROVE  LET c == confirm[1] q == world[c.list] IN
           /\ c.list \in DOMAIN world /\ IsSeq(q)
           /\ world' = [world EXCEPT ![c.list] = RowsDeleted(q, c.rows)]
           /\ world'[c.list] = RowsDeleted(q, c.rows)
           /\ Shrunk(q, c.rows, RowsDeleted(q, c.rows))
           /\ NotAnswered({}, {Idle})
<1> DEFINE c == confirm[1]
           q == world[c.list]
<1>1. IsWorld  BY DEF PanesInv
<1>2. /\ c.list \in DOMAIN world /\ c.rows \in SUBSET Rows(q)
      /\ world' = [world EXCEPT ![c.list] = RowsDeleted(q, c.rows)]
      /\ NotAnswered({}, {Idle})
      BY DEF ConfirmDelete
<1>3. IsSeq(q) /\ world = [y \in DOMAIN world |-> world[y]]  BY <1>1, <1>2 DEF IsWorld
<1>4. world'[c.list] = RowsDeleted(q, c.rows)  BY <1>2, <1>3
<1> HIDE DEF q, c
<1>5. Shrunk(q, c.rows, RowsDeleted(q, c.rows))  BY <1>2, <1>3, RowsDeletedRemains
<1> QED  BY <1>2, <1>3, <1>4, <1>5 DEF q, c

\* Deleting never gives songs to a playlist that has none (browser.rs:568-576).
LEMMA ConfirmDeleteKeepsPanes == ASSUME PanesInv, ConfirmDelete PROVE PanesInv'
<1>1. /\ IsWorld /\ IsStack(stack) /\ AreAsks(asks) /\ AreReplies(answers)
      /\ Fresh(stack, asks, answers, Unheard, lost, missed) /\ Enough(stack, asks, answers, owed)
      BY DEF PanesInv
<1>2. /\ stack' = stack /\ asks' = asks /\ answers' = answers /\ owed' = owed /\ lost' = lost
      BY DEF ConfirmDelete
<1>3. CASE world' = world
      <2>1. NotAnswered({}, {}) \/ NotAnswered({}, {Idle})  BY DEF ConfirmDelete
      <2>2. CASE NotAnswered({}, {})
            <3>1. Fresh(stack', asks', answers', Unheard', lost', missed')
                  BY <1>1, <1>2, <2>2, NothingHeardIsFresh
            <3> QED  BY <1>1, <1>2, <1>3, <3>1, SameWorld
      <2>3. CASE NotAnswered({}, {Idle})
            <3>1. Unheard' # {}  BY <2>3, NotAnsweredIs
            <3>2. Fresh(stack', asks', answers', Unheard', lost', missed')  BY <3>1 DEF Fresh, Stale
            <3> QED  BY <1>1, <1>2, <1>3, <3>2, SameWorld
      <2> QED  BY <2>1, <2>2, <2>3
<1>5. CASE world' # world
      <2> DEFINE c == confirm[1]
                 q == world[c.list]
                 new == RowsDeleted(q, c.rows)
      <2>1. /\ c.list \in DOMAIN world /\ IsSeq(q)
            /\ world' = [world EXCEPT ![c.list] = new] /\ world'[c.list] = new
            /\ Shrunk(q, c.rows, new) /\ NotAnswered({}, {Idle})
            BY <1>5, DeletedIs
      <2> HIDE DEF new
      <2>2. IsSeq(new) /\ Len(new) = Len(q) - Cardinality(c.rows)  BY <2>1 DEF Shrunk, Remains
      <2>3. IsWorld'
            <3> HIDE DEF c
            <3> QED  BY <1>1, <2>1, <2>2, WorldWith
      <2>4. Stale(asks', Unheard')  BY <2>1, NotAnsweredIs DEF Stale
      <2>5. DOMAIN world' = DOMAIN world /\ \A y \in DOMAIN world : y # c.list => world'[y] = world[y]
            <3>1. world = [y \in DOMAIN world |-> world[y]]  BY <1>1 DEF IsWorld
            <3> QED  BY <2>1, <3>1
      <2>6. new # <<>> => q # <<>>
            <3> SUFFICES ASSUME q = <<>> PROVE new = <<>>  OBVIOUS
            <3>1. c.rows \in SUBSET Rows(<<>>)  BY <1>5 DEF ConfirmDelete
            <3>2. c.rows = {}  BY <3>1, EmptyIsSeq DEF Rows
            <3>3. Len(new) = 0  BY <2>2, <3>2, EmptyIsSeq, FS_EmptySet
            <3> QED  BY <2>2, <3>3, TailIsSeq
      <2>7. ASSUME NEW x, x \in DOMAIN world', world'[x] # <<>> PROVE x \in DOMAIN world /\ world[x] # <<>>
            BY <2>1, <2>5, <2>6, <2>7
      <2>8. Enough(stack, asks, answers, owed)'
            <3>1. HasSongs(stack)' => HasSongs(stack)  BY <1>2, <2>7 DEF HasSongs
            <3>2. Costs(asks, answers, Hovered(stack))' = Costs(asks, answers, Hovered(stack))
                  BY <1>2 DEF Costs, Costly, Elsewhere
            <3> QED  BY <1>1, <1>2, <3>1, <3>2 DEF Enough
      <2> QED  BY <1>1, <1>2, <2>3, <2>4, <2>8, NewWorld
<1> QED  BY <1>3, <1>5

\* Closing the modal, and doing nothing.
LEMMA IdleKeepsPanes == ASSUME PanesInv, CancelDelete \/ UNCHANGED panesVars PROVE PanesInv'
<1>1. /\ IsWorld /\ IsStack(stack) /\ AreAsks(asks) /\ AreReplies(answers)
      /\ Fresh(stack, asks, answers, Unheard, lost, missed) /\ Enough(stack, asks, answers, owed)
      BY DEF PanesInv
<1>2. /\ stack' = stack /\ asks' = asks /\ answers' = answers /\ owed' = owed /\ lost' = lost
      /\ world' = world /\ Unheard' = Unheard /\ missed' = missed
      BY DEF CancelDelete, panesVars, Unheard
<1> QED  BY <1>1, <1>2, SameWorld

\* Whatever happens next.
LEMMA NextKeepsPanes == PanesInv /\ [PanesNext]_panesVars => PanesInv'
<1> SUFFICES ASSUME PanesInv, [PanesNext]_panesVars PROVE PanesInv'  OBVIOUS
<1>1. CASE Work \/ WorkLost  BY <1>1, WorkKeepsPanes, WorkLostKeepsPanes
<1>2. CASE Finished
      BY <1>2, FetchFinishedKeepsPanes, InitFinishedKeepsPanes, ReinitAtRootKeepsPanes,
         ReinitInsideKeepsPanes, ReinitDroppedKeepsPanes DEF Finished
<1>3. CASE Notice  BY <1>3, NoticeKeepsPanes
<1>4. CASE Others  BY <1>4, OthersKeepPanes
<1>5. CASE User
      BY <1>5, MovesKeepPanes, MarkRowKeepsPanes, MarksKeepPanes, MovesOfSongsKeepPanes,
         DeleteKeepsPanes, ConfirmDeleteKeepsPanes, IdleKeepsPanes DEF User
<1>6. CASE UNCHANGED panesVars  BY <1>6, IdleKeepsPanes
<1> QED  BY <1>1, <1>2, <1>3, <1>4, <1>5, <1>6 DEF PanesNext

\* The panes keep their invariant.
THEOREM PanesInvariant == PanesSpec => []PanesInv
<1>1. PanesInit => PanesInv  BY InitPanes
<1>2. PanesInv /\ [PanesNext]_panesVars => PanesInv'  BY NextKeepsPanes
<1> QED  BY <1>1, <1>2, PTL DEF PanesSpec

\* When nothing is on its way the pane shows what MPD has (PaneConverges).
THEOREM PanesConverge == PanesSpec => []PaneConverges
<1>1. PanesInv => PaneConverges
      <2> SUFFICES ASSUME PanesInv, Quiet, ~lost, <<>> \notin missed
                   PROVE  /\ stack.dirs[<<>>].items = Listing
                          /\ OnContainer(stack) /\ Hovered(stack) \notin missed => Shown(Hovered(stack))
                          /\ stack.path # <<>> /\ stack.path \notin missed => Shown(stack.path)
          BY DEF PaneConverges
      <2>1. /\ IsStack(stack) /\ Fresh(stack, asks, answers, Unheard, lost, missed)
            /\ asks = <<>> /\ answers = <<>> /\ Unheard = {}
            BY DEF PanesInv, Quiet, Unheard
      <2>2. DOMAIN answers = {} /\ ToSet(asks) = {}  BY <2>1, NoAsks, EmptyIsSeq, LenIsNat DEF ToSet
      <2>3. ~Stale(asks, Unheard) /\ OnlySongs(answers)  BY <2>1, <2>2 DEF Stale, OnlySongs
      <2>4. ListsCurrent(stack) /\ TargetComes(stack, asks, answers, missed)  BY <2>1, <2>3 DEF Fresh
      <2>5. ~Coming(asks, answers, Target(stack))  BY <2>2 DEF Coming
      <2>6. IsSelected(Root(stack)) /\ Target(stack) \notin missed => Known(stack, Target(stack))
            BY <2>4, <2>5 DEF TargetComes
      <2>7. OnContainer(stack) /\ Hovered(stack) \notin missed => Known(stack, Hovered(stack))
            BY <2>6, HoveredIsTarget
      <2>8. stack.path # <<>> /\ stack.path \notin missed => Known(stack, stack.path)
            BY <2>1, <2>6 DEF IsStack
      <2> QED  BY <2>4, <2>7, <2>8 DEF ListsCurrent, Root, Known, Shown
<1> QED  BY <1>1, PanesInvariant, PTL

\* Left alone, the pane stops asking (AnswersSettle).
THEOREM PanesSettle == PanesSpec => []AnswersSettle
<1>1. PanesInv => AnswersSettle
      <2> SUFFICES ASSUME PanesInv, owed < 0 PROVE OnEmpty  BY DEF AnswersSettle
      <2>1. Enough(stack, asks, answers, owed) /\ IsSeq(answers)  BY DEF PanesInv, AreReplies
      <2>2. OnContainer(stack)  BY <2>1 DEF Enough
      <2>3. Costs(asks, answers, Hovered(stack)) \in Nat
            <3> DEFINE h == Hovered(stack)
            <3> HIDE DEF h
            <3>1. Cardinality(Costly(answers, h)) \in Nat  BY <2>1, CostlyIsNat
            <3> QED  BY <3>1 DEF Costs, h
      <2>4. ~HasSongs(stack)  BY <2>1, <2>3 DEF Enough
      <2> QED  BY <2>2, <2>4 DEF HasSongs, OnEmpty
<1> QED  BY <1>1, PanesInvariant, PTL

\* The cursor stays on its playlist or song (CursorStaysOnItem).
THEOREM CursorStays == PanesSpec => CursorStaysOnItem
<1> DEFINE Stays == (ReinitAtRoot \/ ReinitInside)
                    /\ stack'.path = stack.path /\ IsSelected(CurrentDir(stack))
                    /\ Selected(CurrentDir(stack)) \in ToSet(CurrentDir(stack').items)
                    => IsSelected(CurrentDir(stack'))
                       /\ (stack' # stack => Selected(CurrentDir(stack')) = Selected(CurrentDir(stack)))
<1>1. PanesInv /\ [PanesNext]_panesVars => [Stays]_panesVars
      <2> SUFFICES ASSUME PanesInv, ReinitAtRoot \/ ReinitInside,
                          IsSelected(CurrentDir(stack)),
                          Selected(CurrentDir(stack)) \in ToSet(CurrentDir(stack').items)
                   PROVE  IsSelected(CurrentDir(stack'))
                          /\ (stack' # stack => Selected(CurrentDir(stack')) = Selected(CurrentDir(stack)))
          OBVIOUS
      <2>1. CASE stack' = stack  BY <2>1
      <2>2. CASE stack' # stack  BY <2>2, ReinitAtRootKeepsPanes, ReinitInsideKeepsPanes
      <2> QED  BY <2>1, <2>2
<1> QED  BY <1>1, PanesInvariant, PTL DEF PanesSpec, CursorStaysOnItem

\* A confirmed deletion takes the chosen songs and no others (DeletesTheChosen).
THEOREM TheChosenAreDeleted == PanesSpec => DeletesTheChosen
<1> DEFINE Chose == ConfirmDelete /\ world' # world /\ world[confirm[1].list] = confirm[1].shown
                    => Remains(confirm[1].shown, confirm[1].rows, world'[confirm[1].list])
<1>1. PanesInv /\ [PanesNext]_panesVars => [Chose]_panesVars
      BY DeletedIs DEF Shrunk
<1> QED  BY <1>1, PanesInvariant, PTL DEF PanesSpec, DeletesTheChosen
=============================================================================
