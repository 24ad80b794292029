------------------------------ MODULE QueueList ------------------------------
(***************************************************************************)
(* The list of the queue pane: cursor, scrolling, marks and filter of      *)
(* rmpc/src/ui/panes/queue.rs on top of DirState (Lists).                  *)
(*                                                                         *)
(* Keys, clicks, changes of the queue and renderings come in any order:    *)
(* the event loop draws at most once per frame, so several of the others   *)
(* may fall between two renderings, which are what tells the list its      *)
(* lengths.  Where MPD's queue comes from is the matter of QueueSync: here *)
(* it may become any list of songs at any time.                            *)
(***************************************************************************)
EXTENDS Lists, Rows

CONSTANTS
    Songs,         \* the songs there are
    Heights,       \* the heights the table may be drawn with
    Scrolloff,     \* config.scrolloff
    ScrollAmount   \* config.scroll_amount

ASSUME QueueListAssumption ==
    /\ IsFiniteSet(Songs) /\ Heights \subseteq Nat
    /\ ScrollAmount \in Nat /\ UsizeMax \in Nat /\ Scrolloff \in 0..UsizeMax

VARIABLES
    items,    \* queue.items
    list,     \* queue.state
    filter,   \* filter_active; which songs match is left open
    meant,    \* history: the songs the user has marked
    stale     \* history: the queue has changed under the marks or the length

vars == <<items, list, filter, meant, stale>>

Queues == {q \in UNION {[1..n -> Songs] : n \in 0..Cardinality(Songs)} : IsInjective(q)}

TypeOK ==
    /\ items \in Queues /\ list \in List
    /\ filter \in BOOLEAN /\ stale \in BOOLEAN
    /\ meant \subseteq Songs

HasSelected == list.sel \in Rows(items)

\* Dir::new selects before it sets the length.
DirOf(n) == IF n = 0 THEN NewList ELSE SetLen(Started(NewList), n)

Init ==
    /\ items \in Queues
    /\ list = DirOf(Len(items))
    /\ filter = FALSE /\ meant = {} /\ stale = FALSE

-----------------------------------------------------------------------------
(* Drawing, and what the event loop tells the pane.                        *)

\* Seeded fault: the cursor is left where it was.
DrawnAsIs(height) == SetLens(list, Len(items), height)

\* The virtualised table clamps the cursor after it has been measured.
Drawn(height) == LET l == SetLens(list, Len(items), height) IN Select(l, l.sel, 0)

Forgotten == stale' = (stale /\ list.marked # {})

\* An active filter takes a row of the table.
Render ==
    /\ \E area \in Heights :
           list' = Drawn(SatSub(area, IF filter THEN 1 ELSE 0))
    /\ Forgotten
    /\ UNCHANGED <<items, filter, meant>>

Huge == UsizeMax

\* before_show and resize measure again, with the height drawn last, and give
\* the cursor a place: its own, that of the current song or the first.
Reselect(current, centre, so) ==
    LET l == SetLens(list, Len(items), OrZero(list.view))
        own == IF l.sel = None THEN IF current = None THEN 0 ELSE current ELSE l.sel
        to  == IF centre /\ current # None THEN current ELSE own
    IN  /\ list' = Select(l, to, so)
        /\ Forgotten
        /\ UNCHANGED <<items, filter, meant>>

Current == Option(Rows(items))
BeforeShow == \E current \in Current, centre \in BOOLEAN : Reselect(current, centre, Huge)
Resize     == \E current \in Current : Reselect(current, FALSE, Scrolloff)

\* The items are replaced, cursor and marks stay.
QueueChanged ==
    /\ items' \in Queues \ {items}
    /\ stale' = TRUE /\ meant' = {}
    /\ UNCHANGED <<list, filter>>

Database ==
    /\ items' \in Queues
    /\ list' = UnmarkAll(list) /\ meant' = {}
    /\ filter' = FALSE
    /\ stale' = (list.len # Len(items'))

-----------------------------------------------------------------------------
(* Keys and clicks that move the cursor.                                   *)

Move(l) == list' = l /\ UNCHANGED <<items, filter, meant, stale>>
Key(l) == items # <<>> /\ Move(l)

Up          == \E wrap \in BOOLEAN : Key(PrevOf(list, Scrolloff, wrap))
Down        == \E wrap \in BOOLEAN : Key(NextOf(list, Scrolloff, wrap))
DownHalf    == Key(NextHalfViewport(list, Scrolloff))
UpHalf      == Key(PrevHalfViewport(list, Scrolloff))
PageDown    == Key(NextViewport(list, Scrolloff))
PageUp      == Key(PrevViewport(list, Scrolloff))
Bottom      == Key(SelectLast(list))
Top         == Key(SelectFirst(list))
ScrollFocused == \E place \in {"top", "middle", "bottom"} :
                     Key(ScrollFocusedTo(list, place, Scrolloff))

SongChanged == \E row \in Rows(items), so \in {Scrolloff, Huge} : Move(Select(list, row, so))

\* A second jump to the current song centres it.
JumpToCurrent ==
    \E row \in Rows(items) :
        Move(Select(list, row, IF list.sel = row THEN Huge ELSE Scrolloff))

Click ==
    \E row \in 0..(OrZero(list.view) - 1) :
        LET idx == AtRenderedRow(list, row) IN
        idx # None /\ Move(Select(list, idx, Scrolloff))

WheelUp   == Move(ScrollUp(list, ScrollAmount, Scrolloff))
WheelDown == Move(ScrollDown(list, ScrollAmount, Scrolloff))
Scrollbar == \E part \in 0..2 : Move(ScrollTo(list, part, 2, Scrolloff))

-----------------------------------------------------------------------------
(* The filter.                                                             *)

EnterSearch == filter' = TRUE /\ UNCHANGED <<items, list, meant, stale>>
Cancel      == filter /\ filter' = FALSE /\ UNCHANGED <<items, list, meant, stale>>

Search(Jump(_)) == filter /\ \E matching \in SUBSET Rows(items) : Move(Jump(matching))

Push           == Search(LAMBDA matching : JumpFirst(list, matching, Scrolloff))
NextResult     == Search(LAMBDA matching : JumpNext(list, Len(items), matching, Scrolloff))
PreviousResult ==
    Search(LAMBDA matching : JumpPrevious(list, Len(items), matching, Scrolloff))

-----------------------------------------------------------------------------
(* Marks.                                                                  *)

MarkWith(l, songs) ==
    /\ list' = l /\ meant' = IF stale THEN {} ELSE songs
    /\ UNCHANGED <<items, filter, stale>>

SelectKey ==
    /\ HasSelected
    /\ \E wrap \in BOOLEAN :
           MarkWith(NextOf(ToggleMarkSelected(list), Scrolloff, wrap),
                    Toggled(meant, items[list.sel + 1]))

\* Inverts as many rows as the list believes to have.
InvertSelection ==
    list.len # None /\ MarkWith(InvertMarked(list), ToSet(items) \ meant)

\* The rows of an album are toggled one by one.
SelectAlbum ==
    \E from, to \in Rows(items) :
        /\ list.sel \in from..to
        /\ MarkWith([list EXCEPT !.marked = SymDiff(@, from..to)],
                    SymDiff(meant, SongsAt(items, from..to)))

DropMarks ==
    /\ list.marked # {}
    /\ list' = UnmarkAll(list) /\ meant' = {}
    /\ stale' = (stale /\ list.len # Len(items))
    /\ UNCHANGED <<items, filter>>

Close        == DropMarks
DeleteMarked == DropMarks
AddMarked    == DropMarks

-----------------------------------------------------------------------------
(* Moving songs; the commands that go with it are in QueueSync.            *)

Shift(q, l) == items' = q /\ list' = l /\ UNCHANGED <<filter, meant, stale>>

\* Marked rows the items do not have are not moved: the swap would panic.
MarksExist == list.marked # {} /\ list.marked \subseteq Rows(items)

MoveMarkedUp ==
    /\ MarksExist /\ 0 \notin list.marked
    /\ Shift(ShiftedUp(items, list.marked),
             [Select(list, Least(list.marked) - 1, Scrolloff)
                  EXCEPT !.marked = {r - 1 : r \in @}])

\* Seeded fault: the marks stay behind.
MoveMarkedDownOnly ==
    /\ MarksExist /\ Len(items) - 1 \notin list.marked
    /\ Shift(ShiftedDown(items, list.marked),
             Select(list, Greatest(list.marked) + 1, Scrolloff))

MoveMarkedDown ==
    /\ MarksExist /\ Len(items) - 1 \notin list.marked
    /\ Shift(ShiftedDown(items, list.marked),
             [Select(list, Greatest(list.marked) + 1, Scrolloff)
                  EXCEPT !.marked = {r + 1 : r \in @}])

MoveUp ==
    /\ list.marked = {} /\ HasSelected /\ list.sel # 0
    /\ Shift(Swapped(items, list.sel + 1, list.sel),
             Select(list, list.sel - 1, Scrolloff))

MoveDown ==
    /\ list.marked = {} /\ HasSelected
    /\ LET to == AtMost(list.sel + 1, Len(items) - 1) IN
           Shift(Swapped(items, list.sel + 1, to + 1), Select(list, to, Scrolloff))

-----------------------------------------------------------------------------
Tell   == Render \/ BeforeShow \/ Resize \/ QueueChanged \/ Database \/ SongChanged
Cursor == \/ Up \/ Down \/ DownHalf \/ UpHalf \/ PageDown \/ PageUp \/ Bottom \/ Top
          \/ ScrollFocused \/ JumpToCurrent
Mouse  == Click \/ WheelUp \/ WheelDown \/ Scrollbar
Filter == EnterSearch \/ Push \/ Cancel \/ NextResult \/ PreviousResult
Marks  == \/ SelectKey \/ InvertSelection \/ SelectAlbum \/ Close \/ DeleteMarked
          \/ AddMarked
Shifts == MoveMarkedUp \/ MoveMarkedDown \/ MoveUp \/ MoveDown

Next == Tell \/ Cursor \/ Mouse \/ Filter \/ Marks \/ Shifts

Spec == Init /\ [][Next]_vars

-----------------------------------------------------------------------------
\* Whatever the order of keys, resizes and changes of the queue, the cursor is
\* on a row the list has and on screen, and no rows are wasted below the last
\* item (state.rs:306-354).
CursorStaysShown == CursorShown(list)

\* The cursor never comes closer to the edge of the table than scrolloff rows,
\* unless the list ends there or the table is too small (state.rs:333-354).
ScrolloffKept ==
    [][list'.sel \notin {list.sel, None} /\ list'.len # None
       /\ 2 * Scrolloff < OrZero(list'.view)
       => Margin(list', Scrolloff)]_vars

\* Turning the wheel up never moves the cursor down.  It needs a table higher
\* than scrolloff: otherwise offset + viewport_len - scrolloff - 1 wraps around
\* and the cursor jumps to the end (state.rs:316-317).  Nor may the cursor be
\* closer to the top than scrolloff, as a table that has grown leaves it.
WheelUpGoesUp ==
    [][WheelUp /\ Scrolloff < OrZero(list.view) /\ list.off + Scrolloff <= list.sel
       => list'.sel <= list.sel]_vars

\* As long as the queue does not change under them, the marks are on the songs
\* the user marked, through moves, inversions and albums (queue.rs:918-1000).
\* A changed queue leaves them on other songs, or on none (queue.rs:539-541).
MarksKeepTheirSongs ==
    ~stale => /\ list.marked \subseteq Rows(items)
              /\ SongsAt(items, list.marked) = meant
=============================================================================
