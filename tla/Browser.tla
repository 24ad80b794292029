------------------------------- MODULE Browser -------------------------------
(***************************************************************************)
(* The browsing panes of rmpc: the directories, playlists and tag browser  *)
(* panes of rmpc/src/ui/panes on top of browser.rs and the DirStack.       *)
(*                                                                         *)
(* A pane shows a root list of containers (directories, playlists, tags)   *)
(* and, beside it, the songs of the container under the cursor.  It keeps  *)
(* what it has been told by MPD and asks for what it lacks; questions wait *)
(* at the client thread, answers in the channel of the event loop, and     *)
(* meanwhile the user moves and other clients change what MPD has.  A      *)
(* question that MPD refuses, or answers too late, has no answer.          *)
(*                                                                         *)
(* Two levels are modelled: directories nest deeper the same way, and the  *)
(* deeper levels of a tag come with one answer.  How a key chooses its row *)
(* is the matter of Lists: here the cursor may go to any.                  *)
(***************************************************************************)
EXTENDS Rows

CONSTANTS
    Tracks,     \* the songs there are
    Worlds,     \* what MPD may have: functions from containers, which are
                \* numbers, in their order, to sequences of songs
    MaxKeys,    \* bound on what the user does
    MaxChanges  \* bound on what other clients do

ASSUME BrowserAssumption ==
    /\ \A w \in Worlds : /\ DOMAIN w \in SUBSET Nat /\ IsFiniteSet(DOMAIN w)
                        /\ w \in [DOMAIN w -> Seq(Tracks)]
    /\ MaxKeys \in Nat /\ MaxChanges \in Nat

NoRow == -1
Kinds == {"directories", "playlists", "tags"}

VARIABLES
    kind,      \* which of the panes this is
    world,     \* MPD's containers and their songs
    stack,     \* the DirStack: path, and the lists known for each path
    asks,      \* questions at the client thread, at most one of a replace_id
    answers,   \* QueryFinished events on their way
    notices,   \* the idle events on their way
    confirm,   \* the rows of the open confirmation of a deletion; shown is history:
               \* the songs the pane showed then
    owed,      \* history: how many more answers may lead to a question
    lost,      \* history: a REINIT was dropped, and none applied since
    missed,    \* history: the paths whose last question has no answer; <<>> also
               \* when a change was never reported
    budget     \* what user and other clients may still do

panesVars == <<kind, world, stack, asks, answers, notices, confirm, owed, lost, missed, budget>>

-----------------------------------------------------------------------------
(* The stack.                                                              *)

Dir(items) == [items |-> items, marked |-> {},
               sel |-> IF items = <<>> THEN NoRow ELSE 0]
NewStack(root) == [path |-> <<>>, dirs |-> [p \in {<<>>} |-> Dir(root)]]

CurrentDir(s) == s.dirs[s.path]
IsSelected(d) == d.sel \in Rows(d.items)
Selected(d) == d.items[d.sel + 1]
SelectIn(d, row) == [d EXCEPT !.sel = IF row < Len(d.items) THEN row
                                      ELSE IF d.items = <<>> THEN 0 ELSE Len(d.items) - 1]
WithCurrent(s, d) == [s EXCEPT !.dirs[s.path] = d]
Go(s, row) == WithCurrent(s, SelectIn(CurrentDir(s), row))

\* The container under the cursor: songs have no children.
OnContainer(s) == s.path = <<>> /\ IsSelected(CurrentDir(s))
Hovered(s) == <<Selected(CurrentDir(s))>>

InsertDir(s, path, d) ==
    [s EXCEPT !.dirs = [p \in DOMAIN s.dirs \union {path} |->
                            IF p = path THEN d ELSE s.dirs[p]]]
Insert(s, path, items) == InsertDir(s, path, Dir(items))

InsertOrAppend(s, path, items) ==
    IF path \in DOMAIN s.dirs
    THEN InsertDir(s, path, [s.dirs[path] EXCEPT !.items = @ \o items])
    ELSE Insert(s, path, items)

Entered(s) ==
    IF ~OnContainer(s) THEN s
    ELSE [(IF Hovered(s) \in DOMAIN s.dirs THEN s ELSE Insert(s, Hovered(s), <<>>))
              EXCEPT !.path = Hovered(s)]

Left(s) == [s EXCEPT !.path = <<>>]

-----------------------------------------------------------------------------
(* Questions and answers.                                                  *)

Listing ==
    CHOOSE l \in [1..Cardinality(DOMAIN world) -> DOMAIN world] :
        \A i, j \in DOMAIN l : i < j => l[i] < l[j]

\* The queue without the one element that is at one of the places, if any.
Without(q, places) ==
    IF places = {} THEN q ELSE RemoveAt(q, CHOOSE i \in places : TRUE)

\* A question makes the one with its replace_id that still waits superfluous.
Ask(q, id, path) ==
    Append(Without(q, {i \in DOMAIN q : q[i].id = id}), [id |-> id, path |-> path])

\* Seeded fault: the container is asked for although its songs are there.
FetchAlways(s, q) == IF OnContainer(s) THEN Ask(q, "fetch", Hovered(s)) ELSE q

\* Seeded fault: a container counts as known from when it is entered.
FetchUnknown(s, q) ==
    IF OnContainer(s) /\ Hovered(s) \notin DOMAIN s.dirs
    THEN Ask(q, "fetch", Hovered(s)) ELSE q

\* fetch_data_internal.
Fetch(s, q) ==
    IF OnContainer(s)
       /\ (Hovered(s) \notin DOMAIN s.dirs \/ s.dirs[Hovered(s)].items = <<>>)
    THEN Ask(q, "fetch", Hovered(s)) ELSE q

\* What MPD says to a question; of a container that is gone only a tag has an
\* answer.
HasAnswer(a) == a.id = "fetch" /\ kind # "tags" => a.path[1] \in DOMAIN world
AnswerTo(a) ==
    [id |-> a.id, path |-> a.path,
     data |-> IF a.id # "fetch" THEN Listing
              ELSE IF a.path[1] \in DOMAIN world THEN world[a.path[1]] ELSE <<>>]

\* A late answer makes the client reconnect by itself: what MPD has not reported
\* by then it never reports.  That rmpc has reconnected it does not learn from MPD.
NotAnswered(paths, events) ==
    /\ notices' \in SUBSET (notices \union events)
    /\ notices \intersect {"reconnected"} \subseteq notices'
    /\ missed' = missed \union paths
                        \union (IF notices' = notices \union events THEN {} ELSE {<<>>})

PanesInit ==
    /\ kind \in Kinds /\ world \in Worlds
    /\ stack = NewStack(<<>>)
    /\ asks = Ask(<<>>, "init", <<>>)
    /\ answers = <<>> /\ notices = {} /\ confirm = <<>> /\ lost = FALSE /\ owed = 1
    /\ missed = {}
    /\ budget = [keys |-> MaxKeys, changes |-> MaxChanges]

Work ==
    /\ asks # <<>> /\ HasAnswer(Head(asks))
    /\ asks' = Tail(asks) /\ answers' = Append(answers, AnswerTo(Head(asks)))
    /\ missed' = IF Head(asks).id = "fetch" THEN missed \ {Head(asks).path} ELSE {}
    /\ UNCHANGED <<kind, world, stack, notices, confirm, owed, lost, budget>>

\* Refused, failed or late.
WorkLost ==
    /\ asks # <<>> /\ asks' = Tail(asks)
    /\ NotAnswered({Head(asks).path}, {})
    /\ UNCHANGED <<kind, world, stack, answers, confirm, owed, lost, budget>>

-----------------------------------------------------------------------------
(* Answers.                                                                *)

\* From here on each answer on its way may once lead to a question.
Anew == owed' = Len(asks') + Len(answers')

Take(s, q) ==
    /\ stack' = s /\ asks' = q /\ answers' = Tail(answers)
    /\ UNCHANGED <<kind, world, notices, confirm, missed, budget>>

IsAnswer(id) == answers # <<>> /\ Head(answers).id = id

FetchFinished ==
    /\ IsAnswer("fetch")
    /\ LET a == Head(answers)
           s == IF kind = "tags" THEN InsertOrAppend(stack, a.path, a.data)
                ELSE Insert(stack, a.path, a.data)
       IN  /\ Take(s, Fetch(s, asks))
           /\ owed' = IF asks' = asks \/ owed < 0 THEN owed ELSE owed - 1
    /\ UNCHANGED lost

InitFinished ==
    /\ IsAnswer("init")
    /\ LET s == NewStack(Head(answers).data) IN Take(s, Fetch(s, asks))
    /\ lost' = FALSE /\ Anew

\* Where the item is now, or the row it was in.
RowOf(item, items, row) ==
    IF item \in ToSet(items) THEN CHOOSE r \in Rows(items) : items[r + 1] = item ELSE row

\* Seeded fault: the cursor stays on its row.
KeepRow(old, new) == IF IsSelected(old) THEN SelectIn(new, old.sel) ELSE new

Reselected(old, new) ==
    IF IsSelected(old) THEN SelectIn(new, RowOf(Selected(old), new.items, old.sel)) ELSE new

\* The root is shown and something is selected: the cursor stays there.
ReinitAtRoot ==
    /\ IsAnswer("reinit") /\ stack.path = <<>>
    /\ IsSelected(CurrentDir(stack))
    /\ LET new == Dir(Head(answers).data)
           s == InsertDir(NewStack(<<>>), <<>>, Reselected(CurrentDir(stack), new))
       IN  Take(s, Fetch(s, asks))
    /\ lost' = FALSE /\ Anew

\* Inside a playlist: it, or the one in its row, is entered again, with the marks
\* of the old list.  Its songs are waited for, behind all that was asked before; if
\* they do not come the old stack stays.
ReinitInside ==
    /\ IsAnswer("reinit") /\ stack.path # <<>> /\ asks = <<>>
    /\ LET old  == stack.dirs[<<>>]
           root == Dir(Head(answers).data)
           row  == IF IsSelected(old) THEN RowOf(Selected(old), root.items, old.sel)
                   ELSE RowOf(stack.path[1], root.items, 0)
           s    == InsertDir(NewStack(<<>>), <<>>, SelectIn(root, row))
           d    == Reselected(CurrentDir(stack), Dir(world[Hovered(s)[1]]))
       IN  /\ root.items # <<>>
           /\ \/ /\ Hovered(s)[1] \in DOMAIN world
                 /\ stack' = Entered(InsertDir(s, Hovered(s),
                                  [d EXCEPT !.marked = CurrentDir(stack).marked]))
                 /\ lost' = FALSE /\ UNCHANGED <<notices, missed>>
              \/ NotAnswered({<<>>}, {}) /\ UNCHANGED <<stack, lost>>
    /\ answers' = Tail(answers)
    /\ UNCHANGED <<kind, world, asks, confirm, owed, budget>>

\* Nothing was selected, or there are no playlists any more: the old stack stays.
ReinitDropped ==
    /\ IsAnswer("reinit")
    /\ IF stack.path = <<>> THEN ~IsSelected(CurrentDir(stack)) ELSE Head(answers).data = <<>>
    /\ Take(stack, asks)
    /\ lost' = TRUE /\ UNCHANGED owed

-----------------------------------------------------------------------------
(* Changes by others, the connection, and the events they raise.           *)

Spend(what) == budget[what] > 0 /\ budget' = [budget EXCEPT ![what] = @ - 1]

Idle == IF kind = "playlists" THEN "stored_playlist" ELSE "database"

Change ==
    /\ Spend("changes")
    /\ world' \in Worlds \ {world}
    /\ notices' = notices \union {Idle}
    /\ UNCHANGED <<kind, stack, asks, answers, confirm, lost, missed>> /\ Anew

Rescan ==
    /\ Spend("changes")
    /\ notices' = notices \union {"database"}
    /\ UNCHANGED <<kind, world, stack, asks, answers, confirm, lost, missed>> /\ Anew

\* The late answer to something that was asked elsewhere.
OtherAnswerLate ==
    /\ NotAnswered({}, {}) /\ notices' # notices
    /\ UNCHANGED <<kind, world, stack, asks, answers, confirm, owed, lost, budget>>

\* A new connection: what had been asked is dropped.
Reconnect ==
    /\ Spend("changes")
    /\ notices' \in {kept \union {"reconnected"} : kept \in SUBSET notices}
    /\ asks' = <<>>
    /\ UNCHANGED <<kind, world, stack, answers, confirm, lost, missed>> /\ Anew

\* At an update the tag browser forgets at once, the others when they have the new
\* list, as all do after a reconnect.
Notice ==
    /\ \E event \in notices :
           /\ notices' = notices \ {event}
           /\ asks' = Ask(asks, IF event = "stored_playlist" THEN "reinit" ELSE "init", <<>>)
           /\ stack' = IF kind = "tags" /\ event = "database" THEN NewStack(<<>>) ELSE stack
    /\ UNCHANGED <<kind, world, answers, confirm, lost, missed, budget>> /\ Anew

-----------------------------------------------------------------------------
(* The user.                                                               *)

Press(s) ==
    /\ Spend("keys") /\ confirm = <<>>
    /\ stack' = s /\ asks' = Fetch(s, asks)
    /\ UNCHANGED <<kind, world, answers, notices, confirm, lost, missed>> /\ Anew

\* Every key, click or search that moves the cursor.
MoveCursor == \E row \in Rows(CurrentDir(stack).items) : Press(Go(stack, row))

Right == OnContainer(stack) /\ Press(Entered(stack))
Left_ == stack.path # <<>> /\ Press(Left(stack))

\* A click into the column of the root goes there.
ClickPrevious ==
    /\ stack.path # <<>>
    /\ \E row \in Rows(stack.dirs[<<>>].items) : Press(Go(Left(stack), row))

\* A click into the preview enters the container at the row; beside a song it
\* puts the cursor to the first.
ClickPreview ==
    /\ IsSelected(CurrentDir(stack))
    /\ LET s == Entered(stack) IN
           \E row \in IF OnContainer(stack) THEN Rows(CurrentDir(s).items) \union {0} ELSE {0} :
               Press(Go(s, row))

\* Space marks the item and goes to the next.
MarkRow ==
    /\ IsSelected(CurrentDir(stack))
    /\ LET d == CurrentDir(stack) IN
       \E wrap \in BOOLEAN :
           Press(WithCurrent(stack, SelectIn(
               [d EXCEPT !.marked = SymDiff(@, {d.sel})],
               IF wrap /\ d.sel = Len(d.items) - 1 THEN 0 ELSE d.sel + 1)))

Mark(rows) ==
    /\ Spend("keys") /\ confirm = <<>>
    /\ stack' = WithCurrent(stack, [CurrentDir(stack) EXCEPT !.marked = rows])
    /\ UNCHANGED <<kind, world, asks, answers, notices, confirm, lost, missed>> /\ Anew

InvertMarks == Mark(Rows(CurrentDir(stack).items) \ CurrentDir(stack).marked)
CloseMarks == CurrentDir(stack).marked # {} /\ Mark({})

\* The rows an action is about; marks beyond the list would panic.
Chosen(d) == IF d.marked = {} THEN {d.sel} \intersect Rows(d.items) ELSE d.marked
InPlaylist == kind = "playlists" /\ stack.path # <<>>
Playlist == stack.path[1]
RowsExist(d) == d.marked \subseteq Rows(d.items)

\* Blocks of rows are moved one after the other.
Begun(rows) ==
    {{}} \union {{r \in rows : r <= end} : end \in {r \in rows : r + 1 \notin rows}}

\* MPD moves the blocks, behind all that was asked before, until one is refused or
\* its answer is late; when all is done the pane moves s.
MoveSongs(by, s) ==
    LET rows == Chosen(CurrentDir(stack)) IN
    /\ Spend("keys") /\ confirm = <<>> /\ asks = <<>>
    /\ \E moved \in Begun(rows) :
          /\ \/ moved = {} /\ NotAnswered({}, {}) /\ UNCHANGED <<world, stack>>
             \/ /\ moved # {} /\ Playlist \in DOMAIN world
                /\ moved \union {r + by : r \in moved} \subseteq Rows(world[Playlist])
                /\ world' = [world EXCEPT ![Playlist] = Shifted(@, moved, by)]
                /\ \/ /\ moved = rows /\ stack' = s
                      /\ notices' = notices \union {Idle} /\ UNCHANGED missed
                   \/ NotAnswered({}, {Idle}) /\ UNCHANGED stack
    /\ UNCHANGED <<kind, asks, answers, confirm, lost>> /\ Anew

\* A single song is moved in the pane, too; of marked songs only the marks are.
MoveSelected ==
    LET d == CurrentDir(stack) IN
    \E by \in {-1, 1} :
        /\ InPlaylist /\ d.marked = {} /\ IsSelected(d)
        /\ d.sel + by \in Rows(d.items)
        /\ MoveSongs(by, Go(WithCurrent(stack,
               [d EXCEPT !.items = Shifted(@, {d.sel}, by)]), d.sel + by))

MoveMarked ==
    LET d == CurrentDir(stack) IN
    \E by \in {-1, 1} :
        /\ InPlaylist /\ d.marked # {}
        /\ (IF by = -1 THEN 0 ELSE Len(d.items) - 1) \notin d.marked
        /\ MoveSongs(by, WithCurrent(stack, [d EXCEPT !.marked = {r + by : r \in @}]))

\* The modal keeps playlist and rows; the marks are gone at once.
Delete ==
    /\ confirm = <<>> /\ InPlaylist
    /\ Chosen(CurrentDir(stack)) # {} /\ RowsExist(CurrentDir(stack))
    /\ confirm' = <<[list |-> Playlist, rows |-> Chosen(CurrentDir(stack)),
                    shown |-> CurrentDir(stack).items]>>
    /\ stack' = WithCurrent(stack, [CurrentDir(stack) EXCEPT !.marked = {}])
    /\ UNCHANGED <<kind, world, asks, answers, notices, owed, lost, missed, budget>>

\* The command may fail, or its answer be late.
ConfirmDelete ==
    /\ confirm # <<>> /\ confirm' = <<>>
    /\ LET c == confirm[1] IN
       \/ /\ c.list \in DOMAIN world /\ c.rows \subseteq Rows(world[c.list])
          /\ world' = [world EXCEPT ![c.list] = RowsDeleted(@, c.rows)]
          /\ NotAnswered({}, {Idle})
       \/ NotAnswered({}, {}) /\ UNCHANGED world
    /\ UNCHANGED <<kind, stack, asks, answers, owed, lost, budget>>

CancelDelete ==
    /\ confirm # <<>> /\ confirm' = <<>>
    /\ UNCHANGED <<kind, world, stack, asks, answers, notices, owed, lost, missed, budget>>

-----------------------------------------------------------------------------
Finished == \/ FetchFinished \/ InitFinished
            \/ ReinitAtRoot \/ ReinitInside \/ ReinitDropped
Others   == Change \/ Rescan \/ OtherAnswerLate \/ Reconnect
User     == \/ MoveCursor \/ Right \/ Left_ \/ ClickPrevious \/ ClickPreview \/ MarkRow
            \/ InvertMarks \/ CloseMarks
            \/ MoveSelected \/ MoveMarked
            \/ Delete \/ ConfirmDelete \/ CancelDelete

PanesNext == Work \/ WorkLost \/ Finished \/ Notice \/ Others \/ User

PanesSpec == PanesInit /\ [][PanesNext]_panesVars

-----------------------------------------------------------------------------
Quiet == asks = <<>> /\ answers = <<>> /\ notices = {}

Shown(path) ==
    /\ path[1] \in DOMAIN world
    /\ path \in DOMAIN stack.dirs
    /\ ToSet(stack.dirs[path].items) = ToSet(world[path[1]])

\* When nothing is on its way the pane shows what MPD has: the containers, and
\* the songs of the one the cursor is on or in, whatever was asked, superseded,
\* dropped or answered out of date (browser.rs:131-143).  The exceptions: a REINIT
\* was dropped because nothing was selected (playlists.rs:260-268): a playlist made
\* when there was none does not appear; the question for the containers was refused
\* or answered late, or a change not reported because of a late answer, until MPD
\* lists the containers again; the question for the songs was, until it is answered
\* (core/client.rs:239-253, directories.rs:202-211): nobody repeats a question.
PaneConverges ==
    Quiet /\ ~lost /\ <<>> \notin missed =>
        /\ stack.dirs[<<>>].items = Listing
        /\ OnContainer(stack) /\ Hovered(stack) \notin missed => Shown(Hovered(stack))
        /\ stack.path # <<>> /\ stack.path \notin missed => Shown(stack.path)

OnEmpty ==
    /\ OnContainer(stack)
    /\ Hovered(stack)[1] \in DOMAIN world => world[Hovered(stack)[1]] = <<>>

\* Left alone the pane stops asking: at most the answers that were on their way
\* lead to another question each, until the songs under the cursor are there.  The
\* exception is a container without songs: it is asked for with every answer, for
\* ever (browser.rs:133).
AnswersSettle == owed < 0 => OnEmpty

\* When the playlists are listed anew the cursor stays on its playlist or song
\* if that still exists (playlists.rs:176-285).
CursorStaysOnItem ==
    [][(ReinitAtRoot \/ ReinitInside)
       /\ stack'.path = stack.path /\ IsSelected(CurrentDir(stack))
       /\ Selected(CurrentDir(stack)) \in ToSet(CurrentDir(stack').items)
       => IsSelected(CurrentDir(stack'))
          /\ (stack' # stack => Selected(CurrentDir(stack')) = Selected(CurrentDir(stack)))]_panesVars

\* new is old without the rows, and with everything else in its order.
Remains(old, rows, new) ==
    /\ Len(new) = Len(old) - Cardinality(rows)
    /\ \A i \in DOMAIN old : i - 1 \notin rows =>
           new[i - Cardinality({r \in rows : r < i - 1})] = old[i]

\* A confirmed deletion takes exactly the songs that were shown as chosen, if
\* MPD still has the playlist as it was shown (mpd_client_ext.rs:222-234).
DeletesTheChosen ==
    [][ConfirmDelete /\ world' # world /\ world[confirm[1].list] = confirm[1].shown
       => Remains(confirm[1].shown, confirm[1].rows, world'[confirm[1].list])]_panesVars
=============================================================================
