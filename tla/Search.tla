------------------------------- MODULE Search -------------------------------
(***************************************************************************)
(* The search pane of rmpc/src/ui/panes/search: a form of text boxes,      *)
(* spinners and buttons, the songs MPD finds for it, and the context menu  *)
(* on those songs.                                                         *)
(*                                                                         *)
(* Without a search button every change of the form is searched for when   *)
(* it is complete.  The questions wait at the client thread, where a later *)
(* one replaces an earlier, and the answers in the channel of the event    *)
(* loop.  A question that MPD refuses, or answers too late, has no answer. *)
(* The cursor among the songs is the matter of Lists.                      *)
(***************************************************************************)
EXTENDS Menu, TLC

CONSTANTS
    Configs,    \* records: tags (the configured tags, in order); query, stickers,
                \* strip, button (which other inputs there are); fold, mode and
                \* diacritics (what the spinners fold, mode and strip begin with)
    Texts,      \* what a text box may hold
    Numbers,    \* those that are integers
    Spins,      \* the spinners, to how many values each cycles through
    MaxActs,    \* bound on what the user does outside the menu
    MaxEvents   \* bound on database updates, reconnects and reloads

NoBuffer == "none"
Gone == "gone"      \* the buffer of a list that was replaced
SongFilter == "filter"  \* the buffer of the list that is shown

\* A text box of a tag is named for it; all other buffers have other names.
ASSUME SearchAssumption ==
    /\ "" \in Numbers /\ "0" \in Numbers /\ Numbers \subseteq Texts
    /\ DOMAIN Spins = {"rating", "liked", "mode", "fold", "strip"}
    /\ \A c \in Configs :
          /\ c.tags # <<>> /\ (c.diacritics = 1 => c.fold = 1)
          /\ ToSet(c.tags) \intersect {"query", "value", "menu", NoBuffer, Gone, SongFilter} = {}

VARIABLES
    config,   \* the configuration
    phase,    \* "search" or "browse"
    focus,    \* the focused input
    form,     \* what the inputs hold: text and spin
    insert,   \* the active buffer, NoBuffer in normal mode
    results,  \* the songs: the query they answer, and how many
    asks,     \* the question at the client thread
    answers,  \* QueryFinished events on their way
    menu,     \* the context menu, if it is open
    wanted,   \* history: the query of the last search, or of nothing
    apart,    \* history: why the results may not be those of the form
    budget    \* what may still happen

paneVars == <<config, phase, focus, form, insert, results, asks, answers, menu,
          wanted, apart, budget>>

-----------------------------------------------------------------------------
(* The inputs.                                                             *)

Box(key)     == [kind |-> "box", key |-> key]
Spinner(key) == [kind |-> "spinner", key |-> key]
Button(key)  == [kind |-> "button", key |-> key]
Separator    == [kind |-> "separator", key |-> NoBuffer]
If(there, inputs) == IF there THEN inputs ELSE <<>>

InputsOf(c) ==
    [i \in DOMAIN c.tags |-> Box(c.tags[i])]
    \o If(c.query, <<Separator, Box("query")>>)
    \o If(c.stickers, <<Separator, Spinner("rating"), Box("value"),
                        Separator, Spinner("liked")>>)
    \o <<Separator, Spinner("mode"), Spinner("fold")>>
    \o If(c.strip, <<Spinner("strip")>>)
    \o <<Separator, Button("reset")>> \o If(c.button, <<Button("search")>>)

Inputs == InputsOf(config)
Focused == Inputs[focus]
Active == {i \in DOMAIN Inputs : Inputs[i].kind # "separator"}

\* Over the separators; the last input is a button, the first may be none.
NextInput(i, wrap) ==
    LET on == {j \in Active : j > i} IN
    IF on # {} THEN Min(on) ELSE IF wrap THEN Min(Active) ELSE i
PrevInput(i, wrap) ==
    LET back == {j \in Active : j < i} IN
    IF back # {} THEN Max(back) ELSE IF wrap THEN Max(Active) ELSE i

Initial(key) == IF key = "value" THEN "0" ELSE ""
Boxes(c) == ToSet(c.tags) \union (IF c.query THEN {"query"} ELSE {})
                          \union (IF c.stickers THEN {"value"} ELSE {})
NewForm(c) == [text |-> [k \in Boxes(c) |-> Initial(k)],
               spin |-> [k \in DOMAIN Spins |-> CASE k = "fold" -> c.fold
                                                 [] k = "mode" -> c.mode
                                                 [] k = "strip" -> c.diacritics
                                                 [] OTHER -> 0]]

\* The mode goes to its default, whatever is configured.
Default(c, key) == IF key = "mode" THEN 0 ELSE NewForm(c).spin[key]

ResetOne(f, input) ==
    CASE input.kind = "box" -> [f EXCEPT !.text[input.key] = Initial(input.key)]
      [] input.kind = "spinner" -> [f EXCEPT !.spin[input.key] = Default(config, input.key)]
      [] OTHER -> f

\* Of the spinners that are not shown only strip may not be as it began.
ResetAll(f) ==
    [NewForm(config) EXCEPT !.spin["mode"] = Default(config, "mode"),
                            !.spin["strip"] = IF config.strip THEN @ ELSE f.spin["strip"]]

\* Folding the case and stripping diacritics depend on each other.
Cycle(f, key) ==
    LET n == (f.spin[key] + 1) % Spins[key] IN
    [f EXCEPT !.spin =
        CASE key = "fold" /\ n = 0 -> [@ EXCEPT !["fold"] = 0, !["strip"] = 0]
          [] key = "strip" /\ n = 1 -> [@ EXCEPT !["fold"] = 1, !["strip"] = 1]
          [] OTHER -> [@ EXCEPT ![key] = n]]

-----------------------------------------------------------------------------
(* The query.                                                              *)

Number(f) == IF f.text["value"] = "" THEN "0" ELSE f.text["value"]
Rating(f) == IF f.spin["rating"] = 0 THEN <<>> ELSE <<f.spin["rating"], Number(f)>>
Custom(f) == IF "query" \in DOMAIN f.text THEN f.text["query"] ELSE ""
Filters(f) == {<<k, f.text[k]>> : k \in {t \in ToSet(config.tags) : f.text[t] # ""}}

\* A custom query takes the place of the tags.
Query(f) ==
    [custom |-> Custom(f), tags |-> IF Custom(f) = "" THEN Filters(f) ELSE {},
     rating |-> Rating(f), liked |-> f.spin["liked"],
     how |-> <<f.spin["mode"], f.spin["fold"], f.spin["strip"]>>]
IsEmpty(q) == q.custom = "" /\ q.tags = {} /\ q.rating = <<>> /\ q.liked = 0

IsValid(f) == f.spin["rating"] # 0 => f.text["value"] \in Numbers

Nothing == [of |-> <<>>, len |-> 0]

\* A list that takes the place of the shown one has a filter of its own.
Replaced(buffer) == IF buffer = SongFilter THEN Gone ELSE buffer

OnTheirWay == asks # <<>> \/ answers # <<>>

Forget(buffer, why) ==
    /\ results' = Nothing /\ wanted' = <<>> /\ insert' = Replaced(buffer)
    /\ apart' = why \union (IF OnTheirWay THEN {"late"} ELSE {})
    /\ UNCHANGED asks

\* Seeded fault: what is asked for waits behind what was asked before.
SearchBehind(f, buffer) ==
    IF ~IsValid(f)
    THEN /\ apart' = apart \union {"invalid"} /\ insert' = buffer
         /\ UNCHANGED <<results, asks, wanted>>
    ELSE IF IsEmpty(Query(f)) THEN Forget(buffer, {})
    ELSE /\ asks' = <<Query(f)>> \o asks /\ wanted' = <<Query(f)>> /\ apart' = {}
         /\ insert' = buffer /\ UNCHANGED results

\* The search for what the form holds; buffer is the one active afterwards.
SearchFor(f, buffer) ==
    IF ~IsValid(f)
    THEN /\ apart' = apart \union {"invalid"} /\ insert' = buffer
         /\ UNCHANGED <<results, asks, wanted>>
    ELSE IF IsEmpty(Query(f)) THEN Forget(buffer, {})
    ELSE /\ asks' = <<Query(f)>> /\ wanted' = <<Query(f)>> /\ apart' = {}
         /\ insert' = buffer /\ UNCHANGED results

Unsearched(buffer) == insert' = buffer /\ UNCHANGED <<results, asks, wanted, apart>>

\* Seeded fault: a search only when there is a button for it.
OnChangeNever(f, buffer) ==
    IF config.button THEN SearchFor(f, buffer) ELSE Unsearched(buffer)

OnChange(f, buffer) ==
    IF config.button THEN Unsearched(buffer) ELSE SearchFor(f, buffer)

-----------------------------------------------------------------------------
PaneInit ==
    /\ config \in Configs
    /\ phase = "search" /\ focus = 1 /\ form = NewForm(config) /\ insert = NoBuffer
    /\ results = Nothing /\ asks = <<>> /\ answers = <<>> /\ menu = <<>>
    /\ wanted = <<>> /\ apart = {}
    /\ budget = [keys |-> MaxActs, events |-> MaxEvents]

Work ==
    /\ asks # <<>>
    /\ \E len \in 0..2 : answers' = Append(answers, [of |-> <<Head(asks)>>, len |-> len])
    /\ asks' = Tail(asks)
    /\ UNCHANGED <<config, phase, focus, form, insert, results, menu, wanted, apart, budget>>

\* A request that fails, or whose answer is late, has no result.
WorkLost ==
    /\ asks # <<>> /\ asks' = Tail(asks)
    /\ apart' = apart \union {"lost"}
    /\ UNCHANGED <<config, phase, focus, form, insert, results, answers, menu, wanted, budget>>

QueryFinished ==
    /\ answers # <<>>
    /\ results' = Head(answers) /\ answers' = Tail(answers)
    /\ insert' = Replaced(insert)
    /\ UNCHANGED <<config, phase, focus, form, asks, menu, wanted, apart, budget>>

-----------------------------------------------------------------------------
(* The user, in the form.                                                  *)

Spend(what) == budget[what] > 0 /\ budget' = [budget EXCEPT ![what] = @ - 1]
User == Spend("keys") /\ UNCHANGED <<config, answers>>

PaneKey(in) == User /\ menu = <<>> /\ insert = NoBuffer /\ phase = in /\ UNCHANGED menu
Mouse(in) == User /\ menu = <<>> /\ phase = in /\ UNCHANGED menu

FocusMoves ==
    /\ PaneKey("search")
    /\ focus' \in {1, Len(Inputs)}
                 \union {NextInput(focus, wrap) : wrap \in BOOLEAN}
                 \union {PrevInput(focus, wrap) : wrap \in BOOLEAN}
    /\ UNCHANGED <<phase, form>> /\ Unsearched(insert)

Activated(key) == form' = Cycle(form, key) /\ OnChange(Cycle(form, key), insert)

\* The reset button empties the form, and the results with it.
Activate ==
    /\ UNCHANGED <<phase, focus>>
    /\ \/ /\ Focused.kind = "box"
          /\ form' = form
          /\ OnChange(form, IF insert = Focused.key THEN NoBuffer
                            ELSE IF insert = NoBuffer THEN Focused.key ELSE insert)
       \/ Focused.kind = "spinner" /\ Activated(Focused.key)
       \/ /\ Focused = Button("reset")
          /\ form' = ResetAll(form) /\ Forget(insert, {})
       \/ /\ Focused = Button("search")
          /\ form' = form /\ SearchFor(form, insert)

Confirm == PaneKey("search") /\ Activate
DoubleClick == Mouse("search") /\ Activate

FocusInput ==
    /\ PaneKey("search") /\ Focused.kind = "box"
    /\ UNCHANGED <<phase, focus, form>> /\ Unsearched(Focused.key)

\* One input is emptied, and all results go.
Delete ==
    /\ PaneKey("search")
    /\ form' = ResetOne(form, Focused) /\ Forget(insert, {"dropped"})
    /\ UNCHANGED <<phase, focus>>

\* A click or a turn of the wheel in the form ends the typing.
Ended == IF insert = NoBuffer THEN Unsearched(NoBuffer) ELSE OnChange(form, NoBuffer)

ClickForm ==
    /\ Mouse("search")
    /\ focus' \in Active \union {focus}
    /\ UNCHANGED <<phase, form>> /\ Ended

Wheel ==
    /\ Mouse("search")
    /\ focus' \in {NextInput(focus, FALSE), PrevInput(focus, FALSE)}
    /\ UNCHANGED <<phase, form>> /\ Ended

ShowResults ==
    /\ PaneKey("search") /\ results.len > 0
    /\ phase' = "browse" /\ UNCHANGED <<focus, form>> /\ Unsearched(insert)

\* A click into the preview shows the results, even while a text is typed.
ClickPreview ==
    /\ Mouse("search") /\ results.len > 0
    /\ phase' = "browse" /\ insert' = insert
    /\ apart' = IF insert \in DOMAIN form.text THEN apart \union {"strayed"} ELSE apart
    /\ UNCHANGED <<focus, form, results, asks, wanted>>

-----------------------------------------------------------------------------
(* The user, among the songs.                                              *)

BackToForm ==
    /\ PaneKey("browse")
    /\ phase' = "search" /\ UNCHANGED <<focus, form>> /\ Unsearched(insert)

ClickBack ==
    /\ Mouse("browse")
    /\ phase' = "search" /\ focus' \in Active \union {focus}
    /\ UNCHANGED form /\ Unsearched(insert)

FilterSongs ==
    /\ PaneKey("browse")
    /\ UNCHANGED <<phase, focus, form>> /\ Unsearched(SongFilter)

-----------------------------------------------------------------------------
(* Typing.  In the menu nothing is searched for.                           *)

TypeText ==
    /\ User /\ insert \notin {NoBuffer, "menu"} /\ UNCHANGED <<phase, focus, menu>>
    /\ Unsearched(insert)
    /\ IF insert \in DOMAIN form.text
       THEN \E t \in Texts : form' = [form EXCEPT !.text[insert] = t]
       ELSE UNCHANGED form

\* Enter or Escape, outside the menu.
EndTyping ==
    /\ User /\ insert # NoBuffer /\ menu = <<>> /\ UNCHANGED <<phase, focus, form, menu>>
    /\ IF phase = "search" THEN OnChange(form, NoBuffer) ELSE Unsearched(NoBuffer)

-----------------------------------------------------------------------------
(* The context menu: what to do with all songs, if there are any; with the *)
(* chosen ones; and Cancel.                                                *)

ResultMenu ==
    NewMenu(<<Section("list", IF results.len > 0 THEN 4 ELSE 0),
              Section("list", 2), Section("list", 1)>>)

OpenMenu ==
    /\ User /\ menu = <<>> /\ phase = "browse" /\ insert # SongFilter
    /\ menu' = <<ResultMenu>>
    /\ UNCHANGED <<phase, focus, form>> /\ Unsearched(insert)

InMenu == menu # <<>> /\ UNCHANGED <<config, answers, phase, focus, form, budget>>
MenuKey == InMenu /\ insert = NoBuffer /\ Unsearched(insert)
MenuMouse == InMenu /\ Unsearched(insert)

AllItems == UNION {{i} \X Items(menu[1].sections[i]) : i \in DOMAIN menu[1].sections}
Hits == {s \in SUBSET AllItems : Cardinality(s) <= 2}

MenuWalk == MenuKey /\ menu' \in {<<NextItem(menu[1])>>, <<PrevItem(menu[1])>>}
MenuWheel == MenuMouse /\ menu' \in {<<NextItem(menu[1])>>, <<PrevItem(menu[1])>>}
MenuEnds == MenuKey /\ menu' \in {<<TopItem(menu[1])>>, <<BottomItem(menu[1])>>}
MenuClick == MenuMouse /\ \E at \in AllItems : menu' = <<Highlight(menu[1], at[1], at[2])>>

MenuSearch == InMenu /\ insert = NoBuffer /\ UNCHANGED menu /\ Unsearched("menu")
MenuType == InMenu /\ insert = "menu" /\ Unsearched(insert)
            /\ \E hits \in Hits : menu' = <<FirstResult(menu[1], hits)>>
MenuResult == MenuKey /\ \E hits \in Hits :
                  menu' \in {<<NextResult(menu[1], hits)>>, <<PrevResult(menu[1], hits)>>}

\* Enter or Escape in the menu's own filter, or in a buffer from before.
MenuEndTyping ==
    /\ InMenu /\ insert # NoBuffer /\ Unsearched(NoBuffer)
    /\ \/ UNCHANGED menu
       \/ insert # "menu" /\ menu' = <<>>

\* Close, an item that is confirmed, or one that is clicked twice.
MenuCloses == InMenu /\ insert = NoBuffer /\ menu' = <<>> /\ Unsearched(NoBuffer)

-----------------------------------------------------------------------------
(* Events for the pane.                                                    *)

Event == Spend("events") /\ UNCHANGED menu

\* All buffers are cleared, the spinners stay.
Database ==
    /\ Event /\ phase' = "search"
    /\ form' = [form EXCEPT !.text = [k \in DOMAIN @ |-> ""]]
    /\ Forget(NoBuffer, {"dropped"})
    /\ UNCHANGED <<config, focus, answers>>

\* What had not been asked yet is not asked any more.
Reconnected ==
    /\ Event /\ phase' = "search"
    /\ asks' = <<>> /\ results' = Nothing /\ wanted' = <<>> /\ insert' = Replaced(insert)
    /\ apart' = {"dropped"} \union (IF answers # <<>> THEN {"late"} ELSE {})
    /\ UNCHANGED <<config, focus, form, answers>>

ConfigChanged ==
    /\ Event /\ config' \in Configs
    /\ phase' = "search" /\ focus' = 1 /\ form' = NewForm(config')
    /\ Forget(IF insert \in {NoBuffer, "menu"} THEN insert ELSE Gone, {})
    /\ UNCHANGED answers

-----------------------------------------------------------------------------
InForm == FocusMoves \/ Confirm \/ DoubleClick \/ FocusInput \/ Delete \/ ClickForm \/ Wheel
          \/ ShowResults \/ ClickPreview
InSongs == BackToForm \/ ClickBack \/ FilterSongs \/ OpenMenu
Typing == TypeText \/ EndTyping
OnMenu == \/ MenuWalk \/ MenuWheel \/ MenuEnds \/ MenuClick \/ MenuSearch \/ MenuType
          \/ MenuResult \/ MenuEndTyping \/ MenuCloses
Events == Database \/ Reconnected \/ ConfigChanged

PaneNext == Work \/ WorkLost \/ QueryFinished \/ InForm \/ InSongs \/ Typing \/ OnMenu \/ Events

PaneSpec == PaneInit /\ [][PaneNext]_paneVars

-----------------------------------------------------------------------------
Quiet == ~OnTheirWay

\* When nothing is on its way the songs are those of the last search, however
\* many searches came before their answers.  Two exceptions: an answer that was on
\* its way when the results were emptied fills them again (mod.rs:1184-1192 takes
\* every answer); and a last search that MPD refused, or answered late, leaves the
\* songs of an earlier one, for nobody repeats it (client.rs:239-253).
ResultsOfLastSearch ==
    Quiet /\ apart \intersect {"late", "lost"} = {} => results.of = wanted

\* Without a search button the songs are those of the form, whenever no text is
\* being typed.  The exceptions: the two above; Delete, a database update or a
\* reconnect drop all results and leave the other inputs; a rating that is no
\* number; a click into the preview leaves a text half typed (mod.rs:1219-1246).
ResultsOfForm ==
    Quiet /\ ~config.button /\ insert \notin DOMAIN form.text /\ apart = {} =>
        results.of = IF IsEmpty(Query(form)) THEN <<>> ELSE <<Query(form)>>

\* One item of the open menu is highlighted and no other, so that Enter does
\* what the menu shows: however keys, wheel, clicks and search are mixed.  In a
\* section without items there may be none (menu/modal.rs:272-370, 456-471).
MenuIsHighlighted == menu # <<>> => IsHighlighted(menu[1])
=============================================================================
