-------------------------------- MODULE Input --------------------------------
(***************************************************************************)
(* From a key press to what it does, in rmpc: the key resolver, the input  *)
(* modes and their buffers (ctx.input), and the modals and pane a resolved *)
(* key goes to.                                                            *)
(*                                                                         *)
(* The event loop takes one event at a time.  A key is resolved at once,   *)
(* in the mode of that moment; what it resolves to is a new event at the   *)
(* end of the channel, behind everything typed meanwhile.  A key sequence  *)
(* that may go on waits for a job of the scheduler, another thread.        *)
(*                                                                         *)
(* One pane with a filter, a menu one item of which asks for a text, and   *)
(* that prompt (an InputModal) stand for all panes and modals.  The mouse  *)
(* and what other threads do to the modes are left out.                    *)
(***************************************************************************)
EXTENDS LineEdit

CONSTANTS
    Keys,       \* what may be typed: graphemes, names of edits and others
    Bindings,   \* the configured key sequences, and the action of each
    MaxKeys,    \* bound on what is typed
    MaxModals   \* bound on the modals that are opened

Normal == <<>>
Filter == <<0>>
None == "none"

VARIABLES
    typed,    \* how many keys have been typed
    events,   \* the channel of the event loop
    commands, \* what the scheduler has still to be told
    job,      \* has the scheduler a KeyTimeout job?
    pending,  \* the resolver's buffer
    mode,     \* Normal, or the buffer keys are inserted into
    lines,    \* the buffers
    modals,   \* the modals on the screen, the last one on top
    filtering,\* is the filter of the pane active?
    opened,   \* how many modals have been opened
    called, \* what the prompts have been given
    session   \* history: what has been typed for the buffer of the mode

input    == <<mode, lines>>
resolver == <<pending, commands>>
screen   == <<modals, filtering, opened, called>>
vars     == <<typed, events, commands, job, pending, mode, lines, modals, filtering,
              opened, called, session>>

-----------------------------------------------------------------------------
(* The trie.                                                               *)

\* Only these two can be bound in insert mode.
InsertActions == {"Close", "Confirm"}
BindingsOf(m) ==
    IF m = Normal THEN Bindings
    ELSE Restrict(Bindings, {s \in DOMAIN Bindings : Bindings[s] \in InsertActions})

GoesOn(keys, m) == \E s \in DOMAIN BindingsOf(m) : IsStrictPrefix(keys, s)
IsBound(keys, m) == keys \in DOMAIN BindingsOf(m)

-----------------------------------------------------------------------------
(* Events.                                                                 *)

Key(k)          == [type |-> "key", key |-> k]
Resolved(a)     == [type |-> "action", action |-> a]
Flush(a, keys)  == [type |-> "flush", action |-> a, keys |-> keys]
KeyTimeout      == [type |-> "timeout"]
OpenModal(kind, id) == [type |-> "modal", kind |-> kind, id |-> id]
PopModal(id)    == [type |-> "pop", id |-> id]

\* The function f with the value v at x.
With(f, x, v) == [y \in DOMAIN f \union {x} |-> IF y = x THEN v ELSE f[y]]

LineOf(b) == IF b \in DOMAIN lines THEN lines[b] ELSE EmptyLine

NoSession == [start |-> EmptyLine, keys |-> <<>>, clean |-> FALSE]

\* The new mode m, with the lines ls and the events es; the history starts anew.
EnterMode(m, ls, es) ==
    /\ mode' = m /\ lines' = ls
    /\ session' = IF m = Normal THEN NoSession
                  ELSE [start |-> IF m \in DOMAIN ls THEN ls[m] ELSE EmptyLine,
                        keys  |-> <<>>,
                        clean |-> /\ pending = <<>>
                                  /\ \A i \in DOMAIN es : es[i].type \notin {"flush", "action"}]

Init ==
    /\ typed = 0 /\ events = <<>> /\ commands = <<>> /\ job = FALSE /\ pending = <<>>
    /\ mode = Normal /\ lines = [b \in {} |-> EmptyLine]
    /\ modals = <<>> /\ filtering = FALSE /\ opened = 0 /\ called = [p \in {} |-> <<>>]
    /\ session = NoSession

Type ==
    /\ typed < MaxKeys
    /\ \E k \in Keys : events' = Append(events, Key(k))
    /\ typed' = typed + 1
    /\ UNCHANGED <<resolver, job, input, screen, session>>

-----------------------------------------------------------------------------
(* The scheduler: it obeys its commands in order, a job replaces the one   *)
(* before it, and a job that is due may fire before a cancellation.        *)

Schedule ==
    /\ commands # <<>>
    /\ job' = (Head(commands) = "schedule") /\ commands' = Tail(commands)
    /\ UNCHANGED <<typed, events, pending, input, screen, session>>

Fire ==
    /\ job /\ job' = FALSE
    /\ events' = Append(events, KeyTimeout)
    /\ UNCHANGED <<typed, resolver, input, screen, session>>

-----------------------------------------------------------------------------
(* The resolver.                                                           *)

\* Seeded fault: the cancellation comes after the new job.
WaitSwapped(waits) ==
    commands' = commands \o (IF waits THEN <<"schedule", "cancel">> ELSE <<"cancel">>)

\* Every key cancels the timeout, and a sequence that goes on schedules it.
Wait(waits) ==
    commands' = commands \o (IF waits THEN <<"cancel", "schedule">> ELSE <<"cancel">>)

\* Seeded fault: of keys that turn out not to be bound only the last is text.
OutcomeOfLast(keys) ==
    IF IsBound(keys, mode) THEN
        <<IF mode = Normal THEN Resolved(Bindings[keys]) ELSE Flush(Bindings[keys], keys)>>
    ELSE IF mode = Normal THEN <<>> ELSE <<Flush(None, <<Last(keys)>>)>>

\* What comes of keys that are complete, or have waited long enough: an action,
\* nothing in normal mode, and in insert mode their text.
Outcome(keys) ==
    IF IsBound(keys, mode) THEN
        <<IF mode = Normal THEN Resolved(Bindings[keys]) ELSE Flush(Bindings[keys], keys)>>
    ELSE IF mode = Normal THEN <<>> ELSE <<Flush(None, keys)>>

\* History: the key was typed; the keys of an action are not text.
Record(key, keys, done) ==
    session' = IF mode = Normal THEN session ELSE
        [session EXCEPT
            !.keys = IF done /\ IsBound(keys, mode) THEN SubSeq(@, 1, Len(@) - Len(pending))
                     ELSE @ \o key]

HandleKey ==
    /\ events # <<>> /\ Head(events).type = "key"
    /\ LET key   == Head(events).key
           keys  == Append(pending, key)
           waits == GoesOn(keys, mode)
       IN  /\ events' = Tail(events) \o (IF waits THEN <<>> ELSE Outcome(keys))
           /\ pending' = IF waits THEN keys ELSE <<>>
           /\ Wait(waits)
           /\ Record(<<key>>, keys, ~waits)
    /\ UNCHANGED <<typed, job, input, screen>>

HandleTimeout ==
    /\ events # <<>> /\ Head(events).type = "timeout"
    /\ events' = Tail(events) \o (IF pending = <<>> THEN <<>> ELSE Outcome(pending))
    /\ pending' = <<>>
    /\ Record(<<>>, pending, TRUE)
    /\ UNCHANGED <<typed, commands, job, input, screen>>

-----------------------------------------------------------------------------
(* The modals.                                                             *)

NewModal == opened + 1
CanOpen  == opened < MaxModals
Prompt   == OpenModal("prompt", NewModal)

\* hide: the buffer is destroyed and the mode is normal, whoever's it was; the
\* modal itself goes with an event of its own.
Hide(id, es) ==
    /\ events' = Append(es, PopModal(id))
    /\ EnterMode(Normal, Restrict(lines, DOMAIN lines \ {<<id>>}), events')

\* Seeded fault: the callback stays where it was.
CallAgain(id) ==
    called' = With(called, id, Append(IF id \in DOMAIN called THEN called[id] ELSE <<>>,
                                      LineOf(<<id>>).text))

\* A callback is taken out to be called.
Call(id) ==
    called' = IF id \in DOMAIN called THEN called
              ELSE With(called, id, <<LineOf(<<id>>).text>>)

\* The prompt hands over its text; the menu opens a prompt, which is to be
\* typed into, and is then hidden as well.
ConfirmModal(top, rest) ==
    /\ Call(top.id)
    /\ LET asks == top.kind = "menu" /\ top.id \notin DOMAIN called /\ CanOpen
       IN  /\ opened' = IF asks THEN NewModal ELSE opened
           /\ Hide(top.id, IF asks THEN Append(rest, Prompt) ELSE rest)
    /\ UNCHANGED <<modals, filtering>>

CloseModal(top, rest) == Hide(top.id, rest) /\ UNCHANGED screen

FocusPrompt(top, rest) ==
    /\ events' = rest /\ EnterMode(<<top.id>>, lines, rest)
    /\ UNCHANGED screen

Ignore(rest) == events' = rest /\ UNCHANGED <<input, screen, session>>

ModalAction(action, top, rest) ==
    IF action = "Confirm" THEN ConfirmModal(top, rest)
    ELSE IF action = "Close" THEN CloseModal(top, rest)
    ELSE IF action = "FocusInput" /\ top.kind = "prompt" THEN FocusPrompt(top, rest)
    ELSE Ignore(rest)

-----------------------------------------------------------------------------
(* The pane.                                                               *)

EnterSearch(rest) ==
    /\ filtering' = TRUE /\ events' = rest
    /\ EnterMode(Filter, With(lines, Filter, EmptyLine), rest)
    /\ UNCHANGED <<modals, opened, called>>

Rename(rest) ==
    /\ opened' = NewModal /\ events' = Append(rest, Prompt)
    /\ EnterMode(<<NewModal>>, lines, events')
    /\ UNCHANGED <<modals, filtering, called>>

ContextMenu(rest) ==
    /\ opened' = NewModal /\ events' = Append(rest, OpenModal("menu", NewModal))
    /\ UNCHANGED <<input, modals, filtering, called, session>>

PaneAction(action, rest) ==
    IF action = "EnterSearch" THEN EnterSearch(rest)
    ELSE IF action = "Rename" /\ CanOpen THEN Rename(rest)
    ELSE IF action = "ContextMenu" /\ CanOpen THEN ContextMenu(rest)
    ELSE Ignore(rest)

-----------------------------------------------------------------------------
(* What is resolved goes to the modal on top, or to the pane.              *)

HandleAction ==
    /\ events # <<>> /\ Head(events).type = "action"
    /\ IF modals = <<>> THEN PaneAction(Head(events).action, Tail(events))
       ELSE ModalAction(Head(events).action, Last(modals), Tail(events))
    /\ UNCHANGED <<typed, resolver, job>>

\* Confirm and Close end the insert mode; only on the pane does the latter
\* also drop the text.
HandleEnd ==
    /\ events # <<>> /\ Head(events).type = "flush" /\ Head(events).action # None
    /\ LET action == Head(events).action  rest == Tail(events) IN
       IF modals # <<>> /\ action = "Confirm" THEN ConfirmModal(Last(modals), rest)
       ELSE /\ events' = rest
            /\ LET drop == modals = <<>> /\ action = "Close" IN
               /\ filtering' = (filtering /\ ~drop)
               /\ EnterMode(Normal, IF drop THEN With(lines, Filter, EmptyLine) ELSE lines, rest)
            /\ UNCHANGED <<modals, opened, called>>
    /\ UNCHANGED <<typed, resolver, job>>

\* In normal mode by now: the keys are lost.
HandleText ==
    /\ events # <<>> /\ Head(events).type = "flush" /\ Head(events).action = None
    /\ events' = Tail(events)
    /\ lines' = IF mode = Normal THEN lines
                ELSE With(lines, mode, EditAll(LineOf(mode), Head(events).keys))
    /\ UNCHANGED <<typed, resolver, job, mode, screen, session>>

HandleModal ==
    /\ events # <<>> /\ events' = Tail(events)
    /\ LET e == Head(events) IN
       \/ e.type = "modal" /\ modals' = Append(modals, [id |-> e.id, kind |-> e.kind])
       \/ e.type = "pop"   /\ modals' = SelectSeq(modals, LAMBDA m : m.id # e.id)
    /\ UNCHANGED <<typed, resolver, job, input, filtering, opened, called, session>>

Next ==
    \/ Type \/ Schedule \/ Fire
    \/ HandleKey \/ HandleTimeout
    \/ HandleAction \/ HandleEnd \/ HandleText \/ HandleModal

Spec == Init /\ [][Next]_vars

-----------------------------------------------------------------------------
TypeOK ==
    /\ typed \in 0..MaxKeys
    /\ pending \in Seq(Keys) /\ job \in BOOLEAN /\ filtering \in BOOLEAN
    /\ commands \in Seq({"schedule", "cancel"})
    /\ opened \in 0..MaxModals /\ DOMAIN called \subseteq 1..opened
    /\ mode \in {Normal} \union {<<b>> : b \in 0..opened}

\* A sequence that has been begun is always ended by the next key or a timeout:
\* while keys wait a timeout is in the channel, due, or about to be scheduled,
\* whatever stale ones came before (key_resolver.rs:91-144).
PendingEnds ==
    pending # <<>> =>
        \/ \E i \in DOMAIN events : events[i].type \in {"key", "timeout"}
        \/ IF commands = <<>> THEN job ELSE Last(commands) = "schedule"

QueuedText ==
    FlattenSeq([i \in DOMAIN events |->
        IF events[i].type = "flush" /\ events[i].action = None THEN events[i].keys ELSE <<>>])

\* What is typed into a buffer arrives there, all of it and in order, however
\* sequences were begun, timed out or broken off: the line is what it would be
\* had every key been applied when it was taken.  Not so when actions or text
\* are still in the channel as the mode is entered: keys typed before it may have
\* been resolved in another mode, and land in this buffer or nowhere
\* (event_loop.rs:261, ui/mod.rs:848-862).
TextArrives ==
    mode # Normal /\ session.clean =>
        EditAll(LineOf(mode), QueuedText \o pending) = EditAll(session.start, session.keys)

\* A prompt or menu that is confirmed again before its PopModal has been
\* handled does not act again (input_modal.rs:176, list_section.rs:125).
ActsOnce == \A id \in DOMAIN called : Len(called[id]) = 1
=============================================================================
