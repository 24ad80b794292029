-------------------------------- MODULE Cava --------------------------------
(***************************************************************************)
(* The pane of the visualiser (rmpc/src/ui/panes/cava.rs) as operators on  *)
(* its state: the thread that copies the bars of the cava process to the   *)
(* terminal, the commands it gets over a rendezvous channel, and what each *)
(* event of the UI makes of them.  `playing' is status.state = Play.       *)
(*                                                                         *)
(* A thread in read_cava_data accepts nothing while cava prints nothing.   *)
(* A command is then given up after three seconds with an error, which     *)
(* also ends the handler it is part of.  Once the thread has ended it is   *)
(* not spawned again.                                                      *)
(***************************************************************************)

CavaType ==
    [thread : {"none", "waits", "draws", "hangs", "ended"},
     is_modal_open : BOOLEAN,
     refused : BOOLEAN]        \* the last command was given up (history)

NewPane == [thread |-> "none", is_modal_open |-> FALSE, refused |-> FALSE]

Draws(c) == c.thread \in {"draws", "hangs"}
Hangs(c) == c.thread = "hangs"

\* The thread takes a command and does what `then' says; no thread, no command.
Command(c, then) ==
    IF Hangs(c) THEN [c EXCEPT !.refused = TRUE]
    ELSE IF c.thread \in {"waits", "draws"} THEN [c EXCEPT !.thread = then, !.refused = FALSE]
    ELSE c

Start(c)         == Command(c, "draws")
PauseAndClear(c) == Command(c, "waits")
Configure(c)     == Command(c, "waits")

StartIf(playing, c) == IF playing THEN Start(c) ELSE c

Spawn(c) == IF c.thread = "none" THEN [c EXCEPT !.thread = "waits"] ELSE c

BeforeShow(c, playing) == StartIf(playing, Spawn(c))

Displayed(c, playing) == StartIf(playing /\ ~c.is_modal_open, c)

Hidden(c) == IF c.is_modal_open THEN c ELSE PauseAndClear(c)

\* The flag stays down when the thread cannot be paused.
ModalOpened(c) ==
    IF c.is_modal_open THEN c
    ELSE [PauseAndClear(c) EXCEPT !.is_modal_open = ~Hangs(c)]

\* Without playback the flag stays up.
ModalClosed(c, playing) ==
    IF playing THEN Start([c EXCEPT !.is_modal_open = FALSE]) ELSE c

\* Seeded fault: a pause does not clear the bars.
PlaybackStateChangedKeeps(c, playing) == IF playing THEN Start(c) ELSE c

PlaybackStateChanged(c, playing) == IF playing THEN Start(c) ELSE PauseAndClear(c)

ConfigChanged(c, visible, playing) ==
    StartIf(visible /\ ~c.is_modal_open /\ playing, Configure(c))

Resize(c, playing) ==
    IF c.is_modal_open THEN c ELSE StartIf(playing, PauseAndClear(c))

\* The process stops printing, prints again, or ends, and the thread with it.
Falters(c) ==
    CASE c.thread = "draws" -> {[c EXCEPT !.thread = t] : t \in {"hangs", "ended"}}
      [] c.thread = "hangs" -> {[c EXCEPT !.thread = t] : t \in {"draws", "ended"}}
      [] OTHER -> {}
=============================================================================
