-------------------------- MODULE StatusSyncProofs --------------------------
(***************************************************************************)
(* What TLAPS proves about StatusSync, for every set of songs and any bound*)
(* on messages and modals: the loops and the song change script follow the *)
(* status, the bars of the visualiser follow what the panes were told, and *)
(* the channels between the threads hold only what their readers know.     *)
(***************************************************************************)
EXTENDS StatusSync, FiniteSetTheorems, TLAPS

UiType == [visible : BOOLEAN, attached : BOOLEAN, modals : 0..MaxModals]

Types ==
    /\ status \in [state : States, updating : BOOLEAN] /\ song \in Songs \union {NoSong}
    /\ played \in BOOLEAN /\ polling \in BOOLEAN /\ rendering \in BOOLEAN
    /\ cava \in CavaType /\ config \in Configs /\ history \in History
    /\ ui \in UiType

\* The interval that counts is the one playback began with.  An update that is drawn
\* runs; the first status makes up for the start.
Loops ==
    /\ polling => Playing
    /\ ~history.reloaded => polling = (config.interval /\ Playing)
    /\ rendering => status.updating
    /\ history.heard /\ status.updating => rendering

\* The song that was last heard of is the current one.
Heard ==
    /\ history.last = SongUnder(status.state)
    /\ status.state # "stop" => played

\* A pane c that is visible (v), attached to tmux (a), last told of a state, and
\* may be playing (p).  A thread was spawned for a tab that was shown, and only
\* there does it hang.
Right(c, v, a, told, p) ==
    /\ Draws(c) => v /\ (told = "play" \/ c.refused)
    /\ p /\ v /\ a /\ ~c.is_modal_open /\ c.thread # "ended" => Draws(c)
    /\ p => told = "play"
    /\ v => c.thread # "none"

Bars == Right(cava, ui.visible, ui.attached, history.told, Playing)

IInv == Types /\ Loops /\ Heard /\ Bars

-----------------------------------------------------------------------------
(* The pane.                                                               *)

\* Every event of the pane keeps its type.
LEMMA PaneTypes ==
    ASSUME NEW c \in CavaType, NEW p \in BOOLEAN, NEW v \in BOOLEAN
    PROVE  /\ Start(c) \in CavaType /\ PauseAndClear(c) \in CavaType /\ Configure(c) \in CavaType
           /\ StartIf(p, c) \in CavaType /\ Spawn(c) \in CavaType
           /\ BeforeShow(c, p) \in CavaType /\ Displayed(c, p) \in CavaType
           /\ Hidden(c) \in CavaType /\ ModalOpened(c) \in CavaType
           /\ ModalClosed(c, p) \in CavaType /\ PlaybackStateChanged(c, p) \in CavaType
           /\ ConfigChanged(c, v, p) \in CavaType /\ Resize(c, p) \in CavaType
           /\ \A d \in Falters(c) : d \in CavaType
<1>1. \A d \in CavaType, t \in {"waits", "draws"} : Command(d, t) \in CavaType
      BY DEF Command, CavaType
<1>2. \A d \in CavaType : Start(d) \in CavaType /\ PauseAndClear(d) \in CavaType
                          /\ Configure(d) \in CavaType /\ StartIf(p, d) \in CavaType
                          /\ Spawn(d) \in CavaType
      BY <1>1 DEF Start, PauseAndClear, Configure, StartIf, Spawn, CavaType
<1>3. BeforeShow(c, p) \in CavaType /\ Displayed(c, p) \in CavaType
      BY <1>2 DEF BeforeShow, Displayed, StartIf
<1>4. Hidden(c) \in CavaType /\ Resize(c, p) \in CavaType /\ ConfigChanged(c, v, p) \in CavaType
      BY <1>2 DEF Hidden, Resize, ConfigChanged, StartIf
<1>5. ModalOpened(c) \in CavaType
  <2>1. Hangs(c) \in BOOLEAN  BY DEF Hangs
  <2> QED  BY <1>2, <2>1 DEF ModalOpened, CavaType
<1>6. ModalClosed(c, p) \in CavaType
  <2>1. [c EXCEPT !.is_modal_open = FALSE] \in CavaType  BY DEF CavaType
  <2> QED  BY <1>2, <2>1 DEF ModalClosed
<1>7. PlaybackStateChanged(c, p) \in CavaType  BY <1>2 DEF PlaybackStateChanged
<1>8. \A d \in Falters(c) : d \in CavaType  BY DEF Falters, CavaType
<1> QED  BY <1>2, <1>3, <1>4, <1>5, <1>6, <1>7, <1>8

\* Showing, hiding and everything else that happens on screen keeps a pane right.
LEMMA PaneStaysRight ==
    ASSUME NEW c \in CavaType, NEW v \in BOOLEAN, NEW a \in BOOLEAN, NEW p \in BOOLEAN,
           NEW told, Right(c, v, a, told, p)
    PROVE  /\ v => Right(Displayed(c, p), v, TRUE, told, p) /\ Right(Hidden(c), v, FALSE, told, p)
           /\ v => Right(ModalOpened(c), v, a, told, p) /\ Right(ModalClosed(c, p), v, a, told, p)
           /\ v => Right(Resize(c, p), v, a, told, p)
           /\ \A d \in Falters(c) : Right(d, v, a, told, p)
<1> USE DEF Right, Draws, Hangs, CavaType
<1>1. v => Right(Displayed(c, p), v, TRUE, told, p)  BY DEF Displayed, StartIf, Start, Command
<1>2. v => Right(Hidden(c), v, FALSE, told, p)  BY DEF Hidden, PauseAndClear, Command
<1>3. v => Right(ModalOpened(c), v, a, told, p)  BY DEF ModalOpened, PauseAndClear, Command
<1>4. v => Right(ModalClosed(c, p), v, a, told, p)  BY DEF ModalClosed, Start, Command
<1>5. v => Right(Resize(c, p), v, a, told, p)
      BY DEF Resize, StartIf, Start, PauseAndClear, Command
<1>6. \A d \in Falters(c) : Right(d, v, a, told, p)  BY DEF Falters
<1> QED  BY <1>1, <1>2, <1>3, <1>4, <1>5, <1>6

\* So does leaving a tab, unless cava hangs, and coming to one.
LEMMA LeavingAndComing ==
    ASSUME NEW c \in CavaType, NEW v \in BOOLEAN, NEW a \in BOOLEAN, NEW p \in BOOLEAN,
           NEW told, Right(c, v, a, told, p), ~(v /\ Hangs(c)), NEW to \in BOOLEAN
    PROVE  LET left  == IF v THEN PauseAndClear(c) ELSE c
               shown == IF to THEN BeforeShow(left, p) ELSE left
           IN  /\ shown \in CavaType
               /\ Right(shown, to, a, told, p)
               /\ Right(ConfigChanged(shown, to, p), to, a, told, p)
<1> DEFINE left == IF v THEN PauseAndClear(c) ELSE c
           shown == IF to THEN BeforeShow(left, p) ELSE left
<1>1. left \in CavaType  BY PaneTypes
<1>2. ~Draws(left)
      BY DEF Right, Draws, Hangs, CavaType, PauseAndClear, Command
<1> HIDE DEF left
<1>3. shown \in CavaType  BY <1>1, PaneTypes
<1>4. ~Hangs(shown) /\ Right(shown, to, a, told, p)
      BY <1>1, <1>2 DEF Right, Draws, Hangs, CavaType, BeforeShow, Spawn, StartIf, Start, Command
<1> HIDE DEF shown
<1>5. Right(ConfigChanged(shown, to, p), to, a, told, p)
      BY <1>3, <1>4 DEF Right, Draws, Hangs, CavaType, ConfigChanged, StartIf, Start, Configure, Command
<1> QED  BY <1>3, <1>4, <1>5 DEF left, shown

\* A status that changes the state tells a visible pane.
LEMMA ToldPaneIsRight ==
    ASSUME NEW c \in CavaType, NEW v \in BOOLEAN, NEW a \in BOOLEAN, NEW p \in BOOLEAN,
           NEW told, Right(c, v, a, told, p), NEW state \in States
    PROVE  Right(IF v THEN PlaybackStateChanged(c, state = "play") ELSE c, v, a, state, state = "play")
BY DEF Right, Draws, Hangs, CavaType, PlaybackStateChanged, Start, PauseAndClear, Command, States

-----------------------------------------------------------------------------
(* The steps.                                                              *)

LEMMA InitRight == Init => IInv
<1> SUFFICES ASSUME Init PROVE IInv  OBVIOUS
<1>1. PICK first \in Doings :
        /\ song \in {first.song, mpd.song} /\ mpd \in Doings
        /\ status = [state |-> first.state, updating |-> first.updating]
        /\ played = (status.state # "stop") /\ polling = (config.interval /\ Playing)
        /\ rendering = FALSE
        /\ ui \in [visible : {FALSE, config.cava}, attached : {TRUE}, modals : {0}]
        /\ cava = IF ui.visible THEN BeforeShow(NewPane, Playing) ELSE NewPane
        /\ history = [heard |-> FALSE, told |-> status.state, missed |-> FALSE,
                      reloaded |-> FALSE,
                      last |-> IF status.state = "stop" THEN NoSong ELSE song]
      BY DEF Init
<1>2. config \in Config /\ config \in Configs /\ config.cava \in BOOLEAN
      BY DEF Init, Configs, Config
<1>3. first.state \in States /\ first.updating \in BOOLEAN
      /\ first.song \in Songs \union {NoSong} /\ mpd.song \in Songs \union {NoSong}
      BY <1>1 DEF Doings, Mpd
<1>4. ui \in UiType /\ ui.visible \in BOOLEAN /\ Playing \in BOOLEAN
  <2>1. 0 \in 0..MaxModals  BY StatusAssumption
  <2>2. {FALSE, config.cava} \subseteq BOOLEAN  BY <1>2
  <2>3. ui \in UiType  BY <1>1, <2>1, <2>2 DEF UiType
  <2> QED  BY <2>3 DEF UiType, Playing
<1>5. NewPane \in CavaType  BY DEF NewPane, CavaType
<1>6. cava \in CavaType  BY <1>1, <1>4, <1>5, PaneTypes
<1>7. Types  BY <1>1, <1>2, <1>3, <1>4, <1>6 DEF Types, History, States
<1>8. Loops  BY <1>1 DEF Loops
<1>9. Heard  BY <1>1 DEF Heard, SongUnder
<1>10. Bars
  <2>1. CASE ui.visible
        BY <1>1, <2>1 DEF Bars, Right, NewPane, BeforeShow, Spawn, StartIf, Start, Command,
                          Draws, Hangs, Playing
  <2>2. CASE ~ui.visible
        BY <1>1, <2>2 DEF Bars, Right, NewPane, Draws, Playing
  <2> QED  BY <2>1, <2>2
<1> QED  BY <1>7, <1>8, <1>9, <1>10 DEF IInv

\* Steps of MPD, the client and the scheduler touch nothing that the event loop holds;
\* nor do handlers that only ask for the next status.
LEMMA Untouched ==
    ASSUME IInv, UNCHANGED <<ctx, screen, config>>,
           history' = history \/ \E b \in BOOLEAN : history' = [history EXCEPT !.missed = b]
    PROVE  IInv'
<1>1. UNCHANGED <<status, song, played, polling, rendering, cava, ui, config>>
      BY DEF ctx, screen
<1>2. history' \in History /\ history'.heard = history.heard
      /\ history'.told = history.told /\ history'.last = history.last
      /\ history'.reloaded = history.reloaded
      BY DEF IInv, Types, History
<1>3. Types'  BY <1>1, <1>2 DEF IInv, Types
<1>4. Loops'  BY <1>1, <1>2 DEF IInv, Loops, Playing
<1>5. Heard'  BY <1>1, <1>2 DEF IInv, Heard, SongUnder
<1>6. Bars'  BY <1>1, <1>2 DEF IInv, Bars, Playing
<1> QED  BY <1>3, <1>4, <1>5, <1>6 DEF IInv

\* The connection is lost.
LEMMA LossRight ==
    ASSUME IInv, HandleLostConnection
    PROVE  IInv'
<1>1. status' = [status EXCEPT !.state = "stop"] /\ polling' = (polling /\ status.state = "stop")
      /\ history' = [history EXCEPT !.last = NoSong, !.reloaded = FALSE]
      /\ UNCHANGED <<song, played, rendering, cava, ui, config>>
      BY DEF HandleLostConnection, screen
<1>2. status' \in [state : States, updating : BOOLEAN] /\ status'.state = "stop"
      /\ status'.updating = status.updating
      BY <1>1 DEF IInv, Types, States
<1>3. history' \in History /\ history'.heard = history.heard
      /\ history'.told = history.told /\ history'.last = NoSong
      BY <1>1 DEF IInv, Types, History
<1>4. ~Playing' /\ polling' = FALSE
      BY <1>1, <1>2 DEF IInv, Loops, Playing
<1>5. Types'  BY <1>1, <1>2, <1>3, <1>4 DEF IInv, Types
<1>6. Loops'  BY <1>1, <1>2, <1>3, <1>4 DEF IInv, Loops
<1>7. Heard'  BY <1>1, <1>2, <1>3 DEF Heard, SongUnder
<1>8. Bars'  BY <1>1, <1>3, <1>4 DEF IInv, Bars, Right
<1> QED  BY <1>5, <1>6, <1>7, <1>8 DEF IInv

\* A status is handled.
LEMMA StatusRight ==
    ASSUME IInv, NEW new \in Mpd, HandleStatus(new)
    PROVE  IInv'
<1> DEFINE changed == new.state # status.state
<1>1. /\ status' = [state |-> new.state, updating |-> new.updating]
      /\ rendering' = UpdateLoop(new) /\ polling' = PollingUnder(new.state)
      /\ cava' = IF changed /\ ui.visible THEN PlaybackStateChanged(cava, new.state = "play")
                 ELSE cava
      /\ song' = new.song
      /\ played' = (IsNewSong(new) \/ (played /\ new.state # "stop"))
      /\ history' = [heard |-> TRUE, missed |-> history.missed,
                     reloaded |-> history.reloaded /\ new.state = "play",
                     told |-> IF changed THEN new.state ELSE history.told,
                     last |-> IF new.state = "stop" THEN NoSong ELSE new.song]
      /\ ui' = ui /\ config' = config
      BY DEF HandleStatus
<1>2. new.state \in States /\ new.updating \in BOOLEAN /\ new.song \in Songs \union {NoSong}
      /\ (new.song = NoSong => new.state = "stop")
      BY DEF Mpd
<1>3. Playing' = (new.state = "play")  BY <1>1 DEF Playing
<1>4. Types'
  <2>1. PlaybackStateChanged(cava, new.state = "play") \in CavaType
        BY PaneTypes, (new.state = "play") \in BOOLEAN DEF IInv, Types
  <2>2. cava' \in CavaType  BY <1>1, <2>1 DEF IInv, Types
  <2>3. rendering' \in BOOLEAN  BY <1>1, <1>2 DEF UpdateLoop, IInv, Types
  <2>4. polling' \in BOOLEAN  BY <1>1 DEF PollingUnder, IInv, Types, Configs, Config
  <2>5. played' \in BOOLEAN  BY <1>1 DEF IsNewSong, IInv, Types
  <2>6. history' \in History  BY <1>1, <1>2 DEF IInv, Types, History
  <2> QED  BY <1>1, <1>2, <2>2, <2>3, <2>4, <2>5, <2>6 DEF IInv, Types
<1>5. Loops'
  <2>0. polling' = PollingUnder(new.state) /\ polling \in BOOLEAN /\ config.interval \in BOOLEAN
        BY <1>1 DEF IInv, Types, Configs, Config
  <2>1. polling' => Playing'  BY <1>3, <2>0 DEF PollingUnder
  <2>3. ASSUME ~history'.reloaded PROVE polling' = (config'.interval /\ Playing')
    <3>1. ~(history.reloaded /\ new.state = "play")  BY <1>1, <2>3
    <3>2. CASE new.state = "play" /\ Playing
      <4>1. polling = config.interval  BY <2>0, <3>1, <3>2 DEF IInv, Loops
      <4> QED  BY <1>1, <1>3, <2>0, <3>2, <4>1 DEF PollingUnder
    <3>3. CASE new.state = "play" /\ ~Playing
          BY <1>1, <1>3, <2>0, <3>3 DEF PollingUnder
    <3>4. CASE new.state # "play"
          BY <1>1, <1>3, <2>0, <3>4 DEF PollingUnder
    <3> QED  BY <3>2, <3>3, <3>4
  <2>2. rendering' = new.updating
        BY <1>1, <1>2 DEF UpdateLoop, IInv, Loops, Types
  <2> QED  BY <1>1, <2>1, <2>2, <2>3 DEF Loops
<1>6. Heard'  BY <1>1, <1>2 DEF Heard, SongUnder, IsNewSong, IInv
<1>7. Bars'
  <2>1. Right(IF ui.visible THEN PlaybackStateChanged(cava, new.state = "play") ELSE cava,
              ui.visible, ui.attached, new.state, new.state = "play")
    <3>1. Playing \in BOOLEAN /\ Right(cava, ui.visible, ui.attached, history.told, Playing)
          BY DEF Playing, IInv, Bars
    <3> QED  BY <1>2, <3>1, ToldPaneIsRight DEF IInv, Types, UiType
  <2>2. CASE changed  BY <1>1, <1>3, <2>1, <2>2 DEF Bars
  <2>3. CASE ~changed
        BY <1>1, <1>3, <2>3 DEF Bars, IInv, Playing
  <2> QED  BY <2>2, <2>3
<1> QED  BY <1>4, <1>5, <1>6, <1>7 DEF IInv

\* What the user, tmux and the cava process do.
LEMMA UserRight ==
    ASSUME IInv, User
    PROVE  IInv'
<1>1. UNCHANGED <<status, song, played, polling, rendering>>
      BY DEF User, ChangeTab, ChangeConfig, OpenModal, CloseModal, TmuxHook, ResizeTerminal,
             CavaFalters, Rest, ctx
<1>2. Playing' = Playing /\ Playing \in BOOLEAN  BY <1>1 DEF Playing
<1>0. /\ config' \in Configs /\ history' \in History
      /\ history'.heard = history.heard /\ history'.told = history.told
      /\ history'.last = history.last
      /\ ~history'.reloaded =>
             ~history.reloaded /\ (config'.interval = config.interval \/ ~Playing)
  <2>1. CASE ChangeConfig
    <3>1. /\ config' \in Configs
          /\ history' = [history EXCEPT
                 !.reloaded = @ \/ (Playing /\ config'.interval # config.interval)]
          BY <2>1 DEF ChangeConfig
    <3>2. (history.reloaded \/ (Playing /\ config'.interval # config.interval)) \in BOOLEAN
          BY <1>2 DEF IInv, Types, History
    <3>3. history' \in History /\ history'.heard = history.heard
          /\ history'.told = history.told /\ history'.last = history.last
          /\ history'.reloaded
                 = (history.reloaded \/ (Playing /\ config'.interval # config.interval))
          BY <3>1, <3>2 DEF IInv, Types, History
    <3> QED  BY <3>1, <3>3
  <2>2. CASE ~ChangeConfig
    <3>1. UNCHANGED <<config, history>>
          BY <2>2 DEF User, ChangeTab, OpenModal, CloseModal, TmuxHook, ResizeTerminal,
                      CavaFalters, Rest
    <3> QED  BY <3>1 DEF IInv, Types
  <2> QED  BY <2>1, <2>2
<1>3. SUFFICES /\ ui' \in UiType /\ cava' \in CavaType
               /\ Right(cava', ui'.visible, ui'.attached, history.told, Playing)
  <2>1. Types'  BY <1>0, <1>1, <1>3 DEF IInv, Types
  <2>2. Loops'
    <3>1. /\ polling' => Playing'
          /\ rendering' => status'.updating
          /\ history'.heard /\ status'.updating => rendering'
          BY <1>0, <1>1, <1>2 DEF IInv, Loops
    <3>2. ASSUME ~history'.reloaded PROVE polling' = (config'.interval /\ Playing')
      <4>1. polling \in BOOLEAN /\ config'.interval \in BOOLEAN
            BY <1>0 DEF IInv, Types, Configs, Config
      <4> QED  BY <1>0, <1>1, <1>2, <3>2, <4>1 DEF IInv, Loops
    <3> QED  BY <3>1, <3>2 DEF Loops
  <2>3. Heard'  BY <1>0, <1>1 DEF IInv, Heard, SongUnder
  <2>4. Bars'  BY <1>0, <1>1, <1>2, <1>3 DEF Bars
  <2> QED  BY <2>1, <2>2, <2>3, <2>4 DEF IInv
<1>4. /\ cava \in CavaType /\ ui \in UiType /\ ui.visible \in BOOLEAN /\ ui.attached \in BOOLEAN
      /\ Right(cava, ui.visible, ui.attached, history.told, Playing)
      BY DEF IInv, Types, Bars, UiType
<1> DEFINE Leave == IF ui.visible THEN PauseAndClear(cava) ELSE cava
           Come(to) == IF to THEN BeforeShow(Leave, Playing) ELSE Leave
<1>5. ASSUME NEW to \in BOOLEAN,
             IF ui.visible /\ Hangs(cava) THEN cava' = PauseAndClear(cava) /\ UNCHANGED ui
             ELSE /\ ui' = [ui EXCEPT !.visible = to]
                  /\ \/ cava' = Come(to)
                     \/ cava' = ConfigChanged(Come(to), to, Playing)
      PROVE  /\ ui' \in UiType /\ cava' \in CavaType
             /\ Right(cava', ui'.visible, ui'.attached, history.told, Playing)
  <2>1. CASE ui.visible /\ Hangs(cava)
    <3>1. cava' = PauseAndClear(cava) /\ ui' = ui  BY <1>5, <2>1
    <3>2. Right(PauseAndClear(cava), ui.visible, ui.attached, history.told, Playing)
          BY <1>2, <1>4, <2>1 DEF Right, Draws, Hangs, PauseAndClear, Command, CavaType
    <3>3. PauseAndClear(cava) \in CavaType  BY <1>2, <1>4, PaneTypes
    <3> QED  BY <1>4, <3>1, <3>2, <3>3
  <2>2. CASE ~(ui.visible /\ Hangs(cava))
    <3>1. /\ Come(to) \in CavaType /\ Right(Come(to), to, ui.attached, history.told, Playing)
          /\ Right(ConfigChanged(Come(to), to, Playing), to, ui.attached, history.told, Playing)
          BY <1>2, <1>4, <2>2, LeavingAndComing
    <3>2. ConfigChanged(Come(to), to, Playing) \in CavaType  BY <1>2, <3>1, PaneTypes
    <3>3. ui' \in UiType /\ ui'.visible = to /\ ui'.attached = ui.attached
          BY <1>4, <1>5, <2>2 DEF UiType
    <3> QED  BY <1>4, <1>5, <2>2, <3>1, <3>2, <3>3
  <2> QED  BY <2>1, <2>2
<1>6. CASE ChangeTab  BY <1>5, <1>6 DEF ChangeTab
<1>7. CASE ChangeConfig
  <2>1. ReloadPanes \/ UNCHANGED <<cava, ui>>  BY <1>7 DEF ChangeConfig, screen
  <2>2. CASE ReloadPanes  BY <1>5, <2>2 DEF ReloadPanes
  <2>3. CASE UNCHANGED <<cava, ui>>  BY <1>4, <2>3
  <2> QED  BY <2>1, <2>2, <2>3
<1>8. CASE OpenModal
  <2>1. ui' \in UiType /\ ui'.visible = ui.visible /\ ui'.attached = ui.attached
        BY <1>4, <1>8, StatusAssumption DEF OpenModal, UiType
  <2>2. cava' = IF ui.visible THEN ModalOpened(cava) ELSE cava  BY <1>8 DEF OpenModal
  <2> QED  BY <1>2, <1>4, <2>1, <2>2, PaneTypes, PaneStaysRight
<1>9. CASE CloseModal
  <2>1. ui' \in UiType /\ ui'.visible = ui.visible /\ ui'.attached = ui.attached
        BY <1>4, <1>9, StatusAssumption DEF CloseModal, UiType
  <2>2. cava' = cava \/ (ui.visible /\ cava' = ModalClosed(cava, Playing))  BY <1>9 DEF CloseModal
  <2> QED  BY <1>2, <1>4, <2>1, <2>2, PaneTypes, PaneStaysRight
<1>10. CASE TmuxHook
  <2>1. ui' \in UiType /\ ui'.visible = ui.visible /\ ui'.attached = ~ui.attached
        BY <1>4, <1>10 DEF TmuxHook, UiType
  <2>2. cava' = IF ~ui.visible THEN cava
                ELSE IF ui'.attached THEN Displayed(cava, Playing) ELSE Hidden(cava)
        BY <1>10 DEF TmuxHook
  <2>3. CASE ~ui.visible
        BY <1>4, <2>1, <2>2, <2>3 DEF Right
  <2>4. CASE ui.visible /\ ui'.attached
        BY <1>2, <1>4, <2>1, <2>2, <2>4, PaneTypes, PaneStaysRight
  <2>5. CASE ui.visible /\ ~ui'.attached
        BY <1>2, <1>4, <2>1, <2>2, <2>5, PaneTypes, PaneStaysRight
  <2> QED  BY <2>3, <2>4, <2>5
<1>11. CASE ResizeTerminal
       BY <1>2, <1>4, <1>11, PaneTypes, PaneStaysRight DEF ResizeTerminal
<1>12. CASE CavaFalters
  <2>1. cava' \in Falters(cava) /\ ui' = ui  BY <1>12 DEF CavaFalters
  <2>2. \A d \in Falters(cava) : d \in CavaType  BY <1>2, <1>4, PaneTypes
  <2>3. \A d \in Falters(cava) : Right(d, ui.visible, ui.attached, history.told, Playing)
        BY <1>2, <1>4, PaneStaysRight
  <2> QED  BY <1>4, <2>1, <2>2, <2>3
<1> QED  BY <1>6, <1>7, <1>8, <1>9, <1>10, <1>11, <1>12 DEF User

\* Every step.
LEMMA NextRight == IInv /\ [Next]_vars => IInv'
<1> SUFFICES ASSUME IInv, [Next]_vars PROVE IInv'  OBVIOUS
<1>1. CASE MpdPlays \/ MpdUpdatesDatabase
      BY <1>1, Untouched DEF MpdPlays, MpdUpdatesDatabase
<1>2. CASE Threads
      BY <1>2, Untouched DEF Threads, ReadIdle, Skip, Answer, AnswerLate, LoseConnection, Reconnect, Poll
<1>3. CASE User  BY <1>3, UserRight
<1>4. CASE HandleIdleEvent \/ HandleReconnected
      BY <1>4, Untouched DEF HandleIdleEvent, HandleReconnected
<1>5. CASE HandleLostConnection  BY <1>5, LossRight
<1>6. CASE \E new \in Mpd : HandleStatus(new)  BY <1>6, StatusRight
<1>7. CASE UNCHANGED vars  BY <1>7, Untouched DEF vars, ctx, screen
<1> QED  BY <1>1, <1>2, <1>3, <1>4, <1>5, <1>6, <1>7 DEF Next, Handle

\* The invariant: polling and drawing follow the status, the song last heard of
\* is the current one, and the pane is right for what it was told.
THEOREM StatusInvariant == Spec => []IInv
BY InitRight, NextRight, PTL DEF Spec

\* In every reachable state MPD is polled only while rmpc believes it to play, and
\* exactly then if an interval is configured and no reload has changed that during
\* playback (event_loop.rs:175-192); and an update of the database is drawn exactly
\* while one runs (event_loop.rs:115-130, 555-605, 787-796).
THEOREM LoopsAlwaysFollow == Spec => []LoopsFollowStatus
<1>1. IInv => LoopsFollowStatus
      BY DEF IInv, Types, Loops, LoopsFollowStatus
<1> QED  BY <1>1, StatusInvariant, PTL

\* Every status handled while MPD is not stopped runs the script exactly when its
\* song is not the one last heard of, and names that one as PREV_SONG
\* (event_loop.rs:608-636).
THEOREM ScriptAlwaysFollows == Spec => ScriptFollowsSong
<1> DEFINE Ran(new) == script' = IF new.song = history.last THEN NoRun
                                ELSE [song |-> new.song, prev |-> history.last]
<1>1. ASSUME IInv, NEW new \in Mpd, HandleStatus(new), new.state # "stop"
      PROVE  Ran(new)
  <2>1. script' = IF IsNewSong(new) THEN [song |-> new.song, prev |-> PrevSong(new)] ELSE NoRun
        BY <1>1 DEF HandleStatus
  <2>2. new.song # NoSong  BY <1>1 DEF Mpd
  <2>3. IsNewSong(new) <=> new.song # history.last
        BY <1>1, <2>2 DEF IInv, Heard, IsNewSong
  <2>4. PrevSong(new) = history.last
        BY <1>1 DEF IInv, Heard, PrevSong, SongUnder
  <2> QED  BY <2>1, <2>3, <2>4
<1>2. IInv => [\A new \in Mpd : HandleStatus(new) /\ new.state # "stop" => Ran(new)]_vars
      BY <1>1
<1> QED  BY <1>2, StatusInvariant, PTL DEF ScriptFollowsSong

\* In every reachable state bars are drawn only on a visible tab and while the
\* panes were last told that MPD plays, or a command was refused since; and they
\* are drawn while it plays and nothing covers them (cava.rs:406-528).
THEOREM BarsAlwaysFollow == Spec => []BarsFollowPlayback
<1>1. IInv => BarsFollowPlayback
      BY DEF IInv, Bars, Right, BarsFollowPlayback
<1> QED  BY <1>1, StatusInvariant, PTL

-----------------------------------------------------------------------------
(* Types.                                                                  *)

Requests == {"status", "status_from_playlist"}
Changes  == {"player", "playlist", "update"}
Runs     == [song : Songs \union {NoSong}, prev : Songs \union {NoSong}]

\* What the threads hold and send.
ThreadTypes ==
    /\ mpd \in Mpd /\ idle \subseteq Changes /\ link \in BOOLEAN
    /\ requests \in Seq(Requests) /\ app \in Seq(Event)
    /\ script \in Runs

\* The changes read at once are sent in some order (idle.rs, client.rs:165-200).
LEMMA ChangesAreEvents ==
    ASSUME NEW changes \in SUBSET Changes
    PROVE  SetToSeq([type : {"idle"}, of : changes]) \in Seq(Event)
<1> DEFINE S == [type : {"idle"}, of : changes]
           All == ({} \union {[type |-> "idle", of |-> "player"]})
                     \union {[type |-> "idle", of |-> "playlist"]}
                     \union {[type |-> "idle", of |-> "update"]}
<1>1. S \subseteq All
      <2> SUFFICES ASSUME NEW e \in S PROVE e \in All  OBVIOUS
      <2>1. e = [type |-> "idle", of |-> e.of] /\ e.of \in Changes  OBVIOUS
      <2> QED  BY <2>1 DEF Changes
<1>2. S \subseteq Event  BY DEF Event, Changes
<1>3. IsFiniteSet(All)
      <2>1. \A A, x : IsFiniteSet(A) => IsFiniteSet(A \union {x})  BY FS_AddElement
      <2> QED  BY FS_EmptySet, <2>1, Zenon
<1> HIDE DEF All
<1>4. IsFiniteSet(S)  BY <1>1, <1>3, FS_Subset
<1> HIDE DEF S
<1>5. PICK n \in Nat : ExistsBijection(1..n, S)  BY <1>4, FS_NatBijection
<1>6. Cardinality(S) = n  BY <1>5, FS_CountingElements
<1>7. \E f \in [1..n -> S] : IsInjective(f)
      BY <1>5 DEF ExistsBijection, Bijection, Injection
<1>8. SetToSeq(S) \in [1..n -> S]  BY <1>6, <1>7 DEF SetToSeq
<1>9. SetToSeq(S) \in [1..n -> Event]
      <2> DEFINE s == SetToSeq(S)
      <2>1. s \in [1..n -> S]  BY <1>8
      <2> HIDE DEF s
      <2>2. s \in [1..n -> Event]  BY <1>2, <2>1
      <2> QED  BY <2>2 DEF s
<1> HIDE DEF S
<1>10. \A s \in [1..n -> Event] : s \in Seq(Event)  BY <1>5
<1> QED  BY <1>9, <1>10 DEF S

LEMMA InitTyped == Init => ThreadTypes
<1> SUFFICES ASSUME Init PROVE ThreadTypes  OBVIOUS
<1>1. /\ mpd \in Mpd /\ idle \subseteq {"player", "update"} /\ link = TRUE
      /\ requests = <<>> /\ app = <<>> /\ script = NoRun
      BY DEF Init, Doings
<1> QED  BY <1>1 DEF ThreadTypes, Changes, Runs, NoRun

\* The channels grow by what they may hold.
LEMMA ChannelsTyped ==
    ASSUME ThreadTypes
    PROVE  /\ \A r \in Requests : Append(requests, r) \in Seq(Requests)
           /\ \A e \in Event : Append(app, e) \in Seq(Event)
           /\ requests # <<>> => Tail(requests) \in Seq(Requests)
           /\ app # <<>> => Tail(app) \in Seq(Event) /\ Head(app) \in Event
BY DEF ThreadTypes

\* Every step.
LEMMA NextTyped == IInv /\ ThreadTypes /\ [Next]_vars => ThreadTypes'
<1> SUFFICES ASSUME IInv, ThreadTypes, [Next]_vars PROVE ThreadTypes'  OBVIOUS
<1>1. NoRun \in Runs  BY DEF NoRun, Runs
<1>2. CASE MpdPlays
      BY <1>1, <1>2 DEF MpdPlays, NoScript, Doings, ThreadTypes, Changes
<1>3. CASE MpdUpdatesDatabase
      BY <1>1, <1>3 DEF MpdUpdatesDatabase, NoScript, Doings, ThreadTypes, Changes
<1>4. CASE ReadIdle
      <2>1. SetToSeq([type : {"idle"}, of : idle]) \in Seq(Event)
            BY ChangesAreEvents DEF ThreadTypes
      <2>2. app' \in Seq(Event)
            <3> DEFINE s == SetToSeq([type : {"idle"}, of : idle])
            <3>1. app \in Seq(Event) /\ s \in Seq(Event)  BY <2>1 DEF ThreadTypes
            <3>2. app' = app \o s  BY <1>4 DEF ReadIdle
            <3> HIDE DEF s
            <3> QED  BY <3>1, <3>2
      <2>3. UNCHANGED <<mpd, link, requests>> /\ idle' = {} /\ script' = NoRun
            BY <1>4 DEF ReadIdle, NoScript
      <2> QED  BY <1>1, <2>2, <2>3 DEF ThreadTypes
<1>5. CASE Skip \/ Answer \/ AnswerLate
      <2>1. [type |-> "status", of |-> mpd] \in Event  BY DEF ThreadTypes, Event
      <2>2. /\ requests' = Tail(requests) /\ requests # <<>> /\ script' = NoRun
            /\ app' \in {app, Append(app, [type |-> "status", of |-> mpd])}
            /\ idle' \in {idle, {}} /\ mpd' = mpd /\ link' = link
            BY <1>5 DEF Skip, Answer, AnswerLate, Taken, NoScript, server
      <2> QED  BY <1>1, <2>1, <2>2, ChannelsTyped DEF ThreadTypes
<1>6. CASE LoseConnection \/ Reconnect
      <2>1. \A b \in BOOLEAN : [type |-> "link", of |-> b] \in Event  BY DEF Event
      <2>2. /\ requests' = <<>> /\ script' = NoRun /\ link' \in BOOLEAN
            /\ \E b \in BOOLEAN : app' = Append(app, [type |-> "link", of |-> b])
            /\ idle' \in {idle, {}} /\ mpd' = mpd
            BY <1>6 DEF LoseConnection, Reconnect, NoScript
      <2> QED  BY <1>1, <2>1, <2>2, ChannelsTyped DEF ThreadTypes
<1>7. CASE Poll
      <2>1. /\ requests' = Append(requests, "status") /\ script' = NoRun
            /\ UNCHANGED <<mpd, idle, link, app>>
            BY <1>7 DEF Poll, NoScript, server
      <2> QED  BY <1>1, <2>1, ChannelsTyped DEF ThreadTypes, Requests
<1>8. CASE User
      <2>1. UNCHANGED <<mpd, idle, link, requests, app>> /\ script' = NoRun
            BY <1>8 DEF User, ChangeTab, ChangeConfig, OpenModal, CloseModal, TmuxHook,
                        ResizeTerminal, CavaFalters, Rest, NoScript, server
      <2> QED  BY <1>1, <2>1 DEF ThreadTypes
<1>9. CASE HandleIdleEvent \/ HandleReconnected
      <2>1. \A ev : Queries(ev) \in Requests  BY DEF Queries, Requests
      <2>2. requests' \in Seq(Requests)
            <3>1. CASE HandleIdleEvent
                  BY <2>1, <3>1, ChannelsTyped DEF HandleIdleEvent
            <3>2. CASE HandleReconnected
                  <4>1. <<"status", "status_from_playlist", "status">> \in Seq(Requests)
                        BY DEF Requests
                  <4>2. requests' = requests \o <<"status", "status_from_playlist", "status">>
                        BY <3>2 DEF HandleReconnected
                  <4> QED  BY <4>1, <4>2 DEF ThreadTypes
            <3> QED  BY <1>9, <3>1, <3>2
      <2>3. /\ app # <<>> /\ app' = Tail(app) /\ script' = NoRun
            /\ UNCHANGED <<mpd, idle, link>>
            BY <1>9 DEF HandleIdleEvent, HandleReconnected, Received, NoScript, server
      <2> QED  BY <1>1, <2>2, <2>3, ChannelsTyped DEF ThreadTypes
<1>10. CASE HandleLostConnection
      <2>1. /\ app # <<>> /\ app' = Tail(app) /\ script' = NoRun
            /\ UNCHANGED <<mpd, idle, link, requests>>
            BY <1>10 DEF HandleLostConnection, Received, NoScript, server
      <2> QED  BY <1>1, <2>1, ChannelsTyped DEF ThreadTypes
<1>11. ASSUME NEW new \in Mpd, HandleStatus(new) PROVE ThreadTypes'
      <2>1. /\ app # <<>> /\ app' = Tail(app)
            /\ UNCHANGED <<mpd, idle, link, requests>>
            /\ script' = IF IsNewSong(new) THEN [song |-> new.song, prev |-> PrevSong(new)]
                         ELSE NoRun
            BY <1>11 DEF HandleStatus, Received, server
      <2>2. new.song \in Songs \union {NoSong} /\ PrevSong(new) \in Songs \union {NoSong}
            BY DEF Mpd, PrevSong, SongUnder, IInv, Types
      <2>3. script' \in Runs  BY <1>1, <2>1, <2>2 DEF Runs
      <2> QED  BY <2>1, <2>3, ChannelsTyped DEF ThreadTypes
<1>12. CASE UNCHANGED vars  BY <1>12 DEF vars, ctx, server, screen, ThreadTypes
<1> QED
    BY <1>2, <1>3, <1>4, <1>5, <1>6, <1>7, <1>8, <1>9, <1>10, <1>11, <1>12
       DEF Next, Threads, Handle

\* In every reachable state every variable has its type: the channels hold only
\* what their readers know, and the script runs only for songs.
THEOREM StatusTypeCorrect == Spec => []TypeOK
<1>1. Init => IInv /\ ThreadTypes  BY InitRight, InitTyped
<1>2. (IInv /\ ThreadTypes) /\ [Next]_vars => (IInv /\ ThreadTypes)'
      BY NextRight, NextTyped
<1>3. IInv /\ ThreadTypes => TypeOK
      BY DEF IInv, Types, ThreadTypes, TypeOK, Changes, Requests, Runs, UiType, Configs,
             Config
<1> QED  BY <1>1, <1>2, <1>3, PTL DEF Spec
=============================================================================
