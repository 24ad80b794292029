----------------------------- MODULE StatusSync -----------------------------
(***************************************************************************)
(* What rmpc believes MPD to be doing, and what hangs on it: the status    *)
(* that the event loop (rmpc/src/core/event_loop.rs) reads on idle events, *)
(* on a timer and after reconnects, the two loops it starts and stops, the *)
(* on_song_change script, and the bars of the visualiser (Cava) among tabs,*)
(* modals, tmux and changes of the configuration (ui/mod.rs).              *)
(*                                                                         *)
(* The client threads (ClientTask) are reduced to their service: requests  *)
(* are answered in order, one is skipped when the same comes behind it,    *)
(* all are dropped with the connection.  Which idle events are ignored is  *)
(* the subject of QueueSync and left out.                                  *)
(***************************************************************************)
EXTENDS Naturals, Sequences, SequencesExt, Cava

CONSTANTS
    Songs,          \* ids in the queue; a song keeps its file
    NoSong,
    Only,           \* the song that plays while MPD updates or the visualiser runs
    MaxInFlight,    \* bound: MPD and the user act while less than this waits
    MaxWithCava,    \* bound: the same when the visualiser is configured
    MaxModals       \* bound: modals on top of each other

ASSUME StatusAssumption ==
    /\ NoSong \notin Songs /\ Only \in Songs
    /\ MaxInFlight \in Nat /\ MaxWithCava \in Nat /\ MaxModals \in Nat

VARIABLES
    mpd,          \* what MPD does: [state, song, updating]
    idle,         \* changes MPD has not told the idling client of
    link,         \* the client is connected
    requests,     \* replace_ids of the status queries the client has not run
    app,          \* the channel of AppEvents
    status,       \* ctx.status: [state, updating]
    song,         \* the field ctx.current_song
    played,       \* ctx.song_played is Some
    polling,      \* _update_loop_guard holds a job
    rendering,    \* db_update_start and _update_db_loop_guard are Some
    script,       \* the on_song_change that the last step ran: [song, prev]
    cava,         \* the visualiser, see Cava
    ui,           \* [visible, attached (to tmux), modals]
    config,       \* [interval, cava]: is an interval, is the pane configured?
                  \* updates: a bound, see Configs
    history       \* [heard, told, last, missed, reloaded], see below

vars == <<mpd, idle, link, requests, app, status, song, played, polling,
          rendering, script, cava, ui, config, history>>

ctx    == <<status, song, played, polling, rendering>>
server == <<mpd, idle, link>>
screen == <<cava, ui>>

States == {"play", "pause", "stop"}
NoRun  == [song |-> NoSong, prev |-> NoSong]

\* A stopped MPD still has a current song, unless the queue has ended.
Mpd == {m \in [state : States, song : Songs \union {NoSong}, updating : BOOLEAN] :
            m.song = NoSong => m.state = "stop"}

Event == [type : {"idle"}, of : {"player", "playlist", "update"}]
         \union [type : {"status"}, of : Mpd] \union [type : {"link"}, of : BOOLEAN]

\* heard: a status was handled.  told: the last state the panes were told of.
\* last: the song of the last status, unless stopped or disconnected since.
\* missed: MPD's changes were lost with an answer that came too late.
\* reloaded: the interval was changed since rmpc believes MPD to play.
History == [heard : BOOLEAN, told : States, last : Songs \union {NoSong}, missed : BOOLEAN,
            reloaded : BOOLEAN]

Config == [interval : BOOLEAN, cava : BOOLEAN, updates : BOOLEAN]

TypeOK ==
    /\ mpd \in Mpd /\ idle \subseteq {"player", "playlist", "update"} /\ link \in BOOLEAN
    /\ requests \in Seq({"status", "status_from_playlist"}) /\ app \in Seq(Event)
    /\ status \in [state : States, updating : BOOLEAN] /\ song \in Songs \union {NoSong}
    /\ played \in BOOLEAN /\ polling \in BOOLEAN /\ rendering \in BOOLEAN
    /\ script \in [song : Songs \union {NoSong}, prev : Songs \union {NoSong}]
    /\ cava \in CavaType
    /\ ui \in [visible : BOOLEAN, attached : BOOLEAN, modals : 0..MaxModals]
    /\ config \in Config /\ history \in History

Playing == status.state = "play"

\* Bound: MPD either changes its song, or updates its database, or the visualiser
\* is configured; rmpc polls in the first case.
Configs == {c \in Config : (c.cava => ~c.updates) /\ (c.cava \/ c.updates => ~c.interval)}

Doings ==
    {m \in Mpd : /\ config.cava \/ config.updates => m.song \in {Only, NoSong}
                 /\ m.updating => config.updates}

\* MPD may change between the status and the song that are read at the start.
Init ==
    /\ config \in Configs
    /\ \E first \in Doings :
        /\ mpd \in Doings /\ song \in {first.song, mpd.song}
        /\ idle = (IF <<first.state, first.song>> = <<mpd.state, mpd.song>> THEN {} ELSE {"player"})
                  \union (IF first.updating = mpd.updating THEN {} ELSE {"update"})
        /\ link = TRUE /\ requests = <<>> /\ app = <<>>
        /\ status = [state |-> first.state, updating |-> first.updating]
        /\ played = (status.state # "stop") /\ polling = (config.interval /\ Playing)
        /\ rendering = FALSE /\ script = NoRun
        /\ ui \in [visible : {FALSE, config.cava}, attached : {TRUE}, modals : {0}]
        /\ cava = IF ui.visible THEN BeforeShow(NewPane, Playing) ELSE NewPane
        /\ history = [heard |-> FALSE, told |-> status.state, missed |-> FALSE,
                      reloaded |-> FALSE,
                      last |-> IF status.state = "stop" THEN NoSong ELSE song]

Room == Len(requests) + Len(app) < IF config.cava THEN MaxWithCava ELSE MaxInFlight

NoScript == script' = NoRun

-----------------------------------------------------------------------------
(* MPD and the client threads.                                             *)

\* Another song or state, also because the queue is edited.
MpdPlays ==
    /\ Room /\ mpd' \in Doings /\ mpd'.updating = mpd.updating
    /\ \E tells \in {{"player"}, {"playlist"}, {"player", "playlist"}} :
           /\ mpd' # mpd => "player" \in tells
           /\ idle' = IF link THEN idle \union tells ELSE idle
    /\ NoScript /\ UNCHANGED <<link, requests, app, ctx, screen, config, history>>

MpdUpdatesDatabase ==
    /\ Room /\ mpd' = [mpd EXCEPT !.updating = ~@] /\ mpd' \in Doings
    /\ idle' = IF link THEN idle \union {"update"} ELSE idle
    /\ NoScript /\ UNCHANGED <<link, requests, app, ctx, screen, config, history>>

\* The idle thread reads what has changed.
ReadIdle ==
    /\ idle # {} /\ idle' = {}
    /\ app' = app \o SetToSeq([type : {"idle"}, of : idle])
    /\ NoScript /\ UNCHANGED <<mpd, link, requests, ctx, screen, config, history>>

\* The request thread takes the next query, and skips it when the same comes later.
Taken      == link /\ requests # <<>> /\ requests' = Tail(requests)
Superseded == Contains(Tail(requests), Head(requests))

Skip ==
    /\ Taken /\ Superseded
    /\ NoScript /\ UNCHANGED <<server, app, ctx, screen, config, history>>

Answer ==
    /\ Taken /\ ~Superseded
    /\ app' = Append(app, [type |-> "status", of |-> mpd])
    /\ history' = [history EXCEPT !.missed = FALSE]
    /\ NoScript /\ UNCHANGED <<server, ctx, screen, config>>

\* The answer is late and the request thread reconnects by itself.
AnswerLate ==
    /\ Taken /\ ~Superseded /\ idle' = {}
    /\ history' = [history EXCEPT !.missed = TRUE]
    /\ NoScript /\ UNCHANGED <<mpd, link, app, ctx, screen, config>>

LoseConnection ==
    /\ Room /\ link /\ link' = FALSE /\ idle' = {} /\ requests' = <<>>
    /\ app' = Append(app, [type |-> "link", of |-> FALSE])
    /\ NoScript /\ UNCHANGED <<mpd, ctx, screen, config, history>>

Reconnect ==
    /\ ~link /\ link' = TRUE /\ requests' = <<>>
    /\ app' = Append(app, [type |-> "link", of |-> TRUE])
    /\ NoScript /\ UNCHANGED <<mpd, idle, ctx, screen, config, history>>

\* The job of the update loop, run_status_update.
Poll ==
    /\ Room /\ polling /\ requests' = Append(requests, "status")
    /\ NoScript /\ UNCHANGED <<server, app, ctx, screen, config, history>>

-----------------------------------------------------------------------------
(* The event loop.                                                         *)

Received(type) == app # <<>> /\ Head(app).type = type /\ app' = Tail(app)

Queries(ev) == IF ev = "playlist" THEN "status_from_playlist" ELSE "status"

HandleIdleEvent ==
    /\ Received("idle")
    /\ requests' = Append(requests, Queries(Head(app).of))
    /\ NoScript /\ UNCHANGED <<server, ctx, screen, config, history>>

\* Seeded fault: a reconnect is only shown to the user.
HandleReconnectedUnread ==
    /\ Received("link") /\ Head(app).of
    /\ NoScript /\ UNCHANGED <<server, requests, ctx, screen, config, history>>

\* Player, Playlist and Options are handled as if MPD had sent them.
HandleReconnected ==
    /\ Received("link") /\ Head(app).of
    /\ requests' = requests \o <<"status", "status_from_playlist", "status">>
    /\ NoScript /\ UNCHANGED <<server, ctx, screen, config, history>>

\* Seeded fault: the state stays what it was.
LostConnectionKeepsState ==
    /\ Received("link") /\ ~Head(app).of
    /\ polling' = FALSE
    /\ history' = [history EXCEPT !.last = NoSong, !.reloaded = FALSE]
    /\ NoScript /\ UNCHANGED <<server, requests, status, song, played, rendering, screen, config>>

\* Nobody but the next status learns of this.
HandleLostConnection ==
    /\ Received("link") /\ ~Head(app).of
    /\ status' = [status EXCEPT !.state = "stop"]
    /\ polling' = (polling /\ status.state = "stop")
    /\ history' = [history EXCEPT !.last = NoSong, !.reloaded = FALSE]
    /\ NoScript /\ UNCHANGED <<server, requests, song, played, rendering, screen, config>>

\* Ctx::current_song() knows no song while stopped.
SongUnder(state) == IF state = "stop" THEN NoSong ELSE song

IsNewSong(new) == new.song # NoSong /\ new.song # SongUnder(status.state)

\* Seeded fault: the new song is already set.
PrevSongAfterwards(new) ==
    IF status.state # "stop" /\ played /\ new.state # "stop" THEN new.song ELSE NoSong

PrevSong(new) ==
    IF status.state # "stop" /\ played /\ new.state # "stop" THEN SongUnder(new.state) ELSE NoSong

\* Started with an update and, when rmpc was started during it, by the first status.
UpdateLoop(new) ==
    IF ~status.updating /\ ~new.updating THEN rendering ELSE new.updating

\* The job is replaced only when the state changes to Play.
PollingUnder(state) ==
    state = "play" /\ IF Playing THEN polling ELSE config.interval

HandleStatus(new) ==
    LET changed == new.state # status.state IN
    /\ Received("status") /\ Head(app).of = new
    /\ status' = [state |-> new.state, updating |-> new.updating]
    /\ rendering' = UpdateLoop(new)
    /\ polling' = PollingUnder(new.state)
    /\ cava' = IF changed /\ ui.visible THEN PlaybackStateChanged(cava, new.state = "play")
               ELSE cava
    /\ script' = IF IsNewSong(new) THEN [song |-> new.song, prev |-> PrevSong(new)] ELSE NoRun
    /\ song' = new.song
    /\ played' = (IsNewSong(new) \/ (played /\ new.state # "stop"))
    /\ history' = [heard |-> TRUE, missed |-> history.missed,
                   reloaded |-> history.reloaded /\ new.state = "play",
                   told |-> IF changed THEN new.state ELSE history.told,
                   last |-> IF new.state = "stop" THEN NoSong ELSE new.song]
    /\ UNCHANGED <<server, requests, ui, config>>

-----------------------------------------------------------------------------
(* The UI around the visualiser.                                           *)

Rest == <<server, requests, app, ctx, config, history>>

\* A tab is not left while its panes cannot be hidden.
ChangeTab ==
    /\ \E to \in BOOLEAN :
           IF ui.visible /\ Hangs(cava) THEN cava' = PauseAndClear(cava) /\ UNCHANGED ui
           ELSE /\ ui' = [ui EXCEPT !.visible = to]
                /\ LET left == IF ui.visible THEN PauseAndClear(cava) ELSE cava
                   IN  cava' = IF to THEN BeforeShow(left, Playing) ELSE left
    /\ NoScript /\ UNCHANGED Rest

\* Every pane is hidden, the active tab shown again, and the event sent; an
\* error on the way ends it.
ReloadPanes ==
    \E to \in BOOLEAN :
        IF ui.visible /\ Hangs(cava) THEN cava' = PauseAndClear(cava) /\ UNCHANGED ui
        ELSE /\ ui' = [ui EXCEPT !.visible = to]
             /\ LET left  == IF ui.visible THEN PauseAndClear(cava) ELSE cava
                    shown == IF to THEN BeforeShow(left, Playing) ELSE left
                IN  cava' = ConfigChanged(shown, to, Playing)

\* The configuration is replaced; the job of the update loop stays what it is.
ChangeConfig ==
    /\ config' \in Configs
    /\ config'.cava = config.cava /\ config'.updates = config.updates
    /\ IF config.cava THEN ReloadPanes ELSE UNCHANGED screen
    /\ history' = [history EXCEPT
           !.reloaded = @ \/ (Playing /\ config'.interval # config.interval)]
    /\ NoScript /\ UNCHANGED <<server, requests, app, ctx>>

OpenModal ==
    /\ ui' \in {[ui EXCEPT !.modals = n] : n \in {ui.modals + 1} \union ({ui.modals} \ {0})}
    /\ ui'.modals <= MaxModals
    /\ cava' = IF ui.visible THEN ModalOpened(cava) ELSE cava
    /\ NoScript /\ UNCHANGED Rest

\* ModalClosed comes with the last modal, and with every accepted
\* configuration while there is none.
CloseModal ==
    /\ ui' = [ui EXCEPT !.modals = IF @ = 0 THEN 0 ELSE @ - 1]
    /\ cava' = IF ui'.modals = 0 /\ ui.visible THEN ModalClosed(cava, Playing) ELSE cava
    /\ NoScript /\ UNCHANGED Rest

\* tmux attaches or detaches the window of rmpc.
TmuxHook ==
    /\ ui' = [ui EXCEPT !.attached = ~@]
    /\ cava' = IF ~ui.visible THEN cava
               ELSE IF ui'.attached THEN Displayed(cava, Playing) ELSE Hidden(cava)
    /\ NoScript /\ UNCHANGED Rest

ResizeTerminal == ui.visible /\ cava' = Resize(cava, Playing) /\ NoScript /\ UNCHANGED <<ui, Rest>>

CavaFalters == cava' \in Falters(cava) /\ NoScript /\ UNCHANGED <<ui, Rest>>

-----------------------------------------------------------------------------
Threads == ReadIdle \/ Skip \/ Answer \/ AnswerLate \/ LoseConnection \/ Reconnect \/ Poll
User    == \/ ChangeConfig
           \/ config.cava /\ (ChangeTab \/ OpenModal \/ CloseModal \/ TmuxHook
                              \/ ResizeTerminal \/ CavaFalters)
Handle  == HandleIdleEvent \/ HandleReconnected \/ HandleLostConnection
           \/ \E new \in Mpd : HandleStatus(new)

Next == MpdPlays \/ MpdUpdatesDatabase \/ Threads \/ User \/ Handle

Spec == Init /\ [][Next]_vars

\* The threads run on and the channels are read.  The update loop does not poll so
\* fast that every query is superseded before it is taken.
Fairness ==
    /\ WF_vars(ReadIdle) /\ WF_vars(Skip) /\ SF_vars(Answer) /\ WF_vars(Reconnect) /\ WF_vars(Poll)
    /\ WF_vars(Handle)

FairSpec == Spec /\ Fairness

-----------------------------------------------------------------------------
\* MPD is polled only while rmpc believes it to play, and exactly then if an
\* interval is configured, through stops, lost connections and answers that cross
\* them; and frames are drawn for an update of the database exactly while one runs,
\* also when rmpc was started during it (event_loop.rs:115-130, 555-605, 787-796).
\* The exception: a configuration reloaded during playback replaces the interval and
\* leaves the loop as it is (event_loop.rs:175-192), until playback begins anew.
LoopsFollowStatus ==
    /\ polling => Playing
    /\ ~history.reloaded => polling = (config.interval /\ Playing)
    /\ history.heard => rendering = status.updating

\* The script runs once for every song that follows another and names that one as
\* PREV_SONG; after a stop or a lost connection it runs without it (event_loop.rs:
\* 512, 608-636; CHANGELOG.md:77).
ScriptFollowsSong ==
    [][\A new \in Mpd : HandleStatus(new) /\ new.state # "stop" =>
          script' = IF new.song = history.last THEN NoRun
                    ELSE [song |-> new.song, prev |-> history.last]]_vars

\* Bars are drawn only on a visible tab and while the panes were last told that
\* MPD plays, and they are drawn while it plays and nothing covers them; unless the
\* last command was refused or the thread is gone (cava.rs:406-528).
BarsFollowPlayback ==
    /\ Draws(cava) => ui.visible /\ (history.told = "play" \/ cava.refused)
    /\ Playing /\ ui.visible /\ ui.attached /\ ~cava.is_modal_open /\ cava.thread # "ended"
       => Draws(cava)

InSync == <<status.state, status.updating, song>> = <<mpd.state, mpd.updating, mpd.song>>

Quiet == [][mpd' = mpd /\ (link => link') /\ ~AnswerLate]_vars

\* When MPD and the connection rest, rmpc comes to show what MPD does, after lost
\* and superseded queries too.  Only a late answer may leave it wrong, and not
\* while it polls (event_loop.rs:584-598, 777-786, 845-930).
StatusConverges == <>Quiet => <>[](InSync \/ (history.missed /\ ~polling))
=============================================================================
