------------------------------ MODULE AlbumArt ------------------------------
(***************************************************************************)
(* The album art of the current song on the screen: the pane               *)
(* (rmpc/src/ui/panes/album_art.rs), the facade that has images encoded on *)
(* the worker thread (ui/image/facade.rs), the fetch of the art from MPD   *)
(* or by a custom loader (shared/album_art.rs, core/work.rs), and the tabs,*)
(* modals and events of ui/mod.rs and core/event_loop.rs around them.      *)
(*                                                                         *)
(* Answers come later than the events that asked for them: from the worker *)
(* thread in the order of its requests, from the client threads in the     *)
(* order of the queries, of which one that has a successor may be skipped, *)
(* one that fails or is late has no answer and all are dropped with the    *)
(* connection (see ClientTask).                                            *)
(***************************************************************************)
EXTENDS Naturals, Sequences, SequencesExt

CONSTANTS
    Songs,        \* files that play; the art of a song is named for it
    Disabled,     \* those of a protocol in disabled_protocols
    NoSong,       \* what plays when playback is stopped
    Default,      \* the default album art
    Nothing,      \* no image
    MaxModals,    \* bound: modals on top of each other
    MaxInFlight   \* bound: events come while fewer requests than this wait

ASSUME AlbumArtAssumption ==
    /\ Disabled \subseteq Songs /\ NoSong \notin Songs
    /\ Default \notin Songs /\ Nothing \notin Songs \union {Default}
    /\ MaxModals \in Nat /\ MaxInFlight \in Nat

VARIABLES
    song,           \* Ctx::current_song()
    loader,         \* is a custom_loader configured?
    visible,        \* the pane is in the active tab
    modals,         \* the number of open modals
    is_modal_open,
    fetch_needed,
    art,            \* the facade and the requests of the pane, see ArtType
    reconnected,    \* a Reconnected event is on its way
    failed,         \* the last encode has failed (history)
    lost            \* the last query that ended had no answer (history)

pane == <<is_modal_open, fetch_needed>>
vars == <<song, loader, visible, modals, pane, art, reconnected, failed, lost>>

Image == Songs \union {Default}
Work  == [type : {"encode"}, of : Image] \union [type : {"load"}, of : Songs]

ArtType ==
    [current : Image \union {Nothing},  \* current_album_art
     showing : BOOLEAN,                 \* is_showing
     request_queue : Seq(Image),
     screen : Image \union {Nothing},   \* the image on the terminal
     work : Seq(Work),                  \* requests the worker has not answered
     queries : Seq(Songs)]              \* album art queries without an answer

TypeOK ==
    /\ song \in Songs \union {NoSong} /\ loader \in BOOLEAN /\ visible \in BOOLEAN
    /\ modals \in 0..MaxModals /\ is_modal_open \in BOOLEAN /\ fetch_needed \in BOOLEAN
    /\ art \in ArtType
    /\ reconnected \in BOOLEAN /\ failed \in BOOLEAN /\ lost \in BOOLEAN

-----------------------------------------------------------------------------
(* The facade.                                                             *)

Encode(img) == [type |-> "encode", of |-> img]
Load(s)     == [type |-> "load", of |-> s]

\* Only one image is encoded at a time, the others wait in request_queue.
Show(f, img) ==
    [f EXCEPT !.showing = TRUE, !.current = img,
              !.request_queue = Append(@, img),
              !.work = IF f.request_queue = <<>> THEN Append(@, Encode(img)) ELSE @]

ShowCurrent(f) == IF f.current = Nothing THEN f ELSE Show(f, f.current)

Hide(f) == [f EXCEPT !.showing = FALSE, !.request_queue = <<>>, !.screen = Nothing]

Pop(f)         == [f EXCEPT !.request_queue = IF @ = <<>> THEN @ ELSE Front(@)]
Superseded(f)  == Len(f.request_queue) > 1
EncodeLatest(f) == Show([f EXCEPT !.request_queue = <<>>], Last(f.request_queue))

\* Seeded fault: an image is displayed although the pane has been hidden.
DisplayHidden(f, img) ==
    IF Superseded(f) THEN EncodeLatest(f) ELSE [Pop(f) EXCEPT !.screen = img]

\* Seeded fault: the image is displayed although newer ones wait.
DisplayFirst(f, img) ==
    IF ~f.showing THEN [f EXCEPT !.request_queue = <<>>]
    ELSE [f EXCEPT !.screen = img, !.request_queue = <<>>]

Display(f, img) ==
    IF ~f.showing THEN [f EXCEPT !.request_queue = <<>>]
    ELSE IF Superseded(f) THEN EncodeLatest(f)
    ELSE [Pop(f) EXCEPT !.screen = img]

EncodeFailed(f) == IF Superseded(f) THEN EncodeLatest(f) ELSE Pop(f)

-----------------------------------------------------------------------------
(* The fetch.                                                              *)

RequestFromMpd(f, s) == [f EXCEPT !.queries = Append(@, s)]

BeforeShow(f, s, custom) ==
    IF s = NoSong \/ (~custom /\ s \in Disabled) THEN Show(f, Default)
    ELSE IF custom THEN [f EXCEPT !.work = Append(@, Load(s))]
    ELSE RequestFromMpd(f, s)

Empty == [current |-> Nothing, showing |-> FALSE, request_queue |-> <<>>,
          screen |-> Nothing, work |-> <<>>, queries |-> <<>>]

Init ==
    /\ song \in Songs \union {NoSong} /\ loader \in BOOLEAN
    /\ visible = TRUE /\ modals = 0 /\ is_modal_open = FALSE /\ fetch_needed = FALSE
    /\ art = BeforeShow(Empty, song, loader)
    /\ reconnected = FALSE /\ failed = FALSE /\ lost = FALSE

\* A result is dropped when it cannot be shown.
QueryFinished(f, img) == IF ~visible \/ is_modal_open THEN f ELSE Show(f, img)

-----------------------------------------------------------------------------
(* What the user, MPD and other programs do.                               *)

Room == Len(art.work) + Len(art.queries) < MaxInFlight /\ Len(art.request_queue) < 2

\* SongChanged, also sent with every status while playback is stopped.
SongChanged(s) ==
    /\ Room /\ (s # song \/ s = NoSong)
    /\ song' = s
    /\ art' = IF visible /\ ~is_modal_open THEN BeforeShow(art, s, loader) ELSE art
    /\ fetch_needed' = (fetch_needed \/ (visible /\ is_modal_open))
    /\ UNCHANGED <<loader, visible, modals, is_modal_open, reconnected, failed, lost>>

Left == IF visible THEN Hide(art) ELSE art

\* Seeded fault: the pane comes back with the image it had.
ChangeTabUnfetched ==
    /\ Room /\ visible' \in BOOLEAN
    /\ art' = IF visible' THEN ShowCurrent(Left) ELSE Left
    /\ UNCHANGED <<song, loader, modals, pane, reconnected, failed, lost>>

\* By a key or, also while a modal is open, by a remote command.
ChangeTab ==
    /\ Room /\ visible' \in BOOLEAN
    /\ art' = IF visible' THEN BeforeShow(Left, song, loader) ELSE Left
    /\ UNCHANGED <<song, loader, modals, pane, reconnected, failed, lost>>

\* A modal may replace one that is open.
OpenModal ==
    /\ modals' \in {modals + 1} \union ({modals} \ {0}) /\ modals' <= MaxModals
    /\ is_modal_open' = (is_modal_open \/ visible)
    /\ art' = IF visible /\ ~is_modal_open THEN Hide(art) ELSE art
    /\ UNCHANGED <<song, loader, visible, fetch_needed, reconnected, failed, lost>>

\* ModalClosed comes with the last modal, and with every accepted
\* configuration while there is none.
CloseModal ==
    /\ Room /\ modals' = IF modals = 0 THEN 0 ELSE modals - 1
    /\ IF modals' = 0 /\ visible
       THEN /\ is_modal_open' = FALSE /\ fetch_needed' = FALSE
            /\ art' = IF fetch_needed THEN BeforeShow(art, song, loader) ELSE ShowCurrent(art)
       ELSE UNCHANGED <<pane, art>>
    /\ UNCHANGED <<song, loader, visible, reconnected, failed, lost>>

\* The terminal was resized, or tmux shows it again.
ShowAgain ==
    /\ Room /\ visible /\ ~is_modal_open
    /\ art' = ShowCurrent(art)
    /\ UNCHANGED <<song, loader, visible, modals, pane, reconnected, failed, lost>>

\* Every pane is hidden, and what is now in the active tab shown again.
ConfigChanged ==
    /\ Room /\ loader' \in BOOLEAN /\ visible' \in BOOLEAN
    /\ LET shown == BeforeShow(Left, song, loader') IN
       art' = IF ~visible' THEN Left ELSE IF is_modal_open THEN shown ELSE ShowCurrent(shown)
    /\ UNCHANGED <<song, modals, pane, reconnected, failed, lost>>

\* The client reconnects: queries are dropped, the status counts as stopped
\* until the next one is read.
ConnectionLost ==
    /\ song' = NoSong /\ reconnected' = TRUE
    /\ art' = [art EXCEPT !.queries = <<>>]
    /\ UNCHANGED <<loader, visible, modals, pane, failed, lost>>

HandleReconnected ==
    /\ Room /\ reconnected /\ reconnected' = FALSE
    /\ art' = IF visible /\ ~is_modal_open THEN BeforeShow(art, song, loader) ELSE art
    /\ fetch_needed' = (fetch_needed \/ (visible /\ is_modal_open))
    /\ UNCHANGED <<song, loader, visible, modals, is_modal_open, failed, lost>>

-----------------------------------------------------------------------------
(* Answers.                                                                *)

Answered == [art EXCEPT !.work = Tail(@)]
FirstIs(type) == art.work # <<>> /\ Head(art.work).type = type

ImageEncoded ==
    /\ FirstIs("encode") /\ art' = Display(Answered, Head(art.work).of) /\ failed' = FALSE
    /\ UNCHANGED <<song, loader, visible, modals, pane, reconnected, lost>>

ImageEncodeFailed ==
    /\ FirstIs("encode") /\ art' = EncodeFailed(Answered) /\ failed' = TRUE
    /\ UNCHANGED <<song, loader, visible, modals, pane, reconnected, lost>>

\* The loader's image, the default one, a fall back to MPD for the file that
\* was asked for, or an output that cannot be read at all.
AlbumArtLoaded ==
    /\ FirstIs("load")
    /\ LET s == Head(art.work).of IN
       \/ \E img \in {s, Default} : art' = QueryFinished(Answered, img)
       \/ art' = RequestFromMpd(Answered, s)
       \/ art' = Answered
    /\ UNCHANGED <<song, loader, visible, modals, pane, reconnected, failed, lost>>

\* MPD has the art of the song, or none.
QueryAnswered ==
    /\ art.queries # <<>>
    /\ \E img \in {Head(art.queries), Default} :
           art' = QueryFinished([art EXCEPT !.queries = Tail(@)], img)
    /\ lost' = FALSE
    /\ UNCHANGED <<song, loader, visible, modals, pane, reconnected, failed>>

\* The query fails or its answer is late: the pane is not told, and nobody asks
\* again until the song changes or the pane is shown anew.
QueryLost ==
    /\ art.queries # <<>> /\ art' = [art EXCEPT !.queries = Tail(@)]
    /\ lost' = TRUE
    /\ UNCHANGED <<song, loader, visible, modals, pane, reconnected, failed>>

QuerySkipped ==
    /\ Len(art.queries) > 1 /\ art' = [art EXCEPT !.queries = Tail(@)]
    /\ UNCHANGED <<song, loader, visible, modals, pane, reconnected, failed, lost>>

-----------------------------------------------------------------------------
Answers == \/ ImageEncoded \/ ImageEncodeFailed \/ AlbumArtLoaded
           \/ QueryAnswered \/ QueryLost \/ QuerySkipped

Next == \/ \E s \in Songs \union {NoSong} : SongChanged(s)
        \/ ChangeTab \/ OpenModal \/ CloseModal \/ ShowAgain \/ ConfigChanged
        \/ ConnectionLost \/ HandleReconnected \/ Answers

Spec == Init /\ [][Next]_vars

-----------------------------------------------------------------------------
Encoding == \E i \in DOMAIN art.work : art.work[i].type = "encode"
Loading  == \E i \in DOMAIN art.work : art.work[i].type = "load"

\* Nothing is on the screen while the art is hidden, although encodes that were
\* requested before arrive later (facade.rs:168-172, 225-242).
HiddenIsBlank == ~art.showing => art.screen = Nothing

\* Once no encode is on its way the screen shows the image that was asked for
\* last, whatever was hidden, shown or superseded in between (facade.rs:94-181).
ScreenCatchesUp ==
    art.showing /\ ~Encoding => art.screen = art.current \/ failed

Plain   == modals = 0 /\ ~loader /\ song \in Songs \ Disabled
Settled == visible /\ art.queries = <<>> /\ ~Loading

\* As long as no modal is opened, nothing stops playback and art is fetched from
\* MPD, a visible pane for which nothing is outstanding has the art of the song
\* that plays (album_art.rs:55-92, shared/album_art.rs:10-50).  The exception: the
\* last query failed or was late (shared/album_art.rs:45, client.rs:239-253), and
\* the art of the song before stays.
PlainArtIsOfTheSong ==
    []Plain => [](Settled /\ ~lost => art.current \in {song, Default})
=============================================================================
