# A verification development for rmpc

TLA+ models of rmpc, a terminal client for MPD, and of rmpcd, its daemon, with
TLC runs and TLAPS proofs. Paths are relative to the repository's root `src/`;
`client.rs` without a directory is `rmpc/src/core/client.rs`.

Contents: [the system](#the-system), [what is modelled](#what-is-modelled),
one section per model, [the runs](#the-runs), [the proofs](#the-proofs),
[what the code does that its documents do not say](#findings),
[what is not modelled](#what-is-not-modelled), [the plan](#the-plan).

## The system

rmpc is one process of several threads that talk over channels. The *event
loop* (`core/event_loop.rs`) owns all of the state of the user interface; every
other thread only sends it an `AppEvent`. rmpcd is a second program over the
same MPD library with an asynchronous event loop, MPRIS and Lua plugins.

| Component | State it keeps | Operations | Talks to |
|---|---|---|---|
| client threads, `core/client.rs` | the one MPD connection, `HEALTHY`, the request buffer | run queries and commands, wait in idle mode, reconnect | requests from everybody through `client_tx`; results, idle events, `Reconnected` and `LostConnection` to the event loop |
| scheduler, `core/scheduler` | a heap of jobs, a timer | schedule, replace, repeat, cancel, start, stop | jobs send to the event loop and to the client |
| work thread, `core/work.rs` | none | download, search, load art, encode images, index lyrics, run programs | one answer per request to the event loop |
| event loop, `core/event_loop.rs`, `ctx.rs` | status, queue, current song, `events_to_ignore`, `reconcile_pending`, loop guards | one handler per `AppEvent` | all threads |
| queue pane, `ui/panes/queue.rs` | the shown queue, marks, selection | move, play, delete, filter | optimistic update, then a command to the client |
| downloads, `shared/ytdlp/manager.rs`, `ui/modals/downloads.rs` | downloads by id and state | queue, start next, cancel, retry, resolve | work thread; MPD's queue |
| visualiser, `ui/panes/cava.rs` | a thread, `is_modal_open` | start, pause, configure | the cava process, the terminal |
| search pane, `ui/panes/search` | a form, songs, the phase | edit, search, browse | client queries |
| album art, `ui/panes/album_art.rs`, `ui/image/facade.rs` | current image, `request_queue`, `is_showing`, `is_modal_open`, `fetch_needed` | fetch, show, hide, encode, display | client, work thread, terminal |
| tabs and modals, `ui/mod.rs`, `ui/modals` | the active tab, a stack of modals | change tab, open, close | events to panes |
| key resolver and input, `shared/keys`, `ui/input` | pending keys, the mode, text buffers | resolve, time out, edit | scheduler; `ActionResolved` through the event channel |
| lists and browsers, `ui/dirstack`, `ui/browser.rs` | contents, selection, offset, marks, one level per directory | move, mark, filter, enter, leave | client queries |
| IPC socket, `core/socket.rs`, `shared/ipc` | one stream per request in flight | accept, decode, answer | event loop, work thread |
| watchers, configuration, lyrics, theme | the parsed files | reload, validate | event loop |
| MPD library, `rmpc-mpd` | the socket, buffers | send a command, read a response, idle, noidle | MPD |
| rmpcd worker, `rmpcd/src/async_client.rs` | the connection, `idle_state`, a channel of messages | run, skip to idle, interrupt idle, shut down, reconnect | event loop and update loop of `rmpcd/src/event_loop.rs` |
| rmpcd state, MPRIS, plugins, packages | last status and song, `IS_PLAYING`, D-Bus properties, Lua state, a lockfile | handle events, tick, install | worker, D-Bus, git |

What is hard in it:

* **One connection, two users.** MPD's idle mode must be left before any
  command, by a `noidle` that another thread writes (rmpc: two threads and two
  hand-over channels; rmpcd: one worker and any number of callers).
* **Failure.** The connection breaks at any moment; requests, results and the
  callbacks they carry are dropped; threads must be got out of blocking reads.
* **Late answers.** Results carry no identity of what they were asked for; they
  arrive after a move, a new song, a closed modal, another tab.
* **Optimistic updates.** The pane shows a move before MPD has done it, and
  must ignore the change notification its own move causes.
* **Time.** Jobs, debouncing, key timeouts and hand-over deadlines race with
  the events they are about.

What makes each part correct: the connection has one owner and commands never
meet idle mode, every request settles, every change of MPD reaches the event
loop, rmpc always reconnects (client threads, rmpcd worker); no job is slept
over, replaced and cancelled jobs are gone, none is forgotten (scheduler); the
pane ends up with MPD's queue (queue moves); a queued download is started and
ends (downloads); the screen ends up with the last image asked for and with none
while hidden (album art); the cursor stays on a row and on screen, and marks stay
with their songs (lists); a browsing pane ends up with what MPD has and acts on
the songs it showed (browsers); a key sequence is ended and text arrives in the
buffer it was typed for (keys and input); the songs found are those of the last
search (search); the loops, the script and the visualiser follow the status, and
the status follows MPD (event loop). For the parts of the plan: every IPC request
is answered once, and rmpcd has one update loop exactly while MPD plays.

## What is modelled

| Module | Part | Abstract specification | Proofs |
|---|---|---|---|
| `RequestService` | what the client promises about requests | it is the abstract one | |
| `ClientTask` | client threads | implements `RequestService` (`ImplementsService`) | `ClientTaskProofs` |
| `QueueSync` | moves in the queue pane and reconciliation | | `QueueSyncProofs` |
| `Scheduler` | scheduler thread | | `SchedulerProofs` |
| `Downloads` | download manager, its menu, its worker | | `WorkProofs` |
| `AsyncClient` | rmpcd's MPD worker and its callers | | `AsyncClientProofs` |
| `AlbumArt` | album art pane, facade, fetch, tabs and modals around it | | `WorkProofs` |
| `Lists` (operators), `Rows` (operators) | `DirState`, moving and deleting rows | | `QueueListProofs` |
| `QueueList` | cursor, scrolling, marks and filter of the queue pane | | `QueueListProofs` |
| `Browser` | directories, playlists and tag browser panes | | `QueueListProofs` |
| `LineEdit` (operators), `Input` | line buffers; key resolver, modes, prompts | the text as if each key were applied when typed (`TextArrives`) | `InputProofs` |
| `Menu` (operators), `Search` | menus; the search pane with its context menu | | `InputProofs` |
| `Cava` (operators), `StatusSync` | visualiser; status, loops, script | | `StatusSyncProofs` |

`MC...` modules hold the constants of the runs. Composition is by contract:
`QueueSync` and `AlbumArt` use the client threads as "one request at a time, in
order, a superseded query may be skipped, all dropped on a reconnect, and a single
one may fail or be answered too late and then has no result", which
is what `RequestService` states and `ClientTask` is checked to implement;
`Browser`, `Search` and `StatusSync` do the same, and `Input` uses of the scheduler
that it obeys its commands in order, as `Scheduler` is shown to. A late answer
(`client.rs:239-253`) also costs what MPD had to report: the request thread connects
anew by itself and sends no `Reconnected`. Nobody repeats a query. Where its result
is missing, a history variable says so until the next one that makes up for it
(`missed`, `lost`, `apart`), and the convergence properties name that
as their exception: everything else must still come right.
Operators named as a seeded fault (`...Unchecked`, `...Unsent`) are not part of
a model: each is a plausible bug that the property it belongs to must find.

In every model MPD, the socket, yt-dlp, the terminal and the user are the
environment: each does anything its side of the interface allows.

## The MPD client threads (`ClientTask`, `RequestService`)

One MPD connection, the `Client`, is shared by two worker threads that a
supervisor starts. The *idle* thread waits on the connection for change
notifications, the *request* thread runs commands on it. The `Client` travels
over `client_return` (capacity one) and every hand-over is confirmed over
`client_received` (capacity zero), which both threads use in both directions.

| Code (`client.rs`) | Model |
|---|---|
| position of the supervisor, idle and request threads | `task`, `idle`, `req` |
| `HEALTHY`, `first_loop` | `healthy`, `first` |
| `client_return` | `returned`, the number of `Client`s in it |
| a `ClientDropGuard` or local that owns the `Client` | `TaskHolds`, `IdleHolds`, `ReqHolds` |
| a send and the receive it meets on `client_received` | the joint actions of `HandOver` |
| `request_rx`, the local `buffer` | `requests`, `buffer` |
| the stream and MPD at its other end | `up`, `idling`, `wire`, `flags` |
| the last `Reconnected` / `LostConnection` sent | `told` |

`health!` loads `HEALTHY` first and evaluates its expression second. Before a
receive without a deadline the two are separate steps (`IdlePoll` and
`IdleAcquire`, `ReqClaim` and `ReqAcquire`); elsewhere nothing another thread
does in between can be told apart from doing it before or after.

Faults are kinds in `FaultKinds`, so a run says which it meets: a broken
connection, a reconnect that fails, a hand-over deadline missed by healthy
threads, a response later than the read timeout, a write that fails while reads
do not, a socket that falls silent (`stall`), and a fault before the first
confirmation (`handshake`).

Checked: hand-overs are sound (`HandOverIsSound`: the `Client` is in one place,
the two sides do not both wait for a confirmation, a result is never discarded
by `health!`), what is written meets MPD in the mode it is meant for
(`MpdModeIsRespected`, for commands and for `noidle`), requests keep their
contract (`ImplementsService`), and, under fairness, the client recovers
(`Recovers`), requests settle (`RequestsSettle`) and changes are reported
(`ChangesReachTheEventLoop`).

Fairness: every thread that can take a step does (`WF` of each thread and of the
hand-overs they do together). The request thread's `select!` is the one choice
that needs more, `SF_vars(ReqTakeRequest)`: crossbeam picks among ready
operations at random, so an idle event does not win for ever. MPD is only
assumed to answer what it has read, the user to do nothing at all. `StallsEnd`
assumes that a silent socket does not stay silent: `client.rs:212` waits with no
deadline, and only TCP keepalive, which is opt-in, or an answer ends that wait.
Safety does not depend on it.

## Queue moves and reconciliation (`QueueSync`)

| Code | Model |
|---|---|
| MPD's queue, a pending playlist notification | `server`, `notify` |
| `client_tx`, the `AppEvent` channel | `requests`, `events` |
| the queue pane's items | `view` |
| `events_to_ignore[Playlist]`, `reconcile_pending[Playlist]` | `ignoring`, `pending` |
| a `MoveUp` / `MoveDown` handler under way | `todo`, `announced` |
| the reconcile job and those cancelled too late | `job`, `zombies` |
| a result or a report was lost and not made up for; a reconnect dropped a move | `missed`, `dropped`: history |

`MoveUp` and `MoveDown` take any set of marked songs. Their handler swaps the
items, sends `IgnoreIdleEvent` and queues the move, block by block; each is a
step, because the client and the scheduler go on meanwhile. The move's callback
sends `UnIgnoreIdleEvent`; the last one schedules the Reconcile job, and until
that has run playlist idle events are swallowed.

A move or a query may fail or be answered late (`ClientMovesUnanswered`,
`ClientQueriesUnanswered`; `OtherAnswerLate` is the late answer to some other
request): the move's callback sends its UnIgnore all the same, the query has no
result.

Checked: every Ignore has exactly one UnIgnore outstanding, or lost if a reconnect
has dropped a move, so that the unsigned counter never underflows
(`IgnoresBalanced`), `pending` means a Reconcile is coming
(`PendingReconcileComes`), and the pane shows MPD's queue once everybody stops
(`ViewConverges`), through reconnects, failing moves and late answers. The
exceptions are those in which the code never asks again: a reconnect has dropped a
move, or the result or report that would have brought the queue was lost and none has
followed. Fairness: the event loop, the client and the scheduler thread go on;
foreign clients, the user and reconnects are bounded and need not happen, and neither
need a failure or a late answer, which any request may meet.

A known race that no run keeps: a queue result that MPD produced before a move is
handled after it (`event_loop.rs:651`), so the pane shows the old order until the
Reconcile; a second move made meanwhile is computed from positions that are no
longer MPD's and moves other songs than the user saw. The pane still converges.

## Scheduler (`Scheduler`)

| Code (`core/scheduler`) | Model |
|---|---|
| `add_job_rx` | `commands` |
| the thread's `BinaryHeap`, `timeout` receiver | `heap`, `timer` |
| position in the loop, `now`, the job taken | `pc`, `now`, `running` |
| the join handle, `TaskGuard`s | `handle`, `guards` |
| `Instant::now()` | `clock`, which may advance between any two steps |
| | `latest`, the last command per id: history |

The thread takes one command or one timeout per round, reads `now`, runs at most
one job that is due and arms the timer. `MaxBusy` bounds how many ticks pass
while the thread is not waiting, in other words how slow a job is.

Checked: while the thread waits its timer is set for every job it holds, late by no
more than the thread was busy since it read `now` (`TimerCoversJobs`: no round,
whatever it took, ran or left, may sleep over a job), the heap, the running
job and the channel hold what the last command for each id asked for
(`HeapIsCurrent`), and under fairness of the thread and the clock every job is run,
repeated, replaced or cancelled (`JobsSettle`) and `stop()` returns (`StopReturns`).

## Downloads (`Downloads`)

`queue` is the manager's map from id to state, `work` and `answers` are the
channels to and from the work thread, `menu` is what the open menu of the
downloads modal will do. A menu keeps the entry that fitted the state at the time
it was opened: an item that starts meanwhile can still be cancelled from it.
Ids grow, so `queue` is a sequence.

Checked: what is shown as downloading has an answer coming (`ShownIsInFlight`),
of two that are shown as downloading the lower id was retried from its menu
(`OneAtATimeUnlessRetried`, which speaks of the history `retried`: that a step starts a
second download only when it is itself the retry is false, since a stale menu may
cancel the lower of two that run, and the next answer then finds another to
start), and every download ends (`DownloadsSettle`).
Fairness: yt-dlp ends and the event loop handles its channel. Menus are bounded,
so a retry is never the reason that a download does not settle.

## rmpcd's MPD worker (`AsyncClient`)

| Code (`rmpcd/src`) | Model |
|---|---|
| position in `worker_loop`, `idle_state` | `worker`, `idle_state` |
| the channel of `Msg`s | `rx`; a `Run` is named for its caller, `orphan` when that gave up |
| each caller in `run` and `preempt_idle` | `at`, `task`, `resp` |
| the event loop's channel | `app` |
| the socket and MPD | `up`, `idling`, `wire`, `flags` |

The callers are the event loop and the update loop. A caller queues its message,
then exchanges `idle_state`, then writes `noidle`: three steps. The worker sets
`idle_state`, then looks at the channel once more before it reads.

Checked: commands stay out of idle mode (`CommandsOutsideIdle`), a message that is
queued while MPD idles has a caller about to interrupt it
(`QueuedMessagesInterrupt`, no lost wake-up), calls settle (`CallsSettle`), and as
long as an update loop ticks every change of MPD is reported
(`ChangesAreReportedWhileTicking`). Fairness: the worker, each caller and the
event loop go on; ticks keep coming while playing; `DrainsEnd`, because a drain of
the channel ends when callers wait for their answers. The two atomics are
sequentially consistent in the model; the code uses `Release` for the store at
`async_client.rs:121`, so orders that a weaker memory would allow are not explored.

## Album art (`AlbumArt`)

| Code | Model |
|---|---|
| `Ctx::current_song()`, `custom_loader` | `song`, `loader` |
| the pane is in the active tab; `Ui::modals` | `visible`, `modals` |
| `AlbumArtPane` | `is_modal_open`, `fetch_needed` |
| `AlbumArtFacade`, and what it asked the worker and the client for | `art` (`ArtType`) |
| what the terminal shows | `art.screen` |

The facade's operations are functions on its record (`Show`, `ShowCurrent`,
`Hide`, `Display`, `EncodeFailed`), the pane's handlers actions that apply them.
The answers come in the order of the requests of each channel, but in any order
with the user's events. A query may have none (`QueryLost`). A song in `Disabled` has
a protocol for which art is not fetched.

Checked: nothing is on the screen while hidden (`HiddenIsBlank`), the screen
catches up with what was asked for last (`ScreenCatchesUp`, which also says that an
image that waits has an encode on its way that will look at it), and while no modal
opens, nothing stops and no disabled song plays, the art is that of the song
(`PlainArtIsOfTheSong`) unless the last query had no answer (`lost`). What modals,
stops and such queries lose is listed under [findings](#findings).

## Lists and the queue pane's cursor (`Lists`, `Rows`, `QueueList`)

| Code | Model |
|---|---|
| `DirState` (`ui/dirstack/state.rs`): selected, offset, `content_len`, `viewport_len`, marked | the record `List`: `sel`, `off`, `len`, `view`, `marked` |
| its methods, and the searches of `Dir` | operators of `Lists` |
| the queue pane's items, list and filter (`ui/panes/queue.rs`) | `items`, `list`, `filter` |
| what the user has marked; has MPD changed the queue under it | `meant`, `stale`: history |

`Lists` has no variables: each method is a function on the record, in the order
of the code's assignments, with the code's saturating subtractions, and with the one
that wraps (`state.rs:316-317`, modulo `UsizeMax + 1`). `QueueList` runs them from the
pane's handlers: keys, clicks, wheel, scrollbar, filter, marks, moves, and what the
event loop tells the pane. Rendering is an action of its own because it is what
measures the list: the event loop draws at most once per frame, so several other
events may fall between two renderings. Which items match a filter is left open.

Checked: the cursor is on a row and on screen, and the screen is not scrolled
past the end (`CursorStaysShown`); a cursor that moves keeps `scrolloff`
(`ScrolloffKept`); marks are on the songs that were marked (`MarksKeepTheirSongs`)
until MPD changes the queue, after which they keep their rows, see
[findings](#findings). All of it holds for queues, tables and scrolloffs of every size
by proof.

## Browsing panes (`Browser`)

| Code (`ui/browser.rs`, `ui/panes/{directories,playlists,tag_browser}.rs`) | Model |
|---|---|
| which of the three panes | `kind`, chosen at the start |
| `DirStack`: path, and the lists by path | `stack` |
| queries waiting, superseded by their `replace_id` | `asks` |
| `QueryFinished` events, and idle events | `answers`, `notices` |
| the confirmation of a deletion that is open | `confirm` |
| MPD's containers and songs | `world` |
| the lists and songs whose question had no answer; a REINIT was dropped; answers that may lead to a question | `missed`, `lost`, `owed`: history |

Two levels: containers and their songs; deeper directories repeat the first, and
the levels of a tag come in one answer. `FetchFinished`, `InitFinished`,
`ReinitAtRoot`, `ReinitInside` and `ReinitDropped` are the ways an answer is taken.
A question may be refused, fail or be late (`WorkLost`; `OtherAnswerLate` when it was
asked elsewhere), those that a handler asks and waits for, too: then `ReinitInside` and
`ConfirmDelete` leave the pane as it is, and `MoveSongs`, which moves the chosen rows
block by block, may have moved some in MPD (`Begun`). `Reconnect` drops what was asked.

Checked: when nothing is on its way the pane shows what MPD has (`PaneConverges`),
but for the very list or songs whose question had no answer, and what
a lost report or a dropped REINIT would have brought; left alone, it stops asking (`AnswersSettle`, about the history `owed`: when the user
or MPD does something, each question and answer on its way may once lead to another
question, and after that none may; an invariant, so that no fairness is
needed. A fixed bound on such answers would be false: several changes of MPD
leave several lists on their way); a
relisted pane leaves the cursor on its item (`CursorStaysOnItem`); a confirmed
deletion takes the songs that were shown (`DeletesTheChosen`, with the deletion done
as one command per row from the last row on).

## Keys, modes and buffers (`Input`, `LineEdit`)

| Code | Model |
|---|---|
| the event channel (`shared/events.rs`), terminal keys in it | `events` |
| `KeyResolver::buffer` and its timeout job (`shared/keys/key_resolver.rs`) | `pending`, `commands` (to the scheduler), `job` |
| `InputManager`: mode and buffers (`ui/input`) | `mode`, `lines` |
| `LineBuffer`: text, cursor, window | a record of `LineEdit` |
| the stack of modals, an input modal's callback | `modals`, `called` |
| what was typed for the buffer of the mode | `session`: history |

A key is resolved when it is taken from the channel, in the mode of that moment;
what it resolves to is sent as a new event, behind what has been typed meanwhile.
A sequence that may go on waits for a job of the scheduler, which may fire before a
cancellation reaches it. The trie is the function it stands for. A pane with a
filter, a menu that opens a prompt, and that prompt stand for all panes and modals.
`MCInput` also compares every edit of `LineEdit` with what it promises, over
all lines of up to three graphemes, one of them wide (`EditsKeepOrder`).

Checked: what was begun is ended by a key or a timeout that is coming
(`PendingEnds`); a text arrives as if each key had been applied when it was taken,
provided no action or text was on its way when the mode was entered (`TextArrives`,
see [findings](#findings)); a prompt acts once, however often it is confirmed
(`ActsOnce`). All three hold for any keys and bindings by proof.

## Search and menus (`Search`, `Menu`)

| Code | Model |
|---|---|
| `InputGroups` and the inputs of the form (`ui/panes/search`) | `form`, `focus`, computed from `config` |
| `Phase`, the songs, the active buffer | `phase`, `results`, `insert` |
| the search query waiting, its answers | `asks`, `answers` |
| `MenuModal` and its sections (`ui/modals/menu`) | `menu`, operators of `Menu` |
| the query of the last search; why the songs may differ from the form | `wanted`, `apart`: history |

A result is represented by the query it answers and a number of songs. A search may
fail (MPD refuses a custom query or a regular expression) or be late, and then no
result comes (`WorkLost`). The spinner for diacritics begins at what is configured, and
is reset to that. Checked: the songs are those of the last search
(`ResultsOfLastSearch`) and, without a search button, those of the form
(`ResultsOfForm`), with the exceptions that `apart` records, a last search without
result among them; the context menu always has exactly one
highlighted item, whatever keys, clicks, wheel and searches are mixed
(`MenuIsHighlighted`).

## Status, loops, script and visualiser (`StatusSync`, `Cava`)

| Code (`core/event_loop.rs`) | Model |
|---|---|
| `ctx.status`, the field `ctx.current_song`, `ctx.song_played` | `status`, `song`, `played` |
| `_update_loop_guard`; `db_update_start` and its guard | `polling`, `rendering` |
| status queries by `replace_id`, the `AppEvent` channel | `requests`, `app` |
| the `on_song_change` program that a step runs | `script` |
| `CavaPane` (`ui/panes/cava.rs`) | `cava`, operators of `Cava` |
| the tab, tmux, the modals (`ui/mod.rs`) | `ui` |
| MPD, its pending notifications, the connection | `mpd`, `idle`, `link` |
| what was heard, told, last played, missed; was the interval changed during playback | `history` |

`HandleStatus` is the whole handler of a status result with everything it sets off:
both loops, `PlaybackStateChanged` to the pane, the song change. The visualiser's
thread takes commands over a rendezvous channel; while cava prints nothing it takes
none, the sender gives up after three seconds, and the error ends the UI handler
half-way, which the model keeps (`ChangeTab`, `ChangeConfig`). A reloaded configuration
replaces the interval, too, and leaves the loop as it is.

Checked: MPD is polled only while rmpc believes that it plays, and exactly then if an
interval is configured and has not been changed since playback began; frames for a
database update are drawn exactly while one runs (`LoopsFollowStatus`); the script
runs once per new song with the right `PREV_SONG` (`ScriptFollowsSong`); bars are
drawn where and when they should (`BarsFollowPlayback`); once MPD and the connection
rest, rmpc shows what MPD does (`StatusConverges`). The last has one exception, an
answer so late that the request thread reconnects by itself, unless polling repairs
it. Fairness: the idle thread, the request thread, the update loop and the event loop
go on. `SF_vars(Answer)`: a query is skipped when the same one is queued behind it,
so weak fairness would let an update loop that polls faster than the client supersede
every query for ever; it polls once per interval.

## The runs

| Run | Instance | Distinct states | Shows |
|---|---|---|---|
| `ClientTask_threads` | 3 requests, 1 key, 2 faults of 6 kinds | 284 744 | hand-overs, MPD's mode, the refinement of `RequestService`, recovery, settling, reporting |
| `ClientTask_handshake` | 0 requests, 1 fault | violation | a connection that breaks before the first confirmation blocks the supervisor |
| `QueueSync_moves` | 4 songs, 1 move, 1 foreign change, 1 reconnect, any request without a result | 892 415 | the counter, the job, convergence |
| `Scheduler_jobs` | 1 replaceable id, 1 repeated job, delays 1 and 2, clock to 5, 3 commands, 2 starts | 305 806 | no job slept over, stale or forgotten; `stop()` returns |
| `Downloads_queue` | 3 downloads, 4 menus | 17 650 | one at a time, shown as it is, all end |
| `AsyncClient_worker` | both callers, 1 break, 1 timeout | 174 864 | idle mode, interruption, settling, reporting |
| `AlbumArt_pane` | 3 songs, 1 of them disabled, 2 modals, 3 requests in flight | 1 306 272 | hidden is blank, the screen catches up, the art is the song's |
| `QueueList_cursor` | up to 4 songs, tables of 1 and 3 rows, scrolloff 1, wheel 2 | 19 590 | cursor, scrolloff and marks |
| `Browser_panes` | 3 panes, 3 libraries, 3 keys, 1 foreign change or reconnect | 1 155 097 | convergence, an end of questions, cursor and deletion |
| `Input_keys` | 5 keys of 5, a begun sequence, 2 modals | 2 349 074 | sequences end, text arrives, prompts act once |
| `Search_form` | 2 forms, 6 keys, 1 event | 789 654 | the songs and the menu |
| `StatusSync_playback` | 2 songs, 2 messages in flight, 1 with the visualiser, 1 modal | 493 344 | loops, script, bars, convergence |

Why the bounds are enough. *Client:* three requests are the fewest where one
is being processed, one is buffered and one arrives, and where a query can be
skipped for one that is skipped itself; two faults let a second one hit during the
recovery from the first, and let a late answer take the read timeout away from the
answer that then stays out. *Queue:* four songs are the fewest with which
`MoveUp` moves two blocks, so that its handler interleaves with the first
block's callback; a foreign change and a reconnect may fall anywhere. One user
action is a real limit: handlers cannot overlap (they run in the event loop), but a
second action before the first one's Reconcile is only represented by the second
block of the first. *Scheduler:* three commands allow add, replace and
cancel of one id in any order with a repeated job; two starts allow a stop
between. *Downloads:* three ids allow a retry below and above the one that is
running. *Worker:* one queued event plus both callers fill every place of the
protocol; the paths after a second break repeat those after the first. *Album
art:* three in flight are an encode, the one that follows a hide, and a query;
two waiting images are superseded, more of them only grow the queue. *Queue list:*
four songs on three rows scroll both ways with scrolloff on both sides, one row is
smaller than twice the scrolloff; all queues of at most four songs are states, and
no number of steps is bounded; `UsizeMax` is 255, far beyond any row. *Browser:* three keys enter a container, act and leave
it while an answer to each is on its way; there are no containers, one with two
songs, or two of which one is empty, and any change between these or a reconnect falls
anywhere; no bound is set to the questions that have no answer.
*Input:* five keys open a menu and its prompt and type into that; a two-key
sequence whose first key is bound, too, is the case with a timeout; one letter is
wide. *Search:* six keys reach every input and the menu's ends; the two forms
together hold every kind of input. *Status:* one message handled while one more is on its
way is where answers cross events; MPD changes songs only without the
visualiser, and updates its database only in a choice of its own (`updates`), in
which rmpc does not poll: the parts of the status handler for song, database and bars read and write different fields,
so that combining them multiplies the states and adds no order of events that
matters to one of them. The theorems of `StatusSyncProofs` hold without
the bounds.

`CHECK_DEADLOCK FALSE` is set only where the environment is bounded and the
system may rightly come to rest with nothing to do. `ClientTask`, `AlbumArt`,
`QueueList` and `StatusSync` are checked for deadlock.

## The proofs

TLAPS proves for every value of the constants, from the named assumptions in the
modules (finite bounds, disjoint sets) and nothing else:

* `ClientTaskProofs`: `TypeCorrect`, and `HandOverInvariant`, from which the two
  checked properties (`HandOversAreSound`, `MpdModeAlwaysRespected`) and their parts
  follow, for any number of faults of every kind, `handshake` and `stall` included.
  None of the parts is inductive: that commands stay out of idle mode rests on who
  may hold the `Client`, which rests on which pairs of positions of the three
  threads can meet, which rests on `HEALTHY` being lowered only by a thread that
  gives up. `HandOverInv` adds exactly these: `ThreadsOnlyInJoin` (workers run only
  while the supervisor waits for them), `FirstMeansStarting`, `Phases` (the pairs of
  positions) and `OutOfIdle` (where MPD cannot be idle). `ServiceIsImplemented` is the
  refinement of `RequestService`: each action is a step of the service, or leaves its
  view (buffer, then channel) alone. It needs `HandOverInv`, since the branches for
  `HEALTHY` lowered during a round are unreachable, and `EmptyOutside`, that the buffer
  is empty outside of a round: were it not, a reconnect would drop the newest
  requests and keep the oldest.
* `SchedulerProofs`: `TypeCorrect`, and two inductive invariants. `SchedulerInv`
  gives `HeapStaysCurrent` and `RepeatedJobsAreUnique`; `TimerInv` gives `JobsAreWoken`:
  until the timer is armed the clock is ahead of `now` by no more than the thread has been
  busy (`LagStep`), and the job the timer is armed for is the earliest of those held.
  `HeapIsCurrent` is not inductive without `RepeatedOnce`: `AddRepeatedJob`
  replaces nothing, so that an id is held once rests on each guard's id being
  sent once, which is what `RepeatedOnce` says of channel and heap together.
* `AsyncClientProofs`: `TypeCorrect`, and `IdleInvariant`, from which
  `CommandsNeverMeetIdle`, `NoLostWakeUp` and `PreemptionIsWritten`
  follow. `IdleInv` adds to these that MPD is quiet outside of the
  worker's idle places (`QuietOutsideIdle`) and that `idle_state` follows the
  worker (`StateFollowsWorker`). The lost wake-up is excluded because a caller's
  message is in the channel before it exchanges the state, and the worker's
  state is set before it looks: whichever is second sees the other.
* `QueueListProofs`: lemmas say of every operator of `Lists` that
  it keeps a list that shows its cursor showing it, and that a cursor that
  has moved keeps its margin (`Keeps`). The invariant is then just that the list shows
  its cursor and the items are a sequence (`IInv`), and the theorems
  `CursorIsShown`, `ScrolloffIsKept` and `WheelUpIsUp` follow action by action. The
  arithmetic is that of the code, subtractions that saturate or wrap included;
  `WheelUpIsUp` names the two conditions under which the wrapping one is harmless.
  `MarksAreOnTheirSongs` needs `MarksInv`: in a queue without duplicates the songs at
  the marked rows are those meant, and the list has the queue's length or has not been
  measured. The actions that move rows rest on what a pass of swaps computes
  (`ShiftedMoves`): every marked row is taken one further, and no song is duplicated,
  because no swap runs over a row that has been moved. That is shown with the least
  step of the pass at which it fails, which cannot be.
  For the browsing panes, with any collections, keys and changes, all four checked
  properties: `PanesConverge`, `PanesSettle`, `CursorStays` and `TheChosenAreDeleted`.
  The invariant, `PanesInv`, has a shape (what is shown below the root is the container
  under its cursor, no two questions have the same `replace_id`) and two parts. `Fresh`:
  once the pane has been told of all changes and its list is answered, every answer
  since the last list on its way is what MPD would say now; with no list on its way the
  lists the pane has are MPD's, and the songs under the cursor are known, asked
  for, coming, or their question has no answer. Both ways a question ends keep it:
  turning it into its answer (`AnsweringIsFresh`), and taking it away if that is noted
  in `missed` (`LosingIsFresh`); what was never reported, and a list that was
  never answered, count as something the pane has not been told (`Unheard`).
  `Enough`: `owed` is at least the number of answers, given or to come, that can still
  lead to a question; one with songs of the container under the cursor cannot. What
  `RowsDeleted` computes is proved by a least counterexample: a row deleted after all
  those above it leaves the rest in order (`ShrunkByOne`).
* `QueueSyncProofs`: `IgnoresAreBalanced` and `ReconcileComes`. That the counter
  is zero or more is not inductive: what prevents an underflow is the order of the
  channel. `IInv` says of every prefix of the channel that it holds no more UnIgnores
  than Ignores plus the counter (`InOrder`), and that every Ignore is owed at most one
  UnIgnore, exactly one until a reconnect drops a move (`Owed`, which counts the
  requests whose callbacks have not run). Lemmas about counting
  in sequences carry it over appends and tails. `PendingReconcileComes` needs only
  its own preservation and that the channels are sequences.
* `InputProofs`: `SequencesEnd`, `PromptsActOnce` and `TypedTextArrives`. `PendingEnds` is inductive
  once the channels are sequences, because the cancellation of a key is queued before
  the new timeout and the scheduler takes commands in order; the opposite
  order is the seeded fault. `TextArrives` compares two lines, which no step can be
  shown to keep by itself. `TextInv` compares sequences of keys: what was typed for the
  buffer is what has been applied to its line, then the text in the channel, then what
  waits in the resolver. Each handler moves keys over one of the two borders, or drops
  from the end what was an action. The property follows because edits in two parts are
  the edits of the whole (`EditAllInParts`), and the text of two channels one after the
  other is that of both (`QueuedInParts`). For the search pane, with any form and any number
  of questions and answers, `SongsOfLastSearch` and `SongsOfForm`. What is
  inductive is `PaneInv`: the last of what is on its way, or else the results, is for
  `wanted` (`LastSearch`; a question takes the place of the one before it, and an
  answer is only ever behind older ones), while the last search was not
  one without a result (`Followed`); `wanted` is what the form asks for unless
  something set them apart or a box is being typed into (`FormSearched`), and that a
  box is still typed into in the list of songs or behind the menu is one of the
  recorded reasons (`StrayedIsApart`). `OneHighlight` rests on lemmas about every operator of
  `Menu`: a menu with any number of sections and items, empty ones included, that has
  one highlighted item has one after each key, click, turn of the wheel and search
  result. That a search has a first and a last hit is well-founded induction over the
  natural numbers.
* `StatusSyncProofs`, with any number of reloads: `LoopsAlwaysFollow`, `ScriptAlwaysFollows` (an action
  property) and `BarsAlwaysFollow`. `Heard` is what the script needs: the song last
  heard of is the current one unless stopped, and `song_played` is set unless
  stopped. `Right` is what the bars need beyond the property itself: a visible pane
  has had its thread spawned, and rmpc only believes in playback after it
  has told its panes. One lemma shows that every event of the pane keeps `Right`.
  `StatusTypeCorrect` adds what travels between the threads and MPD: the events of one
  idle answer, in whatever order, are a sequence because they are finitely many
  (`ChangesAreEvents`), and a script never runs for anything but a song.
* `WorkProofs`, the components that use the work thread. For the downloads, with any
  number of downloads and menus, `DownloadsAreInFlight` and `OneDownloadAtATime` from
  `ManagerInv`: each that is shown as downloading has a place among the requests or
  the answers (`ServedIn`, which the counts of `ShownIsInFlight` follow from), and
  whatever is open before one that is downloading was retried (`BehindIn`). The second
  part is about queued downloads too: a queued one below a running one is the next to
  be started. For the album art, with any songs and any number of modals and of
  requests in flight, `HiddenArtIsBlank`, `ScreenIsCurrent` and `ArtIsOfTheSong`.
  None is inductive: `FacadeInv` says that a hidden art has nothing waiting, that
  what waits last is the current image and has an encode coming that will look at it,
  that while at most one image waits the newest encode is of the current one, and that
  with none coming the screen holds it, unless the last encode failed. The third
  part is the reason the others survive an answer: only an encode that is not
  superseded is drawn. `PlainArtIsOfTheSong` is proved with `PlainInv`, which holds as
  long as its premise does: no modal is open, nothing loads, and a visible pane has
  asked last for the art of the song, or has its answer, or will have none (`lost`).

All proofs are split by action; the temporal step is `PTL` over the facts
`Init => Inv`, `Inv /\ [Next]_vars => Inv'` and `Inv => Property`.

`TypeOK` is proved for `ClientTask`, `Scheduler`, `AsyncClient`, `AlbumArt`,
`StatusSync` and `Downloads` (`ManagerTypeOK`), the type of the list for `QueueList`,
the shape of the form for `Search`, that of the stack, the questions and the answers
for `Browser` (in `PanesInv`); in the other modules it documents the variables.

Only model-checked: the liveness properties, since what needs fairness is out of the
prover's reach (`Recovers`, `RequestsSettle`, `ChangesReachTheEventLoop`,
`ViewConverges`, `JobsSettle`, `StopReturns`, `DownloadsSettle`,
`CallsSettle`, `ChangesAreReportedWhileTicking`, `StatusConverges`), and what single
edits do to a line (`EditsKeepOrder`), which `MCInput` enumerates. Every invariant and
every action property that a run checks is also a theorem. Where one is about what a
recursive function computes from data (`Shifted`, `RowsDeleted`, `EditAll`, and
`FlattenSeq` of the community modules), its proof takes the least step at which the
claim fails, since the library's induction rules cannot be used.

## Findings

A disagreement of the code with its documents that a run shows:

* `client.rs:170`: the supervisor waits without a deadline for the idle
  thread's first confirmation. If that thread fails before it, nobody ever sends,
  and rmpc never reconnects (`ClientTask_handshake`; `CHANGELOG.md:445`).

What the code does that a user or a document would not expect, met while modelling.
The properties name each where it is an exception to them.

*Connection.* A response later than the read timeout makes the request thread
reconnect by itself (`client.rs:239-245`): the read timeout is not set again, no
`Reconnected` is sent, and changes that MPD had not reported are lost. That query, like
one that fails (`client.rs:247-253`), has no result and nobody repeats it: the queue, the
album art, the browsing panes and the search keep what they had until something else
makes them ask. A listing that fails is answered without a path, and nothing happens
(`directories.rs:202-211`; a timeout is swallowed there, so that the client does not even
reconnect). A `noidle`
that is never answered blocks every request for ever (`client.rs:212`). In rmpcd a
late `noidle` ends the next idle mode with no events and the worker then waits
outside of idle mode until somebody calls it (`async_client.rs:131`): paused plugins
hear nothing (`rmpcd/src/lua/types/rmpcd.lua:22`).

*Queue.* A reconnect drops a queued move with the callback that would have sent its
`UnIgnoreIdleEvent` (`queue.rs:942`), and every later queue change is ignored.
Marks are row numbers: when MPD changes the queue they stay on their rows
(`queue.rs:539-541`), so Delete takes other songs, `items()` indexes beyond the end
(`queue.rs:178`) and a move swaps beyond the end. With a scrolloff of the
table's height or more the wheel turned up wraps and the cursor jumps to the
end (`state.rs:316-317`); after the table has grown, a wheel turned up may move the
cursor down to its margin.

*Downloads.* Retrying a lower id while a higher one is downloading makes two
downloads (`ytdlp/manager.rs:105`; the comments at lines 124 and 127).

*Album art.* The answer to a query for a song that was stopped replaces the default
art (`album_art.rs:74`; `CHANGELOG.md:459`). A result that arrives while a modal is open, or
after the tab was left, is dropped without setting `fetch_needed`
(`album_art.rs:69-71`): the old art comes back. `ModalOpened` counts only while
the pane is visible, so a remote command that switches to its tab under a modal draws
over it (`CHANGELOG.md:417`).

*Browsers.* An empty container under the cursor is fetched again with every answer
(`browser.rs:133`). A tag's songs that are fetched twice are appended twice. A REINIT is
dropped when the root had nothing selected (`playlists.rs:260-268`), carries old marks
over (and `browser.rs:788-806` may index beyond the end), and moving several
songs of a playlist moves only their marks until it; a move at the edge of a playlist
is sent to MPD all the same. An error between two blocks leaves MPD with some of them
moved (`playlists.rs:478`). A duplicate answer for a
directory resets its cursor; a click on a song in the preview puts the cursor on
the first row.

*Keys.* Keys typed faster than actions are executed are resolved in the old mode and may
reach another buffer or none. A stale `KeyTimeout` ends a newer sequence early.
A prompt that a menu opens is left in normal mode, because the menu hides after it;
`FocusInput` between hide and `PopModal` leaves the mode in a buffer that is gone. A
prompt whose callback fails stays open without one (`input_modal.rs:179`, `210`); the
model hides it, as both do nothing when confirmed again. The
caret may be beyond the window drawn (`buffer.rs:372`) before two wide graphemes.

*Search and menus.* An answer that was on its way fills the results again after Reset
or Delete. A click into the preview while typing leaves insert mode in a box that is
not focused; a list that is replaced orphans its filter's buffer. With
`search.tags = []` focusing recurses without end. An empty list section traps the
highlight, and Top then Confirm indexes into it (`list_section.rs:131`).

*Status and visualiser.* A reload of `status_update_interval_ms` during playback
replaces the interval but not the update loop (`event_loop.rs:175-192`): rmpc goes on
polling without one, or does not begin to poll with one, until playback begins anew.
The script runs at every status while stopped with a current
song, and again, without `PREV_SONG`, after a reconnect. Saving a changed playlist
(`event_loop.rs:529-543`) may run after another one has been loaded. The bars are
drawn over a modal after one was closed while paused (the flag stays up), or when
`PlaybackStateChanged` or a tab switch comes under a modal; with a stale flag a
configuration change leaves none. They go on after `LostConnection` if MPD comes back
stopped, since the state does not change then. A thread that has ended is not
spawned again; while cava prints nothing each command waits three seconds and the
tab cannot be left. `bars - 1` underflows in an area narrower than one bar
(`cava.rs:289`).

## What is not modelled

* Weak memory (see `AsyncClient`); the atomics of `client.rs` are only flags.
* rmpcd's event loop ends with the first failed call (`event_loop.rs:74`), which
  is an action of `AsyncClient`; the state it keeps, `IS_PLAYING`, MPRIS and the
  plugins' events are not modelled. They are planned as `DaemonLoop`.
* The IPC socket: planned as `IpcSocket`. Each request is answered from the event
  loop or by a drop; the commands that need MPD are modelled with the client threads.
* The text of MPD's protocol: parsing of responses and filters is planned as
  `RequestFraming`; idle mode, errors and broken connections of it are in `ClientTask`
  and `AsyncClient`.
* Of the event loop: volume and sticker queries, messages, the cache of
  stickers, and saving a changed playlist, each one query and one assignment.
* Of panes and modals: drawing, layout, and every action that sends one command and
  keeps no state; modals that show a list or ask one question. They run `Lists`
  or `Menu`, whose operators are checked with the queue pane and the context menu.
* The image backends and terminal protocols, tmux and clipboard, configuration,
  theme and command-line parsing, lyrics files, yt-dlp and cava themselves, Lua
  plugins, the D-Bus interface and the package manager: input and output,
  conversions or foreign programs. `PROJECT.json` gives a reason for each.

## The plan

The order in which the models were and will be written, by what breaks most
visibly for the user:

1. `RequestService`, `ClientTask` with proofs: everything depends on the connection.
   Done.
2. `QueueSync`, `Scheduler`, `AsyncClient` with proofs, `Downloads`, `AlbumArt` with
   proofs. Done.
3. `Lists`, `Rows`, `QueueList`, `Browser` with proofs. Done.
4. `Input`, `LineEdit`, `Menu`, `Search` with proofs. Done.
5. `StatusSync`, `Cava` with proofs. Done.
6. `DaemonLoop`, composed with `AsyncClient`: `IS_PLAYING` and the number of
   update loops, the state given to MPRIS and plugins, after reconnects too.
7. `IpcSocket` and `RequestFraming`: one answer per request; the response reader
   of `rmpc-mpd` against a reference parser.
8. Proofs of every invariant and action property of the runs. Done; those of new
   components are to follow.

Each new component gets one run for its safety and liveness together, and a run
that must fail only where a document disagrees with the code.
