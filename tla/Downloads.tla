------------------------------ MODULE Downloads ------------------------------
(***************************************************************************)
(* The yt-dlp downloads of rmpc/src/shared/ytdlp/manager.rs: the manager's *)
(* queue in the event loop, the menu of rmpc/src/ui/modals/downloads.rs,   *)
(* the worker thread of rmpc/src/core/work.rs and what the event loop does *)
(* with its answers.                                                       *)
(*                                                                         *)
(* A menu offers what fits the state the download had when the menu was    *)
(* opened; answers of the worker are handled while it is open.             *)
(***************************************************************************)
EXTENDS Naturals, Sequences, FiniteSets, FiniteSetsExt

CONSTANTS
    MaxDownloads,  \* bound: downloads that are ever queued; ids are 1, 2, ...
    MaxMenus       \* bound: menus that are opened

ASSUME DownloadsAssumption == MaxDownloads \in Nat /\ MaxMenus \in Nat

VARIABLES
    queue,    \* the state of each known download, by id
    work,     \* WorkRequests the worker has not answered, first the current one
    answers,  \* WorkDone::YtDlpDownloaded in the event channel
    menu,     \* the open menu: a download and what its entry will do, or NoMenu
    menus,
    added,    \* songs handed to MPD's queue, by id
    retried   \* history: downloads that a menu has queued again

managerVars == <<queue, work, answers, menu, menus, added, retried>>

Ids     == 1..MaxDownloads
States  == {"queued", "downloading", "done", "failed", "canceled"}
NoMenu  == [entry |-> "none"]
Known   == DOMAIN queue

ManagerTypeOK ==
    /\ \E n \in 0..MaxDownloads : queue \in [1..n -> States]
    /\ work \in Seq(Known) /\ answers \in Seq([id : Known, ok : BOOLEAN])
    /\ menu \in [entry : {"cancel", "redownload"}, id : Known] \union {NoMenu}
    /\ menus \in 0..MaxMenus /\ added \in [Ids -> Nat]
    /\ retried \subseteq Known

ManagerInit ==
    /\ queue = <<>> /\ work = <<>> /\ answers = <<>>
    /\ menu = NoMenu /\ menus = 0 /\ added = [id \in Ids |-> 0]
    /\ retried = {}

-----------------------------------------------------------------------------
(* The manager.                                                            *)

In(q, state) == {id \in DOMAIN q : q[id] = state}
Open(q) == In(q, "queued") \union In(q, "downloading")

\* Seeded fault: a download that was canceled stops the search.
DownloadNextStopsAtCanceled(q) ==
    LET open == In(q, "queued") \union In(q, "downloading") \union In(q, "canceled")
        next == Min(open)
    IN  IF open # {} /\ q[next] = "queued"
        THEN queue' = [q EXCEPT ![next] = "downloading"] /\ work' = Append(work, next)
        ELSE queue' = q /\ UNCHANGED work

\* Seeded fault: the request is only sent when the worker is idle.
DownloadNextUnsent(q) ==
    LET next == Min(Open(q))
    IN  IF Open(q) # {} /\ q[next] = "queued"
        THEN /\ queue' = [q EXCEPT ![next] = "downloading"]
             /\ work' = IF work = <<>> THEN <<next>> ELSE work
        ELSE queue' = q /\ UNCHANGED work

\* Seeded fault: one that is downloading does not hold the next one back.
DownloadNextRegardless(q) ==
    LET next == Min(In(q, "queued"))
    IN  IF In(q, "queued") # {}
        THEN queue' = [q EXCEPT ![next] = "downloading"] /\ work' = Append(work, next)
        ELSE queue' = q /\ UNCHANGED work

\* The first download, by id, that is queued or downloading decides.
DownloadNext(q) ==
    LET next == Min(Open(q))
    IN  IF Open(q) # {} /\ q[next] = "queued"
        THEN queue' = [q EXCEPT ![next] = "downloading"] /\ work' = Append(work, next)
        ELSE queue' = q /\ UNCHANGED work

\* download_url of a single video (one) or the answer of a playlist (many).
QueueDownloads ==
    \E n \in 0..(MaxDownloads - Len(queue)) :
        /\ DownloadNext(queue \o [i \in 1..n |-> "queued"])
        /\ UNCHANGED <<answers, menu, menus, added, retried>>

-----------------------------------------------------------------------------
(* The menu of the downloads modal.                                        *)

OpenMenu ==
    /\ menu = NoMenu /\ menus < MaxMenus /\ menus' = menus + 1
    /\ \E id \in Known :
           \/ queue[id] = "queued" /\ menu' = [entry |-> "cancel", id |-> id]
           \/ queue[id] \in {"failed", "canceled"}
              /\ menu' = [entry |-> "redownload", id |-> id]
    /\ UNCHANGED <<queue, work, answers, added, retried>>

CloseMenu ==
    /\ menu # NoMenu /\ menu' = NoMenu
    /\ UNCHANGED <<queue, work, answers, menus, added, retried>>

CancelDownload ==
    /\ menu.entry = "cancel" /\ menu' = NoMenu
    /\ queue' = [queue EXCEPT ![menu.id] = "canceled"]
    /\ UNCHANGED <<work, answers, menus, added, retried>>

Redownload ==
    /\ menu.entry = "redownload" /\ menu' = NoMenu
    /\ DownloadNext([queue EXCEPT ![menu.id] = "queued"])
    /\ retried' = retried \union {menu.id}
    /\ UNCHANGED <<answers, menus, added>>

-----------------------------------------------------------------------------
(* The worker, and its answers in the event loop.                          *)

WorkerAnswers ==
    /\ work # <<>> /\ work' = Tail(work)
    /\ \E ok \in BOOLEAN : answers' = Append(answers, [id |-> Head(work), ok |-> ok])
    /\ UNCHANGED <<queue, menu, menus, added, retried>>

Downloaded ==
    /\ answers # <<>> /\ answers' = Tail(answers)
    /\ LET a == Head(answers) IN
           /\ added' = IF a.ok THEN [added EXCEPT ![a.id] = @ + 1] ELSE added
           /\ DownloadNext([queue EXCEPT ![a.id] = IF a.ok THEN "done" ELSE "failed"])
    /\ UNCHANGED <<menu, menus, retried>>

-----------------------------------------------------------------------------
ManagerNext ==
    \/ QueueDownloads \/ OpenMenu \/ CloseMenu \/ CancelDownload \/ Redownload
    \/ WorkerAnswers \/ Downloaded

ManagerSpec == ManagerInit /\ [][ManagerNext]_managerVars
\* yt-dlp ends and the event loop handles its channel.
ManagerFairSpec == ManagerSpec /\ WF_managerVars(WorkerAnswers) /\ WF_managerVars(Downloaded)

-----------------------------------------------------------------------------
InFlight(id) == Cardinality({i \in DOMAIN work : work[i] = id})
                + Cardinality({i \in DOMAIN answers : answers[i].id = id})

\* What is shown as downloading has an answer coming, also after it was
\* canceled and queued again (manager.rs:117-121, work.rs:75-87).
ShownIsInFlight ==
    \A id \in In(queue, "downloading") : InFlight(id) >= 1

\* "Only ever download one at a time" (manager.rs:124), "A different item is
\* already downloading, do nothing" (manager.rs:127): of two that are shown as
\* downloading the lower id was queued again from its menu.  Such a retry is found
\* before the one that is downloading.
OneAtATimeUnlessRetried ==
    \A i, j \in In(queue, "downloading") : i < j => i \in retried

\* Every download is in the end canceled, failed or done.
DownloadsSettle ==
    \A id \in Ids : id \in Open(queue) ~> id \notin Open(queue)
=============================================================================
