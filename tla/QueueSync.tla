------------------------------ MODULE QueueSync ------------------------------
(***************************************************************************)
(* Moving songs in the queue pane and keeping the pane equal to MPD's      *)
(* queue: rmpc/src/ui/panes/queue.rs (MoveUp, MoveDown), the Ignore /      *)
(* UnIgnore / Reconcile events of rmpc/src/core/event_loop.rs and the part *)
(* of the client threads they rely on.                                     *)
(*                                                                         *)
(* A move is shown at once and its command is queued; idle events for the  *)
(* queue are swallowed until the last outstanding move has been executed   *)
(* and a scheduled Reconcile has read the queue again.  Three threads take *)
(* part: the event loop (which also runs the pane), the client and the     *)
(* scheduler.  The client (see ClientTask) executes one request at a time, *)
(* in order; a reconnect drops them all, and a single one may fail or be   *)
(* answered late, which loses its result and what MPD had to report.       *)
(***************************************************************************)
EXTENDS Integers, Sequences, FiniteSets, SequencesExt

CONSTANTS
    Songs,         \* the songs in MPD's queue at the start
    MaxMoves,      \* bound: MoveUp / MoveDown actions of the user
    MaxForeign,    \* bound: changes of the queue by other MPD clients
    MaxReconnects  \* bound: reconnects, each of which drops queued requests

ASSUME QueueSyncAssumption ==
    /\ IsFiniteSet(Songs) /\ Songs # {}
    /\ MaxMoves \in Nat /\ MaxForeign \in Nat /\ MaxReconnects \in Nat

VARIABLES
    server,    \* MPD's queue
    notify,    \* MPD has a playlist change to report
    requests,  \* requests queued for the client
    events,    \* the AppEvent channel
    view,      \* the pane's items
    ignoring,  \* events_to_ignore[Playlist]
    pending,   \* reconcile_pending[Playlist]
    todo,      \* runs the MoveUp / MoveDown handler has still to move
    announced, \* Ignore is sent for the first of them, its command not yet
    job,       \* the reconcile job is scheduled
    zombies,   \* cancelled or replaced jobs that may still fire
    moves, foreign, reconnects,
    missed,    \* history: the answer to a query, or a report, was lost and no
               \* query has been answered since
    dropped    \* history: a reconnect has dropped a queued move

client    == <<server, notify, requests>>
loop      == <<view, ignoring, pending>>
handler   == <<todo, announced>>
scheduler == <<job, zombies>>
budget    == <<moves, foreign, reconnects>>
history   == <<missed, dropped>>
vars      == <<client, loop, handler, scheduler, budget, history, events>>

Queues == {q \in UNION {[1..n -> Songs] : n \in 0..Cardinality(Songs)} : IsInjective(q)}

Query == [type |-> "query"]
Places == 1..Cardinality(Songs)
MoveRequests ==
    [type : {"move"}, lo : Places, hi : Places, to : Places]
Plain == [type : {"ignore", "unignore", "reconcile", "idle", "reconnected"}]

TypeOK ==
    /\ server \in Queues /\ view \in Queues
    /\ notify \in BOOLEAN /\ pending \in BOOLEAN /\ job \in BOOLEAN /\ zombies \in Nat
    /\ ignoring \in Nat /\ announced \in BOOLEAN
    /\ \A i \in DOMAIN todo : todo[i] \in MoveRequests
    /\ \A i \in DOMAIN requests : requests[i] \in MoveRequests \union {Query}
    /\ \A i \in DOMAIN events :
           events[i] \in Plain \union [type : {"queue"}, songs : Queues]
    /\ moves \in 0..MaxMoves /\ foreign \in 0..MaxForeign
    /\ reconnects \in 0..MaxReconnects
    /\ missed \in BOOLEAN /\ dropped \in BOOLEAN

Init ==
    /\ server = SetToSeq(Songs) /\ view = server
    /\ notify = FALSE /\ requests = <<>> /\ events = <<>>
    /\ todo = <<>> /\ announced = FALSE
    /\ ignoring = 0 /\ pending = FALSE /\ job = FALSE /\ zombies = 0
    /\ moves = 0 /\ foreign = 0 /\ reconnects = 0
    /\ missed = FALSE /\ dropped = FALSE

Event(t) == [type |-> t]
Count(s, t) == Cardinality({i \in DOMAIN s : s[i].type = t})

-----------------------------------------------------------------------------
(* Moving a block of the queue.                                            *)

Swapped(q, i, j) == [q EXCEPT ![i] = q[j], ![j] = q[i]]

\* The block lo..hi one place up (down) by swaps, as the pane does it.
MovedUp(q, lo, hi)   == FoldLeftDomain(LAMBDA acc, i :
                            IF i \in lo..hi THEN Swapped(acc, i, i - 1) ELSE acc, q, q)
MovedDown(q, lo, hi) == FoldRightDomain(LAMBDA i, acc :
                            IF i \in lo..hi THEN Swapped(acc, i, i + 1) ELSE acc, q, q)

\* MPD's move of lo..hi to position to: cut the block, insert it again; MPD
\* refuses positions it does not have.
CanMove(q, r) == r.hi <= Len(q) /\ r.to + r.hi - r.lo <= Len(q)
MpdMoved(q, r) ==
    LET rest == SubSeq(q, 1, r.lo - 1) \o SubSeq(q, r.hi + 1, Len(q))
    IN  SubSeq(rest, 1, r.to - 1) \o SubSeq(q, r.lo, r.hi)
            \o SubSeq(rest, r.to, Len(rest))

\* The maximal runs of consecutive positions in a set of marks, first to last.
Runs(marked) ==
    LET starts == {i \in marked : i - 1 \notin marked}
        End(i) == CHOOSE j \in marked : i <= j /\ i..j \subseteq marked /\ j + 1 \notin marked
    IN  [n \in 1..Cardinality(starts) |->
            LET lo == SetToSortSeq(starts, <)[n] IN [lo |-> lo, hi |-> End(lo)]]

-----------------------------------------------------------------------------
(* The user, in the event loop.  One handler moves every run of the marked *)
(* songs: it swaps the items, sends IgnoreIdleEvent, queues the command,   *)
(* run by run, while the other threads go on.                              *)

Idle == todo = <<>>

StartMove(runs, shift) ==
    /\ Idle /\ moves < MaxMoves /\ moves' = moves + 1
    /\ todo' = [n \in DOMAIN runs |->
           [type |-> "move", lo |-> runs[n].lo, hi |-> runs[n].hi, to |-> runs[n].lo + shift]]
    /\ UNCHANGED <<client, loop, announced, scheduler, history, events, foreign, reconnects>>

Marks == {marked \in SUBSET Places : marked # {} /\ marked \subseteq DOMAIN view}

MoveUp == \E marked \in Marks : 1 \notin marked /\ StartMove(Runs(marked), -1)

MoveDown ==
    \E marked \in Marks : Len(view) \notin marked /\ StartMove(Reverse(Runs(marked)), 1)

\* Without marks the selected song is moved; on the last row MoveDown queues a
\* move of the song to where it is.
MoveDownLast ==
    view # <<>> /\ StartMove(<<[lo |-> Len(view), hi |-> Len(view)]>>, 0)

Deliver(e) == events' = Append(events, e)

Announce(r) ==
    /\ view' = IF r.to < r.lo THEN MovedUp(view, r.lo, r.hi)
               ELSE IF r.to > r.lo THEN MovedDown(view, r.lo, r.hi) ELSE view
    /\ Deliver(Event("ignore"))
    /\ UNCHANGED <<requests, ignoring, pending>>

Command(r) ==
    /\ requests' = Append(requests, r)
    /\ UNCHANGED <<events, loop>>

\* Seeded fault: the command is queued before Ignore is sent.
MoveRunCommandFirst ==
    /\ ~Idle
    /\ IF announced THEN Announce(Head(todo)) ELSE Command(Head(todo))
    /\ announced' = ~announced
    /\ todo' = IF announced THEN Tail(todo) ELSE todo
    /\ UNCHANGED <<server, notify, scheduler, budget, history>>

MoveRun ==
    /\ ~Idle
    /\ IF announced THEN Command(Head(todo)) ELSE Announce(Head(todo))
    /\ announced' = ~announced
    /\ todo' = IF announced THEN Tail(todo) ELSE todo
    /\ UNCHANGED <<server, notify, scheduler, budget, history>>

-----------------------------------------------------------------------------
(* The event loop.                                                         *)

FirstIs(t) == events # <<>> /\ Head(events).type = t
Handle(t) == Idle /\ FirstIs(t) /\ events' = Tail(events) /\ UNCHANGED handler

\* scheduler.cancel: the job may fire before the scheduler sees the command.
Outdate == zombies' = zombies + (IF job THEN 1 ELSE 0)
CancelJob == job' = FALSE /\ Outdate
ScheduleReplace == job' = TRUE /\ Outdate

\* Seeded fault: the job is cancelled, the flag stays.
HandleIgnoreFlagStays ==
    /\ Handle("ignore")
    /\ ignoring' = ignoring + 1
    /\ IF pending THEN CancelJob ELSE UNCHANGED scheduler
    /\ UNCHANGED <<client, view, pending, budget, history>>

HandleIgnore ==
    /\ Handle("ignore")
    /\ ignoring' = ignoring + 1
    /\ IF pending THEN CancelJob ELSE UNCHANGED scheduler
    /\ pending' = FALSE
    /\ UNCHANGED <<client, view, budget, history>>

HandleUnIgnore ==
    /\ Handle("unignore")
    /\ ignoring' = ignoring - 1
    /\ IF ignoring = 1
       THEN /\ pending' = TRUE
            /\ ScheduleReplace
       ELSE UNCHANGED <<pending, scheduler>>
    /\ UNCHANGED <<client, view, budget, history>>

\* handle_idle_event(Playlist) queries the queue.
QueryQueue == requests' = Append(requests, Query)

\* Seeded fault: the end of ignoring does not read the queue again.
HandleReconcileUnread ==
    /\ Handle("reconcile")
    /\ pending' = FALSE
    /\ UNCHANGED <<client, view, ignoring, scheduler, budget, history>>

HandleReconcile ==
    /\ Handle("reconcile")
    /\ pending' = FALSE
    /\ QueryQueue
    /\ UNCHANGED <<server, notify, view, ignoring, scheduler, budget, history>>

HandleIdle ==
    /\ Handle("idle")
    /\ IF ignoring > 0 \/ pending THEN UNCHANGED requests ELSE QueryQueue
    /\ UNCHANGED <<server, notify, loop, scheduler, budget, history>>

HandleReconnected ==
    /\ Handle("reconnected")
    /\ QueryQueue
    /\ UNCHANGED <<server, notify, loop, scheduler, budget, history>>

HandleQueue ==
    /\ Handle("queue")
    /\ view' = Head(events).songs
    /\ UNCHANGED <<client, ignoring, pending, scheduler, budget, history>>

-----------------------------------------------------------------------------
(* The client, the scheduler and the other MPD clients.                    *)

\* The callback sends UnIgnoreIdleEvent whatever MPD answers.
ClientMoves ==
    /\ requests # <<>> /\ Head(requests).type = "move"
    /\ LET r == Head(requests) IN
           IF CanMove(server, r) /\ r.to # r.lo
           THEN server' = MpdMoved(server, r) /\ notify' = TRUE
           ELSE UNCHANGED <<server, notify>>
    /\ requests' = Tail(requests)
    /\ Deliver(Event("unignore"))
    /\ UNCHANGED <<loop, handler, scheduler, budget, history>>

\* So it does when the answer fails or is late and MPD may have moved the songs
\* or not; the connection made anew after a late one has nothing to report.
ClientMovesUnanswered ==
    /\ requests # <<>> /\ Head(requests).type = "move"
    /\ LET r == Head(requests)
       IN  server' \in {server} \union (IF CanMove(server, r) THEN {MpdMoved(server, r)} ELSE {})
    /\ notify' \in {notify, FALSE}
    /\ requests' = Tail(requests)
    /\ Deliver(Event("unignore"))
    /\ UNCHANGED <<loop, handler, scheduler, budget, history>>

\* A query is skipped when a newer one waits behind it.
Superseded == \E i \in DOMAIN Tail(requests) : Tail(requests)[i] = Query

ClientQueries ==
    /\ requests # <<>> /\ Head(requests) = Query
    /\ requests' = Tail(requests)
    /\ IF Superseded
       THEN UNCHANGED <<events, missed>>
       ELSE Deliver([type |-> "queue", songs |-> server]) /\ missed' = FALSE
    /\ UNCHANGED <<server, notify, dropped, loop, handler, scheduler, budget>>

\* A query that fails or is late has no result, and nobody asks again; a late
\* one makes the client connect anew.
ClientQueriesUnanswered ==
    /\ requests # <<>> /\ Head(requests) = Query /\ ~Superseded
    /\ requests' = Tail(requests)
    /\ notify' \in {notify, FALSE}
    /\ missed' = TRUE
    /\ UNCHANGED <<server, dropped, events, loop, handler, scheduler, budget>>

\* A request of another pane is answered late.
OtherAnswerLate ==
    /\ notify /\ notify' = FALSE
    /\ missed' = TRUE
    /\ UNCHANGED <<server, requests, dropped, events, loop, handler, scheduler, budget>>

ClientNotifies ==
    /\ notify /\ notify' = FALSE
    /\ Deliver(Event("idle"))
    /\ UNCHANGED <<server, requests, loop, handler, scheduler, budget, history>>

\* Queued requests are dropped, and with a new connection MPD has nothing to
\* report.
ClientReconnects ==
    /\ reconnects < MaxReconnects /\ reconnects' = reconnects + 1
    /\ dropped' = (dropped \/ Count(requests, "move") > 0)
    /\ requests' = <<>> /\ notify' = FALSE
    /\ Deliver(Event("reconnected"))
    /\ UNCHANGED <<server, missed, loop, handler, scheduler, moves, foreign>>

JobFires ==
    /\ job /\ job' = FALSE
    /\ Deliver(Event("reconcile"))
    /\ UNCHANGED <<client, loop, handler, zombies, budget, history>>

ZombieFires ==
    /\ zombies > 0 /\ zombies' = zombies - 1
    /\ Deliver(Event("reconcile"))
    /\ UNCHANGED <<client, loop, handler, job, budget, history>>

ZombieIsRemoved ==
    /\ zombies > 0 /\ zombies' = zombies - 1
    /\ UNCHANGED <<client, loop, handler, job, budget, history, events>>

ForeignChange ==
    /\ foreign < MaxForeign /\ foreign' = foreign + 1
    /\ \E i, j \in DOMAIN server :
           \/ server' = RemoveAt(server, i)
           \/ i # j /\ server' = MpdMoved(server, [lo |-> i, hi |-> i, to |-> j])
    /\ notify' = TRUE
    /\ UNCHANGED <<requests, events, loop, handler, scheduler, history, moves, reconnects>>

-----------------------------------------------------------------------------
LoopNext   == \/ MoveRun \/ HandleIgnore \/ HandleUnIgnore \/ HandleReconcile
              \/ HandleIdle \/ HandleReconnected \/ HandleQueue
ClientNext == \/ ClientMoves \/ ClientMovesUnanswered
              \/ ClientQueries \/ ClientQueriesUnanswered
              \/ ClientNotifies \/ OtherAnswerLate
Next == \/ MoveUp \/ MoveDown \/ MoveDownLast \/ LoopNext \/ ClientNext
        \/ ClientReconnects \/ JobFires \/ ZombieFires \/ ZombieIsRemoved \/ ForeignChange

Spec == Init /\ [][Next]_vars

(* Each thread runs when it has something to do; the scheduler fires a job *)
(* when its 100 ms are over.                                               *)
FairSpec == /\ Spec /\ WF_vars(LoopNext) /\ WF_vars(ClientNext)
            /\ WF_vars(JobFires) /\ WF_vars(ZombieFires \/ ZombieIsRemoved)

-----------------------------------------------------------------------------
\* Every Ignore has its UnIgnore: counted in the loop or in the channel, against
\* the UnIgnores in the channel and those owed by moves that are still queued
\* (queue.rs:936-942), so the unsigned counter never goes below zero.  Moves
\* dropped by a reconnect owe nothing any more; a reconnect that drops none and
\* a move whose answer fails or is late (client.rs:239) upset nothing.
IgnoresBalanced ==
    LET ignores == ignoring + Count(events, "ignore")
        owed    == Count(events, "unignore") + Count(requests, "move")
                   + (IF announced THEN 1 ELSE 0)
    IN  /\ owed <= ignores /\ (~dropped => owed = ignores)
        /\ FirstIs("unignore") => ignoring > 0

\* While a Reconcile is pending it is really on its way, so that swallowing
\* idle events ends (event_loop.rs:158-173).
PendingReconcileComes ==
    pending => job \/ Count(events, "reconcile") > 0

\* In the end the pane shows MPD's queue, through reconnects and moves whose
\* answers fail or are late.  There are two exceptions.  A reconnect that drops
\* a queued move: its UnIgnore never comes (queue.rs:942, client.rs:342).  And a
\* query that fails or is late, or a report lost with the connection a late
\* answer replaces (client.rs:239-253): nobody asks again, and the pane may be
\* out of date until a later query is answered.
ViewConverges == []~dropped => <>[](view = server \/ missed)
=============================================================================
