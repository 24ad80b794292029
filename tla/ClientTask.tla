----------------------------- MODULE ClientTask -----------------------------
(***************************************************************************)
(* The connection to MPD: rmpc/src/core/client.rs, client_task.            *)
(*                                                                         *)
(* One MPD connection (the Client) is shared by two worker threads.  The   *)
(* "idle" thread waits on it for change notifications, the "request"       *)
(* thread runs commands on it.  The Client travels between them over       *)
(* client_return, a channel of capacity one, and every hand-over is        *)
(* confirmed over client_received, a channel of capacity zero that both    *)
(* threads use in both directions.  A supervisor thread ("task") starts    *)
(* them, waits for both to end and reconnects.  Each thread's control      *)
(* state is a variable of its name; a send and the receive it meets on the *)
(* zero-capacity channel are one joint action.                             *)
(*                                                                         *)
(* The MPD server is external: it answers commands, leaves idle mode with  *)
(* an answer when something changed or when it reads noidle, and ignores   *)
(* noidle otherwise.                                                       *)
(***************************************************************************)
EXTENDS Naturals, Sequences

CONSTANTS
    MaxRequests,      \* bound: how many requests are ever submitted
    Keys,             \* (id, replace_id, target) triples of replaceable queries
    NoKey,            \* a command, a sync query, or a query with no replace_id
    MaxFaults,        \* bound: how many faults the environment injects
    FaultKinds,       \* which kinds of fault it injects
    IdleReadTimeout   \* is mpd_idle_read_timeout_ms configured?

AllFaultKinds ==
    { "break",      \* the connection breaks; reads on it fail from then on
      "refuse",     \* a reconnect fails
      "late",       \* a thread misses a 3 s hand-over deadline while healthy
      "timeout",    \* a response does not arrive within the read timeout
      "write",      \* a write fails on a connection that can still be read
      "stall",      \* an answer does not come, and nothing ends the wait for it
      "handshake" } \* faults may also hit before the first idle confirmation

ASSUME ClientAssumption ==
    /\ MaxRequests \in Nat
    /\ MaxFaults \in Nat
    /\ NoKey \notin Keys
    /\ FaultKinds \subseteq AllFaultKinds
    /\ IdleReadTimeout \in BOOLEAN

VARIABLES
    task,      \* where the supervisor is
    idle,      \* where the idle thread is
    req,       \* where the request thread is
    healthy,   \* HEALTHY
    first,     \* first_loop
    returned,  \* number of Clients in client_return
    up,        \* the connection is usable
    idling,    \* MPD is in idle mode on this connection
    wire,      \* an answer to idle that is not read yet: "ok", "changed"
    flags,     \* MPD has a change to report on this connection
    untold,    \* MPD changed and the event loop has not been told
    armed,     \* which read timeout is set on the stream
    told,      \* the last connection event sent to the event loop
    faults,    \* faults injected so far
    requests,  \* the client_rx channel (request numbers)
    buffer,    \* the request thread's local buffer
    key,       \* key[r]: the replace key of request r
    outcome    \* outcome[r]: what became of request r

threads == <<task, idle, req, healthy, first, returned>>
server  == <<up, idling, wire, flags>>
work    == <<requests, buffer, key, outcome>>
notices == <<untold, told>>
vars    == <<threads, server, work, notices, armed, faults>>

Request == 1..MaxRequests
Elems(s) == {s[i] : i \in 1..Len(s)}

TaskPC == {"start", "claim", "check", "spawn", "await", "join", "lost"}
IdlePC == {"off", "poll", "acquire", "setup", "confirm", "read", "ack"}
ReqPC  == {"off", "select", "give", "noidle", "claim", "acquire", "confirm",
           "arm", "process", "stalled", "ack", "exit"}

TypeOK ==
    /\ task \in TaskPC /\ idle \in IdlePC /\ req \in ReqPC
    /\ healthy \in BOOLEAN /\ first \in BOOLEAN
    /\ returned \in Nat
    /\ up \in BOOLEAN /\ idling \in BOOLEAN /\ flags \in BOOLEAN
    /\ wire \in {"quiet", "ok", "changed"}
    /\ untold \in BOOLEAN
    /\ armed \in {"none", "command", "idle"}
    /\ told \in {"connected", "lost"}
    /\ faults \in 0..MaxFaults
    /\ requests \in Seq(Request) /\ buffer \in Seq(Request)
    /\ key \in [Request -> Keys \union {NoKey}]
    /\ outcome \in [Request -> {"unsent", "pending", "done", "error",
                                "timedout", "skipped", "lost"}]

Init ==
    /\ task = "start" /\ idle = "off" /\ req = "off"
    /\ healthy = TRUE /\ first = TRUE
    /\ returned = 1                     \* client_return_tx.send(client)
    /\ up = TRUE /\ idling = FALSE /\ wire = "quiet" /\ flags = FALSE
    /\ untold = FALSE /\ told = "connected"
    /\ armed = "command" /\ faults = 0
    /\ requests = <<>> /\ buffer = <<>>
    /\ key = [r \in Request |-> NoKey]
    /\ outcome = [r \in Request |-> "unsent"]

-----------------------------------------------------------------------------
(* Who has the Client: a ClientDropGuard or the supervisor's local.        *)
TaskHolds == task \in {"check", "spawn"}
IdleHolds == idle \in {"setup", "confirm", "read"}
ReqHolds  == req \in {"give", "confirm", "arm", "process", "stalled"}

TakeClient   == returned > 0 /\ returned' = returned - 1
\* client_return_tx.send, which blocks while the channel is full.
ReturnClient == returned < 1 /\ returned' = returned + 1
Fault(kind) ==
    /\ kind \in FaultKinds
    /\ faults < MaxFaults
    /\ task = "join" \/ kind = "refuse" \/ "handshake" \in FaultKinds
    /\ faults' = faults + 1

\* A hand-over deadline passes: the peer is giving up too, or it is slow.
DeadlinePasses == \/ ~healthy /\ UNCHANGED faults
                  \/ healthy /\ Fault("late")

\* MPD on a connection that was just opened.
FreshServer == up' = TRUE /\ idling' = FALSE /\ wire' = "quiet" /\ flags' = FALSE

Lost(rs) == [r \in Request |-> IF r \in rs THEN "lost" ELSE outcome[r]]

-----------------------------------------------------------------------------
(* The supervisor.                                                         *)

TaskStart ==
    /\ task = "start" /\ task' = "claim"
    /\ healthy' = TRUE
    /\ UNCHANGED <<idle, req, first, returned, server, work, notices, armed, faults>>

TaskClaim ==
    /\ task = "claim" /\ task' = "check"
    /\ TakeClient
    /\ UNCHANGED <<idle, req, healthy, first, server, work, notices, armed, faults>>

CheckFirst ==
    /\ task = "check" /\ first
    /\ first' = FALSE /\ task' = "spawn"
    /\ UNCHANGED <<idle, req, healthy, returned, server, work, notices, armed, faults>>

\* reconnect() worked: the queued requests are thrown away, then Reconnected
\* is sent.
DropQueued ==
    /\ requests' = <<>>
    /\ outcome' = Lost(Elems(requests))
    /\ UNCHANGED <<buffer, key>>

\* Seeded fault: Reconnected is not sent.
CheckReconnectedSilently ==
    /\ task = "check" /\ ~first
    /\ task' = "spawn"
    /\ FreshServer /\ armed' = "command"
    /\ DropQueued
    /\ told' = "connected"
    /\ UNCHANGED <<idle, req, healthy, first, returned, untold, faults>>

CheckReconnected ==
    /\ task = "check" /\ ~first
    /\ task' = "spawn"
    /\ FreshServer /\ armed' = "command"
    /\ DropQueued
    /\ told' = "connected" /\ untold' = FALSE
    /\ UNCHANGED <<idle, req, healthy, first, returned, faults>>

\* It did not, or setting a timeout on the new stream failed.
CheckFailed ==
    /\ task = "check" /\ ~first
    /\ Fault("refuse")
    /\ task' = "lost"
    /\ ReturnClient
    /\ \/ UNCHANGED <<server, work, notices, armed>>
       \/ /\ FreshServer /\ armed' = "none"
          /\ DropQueued
          /\ told' = "connected" /\ untold' = FALSE
    /\ UNCHANGED <<idle, req, healthy, first>>

TaskSpawnIdle ==
    /\ task = "spawn" /\ task' = "await"
    /\ idle' = "poll"
    /\ ReturnClient
    /\ UNCHANGED <<req, healthy, first, server, work, notices, armed, faults>>

TaskJoin ==
    /\ task = "join" /\ idle = "off" /\ req = "off"
    /\ task' = "lost"
    /\ UNCHANGED <<idle, req, healthy, first, returned, server, work, notices, armed, faults>>

TaskLost ==
    /\ task = "lost" /\ task' = "start"
    /\ told' = "lost"
    /\ UNCHANGED <<idle, req, healthy, first, returned, server, work, untold, armed, faults>>

-----------------------------------------------------------------------------
(* The idle thread.                                                        *)

\* Seeded fault: the Client is not wrapped in a ClientDropGuard.
IdleEndsWithoutGuard == idle' = "off" /\ UNCHANGED returned

\* 'outer is left; a ClientDropGuard in scope sends the Client back.
IdleEnds ==
    /\ idle' = "off"
    /\ IF IdleHolds THEN ReturnClient ELSE UNCHANGED returned

IdlePoll ==
    /\ idle = "poll"
    /\ idle' = IF healthy THEN "acquire" ELSE "off"
    /\ UNCHANGED <<task, req, healthy, first, returned, server, work, notices, armed, faults>>

IdleAcquire ==
    /\ idle = "acquire" /\ idle' = "setup"
    /\ TakeClient
    /\ UNCHANGED <<task, req, healthy, first, server, work, notices, armed, faults>>

\* MPD reads "idle": it answers at once when it has a change to report.
ServerEntersIdle ==
    /\ up
    /\ idling' = ~flags
    /\ wire' = IF flags THEN "changed" ELSE wire
    /\ flags' = FALSE
    /\ UNCHANGED up

IdleSetup ==
    /\ idle = "setup" /\ healthy
    /\ idle' = "confirm" /\ armed' = "idle"
    /\ ServerEntersIdle \/ (~up /\ UNCHANGED server)
    /\ UNCHANGED <<task, req, healthy, first, returned, work, notices, faults>>

IdleSetupFails ==
    /\ idle = "setup"
    /\ ~healthy \/ ~up
    /\ IdleEnds /\ healthy' = FALSE
    /\ UNCHANGED <<task, req, first, server, work, notices, armed, faults>>

IdleConfirmFails ==
    /\ idle = "confirm"
    /\ DeadlinePasses
    /\ IdleEnds /\ healthy' = FALSE
    /\ UNCHANGED <<task, req, first, server, work, notices, armed>>

\* Seeded fault: the Client is kept while waiting for the confirmation.
IdleEventsKeeping ==
    /\ idle = "read" /\ up /\ wire # "quiet"
    /\ wire' = "quiet"
    /\ untold' = IF wire = "changed" THEN flags ELSE untold
    /\ idle' = IF healthy THEN "ack" ELSE "off"
    /\ UNCHANGED <<task, req, healthy, first, returned, up, idling, flags, work, told, armed, faults>>

\* The answer is read, its events are sent, the Client is dropped.
IdleEvents ==
    /\ idle = "read" /\ up /\ wire # "quiet"
    /\ wire' = "quiet"
    /\ untold' = IF wire = "changed" THEN flags ELSE untold
    /\ ReturnClient
    /\ idle' = IF healthy THEN "ack" ELSE "off"
    /\ UNCHANGED <<task, req, healthy, first, up, idling, flags, work, told, armed, faults>>

IdleReadFails ==
    /\ idle = "read"
    /\ ~up \/ (IdleReadTimeout /\ ~healthy)
    /\ IdleEnds /\ healthy' = FALSE
    /\ UNCHANGED <<task, req, first, server, work, notices, armed, faults>>

IdleAckFails ==
    /\ idle = "ack"
    /\ DeadlinePasses
    /\ IdleEnds /\ healthy' = FALSE
    /\ UNCHANGED <<task, req, first, server, work, notices, armed>>

-----------------------------------------------------------------------------
(* Hand-overs on client_received.                                          *)

\* The idle thread's first confirmation is read by the supervisor, which then
\* starts the request thread.
ConfirmToTask ==
    /\ idle = "confirm" /\ task = "await"
    /\ idle' = "read" /\ task' = "join" /\ req' = "select"
    /\ UNCHANGED <<healthy, first, returned, server, work, notices, armed, faults>>

\* Its later ones by the request thread, which has put the Client back.
ConfirmToRequest ==
    /\ idle = "confirm" /\ req = "ack"
    /\ idle' = "read" /\ req' = "select"
    /\ UNCHANGED <<task, healthy, first, returned, server, work, notices, armed, faults>>

\* The request thread had no use for the Client it received.
GiveToIdle ==
    /\ idle = "ack" /\ req = "give"
    /\ idle' = "poll"
    /\ ReturnClient
    /\ req' = IF healthy THEN "ack" ELSE "exit"
    /\ UNCHANGED <<task, healthy, first, server, work, notices, armed, faults>>

\* The request thread has it and will use it.
ClaimFromIdle ==
    /\ idle = "ack" /\ req = "confirm"
    /\ idle' = "poll" /\ req' = "arm"
    /\ UNCHANGED <<task, healthy, first, returned, server, work, notices, armed, faults>>

-----------------------------------------------------------------------------
(* The request thread.                                                     *)

\* The loop is left: its guard returns the Client, the buffer goes with it.
ReqBreaks(dropped) ==
    /\ req' = "exit" /\ healthy' = FALSE
    /\ IF ReqHolds THEN ReturnClient ELSE UNCHANGED returned
    /\ buffer' = <<>>
    /\ outcome' = Lost(dropped)

ReqTakeRequest ==
    /\ req = "select" /\ requests # <<>>
    /\ requests' = Tail(requests)
    /\ IF healthy
       THEN /\ req' = "noidle"
            /\ buffer' = Append(buffer, Head(requests))
            /\ UNCHANGED <<healthy, returned, outcome>>
       ELSE ReqBreaks({Head(requests)} \union Elems(buffer))
    /\ UNCHANGED <<task, idle, first, server, key, notices, armed, faults>>

ReqTakeClient ==
    /\ req = "select" /\ TakeClient
    /\ req' = "give"
    /\ UNCHANGED <<task, idle, healthy, first, server, work, notices, armed, faults>>

\* Not healthy when the client arrives, or the deadline passes.
ReqGiveFails ==
    /\ req = "give"
    /\ DeadlinePasses
    /\ ReqBreaks(Elems(buffer))
    /\ UNCHANGED <<task, idle, first, server, requests, key, notices, armed>>

\* MPD answers noidle only when it is in idle mode.
ReqNoidle ==
    /\ req = "noidle" /\ healthy
    /\ req' = "claim"
    /\ IF up /\ idling THEN idling' = FALSE /\ wire' = "ok"
                       ELSE UNCHANGED <<idling, wire>>
    /\ UNCHANGED <<task, idle, healthy, first, returned, up, flags, work, notices, armed, faults>>

\* It was written, but MPD does not get to read it.
ReqNoidleUnheard ==
    /\ req = "noidle" /\ healthy /\ up /\ idling
    /\ Fault("stall")
    /\ req' = "claim"
    /\ UNCHANGED <<task, idle, healthy, first, returned, server, work, notices, armed>>

\* A health! before the Client is acquired gives up.
ReqGivesUp ==
    /\ \/ req = "noidle" /\ (~healthy \/ ~up)
       \/ req = "claim" /\ ~healthy
    /\ ReqBreaks(Elems(buffer))
    /\ UNCHANGED <<task, idle, first, server, requests, key, notices, armed, faults>>

\* The write timeout passes: MPD does not read, but has not hung up either.
ReqNoidleFails ==
    /\ req = "noidle" /\ healthy /\ up
    /\ Fault("write")
    /\ ReqBreaks(Elems(buffer))
    /\ UNCHANGED <<task, idle, first, server, requests, key, notices, armed>>

ReqClaim ==
    /\ req = "claim" /\ healthy
    /\ req' = "acquire"
    /\ UNCHANGED <<task, idle, healthy, first, returned, server, work, notices, armed, faults>>

ReqAcquire ==
    /\ req = "acquire" /\ TakeClient
    /\ req' = "confirm"
    /\ UNCHANGED <<task, idle, healthy, first, server, work, notices, armed, faults>>

ReqConfirmFails ==
    /\ req = "confirm"
    /\ DeadlinePasses
    /\ ReqBreaks(Elems(buffer))
    /\ UNCHANGED <<task, idle, first, server, requests, key, notices, armed>>

ReqArm ==
    /\ req = "arm"
    /\ IF healthy
       THEN /\ req' = "process" /\ armed' = "command"
            /\ UNCHANGED <<healthy, returned, buffer, outcome>>
       ELSE ReqBreaks(Elems(buffer)) /\ UNCHANGED armed
    /\ UNCHANGED <<task, idle, first, server, requests, key, notices, faults>>

\* buffer.pop_front(), then everything in the channel is moved to the buffer.
Current == Head(buffer)
Rest    == Tail(buffer) \o requests

\* Seeded fault: two queries without a replace_id compare as equal.
ShouldSkipKeyless == \E r \in Elems(Rest) : key[r] = key[Current]

ShouldSkip == key[Current] # NoKey /\ \E r \in Elems(Rest) : key[r] = key[Current]

ReqSkip ==
    /\ req = "process" /\ buffer # <<>> /\ ShouldSkip
    /\ buffer' = Rest /\ requests' = <<>>
    /\ outcome' = [outcome EXCEPT ![Current] = "skipped"]
    /\ UNCHANGED <<threads, server, key, notices, armed, faults>>

\* The callback ran; WorkDone is sent under health!.
ReqExecute ==
    /\ req = "process" /\ buffer # <<>> /\ ~ShouldSkip
    /\ requests' = <<>>
    /\ IF healthy
       THEN /\ buffer' = Rest
            /\ \E res \in {"error"} \union (IF up THEN {"done"} ELSE {}) :
                   outcome' = [outcome EXCEPT ![Current] = res]
            /\ UNCHANGED <<req, healthy, returned>>
       ELSE ReqBreaks({Current} \union Elems(Rest))
    /\ UNCHANGED <<task, idle, first, server, key, notices, armed, faults>>

\* The response is late: reconnect here, on the request thread.  No WorkDone,
\* no Reconnected event, and only the write timeout is set on the new stream.
ReqTimedOut ==
    /\ req = "process" /\ buffer # <<>> /\ ~ShouldSkip
    /\ up /\ healthy /\ armed = "command"
    /\ Fault("timeout")
    /\ FreshServer /\ armed' = "none"
    /\ requests' = <<>> /\ buffer' = Rest
    /\ outcome' = [outcome EXCEPT ![Current] = "timedout"]
    /\ UNCHANGED <<threads, key, notices>>

\* The same, and that reconnect fails as well.
ReqTimedOutForGood ==
    /\ req = "process" /\ buffer # <<>> /\ ~ShouldSkip
    /\ up /\ healthy /\ armed = "command"
    /\ Fault("timeout")
    /\ up' = FALSE
    /\ requests' = <<>>
    /\ req' = "exit" /\ healthy' = FALSE /\ ReturnClient /\ buffer' = <<>>
    /\ outcome' = [r \in Request |-> IF r = Current THEN "timedout"
                                     ELSE Lost(Elems(Rest))[r]]
    /\ UNCHANGED <<task, idle, first, idling, wire, flags, key, notices, armed>>

\* A response does not come and no read timeout is set: the thread is stuck
\* in the read until the connection breaks.
ReqStall ==
    /\ req = "process" /\ buffer # <<>> /\ ~ShouldSkip
    /\ up /\ armed = "none"
    /\ Fault("stall")
    /\ req' = "stalled"
    /\ requests' = <<>> /\ buffer' = <<Current>> \o Rest
    /\ UNCHANGED <<task, idle, healthy, first, returned, server, key, outcome, notices, armed>>

ReqUnstall ==
    /\ req = "stalled" /\ ~up
    /\ req' = "process"
    /\ UNCHANGED <<task, idle, healthy, first, returned, server, work, notices, armed, faults>>

\* Seeded fault: the next request is not held back until the idle thread has
\* confirmed that it is in idle mode.
ReqReleaseUnconfirmed ==
    /\ req = "process" /\ buffer = <<>>
    /\ ReturnClient
    /\ req' = "select"
    /\ UNCHANGED <<task, idle, healthy, first, server, work, notices, armed, faults>>

\* All requests processed: the Client is dropped.
ReqRelease ==
    /\ req = "process" /\ buffer = <<>>
    /\ ReturnClient
    /\ req' = IF healthy THEN "ack" ELSE "exit"
    /\ UNCHANGED <<task, idle, healthy, first, server, work, notices, armed, faults>>

ReqAckFails ==
    /\ req = "ack"
    /\ DeadlinePasses
    /\ ReqBreaks(Elems(buffer))
    /\ UNCHANGED <<task, idle, first, server, requests, key, notices, armed>>

\* Seeded fault: the stream is not shut down.
ReqExitOpen ==
    /\ req = "exit" /\ req' = "off"
    /\ healthy' = FALSE
    /\ UNCHANGED <<task, idle, first, returned, server, work, notices, armed, faults>>

\* client_write.shutdown_both(): the idle thread's read fails from here on.
ReqExit ==
    /\ req = "exit" /\ req' = "off"
    /\ healthy' = FALSE
    /\ up' = FALSE
    /\ UNCHANGED <<task, idle, first, returned, idling, wire, flags, work, notices, armed, faults>>

-----------------------------------------------------------------------------
(* The environment: the threads that submit requests, MPD, the network.    *)

Submit(k) ==
    \E r \in Request :
        /\ outcome[r] = "unsent"
        /\ \A q \in Request : q < r => outcome[q] # "unsent"
        /\ requests' = Append(requests, r)
        /\ key' = [key EXCEPT ![r] = k]
        /\ outcome' = [outcome EXCEPT ![r] = "pending"]
        /\ UNCHANGED <<threads, server, buffer, notices, armed, faults>>

ServerChange ==
    /\ untold' = TRUE
    /\ IF up /\ idling THEN idling' = FALSE /\ wire' = "changed" /\ UNCHANGED flags
                       ELSE flags' = up /\ UNCHANGED <<idling, wire>>
    /\ UNCHANGED <<threads, up, work, told, armed, faults>>

ConnectionBreaks ==
    /\ up
    /\ Fault("break")
    /\ up' = FALSE
    /\ UNCHANGED <<threads, idling, wire, flags, work, notices, armed>>

\* A thread waits for an answer with no deadline: to a command that is read
\* without a timeout, or to a noidle.
Unheard == req \in {"claim", "acquire"} /\ idle = "read" /\ idling
Silent == up /\ (req = "stalled" \/ Unheard)

\* Keepalive or MPD close the connection, or the answer comes after all.
SilenceEnds ==
    /\ Silent
    /\ \/ up' = FALSE /\ UNCHANGED <<req, idling, wire>>
       \/ req = "stalled" /\ req' = "process" /\ UNCHANGED <<up, idling, wire>>
       \/ Unheard /\ idling' = FALSE /\ wire' = "ok" /\ UNCHANGED <<up, req>>
    /\ UNCHANGED <<task, idle, healthy, first, returned, flags, work, notices, armed, faults>>

-----------------------------------------------------------------------------
TaskNext == \/ TaskStart \/ TaskClaim \/ CheckFirst \/ CheckReconnected
            \/ CheckFailed \/ TaskSpawnIdle \/ TaskJoin \/ TaskLost
IdleNext == \/ IdlePoll \/ IdleAcquire \/ IdleSetup \/ IdleSetupFails
            \/ IdleConfirmFails \/ IdleEvents \/ IdleReadFails \/ IdleAckFails
HandOver == \/ ConfirmToTask \/ ConfirmToRequest \/ GiveToIdle \/ ClaimFromIdle
ReqNext  == \/ ReqTakeRequest \/ ReqTakeClient \/ ReqGiveFails \/ ReqNoidle
            \/ ReqNoidleUnheard
            \/ ReqGivesUp \/ ReqNoidleFails \/ ReqClaim \/ ReqAcquire \/ ReqConfirmFails \/ ReqArm
            \/ ReqSkip \/ ReqExecute \/ ReqTimedOut \/ ReqTimedOutForGood
            \/ ReqStall \/ ReqUnstall \/ ReqRelease \/ ReqAckFails \/ ReqExit
Environment == \/ \E k \in Keys \union {NoKey} : Submit(k)
               \/ ServerChange \/ ConnectionBreaks \/ SilenceEnds

Next == TaskNext \/ IdleNext \/ HandOver \/ ReqNext \/ Environment

Spec == Init /\ [][Next]_vars

(* The OS runs every thread that can run.  select! picks a ready channel   *)
(* at random, so a request that is ready again and again is taken in the   *)
(* end even when the Client is ready each time as well.                    *)
Fairness ==
    /\ WF_vars(TaskNext) /\ WF_vars(IdleNext)
    /\ WF_vars(HandOver) /\ WF_vars(ReqNext)
    /\ SF_vars(ReqTakeRequest)

\* A stream on which nothing is ever answered is ended some time, by MPD, by the
\* network or by TCP keepalive.
StallsEnd == []<>~Silent

FairSpec == Spec /\ Fairness /\ StallsEnd

-----------------------------------------------------------------------------
(* Safety.                                                                 *)

\* There is exactly one Client: in client_return or with one thread.  So a
\* ClientDropGuard that is dropped never blocks on the full channel and the
\* supervisor's recv after a join finds the Client there (client.rs:87-106,
\* 304-312).
OneClient ==
    /\ returned = IF TaskHolds \/ IdleHolds \/ ReqHolds THEN 0 ELSE 1
    /\ ~(TaskHolds /\ IdleHolds) /\ ~(TaskHolds /\ ReqHolds) /\ ~(IdleHolds /\ ReqHolds)

\* The two sides never both wait for the other's confirmation, which would
\* cost both their three seconds and the connection (client.rs:162, 202, 260).
NoCrossedWait == ~(idle = "ack" /\ req = "ack")

\* A command is only ever run when MPD has left idle mode and the answer to
\* idle has been consumed; otherwise MPD would close the connection, or the
\* command would read the idle answer as its own response (client.rs:207-256).
CommandsOutsideIdle ==
    req \in {"arm", "process", "stalled"} /\ up => ~idling /\ wire = "quiet"

\* noidle is never written while the idle thread is still on its way into
\* idle mode: MPD would ignore it, then go idle, and the request would wait
\* for an unrelated change (client.rs:209, 128).
NoidleNotTooEarly ==
    req = "noidle" /\ healthy => idle \notin {"poll", "acquire", "setup"}

\* While requests are processed HEALTHY stays true, so no result that MPD
\* has produced is thrown away by the health! around its send
\* (client.rs:232-238).
ResultsAreSent == req \in {"arm", "process", "stalled"} => healthy

\* A hand-over leaves one Client in one place, neither side waits for the other
\* in vain, and who got it can use it to the end: the three above together.
HandOverIsSound == OneClient /\ NoCrossedWait /\ ResultsAreSent

\* What is written to MPD, command or noidle, meets it in the mode it is meant
\* for, whichever thread wrote before: the two above about idle mode.
MpdModeIsRespected == CommandsOutsideIdle /\ NoidleNotTooEarly

\* The inductive strengthening of them all: which pairs of control
\* states can meet, and where MPD cannot be in idle mode.
ThreadsOnlyInJoin ==
    /\ task \notin {"await", "join"} => idle = "off"
    /\ task # "join" => req = "off"
    /\ task \in {"claim", "check", "spawn"} => healthy
FirstMeansStarting == first => task \in {"start", "claim", "check"}
Phases ==
    /\ ~healthy => idle = "off" \/ req = "exit" \/ (req = "off" /\ task = "join")
    /\ req \in {"arm", "process", "stalled"} => healthy /\ idle \in {"poll", "acquire"}
    /\ req = "ack" /\ healthy => idle \in {"poll", "acquire", "setup", "confirm"}
    /\ req \in {"select", "noidle", "claim", "acquire", "give", "confirm"} /\ healthy
           => idle \in {"read", "ack"}
OutOfIdle ==
    up => /\ wire # "quiet" => ~idling
          /\ \/ idle \in {"poll", "acquire", "setup", "ack"}
             \/ task = "spawn"
             \/ first
             => ~idling /\ wire = "quiet"
HandOverInv == /\ OneClient /\ NoCrossedWait /\ ThreadsOnlyInJoin
               /\ FirstMeansStarting /\ Phases /\ OutOfIdle

\* The threads keep the contract of RequestService: the backlog is what the
\* request thread buffered followed by what is still in the channel.
Service == INSTANCE RequestService WITH backlog <- buffer \o requests
ImplementsService == Service!ServiceSpec

-----------------------------------------------------------------------------
(* Liveness.                                                               *)

\* After a connection is lost the client is running again on a new one, and
\* the event loop has been told (client.rs:92-282).
Recovers ==
    ~up \/ ~healthy \/ told = "lost"
        ~> up /\ healthy /\ task = "join" /\ told = "connected"

\* A submitted request does not stay in the queue for ever: it is executed,
\* skipped for a newer one, or given up with the connection.
RequestsSettle ==
    \A r \in Request : outcome[r] = "pending" ~> outcome[r] # "pending"

\* Once MPD stops changing, the event loop has been told of every change: by
\* idle events, or by Reconnected, on which it queries everything again.  Not
\* so when a late response made the request thread reconnect by itself, which
\* forgets what MPD had not reported yet (client.rs:239-245).
ChangesReachTheEventLoop ==
    <>[][~ServerChange]_vars =>
        []<>~untold \/ <>(\E r \in Request : outcome[r] = "timedout")

=============================================================================
