---------------------------- MODULE AsyncClient ----------------------------
(***************************************************************************)
(* The MPD connection of the daemon, rmpcd/src/async_client.rs: a worker   *)
(* thread that either runs queued commands or waits in MPD's idle mode,    *)
(* and callers that queue a command and interrupt the idle mode with a     *)
(* noidle of their own.  The callers are the event loop and the update     *)
(* loop of rmpcd/src/event_loop.rs.                                        *)
(*                                                                         *)
(* The worker waits for a message after every idle answer; it is the       *)
(* handling of the reported events that brings it back to idle mode.       *)
(***************************************************************************)
EXTENDS Naturals, Sequences, SequencesExt

CONSTANTS
    Playing,      \* whether an update loop runs: MPD plays when rmpcd starts
    MaxApp,       \* bound: MPD changes and ticks come while app is shorter
    MaxBreaks,    \* bound: broken connections
    MaxTimeouts   \* bound: calls that are given up after ten seconds

ASSUME AsyncClientAssumption ==
    Playing \in BOOLEAN /\ MaxApp \in Nat /\ MaxBreaks \in Nat /\ MaxTimeouts \in Nat

VARIABLES
    worker,      \* where worker_loop is
    idle_state,
    rx,          \* the messages in the channel
    at,          \* where each caller is
    task,        \* what it calls for
    resp,        \* its oneshot channel
    app,         \* the AppEvents in the event loop's channel
    up, idling, wire, flags,  \* the connection and MPD at its other end
    breaks, timeouts

shared == <<worker, idle_state, rx>>
calls  == <<at, task, resp>>
server == <<up, idling, wire, flags>>
counts == <<breaks, timeouts>>
vars   == <<shared, calls, app, server, counts>>

Callers  == {"loop", "ticker"}
Places   == {"recv", "drain", "enter", "announce", "check", "read",
             "events", "empty", "error", "lost", "backoff", "stopped"}
Msg      == Callers \union {"skip", "shutdown", "orphan"}  \* a Run is named for its caller
AppEvent == {"idle", "status", "reconnected"}
Tasks    == {"startup", "player", "other", "skip", "status", "shutdown", "tick"}

TypeOK ==
    /\ worker \in Places /\ idle_state \in {"not_idle", "idle", "preempted"}
    /\ rx \in Seq(Msg)
    /\ at \in [Callers -> {"off", "preempt", "write", "await", "down", "exited"}]
    /\ task \in [Callers -> Tasks] /\ resp \in [Callers -> {"none", "ok", "err"}]
    /\ app \in Seq(AppEvent)
    /\ up \in BOOLEAN /\ idling \in BOOLEAN /\ flags \in BOOLEAN
    /\ wire \in {"none", "empty", "events"}
    /\ breaks \in 0..MaxBreaks /\ timeouts \in 0..MaxTimeouts

\* connect() has started the worker and run() has queued the first command.
Init ==
    /\ worker = "recv" /\ idle_state = "not_idle" /\ rx = <<"loop">>
    /\ at = [c \in Callers |-> IF c = "loop" THEN "preempt" ELSE "off"]
    /\ task = [c \in Callers |-> IF c = "loop" THEN "startup" ELSE "tick"]
    /\ resp = [c \in Callers |-> "none"] /\ app = <<>>
    /\ up = TRUE /\ idling = FALSE /\ wire = "none" /\ flags = FALSE
    /\ breaks = 0 /\ timeouts = 0

-----------------------------------------------------------------------------
(* preempt_idle, and the call side of run, skip_to_idle and shutdown.      *)

\* MPD answers a noidle in idle mode and ignores any other.
WriteNoidle ==
    /\ idling' = FALSE /\ UNCHANGED <<up, flags>>
    /\ wire' = IF idling THEN "empty" ELSE wire

Call(c, what, msg) ==
    /\ at[c] = "off" /\ at' = [at EXCEPT ![c] = "preempt"]
    /\ task' = [task EXCEPT ![c] = what] /\ resp' = [resp EXCEPT ![c] = "none"]
    /\ rx' = Append(rx, msg) /\ UNCHANGED <<worker, idle_state, server, counts>>

\* skip_to_idle does not wait for an answer.
AfterPreempt(c) == [at EXCEPT ![c] = IF task[c] = "skip" THEN "off" ELSE "await"]

Preempt(c) ==
    /\ at[c] = "preempt"
    /\ IF idle_state = "idle"
       THEN idle_state' = "preempted" /\ at' = [at EXCEPT ![c] = "write"]
       ELSE at' = AfterPreempt(c) /\ UNCHANGED idle_state
    /\ UNCHANGED <<worker, rx, task, resp, app, server, counts>>

Interrupt(c) ==
    /\ at[c] = "write" /\ WriteNoidle /\ at' = AfterPreempt(c)
    /\ UNCHANGED <<shared, task, resp, app, counts>>

\* The answer of a call: the event loop ends with the first error, the update
\* loop too, and the event loop queues the status it has read.
Return(c) ==
    /\ at[c] = "await" /\ resp[c] # "none"
    /\ at' = [at EXCEPT ![c] = CASE task[c] = "shutdown" -> "down"
                                 [] task[c] # "shutdown" /\ resp[c] = "ok" -> "off"
                                 [] task[c] # "shutdown" /\ resp[c] = "err" -> "exited"]
    /\ app' = IF resp[c] = "ok" /\ task[c] \in {"player", "tick"}
              THEN Append(app, "status") ELSE app
    /\ UNCHANGED <<shared, task, resp, server, counts>>

\* The closure of a call that was given up stays in the channel.
Orphaned(c) == [i \in DOMAIN rx |-> IF rx[i] = c THEN "orphan" ELSE rx[i]]

TimeOut(c) ==
    /\ at[c] = "await" /\ resp[c] = "none" /\ task[c] # "shutdown"
    /\ timeouts < MaxTimeouts /\ timeouts' = timeouts + 1
    /\ at' = [at EXCEPT ![c] = "exited"]
    /\ rx' = Orphaned(c)
    /\ UNCHANGED <<worker, idle_state, task, resp, app, server, breaks>>

-----------------------------------------------------------------------------
(* The event loop and the update loop.                                     *)

\* An Idle event that is handled calls MPD again, one that is not skips.
HandleIdle ==
    /\ app # <<>> /\ Head(app) = "idle" /\ app' = Tail(app)
    /\ \/ \E what \in {"player", "other"} : Call("loop", what, "loop")
       \/ Call("loop", "skip", "skip")

HandleStatusUpdate ==
    /\ app # <<>> /\ Head(app) = "status" /\ app' = Tail(app)
    /\ Call("loop", "status", "loop")

HandleReconnected ==
    /\ app # <<>> /\ Head(app) = "reconnected" /\ app' = Tail(app)
    /\ at["loop"] = "off" /\ UNCHANGED <<shared, calls, server, counts>>

Shutdown == Call("loop", "shutdown", "shutdown") /\ UNCHANGED app

Tick ==
    /\ Playing /\ Len(app) < MaxApp /\ worker # "stopped"
    /\ Call("ticker", "tick", "ticker") /\ UNCHANGED app

-----------------------------------------------------------------------------
(* worker_loop.                                                            *)

\* A message dropped with its channel tells its caller that it failed.
Dropped(msgs) == [c \in Callers |-> IF Contains(msgs, c) THEN "err" ELSE resp[c]]

Stop ==
    /\ worker' = "stopped" /\ rx' = <<>>
    /\ resp' = [Dropped(Tail(rx)) EXCEPT !["loop"] = "ok"]

\* The command of a message is answered by MPD, or fails with the connection.
Answered(msg) ==
    [c \in Callers |-> IF msg # c THEN resp[c] ELSE IF up THEN "ok" ELSE "err"]

HandleMsg ==
    /\ worker \in {"recv", "drain"} /\ rx # <<>>
    /\ IF Head(rx) = "shutdown" THEN Stop
       ELSE /\ worker' = "drain" /\ rx' = Tail(rx)
            /\ resp' = Answered(Head(rx))
    /\ UNCHANGED <<idle_state, at, task, app, server, counts>>

\* Seeded fault: after the messages the worker waits for more of them.
DrainEndsInRecv ==
    /\ worker = "drain" /\ rx = <<>> /\ worker' = "recv"
    /\ UNCHANGED <<idle_state, rx, calls, app, server, counts>>

DrainEnds ==
    /\ worker = "drain" /\ rx = <<>> /\ worker' = "enter"
    /\ UNCHANGED <<idle_state, rx, calls, app, server, counts>>

\* MPD reports what has changed since the last idle at once.  The write may
\* succeed although the connection is broken.
EnterIdle ==
    /\ worker = "enter" /\ worker' = "announce"
    /\ idling' = (up /\ ~flags) /\ wire' = IF up /\ flags THEN "events" ELSE "none"
    /\ flags' = FALSE /\ UNCHANGED up
    /\ UNCHANGED <<idle_state, rx, calls, app, counts>>

EnterIdleFails ==
    /\ worker = "enter" /\ ~up /\ worker' = "lost"
    /\ UNCHANGED <<idle_state, rx, calls, app, server, counts>>

Announce ==
    /\ worker = "announce" /\ worker' = "check" /\ idle_state' = "idle"
    /\ UNCHANGED <<rx, calls, app, server, counts>>

\* Seeded fault: the channel is not looked at again.
CheckQueueUnread ==
    /\ worker = "check" /\ worker' = "read"
    /\ UNCHANGED <<idle_state, rx, calls, app, server, counts>>

\* What was queued before the state was set has not been interrupted for.
CheckQueue ==
    /\ worker = "check" /\ worker' = "read"
    /\ IF rx # <<>> /\ idle_state = "idle"
       THEN idle_state' = "preempted" /\ WriteNoidle
       ELSE UNCHANGED <<idle_state, server>>
    /\ UNCHANGED <<rx, calls, app, counts>>

\* Seeded fault: an idle that has been interrupted is not read to its end.
ReadUnlessPreempted ==
    /\ worker = "read" /\ (wire # "none" \/ idle_state = "preempted")
    /\ worker' = (IF wire = "none" THEN "empty" ELSE wire) /\ wire' = "none"
    /\ UNCHANGED <<idle_state, rx, calls, app, up, idling, flags, counts>>

Read ==
    /\ worker = "read" /\ wire # "none"
    /\ worker' = wire /\ wire' = "none"
    /\ UNCHANGED <<idle_state, rx, calls, app, up, idling, flags, counts>>

ReadFails ==
    /\ worker = "read" /\ ~up /\ wire = "none" /\ worker' = "error"
    /\ UNCHANGED <<idle_state, rx, calls, app, server, counts>>

LeaveIdle ==
    /\ worker \in {"events", "empty", "error"} /\ idle_state' = "not_idle"
    /\ worker' = IF worker = "error" THEN "lost" ELSE "recv"
    /\ app' = IF worker = "events" THEN Append(app, "idle") ELSE app
    /\ UNCHANGED <<rx, calls, server, counts>>

\* Everything queued before an attempt to reconnect is dropped.
DropMsg ==
    /\ worker = "lost" /\ rx # <<>>
    /\ IF Head(rx) = "shutdown" THEN Stop
       ELSE rx' = Tail(rx) /\ resp' = Dropped(<<Head(rx)>>) /\ UNCHANGED worker
    /\ UNCHANGED <<idle_state, at, task, app, server, counts>>

Sleep ==
    /\ worker = "lost" /\ rx = <<>> /\ worker' = "backoff"
    /\ UNCHANGED <<idle_state, rx, calls, app, server, counts>>

\* The worker goes straight to idle mode, whatever is queued.
Reconnect ==
    /\ worker = "backoff" /\ worker' = "enter" /\ app' = Append(app, "reconnected")
    /\ up' = TRUE /\ idling' = FALSE /\ wire' = "none" /\ flags' = FALSE
    /\ UNCHANGED <<idle_state, rx, calls, counts>>

\* MPD does not answer, or the new stream cannot be cloned.
ReconnectFails ==
    /\ worker = "backoff" /\ worker' = "lost"
    /\ UNCHANGED <<idle_state, rx, calls, app, server, counts>>

-----------------------------------------------------------------------------
(* MPD and the network.                                                    *)

ServerChange ==
    /\ up /\ Len(app) < MaxApp
    /\ IF idling THEN idling' = FALSE /\ wire' = "events" /\ UNCHANGED flags
       ELSE flags' = TRUE /\ UNCHANGED <<idling, wire>>
    /\ UNCHANGED <<shared, calls, app, up, counts>>

\* An answer that is already on its way may still arrive.
ConnectionBreaks ==
    /\ up /\ breaks < MaxBreaks /\ breaks' = breaks + 1
    /\ up' = FALSE /\ idling' = FALSE /\ flags' = FALSE /\ wire' \in {"none", wire}
    /\ UNCHANGED <<shared, calls, app, timeouts>>

-----------------------------------------------------------------------------
WorkerNext == \/ HandleMsg \/ DrainEnds \/ EnterIdle \/ EnterIdleFails \/ Announce
              \/ CheckQueue \/ Read \/ ReadFails \/ LeaveIdle
              \/ DropMsg \/ Sleep \/ Reconnect \/ ReconnectFails
CallerNext(c) == Preempt(c) \/ Interrupt(c) \/ Return(c)
LoopNext   == HandleIdle \/ HandleStatusUpdate \/ HandleReconnected

Next == \/ WorkerNext \/ LoopNext \/ Shutdown \/ Tick
        \/ (\E c \in Callers : CallerNext(c) \/ TimeOut(c))
        \/ ServerChange \/ ConnectionBreaks

Spec == Init /\ [][Next]_vars

\* Calls are seconds apart and a command takes milliseconds: every drain of
\* the channel ends.
DrainsEnd == []<>(worker # "drain")

\* Threads and tasks go on when they can, the event loop takes what is in its
\* channel, and the update loop calls every second.
FairSpec == /\ Spec /\ WF_vars(WorkerNext) /\ DrainsEnd
            /\ WF_vars(LoopNext) /\ WF_vars(Tick)
            /\ \A c \in Callers : WF_vars(CallerNext(c))

-----------------------------------------------------------------------------
(* Safety.                                                                 *)

\* Commands are only run on a connection that is not in idle mode and holds
\* no unread answer (async_client.rs:98-149).
CommandsOutsideIdle ==
    worker \in {"recv", "drain", "enter"} => ~idling /\ wire = "none"

\* A message that is queued while MPD is in idle mode is not left there: some
\* caller is about to write the noidle that ends it (async_client.rs:52-68,
\* 116-124, 230-257).
QueuedMessagesInterrupt ==
    worker = "read" /\ idling /\ rx # <<>> =>
        \E c \in Callers : at[c] \in {"preempt", "write"}

\* The worker marks an idle as interrupted before the noidle is written, and
\* until the noidle is written MPD stays in idle mode or has answered.
PreemptedHasWriter ==
    worker \in {"check", "read"} /\ idling /\ idle_state = "preempted" =>
        \E c \in Callers : at[c] = "write"

-----------------------------------------------------------------------------
(* Liveness.                                                               *)

\* Every call is answered or fails, also when the connection breaks or the
\* worker stops; shutdown(), which has no timeout, returns
\* (async_client.rs:230-272).
CallsSettle == \A c \in Callers : at[c] = "await" ~> at[c] # "await"

Unreported == flags \/ wire = "events"
Alive      == at["loop"] \notin {"down", "exited"} /\ task["loop"] # "shutdown"

\* What has changed is read and handed to the event loop, on which the plugins'
\* idle_event depends (rmpcd.lua:22), while an update loop runs: its call every
\* second brings a worker that waits for a message back to idle mode
\* (event_loop.rs:207-231).  Without one nobody need ever wake it.
ChangesAreReportedWhileTicking ==
    Unreported ~> worker = "events" \/ ~up \/ ~Alive \/ at["ticker"] = "exited"
=============================================================================
