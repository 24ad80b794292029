------------------------- MODULE AsyncClientProofs -------------------------
(***************************************************************************)
(* What TLAPS proves about AsyncClient for every bound, with and without   *)
(* an update loop: types, that the worker never runs a command on a        *)
(* connection in idle mode, and that a queued message interrupts it.       *)
(***************************************************************************)
EXTENDS AsyncClient, SequenceTheorems, TLAPS

-----------------------------------------------------------------------------
(* Types.                                                                  *)

\* Both channels stay sequences of what they carry (async_client.rs:243-254).
LEMMA ChannelFacts ==
    ASSUME NEW S
    PROVE  /\ <<>> \in Seq(S)
           /\ \A s \in Seq(S), e \in S : Append(s, e) \in Seq(S) /\ Append(s, e) # <<>>
           /\ \A s \in Seq(S) : s # <<>> => Head(s) \in S /\ Tail(s) \in Seq(S)
  <1>1. <<>> \in Seq(S)
    OBVIOUS
  <1>2. ASSUME NEW s \in Seq(S), NEW e \in S
        PROVE  Append(s, e) \in Seq(S) /\ Append(s, e) # <<>>
    <2>1. Append(s, e) \in Seq(S) /\ Len(Append(s, e)) = Len(s) + 1 /\ Len(s) \in Nat
      OBVIOUS
    <2>. QED  BY <2>1
  <1>3. ASSUME NEW s \in Seq(S), s # <<>>
        PROVE  Head(s) \in S /\ Tail(s) \in Seq(S)
    BY <1>3
  <1>. QED  BY <1>1, <1>2, <1>3

\* Giving a call up relabels its message and moves none (async_client.rs:246).
LEMMA OrphanFacts ==
    ASSUME rx \in Seq(Msg), NEW c
    PROVE  Orphaned(c) \in Seq(Msg) /\ (Orphaned(c) # <<>> => rx # <<>>)
  <1>1. "orphan" \in Msg
    BY DEF Msg
  <1>2. Len(rx) \in Nat /\ rx \in [1..Len(rx) -> Msg]
    BY LenProperties
  <1>3. Orphaned(c) \in [1..Len(rx) -> Msg]
    BY <1>1, <1>2 DEF Orphaned
  <1>4. Orphaned(c) \in Seq(Msg)
    BY <1>2, <1>3, SeqDef
  <1>5. rx = <<>> => Orphaned(c) = <<>>
    <2>. SUFFICES ASSUME rx = <<>> PROVE Orphaned(c) = <<>>
      OBVIOUS
    <2>1. Orphaned(c) \in [1..0 -> Msg]
      BY <1>3
    <2>2. /\ Len(Orphaned(c)) \in Nat /\ DOMAIN Orphaned(c) = 1..Len(Orphaned(c))
          /\ DOMAIN Orphaned(c) = 1..0
      BY <1>4, <2>1, LenProperties
    <2>3. Len(Orphaned(c)) = 0
      BY <2>2
    <2>. QED  BY <1>4, <2>3, EmptySeq
  <1>. QED  BY <1>4, <1>5

\* What an answer leaves in the oneshot channels (async_client.rs:239-249).
LEMMA AnswerType ==
    ASSUME TypeOK, NEW msgs
    PROVE  /\ Dropped(msgs) \in [Callers -> {"none", "ok", "err"}]
           /\ Answered(msgs) \in [Callers -> {"none", "ok", "err"}]
  BY DEF TypeOK, Dropped, Answered

LEMMA TypeInit == Init => TypeOK
  <1>. SUFFICES ASSUME Init PROVE TypeOK
    OBVIOUS
  <1>1. "loop" \in Msg /\ rx = <<"loop">>
    BY DEF Init, Msg, Callers
  <1>2. rx \in Seq(Msg)
    BY <1>1
  <1>3. app \in Seq(AppEvent)
    BY ChannelFacts DEF Init
  <1>4. at \in [Callers -> {"off", "preempt", "write", "await", "down", "exited"}]
    BY DEF Init
  <1>5. task \in [Callers -> Tasks]
    BY DEF Init, Tasks
  <1>6. resp \in [Callers -> {"none", "ok", "err"}]
    BY DEF Init
  <1>7. breaks \in 0..MaxBreaks /\ timeouts \in 0..MaxTimeouts
    BY AsyncClientAssumption DEF Init
  <1>. QED  BY <1>2, <1>3, <1>4, <1>5, <1>6, <1>7 DEF Init, TypeOK, Places

LEMMA CallType ==
    ASSUME TypeOK, NEW c \in Callers, NEW what \in Tasks, NEW msg \in Msg, Call(c, what, msg),
           app' \in Seq(AppEvent)
    PROVE  TypeOK'
  <1>1. rx' \in Seq(Msg)
    BY ChannelFacts DEF TypeOK, Call
  <1>. QED  BY <1>1 DEF TypeOK, Call, server, counts

LEMMA CallerType ==
    ASSUME TypeOK, NEW c \in Callers, CallerNext(c) \/ TimeOut(c)
    PROVE  TypeOK'
  <1>. USE DEF TypeOK, shared, calls, server, counts
  <1>1. CASE Preempt(c)
    BY <1>1 DEF Preempt, AfterPreempt
  <1>2. CASE Interrupt(c)
    BY <1>2 DEF Interrupt, AfterPreempt, WriteNoidle
  <1>3. CASE Return(c)
    <2>1. app' \in Seq(AppEvent)
      <3>1. "status" \in AppEvent
        BY DEF AppEvent
      <3>2. app' = Append(app, "status") \/ app' = app
        BY <1>3 DEF Return
      <3>. QED  BY <3>1, <3>2, ChannelFacts
    <2>2. at' \in [Callers -> {"off", "preempt", "write", "await", "down", "exited"}]
      BY <1>3 DEF Return
    <2>. QED  BY <1>3, <2>1, <2>2 DEF Return
  <1>4. CASE TimeOut(c)
    <2>1. rx' \in Seq(Msg)
      BY <1>4, OrphanFacts DEF TimeOut
    <2>2. timeouts' \in 0..MaxTimeouts
      BY <1>4, AsyncClientAssumption DEF TimeOut
    <2>. QED  BY <1>4, <2>1, <2>2 DEF TimeOut
  <1>. QED  BY <1>1, <1>2, <1>3, <1>4 DEF CallerNext

LEMMA LoopType ==
    ASSUME TypeOK, LoopNext \/ Shutdown \/ Tick
    PROVE  TypeOK'
  <1>1. app' \in Seq(AppEvent)
    BY ChannelFacts DEF TypeOK, LoopNext, HandleIdle, HandleStatusUpdate, HandleReconnected,
       Shutdown, Tick
  <1>2. CASE HandleReconnected
    BY <1>1, <1>2 DEF HandleReconnected, TypeOK, shared, calls, server, counts
  <1>3. CASE ~HandleReconnected
    <2>1. "loop" \in Callers /\ "ticker" \in Callers
      BY DEF Callers
    <2>2. {"loop", "ticker", "skip", "shutdown"} \subseteq Msg
      BY DEF Msg, Callers
    <2>3. Tasks = {"startup", "player", "other", "skip", "status", "shutdown", "tick"}
      BY DEF Tasks
    <2>4. \E c \in Callers, what \in Tasks, msg \in Msg : Call(c, what, msg)
      BY <1>3, <2>1, <2>2, <2>3 DEF LoopNext, HandleIdle, HandleStatusUpdate, Shutdown, Tick
    <2>. QED  BY <1>1, <2>4, CallType
  <1>. QED  BY <1>2, <1>3

LEMMA WorkerType ==
    ASSUME TypeOK, WorkerNext
    PROVE  TypeOK'
  <1>. USE DEF TypeOK, calls, server, counts
  <1>s. ASSUME Stop PROVE resp' \in [Callers -> {"none", "ok", "err"}] /\ rx' \in Seq(Msg)
                          /\ worker' \in Places
    BY <1>s, AnswerType, ChannelFacts DEF Stop, Places
  <1>1. CASE HandleMsg
    <2>1. CASE Head(rx) = "shutdown"
      BY <1>1, <1>s, <2>1 DEF HandleMsg
    <2>2. CASE Head(rx) # "shutdown"
      <3>1. rx' \in Seq(Msg) /\ worker' \in Places
        BY <1>1, <2>2, ChannelFacts DEF HandleMsg, Places
      <3>2. resp' \in [Callers -> {"none", "ok", "err"}]
        BY <1>1, <2>2, AnswerType DEF HandleMsg
      <3>. QED  BY <1>1, <3>1, <3>2 DEF HandleMsg
    <2>. QED  BY <2>1, <2>2
  <1>2. CASE DrainEnds \/ EnterIdleFails \/ Announce \/ Sleep \/ ReadFails \/ ReconnectFails
    BY <1>2 DEF DrainEnds, EnterIdleFails, Announce, Sleep, ReadFails, ReconnectFails, Places
  <1>3. CASE EnterIdle
    BY <1>3 DEF EnterIdle, Places
  <1>4. CASE CheckQueue
    BY <1>4 DEF CheckQueue, WriteNoidle, Places
  <1>5. CASE Read
    BY <1>5 DEF Read, Places
  <1>6. CASE LeaveIdle
    <2>1. "idle" \in AppEvent /\ (app' = Append(app, "idle") \/ app' = app)
      BY <1>6 DEF LeaveIdle, AppEvent
    <2>2. app' \in Seq(AppEvent)
      BY <2>1, ChannelFacts
    <2>. QED  BY <1>6, <2>2 DEF LeaveIdle, Places
  <1>7. CASE DropMsg
    <2>1. CASE Head(rx) = "shutdown"
      BY <1>7, <1>s, <2>1 DEF DropMsg
    <2>2. CASE Head(rx) # "shutdown"
      <3>1. rx' \in Seq(Msg)
        BY <1>7, <2>2, ChannelFacts DEF DropMsg
      <3>2. resp' \in [Callers -> {"none", "ok", "err"}]
        BY <1>7, <2>2, AnswerType DEF DropMsg
      <3>. QED  BY <1>7, <2>2, <3>1, <3>2 DEF DropMsg
    <2>. QED  BY <2>1, <2>2
  <1>8. CASE Reconnect
    <2>1. app' \in Seq(AppEvent)
      BY <1>8, ChannelFacts DEF Reconnect, AppEvent
    <2>. QED  BY <1>8, <2>1 DEF Reconnect, Places
  <1>. QED  BY <1>1, <1>2, <1>3, <1>4, <1>5, <1>6, <1>7, <1>8 DEF WorkerNext

LEMMA TypeStep == TypeOK /\ [Next]_vars => TypeOK'
  <1>. SUFFICES ASSUME TypeOK, [Next]_vars PROVE TypeOK'
    OBVIOUS
  <1>1. CASE ServerChange
    BY <1>1 DEF ServerChange, TypeOK, shared, calls, counts
  <1>2. CASE ConnectionBreaks
    <2>1. breaks' \in 0..MaxBreaks
      BY <1>2, AsyncClientAssumption DEF ConnectionBreaks, TypeOK
    <2>. QED  BY <1>2, <2>1 DEF ConnectionBreaks, TypeOK, shared, calls
  <1>3. CASE UNCHANGED vars
    BY <1>3 DEF vars, TypeOK, shared, calls, server, counts
  <1>. QED  BY <1>1, <1>2, <1>3, CallerType, LoopType, WorkerType DEF Next

\* Every variable keeps its type, whatever the bounds.
THEOREM TypeCorrect == Spec => []TypeOK
  <1>. QED  BY TypeInit, TypeStep, PTL DEF Spec

-----------------------------------------------------------------------------
(* The idle mode.  Calls and the worker touch idle_state without a lock:   *)
(* the invariant says what the state can be at each place of the worker,   *)
(* and who still owes MPD a noidle.                                        *)

\* MPD is in idle mode, or its answer unread, only while the worker waits for
\* it; and not both (async_client.rs:118-125).
QuietOutsideIdle ==
    /\ worker \notin {"announce", "check", "read"} => ~idling /\ wire = "none"
    /\ idling => up /\ wire = "none"

\* idle_state is only touched in idle mode (async_client.rs:121-126).
StateFollowsWorker ==
    /\ worker \in {"recv", "drain", "enter", "announce", "lost", "backoff"} =>
           idle_state = "not_idle"
    /\ worker \in {"check", "read"} => idle_state # "not_idle"

IdleInv == QuietOutsideIdle /\ StateFollowsWorker /\ PreemptedHasWriter /\ QueuedMessagesInterrupt

LEMMA IdleInit == Init => IdleInv
  BY DEF Init, IdleInv, QuietOutsideIdle, StateFollowsWorker, PreemptedHasWriter,
     QueuedMessagesInterrupt

\* A caller that does not leave "preempt" or "write", and one that is there
\* from now on, keep the promise to interrupt.
LEMMA CallKeepsIdle ==
    ASSUME TypeOK, IdleInv, NEW c \in Callers, NEW what, NEW msg, Call(c, what, msg)
    PROVE  IdleInv'
  <1>1. at[c] = "off" /\ at' = [at EXCEPT ![c] = "preempt"]
    BY DEF Call
  <1>2. at'[c] = "preempt" /\ \A d \in Callers : at[d] = "write" => at'[d] = "write"
    BY <1>1 DEF TypeOK
  <1>3. UNCHANGED <<worker, idle_state, up, idling, wire>>
    BY DEF Call, server
  <1>. QED  BY <1>2, <1>3 DEF IdleInv, QuietOutsideIdle, StateFollowsWorker,
            PreemptedHasWriter, QueuedMessagesInterrupt

LEMMA CallerKeepsIdle ==
    ASSUME TypeOK, IdleInv, NEW c \in Callers, CallerNext(c) \/ TimeOut(c)
    PROVE  IdleInv'
  <1>. USE DEF IdleInv, QuietOutsideIdle, StateFollowsWorker
  <1>o. ASSUME NEW p, at' = [at EXCEPT ![c] = p]
        PROVE  \A d \in Callers : d # c => at'[d] = at[d]
    BY <1>o DEF TypeOK
  <1>1. CASE Preempt(c)
    <2>1. CASE idle_state = "idle"
      <3>1. at'[c] = "write" /\ idle_state' = "preempted"
        BY <1>1, <2>1 DEF Preempt, TypeOK
      <3>. QED  BY <1>1, <2>1, <3>1 DEF Preempt, PreemptedHasWriter, QueuedMessagesInterrupt, server
    <2>2. CASE idle_state # "idle"
      <3>1. at[c] = "preempt" /\ \A d \in Callers : at[d] = "write" => at'[d] = "write"
        BY <1>1, <1>o, <2>2 DEF Preempt, AfterPreempt
      <3>2. UNCHANGED <<worker, idle_state, rx, server>>
        BY <1>1, <2>2 DEF Preempt
      <3>3. PreemptedHasWriter'
        BY <3>1, <3>2 DEF PreemptedHasWriter, server
      <3>4. QueuedMessagesInterrupt'
        BY <2>2, <3>1, <3>2 DEF PreemptedHasWriter, QueuedMessagesInterrupt, server, TypeOK
      <3>. QED  BY <3>2, <3>3, <3>4 DEF server
    <2>. QED  BY <2>1, <2>2
  <1>2. CASE Interrupt(c)
    BY <1>2 DEF Interrupt, WriteNoidle, shared, PreemptedHasWriter, QueuedMessagesInterrupt
  <1>3. CASE Return(c) \/ TimeOut(c)
    <2>1. at[c] = "await" /\ \E p : at' = [at EXCEPT ![c] = p]
      BY <1>3 DEF Return, TimeOut
    <2>2. \A d \in Callers : at[d] \in {"preempt", "write"} => at'[d] = at[d]
      BY <2>1, <1>o
    <2>3. UNCHANGED <<worker, idle_state, server>> /\ (rx' # <<>> => rx # <<>>)
      BY <1>3, OrphanFacts DEF Return, TimeOut, shared, TypeOK
    <2>4. PreemptedHasWriter'
      BY <2>2, <2>3 DEF PreemptedHasWriter, server
    <2>5. QueuedMessagesInterrupt'
      BY <2>2, <2>3 DEF QueuedMessagesInterrupt, server
    <2>. QED  BY <2>3, <2>4, <2>5 DEF server
  <1>. QED  BY <1>1, <1>2, <1>3 DEF CallerNext

LEMMA WorkerKeepsIdle ==
    ASSUME TypeOK, IdleInv, WorkerNext
    PROVE  IdleInv'
  <1>. USE DEF IdleInv, QuietOutsideIdle, StateFollowsWorker, PreemptedHasWriter,
               QueuedMessagesInterrupt, calls, server
  <1>1. CASE HandleMsg \/ DropMsg
    <2>1. worker' \in {"drain", "lost", "stopped"} /\ UNCHANGED <<idle_state, server>>
          /\ worker \in {"recv", "drain", "lost"}
          /\ (worker' = "lost" => worker = "lost")
      BY <1>1 DEF HandleMsg, DropMsg, Stop
    <2>. QED  BY <2>1
  <1>2. CASE DrainEnds \/ EnterIdleFails \/ Announce \/ Sleep \/ ReconnectFails
    BY <1>2 DEF DrainEnds, EnterIdleFails, Announce, Sleep, ReconnectFails
  <1>3. CASE EnterIdle
    BY <1>3 DEF EnterIdle, TypeOK
  <1>4. CASE CheckQueue
    BY <1>4 DEF CheckQueue, WriteNoidle, TypeOK
  <1>5. CASE Read \/ ReadFails
    BY <1>5 DEF Read, ReadFails, TypeOK
  <1>6. CASE LeaveIdle
    BY <1>6 DEF LeaveIdle
  <1>7. CASE Reconnect
    BY <1>7 DEF Reconnect
  <1>. QED  BY <1>1, <1>2, <1>3, <1>4, <1>5, <1>6, <1>7 DEF WorkerNext

LEMMA IdleStep == TypeOK /\ IdleInv /\ [Next]_vars => IdleInv'
  <1>. SUFFICES ASSUME TypeOK, IdleInv, [Next]_vars PROVE IdleInv'
    OBVIOUS
  <1>. USE DEF IdleInv, QuietOutsideIdle, StateFollowsWorker, PreemptedHasWriter,
               QueuedMessagesInterrupt
  <1>1. CASE LoopNext \/ Shutdown \/ Tick
    <2>1. CASE HandleReconnected
      BY <2>1 DEF HandleReconnected, shared, calls, server
    <2>2. CASE ~HandleReconnected
      <3>1. \E c \in Callers, what \in Tasks, msg \in Msg : Call(c, what, msg)
        BY <1>1, <2>2 DEF LoopNext, HandleIdle, HandleStatusUpdate, Shutdown, Tick, Callers, Tasks, Msg
      <3>. QED  BY <3>1, CallKeepsIdle
    <2>. QED  BY <2>1, <2>2
  <1>2. CASE ServerChange
    BY <1>2 DEF ServerChange, shared, calls
  <1>3. CASE ConnectionBreaks
    BY <1>3 DEF ConnectionBreaks, shared, calls
  <1>4. CASE UNCHANGED vars
    BY <1>4 DEF vars, shared, calls, server
  <1>. QED  BY <1>1, <1>2, <1>3, <1>4, CallerKeepsIdle, WorkerKeepsIdle DEF Next

\* The inductive invariant of the idle mode.
THEOREM IdleInvariant == Spec => []IdleInv
  <1>. QED  BY IdleInit, IdleStep, TypeCorrect, PTL DEF Spec

\* No command is run on a connection in idle mode or with an unread idle
\* answer, whichever callers interrupt the worker (async_client.rs:98-119).
THEOREM CommandsNeverMeetIdle == Spec => []CommandsOutsideIdle
  <1>1. IdleInv => CommandsOutsideIdle
    BY DEF IdleInv, QuietOutsideIdle, CommandsOutsideIdle
  <1>. QED  BY <1>1, IdleInvariant, PTL

\* There is no lost wake-up: a message that is queued while MPD is in idle mode
\* has a caller that will end it (async_client.rs:55-71, 118-125).
THEOREM NoLostWakeUp == Spec => []QueuedMessagesInterrupt
  <1>1. IdleInv => QueuedMessagesInterrupt
    BY DEF IdleInv
  <1>. QED  BY <1>1, IdleInvariant, PTL

\* Who marks an idle as interrupted writes the noidle (async_client.rs:55-71).
THEOREM PreemptionIsWritten == Spec => []PreemptedHasWriter
  <1>1. IdleInv => PreemptedHasWriter
    BY DEF IdleInv
  <1>. QED  BY <1>1, IdleInvariant, PTL
=============================================================================
