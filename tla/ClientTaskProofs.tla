-------------------------- MODULE ClientTaskProofs --------------------------
(***************************************************************************)
(* What TLAPS proves about ClientTask for every number of requests, set of *)
(* keys, number of faults, set of fault kinds and timeout configuration:   *)
(* type correctness, that the hand-over of the Client between the two      *)
(* worker threads is safe, and that they implement RequestService.         *)
(***************************************************************************)
EXTENDS ClientTask, SequenceTheorems, TLAPS

\* The queue operations stay inside the sequences of requests (buffer and
\* channel of client.rs:175-225).
LEMMA SequenceFacts ==
    /\ \A s \in Seq(Request), r \in Request : Append(s, r) \in Seq(Request)
    /\ \A s, t \in Seq(Request) : s \o t \in Seq(Request)
    /\ \A s \in Seq(Request) : s # <<>> =>
           Head(s) \in Request /\ Tail(s) \in Seq(Request)
    /\ <<>> \in Seq(Request)
    /\ \A r \in Request : <<r>> \in Seq(Request)
  OBVIOUS

\* Declaring requests lost leaves outcome a function into the outcomes
\* (client.rs:342: the drained requests are dropped).
Outcomes == {"unsent", "pending", "done", "error", "timedout", "skipped", "lost"}
LEMMA LostType ==
    ASSUME outcome \in [Request -> Outcomes], NEW rs
    PROVE  Lost(rs) \in [Request -> Outcomes]
  BY DEF Lost, Outcomes

LEMMA TypeInit == Init => TypeOK
  <1>. SUFFICES ASSUME Init PROVE TypeOK
    OBVIOUS
  <1>1. faults \in 0..MaxFaults  BY ClientAssumption DEF Init
  <1>2. requests \in Seq(Request) /\ buffer \in Seq(Request)
    BY SequenceFacts DEF Init
  <1>3. /\ key \in [Request -> Keys \union {NoKey}]
        /\ outcome \in [Request -> Outcomes]
    BY DEF Init, Outcomes
  <1>. QED  BY <1>1, <1>2, <1>3 DEF Init, TypeOK, TaskPC, IdlePC, ReqPC, Outcomes

\* A loop that is left keeps the types (client.rs:50-62, 304-312).
LEMMA BreakType ==
    ASSUME TypeOK, NEW rs, ReqBreaks(rs)
    PROVE  /\ req' \in ReqPC /\ healthy' \in BOOLEAN /\ returned' \in Nat
           /\ buffer' \in Seq(Request) /\ outcome' \in [Request -> Outcomes]
  <1>1. returned' \in Nat
    BY DEF ReqBreaks, ReturnClient, TypeOK
  <1>2. outcome' \in [Request -> Outcomes]
    BY LostType DEF ReqBreaks, TypeOK, Outcomes
  <1>. QED  BY <1>1, <1>2, SequenceFacts DEF ReqBreaks, ReqPC

LEMMA TypeStep == TypeOK /\ [Next]_vars => TypeOK'
  <1>. SUFFICES ASSUME TypeOK, [Next]_vars PROVE TypeOK'
    OBVIOUS
  <1>. USE DEF TypeOK, Outcomes
  <1>f. ASSUME NEW kind, Fault(kind) PROVE faults' \in 0..MaxFaults
    BY <1>f, ClientAssumption DEF Fault
  <1>d. ASSUME DeadlinePasses PROVE faults' \in 0..MaxFaults
    BY <1>d, <1>f DEF DeadlinePasses
  <1>q. ASSUME DropQueued PROVE /\ requests' \in Seq(Request)
                                /\ outcome' \in [Request -> Outcomes]
    BY <1>q, LostType, SequenceFacts DEF DropQueued
  <1>e. ASSUME IdleEnds PROVE idle' \in IdlePC /\ returned' \in Nat
    BY <1>e DEF IdleEnds, ReturnClient, IdlePC
  <1>1. CASE TaskNext
    <2>. USE DEF vars, threads, server, work, notices, TaskPC, IdlePC
    <2>1. CASE TaskStart  BY <2>1 DEF TaskStart
    <2>2. CASE TaskClaim  BY <2>2 DEF TaskClaim, TakeClient
    <2>3. CASE CheckFirst
      <3>1. first' \in BOOLEAN /\ task' \in TaskPC  BY <2>3 DEF CheckFirst
      <3>2. UNCHANGED <<idle, req, healthy, returned, server, work, notices, armed, faults>>
        BY <2>3 DEF CheckFirst
      <3>. QED  BY <3>1, <3>2
    <2>4. CASE CheckReconnected
      BY <2>4, <1>q DEF CheckReconnected, FreshServer, DropQueued
    <2>5. CASE CheckFailed
      <3>1. faults' \in 0..MaxFaults  BY <2>5, <1>f DEF CheckFailed
      <3>2. requests' \in Seq(Request) /\ outcome' \in [Request -> Outcomes]
        BY <2>5, <1>q DEF CheckFailed
      <3>3. returned' \in Nat  BY <2>5 DEF CheckFailed, ReturnClient
      <3>4. CASE UNCHANGED <<server, work, notices, armed>>
        BY <2>5, <3>1, <3>3, <3>4 DEF CheckFailed
      <3>5. CASE /\ FreshServer /\ armed' = "none" /\ DropQueued
                 /\ told' = "connected" /\ untold' = FALSE
        BY <2>5, <3>1, <3>2, <3>3, <3>5 DEF CheckFailed, FreshServer, DropQueued
      <3>. QED  BY <2>5, <3>4, <3>5 DEF CheckFailed
    <2>6. CASE TaskSpawnIdle  BY <2>6 DEF TaskSpawnIdle, ReturnClient
    <2>7. CASE TaskJoin  BY <2>7 DEF TaskJoin
    <2>8. CASE TaskLost  BY <2>8 DEF TaskLost
    <2>. QED  BY <1>1, <2>1, <2>2, <2>3, <2>4, <2>5, <2>6, <2>7, <2>8 DEF TaskNext
  <1>2. CASE IdleNext
    <2>. USE DEF vars, threads, server, work, notices
    <2>1. CASE IdlePoll  BY <2>1 DEF IdlePoll, IdlePC
    <2>2. CASE IdleAcquire  BY <2>2 DEF IdleAcquire, TakeClient, IdlePC
    <2>3. CASE IdleSetup
      BY <2>3 DEF IdleSetup, ServerEntersIdle, IdlePC
    <2>4. CASE IdleSetupFails  BY <2>4, <1>e DEF IdleSetupFails
    <2>5. CASE IdleConfirmFails  BY <2>5, <1>e, <1>d DEF IdleConfirmFails
    <2>6. CASE IdleEvents  BY <2>6 DEF IdleEvents, ReturnClient, IdlePC
    <2>7. CASE IdleReadFails  BY <2>7, <1>e DEF IdleReadFails
    <2>8. CASE IdleAckFails  BY <2>8, <1>e, <1>d DEF IdleAckFails
    <2>. QED  BY <1>2, <2>1, <2>2, <2>3, <2>4, <2>5, <2>6, <2>7, <2>8 DEF IdleNext
  <1>3. CASE HandOver
    BY <1>3 DEF HandOver, ConfirmToTask, ConfirmToRequest, GiveToIdle, ClaimFromIdle,
       ReturnClient, TaskPC, IdlePC, ReqPC, vars, threads, server, work, notices
  <1>4. CASE ReqNext
    <2>. USE DEF vars, threads, server, work, notices
    <2>0. ASSUME buffer # <<>>
          PROVE /\ Current \in Request /\ Rest \in Seq(Request)
                /\ <<Current>> \o Rest \in Seq(Request)
      BY <2>0, SequenceFacts DEF Current, Rest
    <2>1. CASE ReqTakeRequest
      BY <2>1, BreakType, SequenceFacts DEF ReqTakeRequest, ReqPC
    <2>2. CASE ReqTakeClient  BY <2>2 DEF ReqTakeClient, TakeClient, ReqPC
    <2>3. CASE ReqGiveFails  BY <2>3, <1>d, BreakType DEF ReqGiveFails
    <2>4. CASE ReqNoidle  BY <2>4 DEF ReqNoidle, ReqPC
    <2>5. CASE ReqGivesUp  BY <2>5, BreakType DEF ReqGivesUp
    <2>6. CASE ReqClaim  BY <2>6 DEF ReqClaim, ReqPC
    <2>7. CASE ReqAcquire  BY <2>7 DEF ReqAcquire, TakeClient, ReqPC
    <2>8. CASE ReqConfirmFails  BY <2>8, <1>d, BreakType DEF ReqConfirmFails
    <2>9. CASE ReqArm  BY <2>9, BreakType DEF ReqArm, ReqPC
    <2>10. CASE ReqSkip  BY <2>10, <2>0, SequenceFacts DEF ReqSkip
    <2>11. CASE ReqExecute  BY <2>11, <2>0, BreakType, SequenceFacts DEF ReqExecute
    <2>12. CASE ReqTimedOut
      BY <2>12, <2>0, <1>f, SequenceFacts DEF ReqTimedOut, FreshServer
    <2>13. CASE ReqTimedOutForGood
      <3>1. faults' \in 0..MaxFaults  BY <2>13, <1>f DEF ReqTimedOutForGood
      <3>2. outcome' \in [Request -> Outcomes]
        BY <2>13, LostType DEF ReqTimedOutForGood
      <3>3. requests' \in Seq(Request) /\ buffer' \in Seq(Request)
        BY <2>13, SequenceFacts DEF ReqTimedOutForGood
      <3>4. req' \in ReqPC  BY <2>13 DEF ReqTimedOutForGood, ReqPC
      <3>5. healthy' = FALSE /\ up' = FALSE  BY <2>13 DEF ReqTimedOutForGood
      <3>6. returned' \in Nat  BY <2>13 DEF ReqTimedOutForGood, ReturnClient
      <3>7. UNCHANGED <<task, idle, first, idling, wire, flags, key, notices, armed>>
        BY <2>13 DEF ReqTimedOutForGood
      <3>. QED  BY <3>1, <3>2, <3>3, <3>4, <3>5, <3>6, <3>7
    <2>14. CASE ReqStall  BY <2>14, <2>0, <1>f, SequenceFacts DEF ReqStall, ReqPC
    <2>15. CASE ReqUnstall  BY <2>15 DEF ReqUnstall, ReqPC
    <2>16. CASE ReqRelease  BY <2>16 DEF ReqRelease, ReturnClient, ReqPC
    <2>17. CASE ReqAckFails  BY <2>17, <1>d, BreakType DEF ReqAckFails
    <2>18. CASE ReqExit  BY <2>18 DEF ReqExit, ReqPC
    <2>19. CASE ReqNoidleFails  BY <2>19, <1>f, BreakType DEF ReqNoidleFails
    <2>20. CASE ReqNoidleUnheard  BY <2>20, <1>f DEF ReqNoidleUnheard, ReqPC
    <2>. QED
      BY <1>4, <2>1, <2>2, <2>3, <2>4, <2>5, <2>6, <2>7, <2>8, <2>9, <2>10, <2>11,
         <2>12, <2>13, <2>14, <2>15, <2>16, <2>17, <2>18, <2>19, <2>20 DEF ReqNext
  <1>5. CASE Environment
    <2>. USE DEF vars, threads, server, work, notices
    <2>1. ASSUME NEW k \in Keys \union {NoKey}, Submit(k) PROVE TypeOK'
      BY <2>1, SequenceFacts DEF Submit
    <2>2. CASE ServerChange
      <3>1. CASE up /\ idling  BY <2>2, <3>1 DEF ServerChange
      <3>2. CASE ~(up /\ idling)
        <4>1. flags' \in BOOLEAN  BY <2>2, <3>2, Zenon DEF ServerChange
        <4>2. untold' \in BOOLEAN  BY <2>2 DEF ServerChange
        <4>3. UNCHANGED <<threads, up, idling, wire, work, told, armed, faults>>
          BY <2>2, <3>2 DEF ServerChange
        <4>. QED  BY <4>1, <4>2, <4>3
      <3>. QED  BY <3>1, <3>2
    <2>3. CASE ConnectionBreaks  BY <2>3, <1>f DEF ConnectionBreaks
    <2>4. CASE SilenceEnds
      <3>. UNCHANGED <<task, idle, healthy, first, returned, flags, work, notices, armed, faults>>
        BY <2>4 DEF SilenceEnds
      <3>1. CASE up' = FALSE /\ UNCHANGED <<req, idling, wire>>
        BY <3>1
      <3>2. CASE req = "stalled" /\ req' = "process" /\ UNCHANGED <<up, idling, wire>>
        BY <3>2 DEF ReqPC
      <3>3. CASE Unheard /\ idling' = FALSE /\ wire' = "ok" /\ UNCHANGED <<up, req>>
        BY <3>3
      <3>. QED  BY <2>4, <3>1, <3>2, <3>3 DEF SilenceEnds
    <2>. QED  BY <1>5, <2>1, <2>2, <2>3, <2>4 DEF Environment
  <1>6. CASE UNCHANGED vars
    BY <1>6 DEF vars, threads, server, work, notices
  <1>. QED  BY <1>1, <1>2, <1>3, <1>4, <1>5, <1>6 DEF Next

\* Every variable of the client threads keeps its type.
THEOREM TypeCorrect == Spec => []TypeOK
  BY TypeInit, TypeStep, PTL DEF Spec

-----------------------------------------------------------------------------
(* The hand-over.                                                          *)

LEMMA HandOverInit == Init => HandOverInv
  BY DEF Init, HandOverInv, OneClient, NoCrossedWait, ThreadsOnlyInJoin,
     FirstMeansStarting, Phases, OutOfIdle, TaskHolds, IdleHolds, ReqHolds

LEMMA HandOverStep == TypeOK /\ HandOverInv /\ [Next]_vars => HandOverInv'
  <1>. SUFFICES ASSUME TypeOK, HandOverInv, [Next]_vars PROVE HandOverInv'
    OBVIOUS
  <1>. USE DEF HandOverInv, OneClient, NoCrossedWait, ThreadsOnlyInJoin,
       FirstMeansStarting, Phases, OutOfIdle, TaskHolds, IdleHolds, ReqHolds,
       TakeClient, ReturnClient, vars, threads, server, work, notices
  <1>. USE DEF TypeOK, TaskPC, IdlePC, ReqPC
  <1>1. CASE TaskNext
    <2>1. CASE TaskStart  BY <2>1 DEF TaskStart
    <2>2. CASE TaskClaim  BY <2>2 DEF TaskClaim
    <2>3. CASE CheckFirst  BY <2>3 DEF CheckFirst
    <2>4. CASE CheckReconnected  BY <2>4 DEF CheckReconnected, FreshServer
    <2>5. CASE CheckFailed  BY <2>5 DEF CheckFailed, FreshServer
    <2>6. CASE TaskSpawnIdle  BY <2>6 DEF TaskSpawnIdle
    <2>7. CASE TaskJoin  BY <2>7 DEF TaskJoin
    <2>8. CASE TaskLost  BY <2>8 DEF TaskLost
    <2>. QED  BY <1>1, <2>1, <2>2, <2>3, <2>4, <2>5, <2>6, <2>7, <2>8 DEF TaskNext
  <1>2. CASE IdleNext
    <2>1. CASE IdlePoll  BY <2>1 DEF IdlePoll
    <2>2. CASE IdleAcquire  BY <2>2 DEF IdleAcquire
    <2>3. CASE IdleSetup  BY <2>3 DEF IdleSetup, ServerEntersIdle
    <2>4. CASE IdleSetupFails  BY <2>4 DEF IdleSetupFails, IdleEnds
    <2>5. CASE IdleConfirmFails  BY <2>5 DEF IdleConfirmFails, IdleEnds
    <2>6. CASE IdleEvents  BY <2>6 DEF IdleEvents
    <2>7. CASE IdleReadFails  BY <2>7 DEF IdleReadFails, IdleEnds
    <2>8. CASE IdleAckFails  BY <2>8 DEF IdleAckFails, IdleEnds
    <2>. QED  BY <1>2, <2>1, <2>2, <2>3, <2>4, <2>5, <2>6, <2>7, <2>8 DEF IdleNext
  <1>3. CASE HandOver
    <2>1. CASE ConfirmToTask  BY <2>1 DEF ConfirmToTask
    <2>2. CASE ConfirmToRequest  BY <2>2 DEF ConfirmToRequest
    <2>3. CASE GiveToIdle  BY <2>3 DEF GiveToIdle
    <2>4. CASE ClaimFromIdle  BY <2>4 DEF ClaimFromIdle
    <2>. QED  BY <1>3, <2>1, <2>2, <2>3, <2>4 DEF HandOver
  <1>4. CASE ReqNext
    <2>1. CASE ReqTakeRequest  BY <2>1 DEF ReqTakeRequest, ReqBreaks
    <2>2. CASE ReqTakeClient  BY <2>2 DEF ReqTakeClient
    <2>3. CASE ReqGiveFails  BY <2>3 DEF ReqGiveFails, ReqBreaks
    <2>4. CASE ReqNoidle  BY <2>4 DEF ReqNoidle
    <2>5. CASE ReqGivesUp  BY <2>5 DEF ReqGivesUp, ReqBreaks
    <2>6. CASE ReqClaim  BY <2>6 DEF ReqClaim
    <2>7. CASE ReqAcquire  BY <2>7 DEF ReqAcquire
    <2>8. CASE ReqConfirmFails  BY <2>8 DEF ReqConfirmFails, ReqBreaks
    <2>9. CASE ReqArm  BY <2>9 DEF ReqArm, ReqBreaks
    <2>10. CASE ReqSkip  BY <2>10 DEF ReqSkip
    <2>11. CASE ReqExecute  BY <2>11 DEF ReqExecute, ReqBreaks
    <2>12. CASE ReqTimedOut  BY <2>12 DEF ReqTimedOut, FreshServer
    <2>13. CASE ReqTimedOutForGood  BY <2>13 DEF ReqTimedOutForGood
    <2>14. CASE ReqStall  BY <2>14 DEF ReqStall
    <2>15. CASE ReqUnstall  BY <2>15 DEF ReqUnstall
    <2>16. CASE ReqRelease  BY <2>16 DEF ReqRelease
    <2>17. CASE ReqAckFails  BY <2>17 DEF ReqAckFails, ReqBreaks
    <2>18. CASE ReqExit  BY <2>18 DEF ReqExit
    <2>19. CASE ReqNoidleFails  BY <2>19 DEF ReqNoidleFails, ReqBreaks
    <2>20. CASE ReqNoidleUnheard  BY <2>20 DEF ReqNoidleUnheard
    <2>. QED
      BY <1>4, <2>1, <2>2, <2>3, <2>4, <2>5, <2>6, <2>7, <2>8, <2>9, <2>10, <2>11,
         <2>12, <2>13, <2>14, <2>15, <2>16, <2>17, <2>18, <2>19, <2>20 DEF ReqNext
  <1>5. CASE Environment
    <2>1. ASSUME NEW k \in Keys \union {NoKey}, Submit(k) PROVE HandOverInv'
      BY <2>1 DEF Submit
    <2>2. CASE ServerChange  BY <2>2 DEF ServerChange
    <2>3. CASE ConnectionBreaks  BY <2>3 DEF ConnectionBreaks
    <2>4. CASE SilenceEnds
      <3>1. CASE up' = FALSE /\ UNCHANGED <<req, idling, wire>>
        BY <2>4, <3>1 DEF SilenceEnds
      <3>2. CASE req = "stalled" /\ req' = "process" /\ UNCHANGED <<up, idling, wire>>
        BY <2>4, <3>2 DEF SilenceEnds
      <3>3. CASE Unheard /\ idling' = FALSE /\ wire' = "ok" /\ UNCHANGED <<up, req>>
        BY <2>4, <3>3 DEF SilenceEnds, Silent, Unheard
      <3>. QED  BY <2>4, <3>1, <3>2, <3>3 DEF SilenceEnds
    <2>. QED  BY <1>5, <2>1, <2>2, <2>3, <2>4 DEF Environment
  <1>6. CASE UNCHANGED vars  BY <1>6
  <1>. QED  BY <1>1, <1>2, <1>3, <1>4, <1>5, <1>6 DEF Next

\* The inductive invariant of the hand-over protocol.
THEOREM HandOverInvariant == Spec => []HandOverInv
  <1>1. Init => HandOverInv  BY HandOverInit
  <1>2. TypeOK /\ HandOverInv /\ [Next]_vars => HandOverInv'  BY HandOverStep
  <1>3. Spec => []TypeOK  BY TypeCorrect
  <1>. QED  BY <1>1, <1>2, <1>3, PTL DEF Spec

\* There is always exactly one Client, and it is in exactly one place.
THEOREM ClientIsUnique == Spec => []OneClient
  <1>1. HandOverInv => OneClient  BY DEF HandOverInv
  <1>. QED  BY <1>1, HandOverInvariant, PTL

\* The two worker threads never wait for each other's confirmation.
THEOREM WaitsNeverCross == Spec => []NoCrossedWait
  <1>1. HandOverInv => NoCrossedWait  BY DEF HandOverInv
  <1>. QED  BY <1>1, HandOverInvariant, PTL

\* No command is written to a connection that is in idle mode, or that still
\* has the answer to idle on it.
THEOREM CommandsNeverMeetIdle == Spec => []CommandsOutsideIdle
  <1>1. HandOverInv => CommandsOutsideIdle
    BY DEF HandOverInv, Phases, OutOfIdle, CommandsOutsideIdle
  <1>. QED  BY <1>1, HandOverInvariant, PTL

\* noidle is only written once the idle thread has entered idle mode.
THEOREM NoidleIsTimely == Spec => []NoidleNotTooEarly
  <1>1. HandOverInv => NoidleNotTooEarly
    BY DEF HandOverInv, Phases, NoidleNotTooEarly
  <1>. QED  BY <1>1, HandOverInvariant, PTL

\* No result of MPD is discarded by the health check before it is sent.
THEOREM NoResultIsDiscarded == Spec => []ResultsAreSent
  <1>1. HandOverInv => ResultsAreSent  BY DEF HandOverInv, Phases, ResultsAreSent
  <1>. QED  BY <1>1, HandOverInvariant, PTL

\* In every reachable state a hand-over leaves one Client, crosses no other, and
\* what the request thread has begun it ends with HEALTHY set.
THEOREM HandOversAreSound == Spec => []HandOverIsSound
  <1>. QED
    BY ClientIsUnique, WaitsNeverCross, NoResultIsDiscarded, PTL DEF HandOverIsSound

\* In every reachable state commands are outside of idle mode and noidle in it.
THEOREM MpdModeAlwaysRespected == Spec => []MpdModeIsRespected
  <1>. QED  BY CommandsNeverMeetIdle, NoidleIsTimely, PTL DEF MpdModeIsRespected

-----------------------------------------------------------------------------
(* The refinement of RequestService.                                       *)

\* Outside of a round of requests the buffer is empty (client.rs:176-206, 257).
EmptyOutside == req \in {"off", "select", "give", "ack", "exit"} => buffer = <<>>

LEMMA EmptyOutsideStep == HandOverInv /\ EmptyOutside /\ [Next]_vars => EmptyOutside'
  <1>. SUFFICES ASSUME HandOverInv, EmptyOutside, [Next]_vars PROVE EmptyOutside'
    OBVIOUS
  <1>. USE DEF EmptyOutside, vars, threads, work
  <1>1. CASE TaskNext
    BY <1>1 DEF TaskNext, TaskStart, TaskClaim, CheckFirst, CheckReconnected, CheckFailed,
       TaskSpawnIdle, TaskJoin, TaskLost, DropQueued
  <1>2. CASE IdleNext
    BY <1>2 DEF IdleNext, IdlePoll, IdleAcquire, IdleSetup, IdleSetupFails, IdleConfirmFails,
       IdleEvents, IdleReadFails, IdleAckFails
  <1>3. CASE HandOver
    BY <1>3 DEF HandOver, ConfirmToTask, ConfirmToRequest, GiveToIdle, ClaimFromIdle,
       HandOverInv, ThreadsOnlyInJoin
  <1>4. CASE ReqNext
    <2>1. CASE ReqTakeRequest  BY <2>1 DEF ReqTakeRequest, ReqBreaks
    <2>2. CASE ReqTakeClient  BY <2>2 DEF ReqTakeClient
    <2>3. CASE ReqGiveFails  BY <2>3 DEF ReqGiveFails, ReqBreaks
    <2>4. CASE ReqNoidle  BY <2>4 DEF ReqNoidle
    <2>5. CASE ReqGivesUp  BY <2>5 DEF ReqGivesUp, ReqBreaks
    <2>6. CASE ReqClaim  BY <2>6 DEF ReqClaim
    <2>7. CASE ReqAcquire  BY <2>7 DEF ReqAcquire
    <2>8. CASE ReqConfirmFails  BY <2>8 DEF ReqConfirmFails, ReqBreaks
    <2>9. CASE ReqArm  BY <2>9 DEF ReqArm, ReqBreaks
    <2>10. CASE ReqSkip  BY <2>10 DEF ReqSkip
    <2>11. CASE ReqExecute  BY <2>11 DEF ReqExecute, ReqBreaks
    <2>12. CASE ReqTimedOut  BY <2>12 DEF ReqTimedOut
    <2>13. CASE ReqTimedOutForGood  BY <2>13 DEF ReqTimedOutForGood
    <2>14. CASE ReqStall  BY <2>14 DEF ReqStall
    <2>15. CASE ReqUnstall  BY <2>15 DEF ReqUnstall
    <2>16. CASE ReqRelease  BY <2>16 DEF ReqRelease
    <2>17. CASE ReqAckFails  BY <2>17 DEF ReqAckFails, ReqBreaks
    <2>18. CASE ReqExit  BY <2>18 DEF ReqExit
    <2>19. CASE ReqNoidleFails  BY <2>19 DEF ReqNoidleFails, ReqBreaks
    <2>20. CASE ReqNoidleUnheard  BY <2>20 DEF ReqNoidleUnheard
    <2>. QED
      BY <1>4, <2>1, <2>2, <2>3, <2>4, <2>5, <2>6, <2>7, <2>8, <2>9, <2>10, <2>11,
         <2>12, <2>13, <2>14, <2>15, <2>16, <2>17, <2>18, <2>19, <2>20 DEF ReqNext
  <1>5. CASE Environment
    BY <1>5 DEF Environment, Submit, ServerChange, ConnectionBreaks, SilenceEnds
  <1>6. CASE UNCHANGED vars  BY <1>6
  <1>. QED  BY <1>1, <1>2, <1>3, <1>4, <1>5, <1>6 DEF Next

\* The backlog of the service is the buffer and then the channel.
Backlog == buffer \o requests

\* Dropping the oldest requests, none of them or all (client.rs:47-65, 340-343).
LEMMA Dropped ==
  ASSUME TypeOK, NEW s \in Seq(Request), NEW t \in Seq(Request),
         Backlog = s \o t, Backlog' = t, outcome' = Lost(Elems(s)), key' = key
  PROVE  Service!Lose \/ UNCHANGED Service!serviceVars
  <1>1. /\ Len(s) \in Nat /\ Len(t) \in Nat /\ Len(Backlog) = Len(s) + Len(t)
        /\ \A i \in 1..Len(s) : Backlog[i] = s[i]
    BY ConcatProperties, LenProperties
  <1>2. CASE s = <<>>
    <2>1. Backlog' = Backlog  BY <1>2, ConcatEmptySeq
    <2>2. Elems(s) = {}  BY <1>2 DEF Elems
    <2>3. outcome' = outcome  BY <2>2 DEF Lost, TypeOK
    <2>. QED  BY <2>1, <2>3 DEF Service!serviceVars, Backlog
  <1>3. CASE s # <<>>
    <2>1. Len(s) \in 1..Len(Backlog)  BY <1>1, <1>3, EmptySeq
    <2>2. SubSeq(Backlog, Len(s) + 1, Len(Backlog)) = t  BY <1>1, SubSeqOfConcat2
    <2>3. \A r \in Request : r \in Elems(s) <=> \E i \in 1..Len(s) : Backlog[i] = r
      BY <1>1 DEF Elems
    <2>4. outcome' = [r \in Request |->
              IF \E i \in 1..Len(s) : Backlog[i] = r THEN "lost" ELSE outcome[r]]
      BY <2>3 DEF Lost
    <2>. QED  BY <2>1, <2>2, <2>4 DEF Service!Lose, Service!Request, Request, Backlog
  <1>. QED  BY <1>2, <1>3

\* The request that is next is the oldest of the backlog (client.rs:221-225).
LEMMA OldestIsCurrent ==
  ASSUME TypeOK, buffer # <<>>
  PROVE  /\ Current \in Request /\ Rest \in Seq(Request) /\ Backlog \in Seq(Request)
         /\ Backlog # <<>> /\ Head(Backlog) = Current /\ Tail(Backlog) = Rest
         /\ Backlog = <<Current>> \o Rest
         /\ Len(Rest) \in Nat /\ Len(Backlog) = Len(Rest) + 1
         /\ \A i \in 1..Len(Rest) : Backlog[i + 1] = Rest[i]
  <1>1. buffer \in Seq(Request) /\ requests \in Seq(Request)  BY DEF TypeOK
  <1>2. Tail(buffer) \in Seq(Request) /\ Current \in Request /\ Len(buffer) \in Nat \ {0}
    BY <1>1, HeadTailProperties, EmptySeq DEF Current
  <1>3. Rest \in Seq(Request) /\ Backlog \in Seq(Request)
    BY <1>1, <1>2, ConcatProperties DEF Rest, Backlog
  <1>4. /\ Len(Backlog) = Len(buffer) + Len(requests) /\ Len(requests) \in Nat
        /\ \A i \in 1..Len(Backlog) :
               Backlog[i] = IF i <= Len(buffer) THEN buffer[i] ELSE requests[i - Len(buffer)]
    BY <1>1, ConcatProperties, LenProperties DEF Backlog
  <1>5. Backlog # <<>> /\ Head(Backlog) = Current
    <2>1. Len(Backlog) # 0  BY <1>2, <1>4
    <2>2. Backlog # <<>>  BY <1>3, <2>1, EmptySeq
    <2>3. Backlog[1] = buffer[1]  BY <1>2, <1>4
    <2>4. Head(Backlog) = Backlog[1] /\ Current = buffer[1]
      BY <1>1, <1>3, <2>2 DEF Current
    <2>. QED  BY <2>2, <2>3, <2>4
  <1>6. /\ Len(Tail(buffer)) = Len(buffer) - 1
        /\ \A i \in 1..Len(Tail(buffer)) : Tail(buffer)[i] = buffer[i + 1]
    BY <1>1, HeadTailProperties
  <1>7. /\ Len(Rest) = Len(buffer) - 1 + Len(requests)
        /\ \A i \in 1..Len(Rest) :
               Rest[i] = IF i <= Len(buffer) - 1 THEN buffer[i + 1]
                         ELSE requests[i - (Len(buffer) - 1)]
    BY <1>1, <1>2, <1>6, ConcatProperties DEF Rest
  <1>8. \A i \in 1..Len(Rest) : Backlog[i + 1] = Rest[i]
    <2>. SUFFICES ASSUME NEW i \in 1..Len(Rest) PROVE Backlog[i + 1] = Rest[i]
      OBVIOUS
    <2>1. /\ i \in Nat /\ i + 1 \in 1..Len(Backlog)
          /\ (i + 1) - Len(buffer) = i - (Len(buffer) - 1)
          /\ i + 1 <= Len(buffer) <=> i <= Len(buffer) - 1
      BY <1>2, <1>4, <1>7
    <2>2. Backlog[i + 1] = IF i + 1 <= Len(buffer) THEN buffer[i + 1]
                           ELSE requests[(i + 1) - Len(buffer)]
      BY <1>4, <2>1
    <2>. QED  BY <1>7, <2>1, <2>2
  <1>9. Tail(Backlog) = Rest
    <2>1. /\ Tail(Backlog) \in Seq(Request) /\ Len(Tail(Backlog)) = Len(Backlog) - 1
          /\ \A i \in 1..Len(Tail(Backlog)) : Tail(Backlog)[i] = Backlog[i + 1]
      BY <1>3, <1>5, HeadTailProperties
    <2>2. Len(Tail(Backlog)) = Len(Rest)  BY <2>1, <1>2, <1>4, <1>7
    <2>. QED  BY <1>3, <1>8, <2>1, <2>2, SeqEqual
  <1>10. Backlog = <<Current>> \o Rest
    <2>1. <<Current>> \in Seq(Request) /\ Len(<<Current>>) = 1 /\ <<Current>>[1] = Current
      BY <1>2
    <2>2. /\ <<Current>> \o Rest \in Seq(Request) /\ Len(<<Current>> \o Rest) = Len(Rest) + 1
          /\ \A i \in 1..(Len(Rest) + 1) : (<<Current>> \o Rest)[i] =
                 IF i <= 1 THEN Current ELSE Rest[i - 1]
      BY <1>2, <1>3, <1>4, <1>7, <2>1, ConcatProperties
    <2>3. \A i \in 1..Len(Backlog) : Backlog[i] = (<<Current>> \o Rest)[i]
      <3>. SUFFICES ASSUME NEW i \in 1..Len(Backlog)
                    PROVE  Backlog[i] = (<<Current>> \o Rest)[i]
        OBVIOUS
      <3>1. CASE i = 1  BY <3>1, <1>2, <1>3, <1>4, <1>5, <1>7, <2>2
      <3>2. CASE i # 1
        <4>1. i - 1 \in 1..Len(Rest) /\ (i - 1) + 1 = i  BY <3>2, <1>2, <1>4, <1>7
        <4>2. Backlog[i] = Rest[i - 1]  BY <4>1, <1>8
        <4>. QED  BY <4>1, <4>2, <2>2, <3>2, <1>2, <1>4, <1>7
      <3>. QED  BY <3>1, <3>2
    <2>. QED  BY <1>2, <1>3, <1>4, <1>7, <2>2, <2>3, SeqEqual
  <1>. QED  BY <1>2, <1>3, <1>4, <1>5, <1>7, <1>8, <1>9, <1>10

\* Taking the head of the channel into the buffer keeps the backlog.
LEMMA HeadMoved ==
  ASSUME NEW s \in Seq(Request), NEW t \in Seq(Request), t # <<>>
  PROVE  /\ Head(t) \in Request /\ Tail(t) \in Seq(Request)
         /\ Append(s, Head(t)) \in Seq(Request)
         /\ s \o t = Append(s, Head(t)) \o Tail(t)
  <1>1. /\ Head(t) \in Request /\ Tail(t) \in Seq(Request) /\ Len(t) \in Nat \ {0}
        /\ Len(Tail(t)) = Len(t) - 1 /\ Head(t) = t[1]
        /\ \A i \in 1..Len(Tail(t)) : Tail(t)[i] = t[i + 1]
    BY HeadTailProperties, EmptySeq
  <1> DEFINE u == Append(s, Head(t))
  <1>2. /\ u \in Seq(Request) /\ Len(u) = Len(s) + 1 /\ Len(s) \in Nat
        /\ \A i \in 1..Len(s) : u[i] = s[i]
        /\ u[Len(s) + 1] = t[1]
    BY <1>1, AppendProperties, LenProperties
  <1>. HIDE DEF u
  <1>3. /\ s \o t \in Seq(Request) /\ Len(s \o t) = Len(s) + Len(t)
        /\ \A i \in 1..(Len(s) + Len(t)) :
               (s \o t)[i] = IF i <= Len(s) THEN s[i] ELSE t[i - Len(s)]
    BY ConcatProperties
  <1>4. /\ u \o Tail(t) \in Seq(Request) /\ Len(u \o Tail(t)) = Len(s) + Len(t)
        /\ \A i \in 1..(Len(s) + Len(t)) :
               (u \o Tail(t))[i] = IF i <= Len(s) + 1 THEN u[i] ELSE Tail(t)[i - (Len(s) + 1)]
    <2>1. /\ u \o Tail(t) \in Seq(Request) /\ Len(u \o Tail(t)) = Len(u) + Len(Tail(t))
          /\ \A i \in 1..(Len(u) + Len(Tail(t))) :
                 (u \o Tail(t))[i] = IF i <= Len(u) THEN u[i] ELSE Tail(t)[i - Len(u)]
      BY <1>1, <1>2, ConcatProperties
    <2>2. Len(u) = Len(s) + 1 /\ Len(u) + Len(Tail(t)) = Len(s) + Len(t)
      BY <1>1, <1>2
    <2>. QED  BY <2>1, <2>2
  <1>5. \A i \in 1..(Len(s) + Len(t)) : (s \o t)[i] = (u \o Tail(t))[i]
    <2>. SUFFICES ASSUME NEW i \in 1..(Len(s) + Len(t))
                  PROVE  (s \o t)[i] = (u \o Tail(t))[i]
      OBVIOUS
    <2>1. CASE i <= Len(s)  BY <2>1, <1>1, <1>2, <1>3, <1>4
    <2>2. CASE i = Len(s) + 1  BY <2>2, <1>1, <1>2, <1>3, <1>4
    <2>3. CASE i > Len(s) + 1
      <3>1. i - (Len(s) + 1) \in 1..Len(Tail(t)) /\ (i - (Len(s) + 1)) + 1 = i - Len(s)
        BY <2>3, <1>1, <1>2
      <3>. QED  BY <3>1, <2>3, <1>1, <1>2, <1>3, <1>4
    <2>. QED  BY <2>1, <2>2, <2>3, <1>1, <1>2
  <1>6. s \o t = u \o Tail(t)  BY <1>3, <1>4, <1>5, SeqEqual
  <1>. QED  BY <1>1, <1>2, <1>6 DEF u

LEMMA ElemsOfAppend ==
  ASSUME NEW s \in Seq(Request), NEW r \in Request
  PROVE  Elems(Append(s, r)) = {r} \union Elems(s)
  <1>1. /\ Len(Append(s, r)) = Len(s) + 1 /\ Len(s) \in Nat
        /\ \A i \in 1..Len(s) : Append(s, r)[i] = s[i]
        /\ Append(s, r)[Len(s) + 1] = r
    BY AppendProperties, LenProperties
  <1>2. 1..(Len(s) + 1) = 1..Len(s) \union {Len(s) + 1}  BY <1>1
  <1>. QED  BY <1>1, <1>2 DEF Elems

\* A request that is submitted goes to the end of the backlog.
LEMMA AppendMovesOut ==
  ASSUME NEW s \in Seq(Request), NEW t \in Seq(Request), NEW r \in Request
  PROVE  s \o Append(t, r) = Append(s \o t, r)
  <1>1. Append(t, r) = t \o <<r>> /\ Append(s \o t, r) = (s \o t) \o <<r>>
        /\ <<r>> \in Seq(Request) /\ s \o t \in Seq(Request)
    BY AppendIsConcat, ConcatProperties, SequenceFacts
  <1>. QED  BY <1>1, ConcatAssociative

\* The oldest request runs into the read timeout, alone (client.rs:239-245).
LEMMA OneTimesOut ==
  ASSUME TypeOK, buffer # <<>>, Backlog' = Rest, key' = key,
         outcome' = [r \in Request |-> IF r = Current THEN "timedout" ELSE outcome[r]]
  PROVE  [Service!ServiceNext]_(Service!serviceVars)
  <1>1. 1 \in 1..Len(Backlog) /\ SubSeq(Backlog, 1 + 1, Len(Backlog)) = Rest
    BY OldestIsCurrent, SubSeqOfConcat2
  <1>2. 2..1 = {}  OBVIOUS
  <1>3. outcome' = [r \in Request |->
            IF r = Head(Backlog) THEN "timedout"
            ELSE IF \E i \in 2..1 : Backlog[i] = r THEN "lost" ELSE outcome[r]]
    BY <1>2, OldestIsCurrent
  <1>. QED
    BY <1>1, <1>3, OldestIsCurrent
    DEF Backlog, Service!TimeOut, Service!ServiceNext, Service!Request, Request

\* It does, and the connection is gone: what follows it is lost with it.
LEMMA AllTimeOut ==
  ASSUME TypeOK, buffer # <<>>, Backlog' = <<>>, key' = key,
         outcome' = [r \in Request |-> IF r = Current THEN "timedout"
                                       ELSE Lost(Elems(Rest))[r]]
  PROVE  [Service!ServiceNext]_(Service!serviceVars)
  <1> DEFINE n == Len(Backlog)
  <1>1. n \in 1..Len(Backlog)  BY OldestIsCurrent
  <1>2. SubSeq(Backlog, n + 1, Len(Backlog)) = <<>>
    BY OldestIsCurrent, SubSeqEmpty
  <1>3. \A r \in Request : r \in Elems(Rest) <=> \E i \in 2..n : Backlog[i] = r
    <2>. SUFFICES ASSUME NEW r \in Request
                  PROVE  r \in Elems(Rest) <=> \E i \in 2..n : Backlog[i] = r
      OBVIOUS
    <2>1. ASSUME NEW i \in 1..Len(Rest), Rest[i] = r
          PROVE  i + 1 \in 2..n /\ Backlog[i + 1] = r
      BY <2>1, OldestIsCurrent
    <2>2. ASSUME NEW i \in 2..n, Backlog[i] = r
          PROVE  i - 1 \in 1..Len(Rest) /\ Rest[i - 1] = r
      <3>1. i - 1 \in 1..Len(Rest) /\ (i - 1) + 1 = i  BY OldestIsCurrent
      <3>. QED  BY <2>2, <3>1, OldestIsCurrent
    <2>. QED  BY <2>1, <2>2 DEF Elems
  <1>4. outcome' = [r \in Request |->
            IF r = Head(Backlog) THEN "timedout"
            ELSE IF \E i \in 2..n : Backlog[i] = r THEN "lost" ELSE outcome[r]]
    BY <1>3, OldestIsCurrent DEF Lost
  <1>. QED
    BY <1>1, <1>2, <1>4, OldestIsCurrent
    DEF Backlog, Service!TimeOut, Service!ServiceNext, Service!Request, Request

\* Nothing that the service describes changes.
LEMMA ServiceStutters ==
  ASSUME UNCHANGED work PROVE UNCHANGED Service!serviceVars
  BY DEF work, Service!serviceVars

\* A request thread that leaves its loop loses the requests it has buffered.
LEMMA BufferDropped ==
  ASSUME TypeOK, ReqBreaks(Elems(buffer)), UNCHANGED <<requests, key>>
  PROVE  [Service!ServiceNext]_(Service!serviceVars)
  <1>1. buffer \in Seq(Request) /\ requests \in Seq(Request)  BY DEF TypeOK
  <1>2. Backlog' = requests  BY <1>1, ConcatEmptySeq DEF ReqBreaks, Backlog
  <1>. QED  BY <1>1, <1>2, Dropped DEF ReqBreaks, Backlog, Service!ServiceNext

\* A reconnect loses the requests that are still in the channel.
LEMMA ChannelDropped ==
  ASSUME TypeOK, buffer = <<>>, DropQueued
  PROVE  [Service!ServiceNext]_(Service!serviceVars)
  <1>1. requests \in Seq(Request) /\ <<>> \in Seq(Request)  BY DEF TypeOK
  <1>2. Backlog = requests \o <<>> /\ Backlog' = <<>>
    BY <1>1, ConcatEmptySeq DEF DropQueued, Backlog
  <1>. QED  BY <1>1, <1>2, Dropped DEF DropQueued, Service!ServiceNext

\* Every step of the client threads is a step of the service or leaves it alone.
LEMMA ServiceStep ==
  TypeOK /\ HandOverInv /\ EmptyOutside /\ [Next]_vars
      => [Service!ServiceNext]_(Service!serviceVars)
  <1>. SUFFICES ASSUME TypeOK, HandOverInv, EmptyOutside, [Next]_vars
                PROVE  [Service!ServiceNext]_(Service!serviceVars)
    OBVIOUS
  <1>t. buffer \in Seq(Request) /\ requests \in Seq(Request) /\ <<>> \in Seq(Request)
    BY DEF TypeOK
  <1>c. task = "check" => buffer = <<>>
    BY DEF HandOverInv, ThreadsOnlyInJoin, EmptyOutside
  <1>1. CASE TaskNext
    <2>1. CASE CheckReconnected  BY <2>1, <1>c, ChannelDropped DEF CheckReconnected
    <2>2. CASE CheckFailed  BY <2>2, <1>c, ChannelDropped, ServiceStutters DEF CheckFailed
    <2>3. CASE TaskStart \/ TaskClaim \/ CheckFirst \/ TaskSpawnIdle \/ TaskJoin \/ TaskLost
      BY <2>3, ServiceStutters
      DEF TaskStart, TaskClaim, CheckFirst, TaskSpawnIdle, TaskJoin, TaskLost
    <2>. QED  BY <1>1, <2>1, <2>2, <2>3 DEF TaskNext
  <1>2. CASE IdleNext
    BY <1>2, ServiceStutters DEF IdleNext, IdlePoll, IdleAcquire, IdleSetup, IdleSetupFails,
       IdleConfirmFails, IdleEvents, IdleReadFails, IdleAckFails
  <1>3. CASE HandOver
    BY <1>3, ServiceStutters
    DEF HandOver, ConfirmToTask, ConfirmToRequest, GiveToIdle, ClaimFromIdle
  <1>4. CASE ReqNext
    <2>1. CASE ReqTakeRequest
      <3>1. /\ Head(requests) \in Request /\ Tail(requests) \in Seq(Request)
            /\ Append(buffer, Head(requests)) \in Seq(Request)
            /\ Backlog = Append(buffer, Head(requests)) \o Tail(requests)
        BY <2>1, <1>t, HeadMoved DEF ReqTakeRequest, Backlog
      <3>2. CASE healthy
        <4>1. Backlog' = Backlog  BY <2>1, <3>1, <3>2 DEF ReqTakeRequest, Backlog
        <4>. QED  BY <2>1, <3>2, <4>1 DEF ReqTakeRequest, Service!serviceVars, Backlog
      <3>3. CASE ~healthy
        <4>1. Elems(Append(buffer, Head(requests))) = {Head(requests)} \union Elems(buffer)
          BY <2>1, <1>t, ElemsOfAppend, <3>1
        <4>2. Backlog' = Tail(requests) /\ key' = key
          BY <2>1, <3>1, <3>3, ConcatEmptySeq DEF ReqTakeRequest, ReqBreaks, Backlog
        <4>3. outcome' = Lost(Elems(Append(buffer, Head(requests))))
          BY <2>1, <3>3, <4>1 DEF ReqTakeRequest, ReqBreaks
        <4>. QED  BY <3>1, <4>2, <4>3, Dropped DEF Service!ServiceNext
      <3>. QED  BY <3>2, <3>3
    <2>2. CASE ReqSkip
      <3>1. Backlog' = Rest  BY <2>2, <1>t, OldestIsCurrent, ConcatEmptySeq DEF ReqSkip, Backlog
      <3>2. PICK r \in Elems(Rest) : key[r] = key[Current]
        BY <2>2 DEF ReqSkip, ShouldSkip
      <3>3. PICK i \in 1..Len(Rest) : Rest[i] = r  BY <3>2 DEF Elems
      <3>4. i + 1 \in 2..Len(Backlog) /\ Backlog[i + 1] = r
        BY <2>2, <3>3, OldestIsCurrent DEF ReqSkip
      <3>. QED
        BY <2>2, <3>1, <3>2, <3>4, OldestIsCurrent
        DEF ReqSkip, ShouldSkip, Backlog, Service!Supersede, Service!ServiceNext
    <2>3. CASE ReqExecute
      <3>1. CASE healthy
        <4>1. Backlog' = Rest
          BY <2>3, <3>1, <1>t, OldestIsCurrent, ConcatEmptySeq DEF ReqExecute, Backlog
        <4>2. PICK res \in {"done", "error"} : outcome' = [outcome EXCEPT ![Current] = res]
          BY <2>3, <3>1 DEF ReqExecute
        <4>. QED
          BY <2>3, <4>1, <4>2, OldestIsCurrent
          DEF ReqExecute, Backlog, Service!Execute, Service!ServiceNext
      <3>2. CASE ~healthy
        <4>. QED  BY <2>3, <3>2 DEF ReqExecute, HandOverInv, Phases
      <3>. QED  BY <3>1, <3>2
    <2>4. CASE ReqTimedOut
      <3>1. Backlog' = Rest
        BY <2>4, <1>t, OldestIsCurrent, ConcatEmptySeq DEF ReqTimedOut, Backlog
      <3>2. outcome' = [r \in Request |-> IF r = Current THEN "timedout" ELSE outcome[r]]
        BY <2>4 DEF ReqTimedOut, TypeOK
      <3>. QED  BY <2>4, <3>1, <3>2, OneTimesOut DEF ReqTimedOut
    <2>5. CASE ReqTimedOutForGood
      <3>1. Backlog' = <<>>  BY <1>t, <2>5, ConcatEmptySeq DEF ReqTimedOutForGood, Backlog
      <3>. QED  BY <2>5, <3>1, AllTimeOut DEF ReqTimedOutForGood
    <2>6. CASE ReqStall
      <3>1. Backlog' = Backlog
        BY <2>6, <1>t, OldestIsCurrent, SequenceFacts, ConcatEmptySeq DEF ReqStall, Backlog
      <3>. QED  BY <2>6, <3>1 DEF ReqStall, Service!serviceVars, Backlog
    <2>7. CASE ReqArm
      <3>1. CASE healthy  BY <2>7, <3>1, ServiceStutters DEF ReqArm, work
      <3>2. CASE ~healthy  BY <2>7, <3>2 DEF ReqArm, HandOverInv, Phases
      <3>. QED  BY <3>1, <3>2
    <2>8. CASE ReqGiveFails  BY <2>8, BufferDropped DEF ReqGiveFails
    <2>9. CASE ReqGivesUp  BY <2>9, BufferDropped DEF ReqGivesUp
    <2>10. CASE ReqNoidleFails  BY <2>10, BufferDropped DEF ReqNoidleFails
    <2>11. CASE ReqConfirmFails  BY <2>11, BufferDropped DEF ReqConfirmFails
    <2>12. CASE ReqAckFails  BY <2>12, BufferDropped DEF ReqAckFails
    <2>13. CASE \/ ReqTakeClient \/ ReqNoidle \/ ReqNoidleUnheard \/ ReqClaim \/ ReqAcquire
                \/ ReqUnstall \/ ReqRelease \/ ReqExit
      BY <2>13, ServiceStutters DEF ReqTakeClient, ReqNoidle, ReqNoidleUnheard, ReqClaim,
         ReqAcquire, ReqUnstall, ReqRelease, ReqExit
    <2>. QED
      BY <1>4, <2>1, <2>2, <2>3, <2>4, <2>5, <2>6, <2>7, <2>8, <2>9, <2>10, <2>11, <2>12,
         <2>13 DEF ReqNext
  <1>5. CASE Environment
    <2>1. ASSUME NEW k \in Keys \union {NoKey}, Submit(k)
          PROVE  Service!Submit(k)
      <3>1. PICK r \in Request :
              /\ outcome[r] = "unsent" /\ \A q \in Request : q < r => outcome[q] # "unsent"
              /\ requests' = Append(requests, r) /\ key' = [key EXCEPT ![r] = k]
              /\ outcome' = [outcome EXCEPT ![r] = "pending"] /\ buffer' = buffer
        BY <2>1 DEF Submit
      <3>2. buffer \o Append(requests, r) = Append(buffer \o requests, r)
        BY <1>t, AppendMovesOut
      <3>. QED  BY <3>1, <3>2 DEF Service!Submit, Service!Request, Request
    <2>2. CASE ServerChange  BY <2>2, ServiceStutters DEF ServerChange
    <2>3. CASE ConnectionBreaks  BY <2>3, ServiceStutters DEF ConnectionBreaks
    <2>4. CASE SilenceEnds  BY <2>4, ServiceStutters DEF SilenceEnds
    <2>. QED  BY <1>5, <2>1, <2>2, <2>3, <2>4 DEF Environment, Service!ServiceNext
  <1>6. CASE UNCHANGED vars  BY <1>6, ServiceStutters DEF vars
  <1>. QED  BY <1>1, <1>2, <1>3, <1>4, <1>5, <1>6 DEF Next

\* The client threads implement the service: requests are settled in the order of
\* their submission, once each, and skipped only for a newer one with their key.
THEOREM ServiceIsImplemented == Spec => ImplementsService
  <1>1. Init => EmptyOutside  BY DEF Init, EmptyOutside
  <1>2. Init => Service!ServiceInit
    <2>. SUFFICES ASSUME Init PROVE Service!ServiceInit  OBVIOUS
    <2>1. <<>> \in Seq(Request)  OBVIOUS
    <2>2. buffer \o requests = <<>>  BY <2>1, ConcatEmptySeq DEF Init
    <2>. QED  BY <2>2 DEF Init, Service!ServiceInit, Service!Request, Request
  <1>3. HandOverInv /\ EmptyOutside /\ [Next]_vars => EmptyOutside'  BY EmptyOutsideStep
  <1>4. TypeOK /\ HandOverInv /\ EmptyOutside /\ [Next]_vars
            => [Service!ServiceNext]_(Service!serviceVars)
    BY ServiceStep
  <1>. QED
    BY <1>1, <1>2, <1>3, <1>4, TypeCorrect, HandOverInvariant, PTL
    DEF Spec, ImplementsService, Service!ServiceSpec

=============================================================================
