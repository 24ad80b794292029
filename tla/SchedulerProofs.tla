-------------------------- MODULE SchedulerProofs --------------------------
(***************************************************************************)
(* What TLAPS proves about Scheduler for all ids, guards, delays and       *)
(* bounds: types, that the thread holds exactly what the last command for  *)
(* each id asked for, and that its timer is set for every job it holds.    *)
(***************************************************************************)
EXTENDS Scheduler, TLAPS

\* The command channel stays a sequence of commands (mod.rs:59, 82-83).
LEMMA ChannelFacts ==
    /\ <<>> \in Seq(Commands)
    /\ \A s \in Seq(Commands), c \in Commands :
           /\ Append(s, c) \in Seq(Commands)
           /\ DOMAIN Append(s, c) = (DOMAIN s) \union {Len(s) + 1}
           /\ Append(s, c)[Len(s) + 1] = c
           /\ \A i \in DOMAIN s : Append(s, c)[i] = s[i] /\ i # Len(s) + 1
    /\ \A s \in Seq(Commands) : s # <<>> =>
           /\ Head(s) \in Commands /\ Tail(s) \in Seq(Commands)
           /\ Head(s) = s[1] /\ 1 \in DOMAIN s
           /\ \A i \in DOMAIN Tail(s) :
                  i \in Nat /\ i + 1 \in DOMAIN s /\ Tail(s)[i] = s[i + 1] /\ i + 1 # 1
    /\ \A s \in Seq(Commands) : \A i \in DOMAIN s : s[i] \in Commands
  OBVIOUS

\* A command is recognised by its type (mod.rs:231-236).
LEMMA CommandKinds ==
    /\ NoJob \notin Jobs
    /\ \A j \in Jobs : Add(j) \in Commands /\ AddRep(j) \in Commands
    /\ \A id \in AllIds, n \in Nat : Cancel(id, n) \in Commands
    /\ Stop \in Commands /\ Stop.type = "stop"
    /\ \A c \in Commands :
           /\ c.type \in {"add", "repeat"} => c.job \in Jobs
           /\ c.type = "cancel" => c.id \in AllIds /\ c.n \in Nat
  <1>1. NoJob \notin Jobs
    <2>. SUFFICES ASSUME NoJob \in Jobs PROVE FALSE
      OBVIOUS
    <2>1. DOMAIN NoJob = {"id", "n", "at", "every"}
      BY DEF Jobs
    <2>2. DOMAIN NoJob = {"id"}
      BY DEF NoJob
    <2>. QED  BY <2>1, <2>2
  <1>. QED  BY <1>1 DEF Add, AddRep, Cancel, Stop, Commands

LEMMA TypeInit == Init => TypeOK
  <1>. SUFFICES ASSUME Init PROVE TypeOK
    OBVIOUS
  <1>1. latest \in [AllIds -> Nat] /\ guards \in [Guards -> {"fresh", "held", "dropped"}]
    BY DEF Init
  <1>2. timer \in Nat /\ clock \in 0..MaxTime /\ now \in 0..MaxTime
    BY SchedulerAssumption DEF Init, Never
  <1>3. sent \in 0..MaxSent /\ busy \in 0..MaxBusy /\ starts \in 0..MaxStarts
    BY SchedulerAssumption DEF Init
  <1>. QED  BY <1>1, <1>2, <1>3, ChannelFacts DEF Init, TypeOK

\* Sending leaves a well-typed channel and a larger serial (mod.rs:152-160).
LEMMA SendType ==
    ASSUME TypeOK, NEW c \in Commands, Send(c)
    PROVE  commands' \in Seq(Commands) /\ sent' \in 0..MaxSent
  BY SchedulerAssumption, ChannelFacts DEF TypeOK, Send

LEMMA SerialType == TypeOK => sent + 1 \in Nat /\ clock \in Nat /\ busy \in Nat
  BY SchedulerAssumption DEF TypeOK

LEMMA TypeStep == TypeOK /\ [Next]_vars => TypeOK'
  <1>. SUFFICES ASSUME TypeOK, [Next]_vars PROVE TypeOK'
    OBVIOUS
  <1>s. ASSUME NEW c \in Commands, Send(c), handle' = handle,
               guards' \in [Guards -> {"fresh", "held", "dropped"}]
        PROVE  TypeOK'
    <2>1. commands' \in Seq(Commands) /\ sent' \in 0..MaxSent
      BY <1>s, SendType
    <2>. QED  BY <1>s, <2>1 DEF TypeOK, Send, thread
  <1>1. CASE Schedule
    <2>1. PICK id \in Ids, delay \in Delays :
              Send(Add([id |-> id, n |-> sent + 1, at |-> clock + delay, every |-> 0]))
      BY <1>1 DEF Schedule
    <2>2. [id |-> id, n |-> sent + 1, at |-> clock + delay, every |-> 0] \in Jobs
      BY SerialType, SchedulerAssumption DEF Jobs, AllIds
    <2>3. handle' = handle /\ guards' \in [Guards -> {"fresh", "held", "dropped"}]
      BY <1>1 DEF Schedule, TypeOK
    <2>. QED  BY <1>s, <2>1, <2>2, <2>3, CommandKinds
  <1>2. CASE Repeated
    <2>1. PICK g \in Guards, interval \in Delays \ {0} :
              /\ Send(AddRep([id |-> g, n |-> sent + 1, at |-> clock + interval,
                              every |-> interval]))
              /\ guards' = [guards EXCEPT ![g] = "held"]
      BY <1>2 DEF Repeated
    <2>2. [id |-> g, n |-> sent + 1, at |-> clock + interval, every |-> interval] \in Jobs
      BY SerialType, SchedulerAssumption DEF Jobs, AllIds
    <2>3. handle' = handle /\ guards' \in [Guards -> {"fresh", "held", "dropped"}]
      BY <1>2, <2>1 DEF Repeated, TypeOK
    <2>. QED  BY <1>s, <2>1, <2>2, <2>3, CommandKinds
  <1>3. CASE CancelById
    <2>1. PICK id \in Ids : Send(Cancel(id, sent + 1))
      BY <1>3 DEF CancelById
    <2>2. Cancel(id, sent + 1) \in Commands
      BY CommandKinds, SerialType DEF AllIds
    <2>3. handle' = handle /\ guards' \in [Guards -> {"fresh", "held", "dropped"}]
      BY <1>3 DEF CancelById, TypeOK
    <2>. QED  BY <1>s, <2>1, <2>2, <2>3
  <1>4. CASE DropGuard
    <2>1. PICK g \in Guards : /\ Send(Cancel(g, sent + 1))
                              /\ guards' = [guards EXCEPT ![g] = "dropped"]
      BY <1>4 DEF DropGuard
    <2>2. Cancel(g, sent + 1) \in Commands
      BY CommandKinds, SerialType DEF AllIds
    <2>3. handle' = handle /\ guards' \in [Guards -> {"fresh", "held", "dropped"}]
      BY <1>4, <2>1 DEF DropGuard, TypeOK
    <2>. QED  BY <1>s, <2>1, <2>2, <2>3
  <1>. USE DEF TypeOK
  <1>5. CASE Start
    <2>1. timer' \in Nat /\ starts' \in 0..MaxStarts /\ running' = NoJob
      BY <1>5, SchedulerAssumption DEF Start, Never, OwnerIsFree, Stopping
    <2>. QED  BY <1>5, <2>1 DEF Start
  <1>6. CASE StopScheduler
    BY <1>6, ChannelFacts, CommandKinds DEF StopScheduler, thread
  <1>7. CASE TakeCommand
    <2>1. Head(commands) \in Commands /\ commands' \in Seq(Commands)
      BY <1>7, ChannelFacts DEF TakeCommand
    <2>2. heap' \in SUBSET Jobs /\ latest' \in [AllIds -> Nat]
      <3>1. CASE Head(commands).type \in {"add", "repeat"}
        <4>1. Head(commands).job \in Jobs
          BY <2>1, <3>1, CommandKinds
        <4>2. Head(commands).job.id \in AllIds /\ Head(commands).job.n \in Nat
          BY <4>1 DEF Jobs
        <4>. QED  BY <1>7, <3>1, <4>1, <4>2 DEF TakeCommand, Process, Retain
      <3>2. CASE Head(commands).type = "cancel"
        BY <1>7, <2>1, <3>2, CommandKinds DEF TakeCommand, Process, Retain
      <3>. QED  BY <1>7, <3>1, <3>2 DEF TakeCommand, Process
    <2>. QED  BY <1>7, <2>1, <2>2 DEF TakeCommand, Goto
  <1>8. CASE TakeStop
    BY <1>8, ChannelFacts DEF TakeStop, Goto
  <1>9. CASE TimeOut
    BY <1>9 DEF TimeOut, Goto
  <1>10. CASE Peek
    BY <1>10, CommandKinds DEF Peek, Due, Earliest, Goto
  <1>11. CASE Run
    <2>1. running \in Jobs /\ now + running.every \in Nat
      BY <1>11, SchedulerAssumption DEF Run, Jobs
    <2>2. [running EXCEPT !.at = now + running.every] \in Jobs
      BY <2>1 DEF Jobs
    <2>. QED  BY <1>11, <2>1, <2>2 DEF Run, Goto
  <1>12. CASE Arm
    <2>1. timer' \in Nat
      <3>1. CASE timer' = Never
        BY <3>1, SchedulerAssumption DEF Never
      <3>2. ASSUME NEW j \in heap, timer' = clock + Saturating(j.at, now)
            PROVE  timer' \in Nat
        <4>1. j.at \in Nat /\ now \in Nat /\ clock \in Nat
          BY SchedulerAssumption DEF Jobs
        <4>. QED  BY <3>2, <4>1 DEF Saturating
      <3>. QED  BY <1>12, <3>1, <3>2 DEF Arm, Earliest
    <2>. QED  BY <1>12, <2>1 DEF Arm, Goto
  <1>13. CASE Tick
    BY <1>13, SchedulerAssumption DEF Tick, thread, Waiting
  <1>14. CASE UNCHANGED vars
    BY <1>14 DEF vars, thread
  <1>. QED
    BY <1>1, <1>2, <1>3, <1>4, <1>5, <1>6, <1>7, <1>8, <1>9, <1>10, <1>11, <1>12,
       <1>13, <1>14 DEF Next, Callers, Thread

\* Every variable keeps its type, for all ids, guards, delays and bounds (mod.rs).
THEOREM TypeCorrect == Spec => []TypeOK
  BY TypeInit, TypeStep, PTL DEF Spec

-----------------------------------------------------------------------------
(* The heap is current.                                                    *)

LEMMA InvInit == Init => SchedulerInv
  <1>. SUFFICES ASSUME Init PROVE SchedulerInv
    OBVIOUS
  <1>1. Held = {} /\ commands = <<>> /\ heap = {}
    BY DEF Init, Held
  <1>. QED  BY <1>1, TypeInit DEF Init, SchedulerInv, HeapIsCurrent, RepeatedOnce

\* Steps that leave heap, running, latest and the thread's instants alone.
LEMMA InvSend ==
    ASSUME SchedulerInv, TypeOK', heap' = heap, running' = running, latest' = latest,
           pc' = pc, now' = now, clock' = clock, NEW c \in Commands,
           commands' = Append(commands, c),
           \A g \in Guards : guards[g] # "fresh" => guards'[g] # "fresh",
           c.type = "add" => c.job.id \in Ids,
           c.type = "repeat" => /\ c.job.id \in Guards /\ guards[c.job.id] = "fresh"
                                /\ guards'[c.job.id] # "fresh"
    PROVE  SchedulerInv'
  <1>. USE DEF SchedulerInv
  <1>1. Held' = Held
    BY DEF Held
  <1>2. HeapIsCurrent'
    BY <1>1 DEF HeapIsCurrent
  <1>3. RepeatedOnce'
    <2>1. commands \in Seq(Commands)
      BY DEF TypeOK
    <2>2. ASSUME NEW i \in DOMAIN commands'
          PROVE  /\ commands'[i].type = "add" => commands'[i].job.id \in Ids
                 /\ commands'[i].type = "repeat" =>
                        /\ commands'[i].job.id \in Guards
                        /\ guards'[commands'[i].job.id] # "fresh"
                        /\ \A j \in Held' : j.id # commands'[i].job.id
                        /\ \A k \in DOMAIN commands' :
                               commands'[k].type = "repeat"
                               /\ commands'[k].job.id = commands'[i].job.id => k = i
      <3>1. CASE i = Len(commands) + 1
        <4>1. commands'[i] = c
          BY <2>1, <3>1, ChannelFacts
        <4>. QED  BY <1>1, <2>1, <3>1, <4>1, ChannelFacts DEF RepeatedOnce
      <3>2. CASE i \in DOMAIN commands
        <4>1. commands'[i] = commands[i]
          BY <2>1, <3>2, ChannelFacts
        <4>. QED  BY <1>1, <2>1, <3>2, <4>1, ChannelFacts DEF RepeatedOnce
      <3>. QED  BY <2>1, <3>1, <3>2, ChannelFacts
    <2>3. \A j \in Held' : j.id \in Guards => guards'[j.id] # "fresh"
      BY <1>1 DEF RepeatedOnce
    <2>. QED  BY <2>2, <2>3 DEF RepeatedOnce
  <1>. QED  BY <1>2, <1>3

\* Taking the head of the channel keeps what RepeatedOnce says of the rest
\* (mod.rs:82), when the job taken is not sent again.
LEMMA RestOfChannel ==
    ASSUME TypeOK, RepeatedOnce, commands # <<>>, commands' = Tail(commands),
           guards' = guards,
           \A j \in Held' : \/ j \in Held
                            \/ /\ Head(commands).type \in {"add", "repeat"}
                               /\ j = Head(commands).job
    PROVE  RepeatedOnce'
  <1>1. commands \in Seq(Commands) /\ 1 \in DOMAIN commands /\ Head(commands) = commands[1]
    BY ChannelFacts DEF TypeOK
  <1>2. \A i \in DOMAIN commands' : /\ i + 1 \in DOMAIN commands /\ i + 1 # 1 /\ i \in Nat
                                    /\ commands'[i] = commands[i + 1]
    BY <1>1, ChannelFacts
  <1>3. ASSUME NEW i \in DOMAIN commands'
        PROVE  /\ commands'[i].type = "add" => commands'[i].job.id \in Ids
               /\ commands'[i].type = "repeat" =>
                      /\ commands'[i].job.id \in Guards
                      /\ guards'[commands'[i].job.id] # "fresh"
                      /\ \A j \in Held' : j.id # commands'[i].job.id
                      /\ \A k \in DOMAIN commands' :
                             commands'[k].type = "repeat"
                             /\ commands'[k].job.id = commands'[i].job.id => k = i
    <2>1. commands'[i].type = "add" => commands'[i].job.id \in Ids
      BY <1>2 DEF RepeatedOnce
    <2>2. ASSUME commands'[i].type = "repeat"
          PROVE  /\ commands'[i].job.id \in Guards
                 /\ guards'[commands'[i].job.id] # "fresh"
      BY <1>2, <2>2 DEF RepeatedOnce
    <2>3. ASSUME commands'[i].type = "repeat", NEW j \in Held'
          PROVE  j.id # commands'[i].job.id
      <3>1. CASE j \in Held
        BY <1>2, <2>3, <3>1 DEF RepeatedOnce
      <3>2. CASE Head(commands).type = "add" /\ j = Head(commands).job
        BY <1>1, <2>2, <2>3, <3>2, SchedulerAssumption DEF RepeatedOnce
      <3>3. CASE Head(commands).type = "repeat" /\ j = Head(commands).job
        BY <1>1, <1>2, <2>3, <3>3 DEF RepeatedOnce
      <3>. QED  BY <3>1, <3>2, <3>3
    <2>4. ASSUME commands'[i].type = "repeat", NEW k \in DOMAIN commands',
                 commands'[k].type = "repeat", commands'[k].job.id = commands'[i].job.id
          PROVE  k = i
      <3>1. k + 1 = i + 1
        BY <1>2, <2>4 DEF RepeatedOnce
      <3>. QED  BY <1>2, <3>1
    <2>. QED  BY <2>1, <2>2, <2>3, <2>4
  <1>4. ASSUME NEW j \in Held', j.id \in Guards PROVE guards'[j.id] # "fresh"
    BY <1>1, <1>4, SchedulerAssumption DEF RepeatedOnce
  <1>. QED  BY <1>3, <1>4 DEF RepeatedOnce

LEMMA InvStep == SchedulerInv /\ [Next]_vars => SchedulerInv'
  <1>. SUFFICES ASSUME SchedulerInv, [Next]_vars PROVE SchedulerInv'
    OBVIOUS
  <1>t. TypeOK /\ TypeOK'
    BY TypeStep DEF SchedulerInv
  <1>h. pc # "run" => Held = heap
    BY <1>t DEF TypeOK, Held
  <1>1. CASE Schedule
    <2>1. PICK id \in Ids, delay \in Delays :
              Send(Add([id |-> id, n |-> sent + 1, at |-> clock + delay, every |-> 0]))
      BY <1>1 DEF Schedule
    <2>2. [id |-> id, n |-> sent + 1, at |-> clock + delay, every |-> 0] \in Jobs
      BY <1>t, SerialType, SchedulerAssumption DEF Jobs, AllIds
    <2>. DEFINE c == Add([id |-> id, n |-> sent + 1, at |-> clock + delay, every |-> 0])
    <2>3. c \in Commands
      BY <2>2, CommandKinds
    <2>4. c.type = "add" /\ c.job.id \in Ids
      BY DEF Add
    <2>5. guards' = guards
      BY <1>1 DEF Schedule
    <2>. HIDE DEF c
    <2>6. Send(c)
      BY <2>1 DEF c
    <2>. QED  BY <1>t, <2>3, <2>4, <2>5, <2>6, InvSend DEF Send, thread
  <1>2. CASE Repeated
    <2>1. PICK g \in Guards, interval \in Delays \ {0} :
              /\ Send(AddRep([id |-> g, n |-> sent + 1, at |-> clock + interval,
                              every |-> interval]))
              /\ guards[g] = "fresh" /\ guards' = [guards EXCEPT ![g] = "held"]
      BY <1>2 DEF Repeated
    <2>2. [id |-> g, n |-> sent + 1, at |-> clock + interval, every |-> interval] \in Jobs
      BY <1>t, SerialType, SchedulerAssumption DEF Jobs, AllIds
    <2>. DEFINE c == AddRep([id |-> g, n |-> sent + 1, at |-> clock + interval,
                             every |-> interval])
    <2>3. c \in Commands
      BY <2>2, CommandKinds
    <2>4. c.type = "repeat" /\ c.job.id = g
      BY DEF AddRep
    <2>5. guards'[g] # "fresh" /\ \A h \in Guards : guards[h] # "fresh" => guards'[h] # "fresh"
      BY <1>t, <2>1 DEF TypeOK
    <2>. HIDE DEF c
    <2>6. Send(c)
      BY <2>1 DEF c
    <2>. QED  BY <1>t, <2>1, <2>3, <2>4, <2>5, <2>6, InvSend DEF Send, thread
  <1>3. CASE CancelById
    <2>1. PICK id \in Ids : Send(Cancel(id, sent + 1))
      BY <1>3 DEF CancelById
    <2>2. Cancel(id, sent + 1) \in Commands /\ Cancel(id, sent + 1).type = "cancel"
      BY <1>t, CommandKinds, SerialType DEF AllIds, Cancel
    <2>3. guards' = guards
      BY <1>3 DEF CancelById
    <2>. QED  BY <1>t, <2>1, <2>2, <2>3, InvSend DEF Send, thread
  <1>4. CASE DropGuard
    <2>1. PICK g \in Guards : /\ Send(Cancel(g, sent + 1))
                              /\ guards' = [guards EXCEPT ![g] = "dropped"]
      BY <1>4 DEF DropGuard
    <2>2. Cancel(g, sent + 1) \in Commands /\ Cancel(g, sent + 1).type = "cancel"
      BY <1>t, CommandKinds, SerialType DEF AllIds, Cancel
    <2>3. \A h \in Guards : guards[h] # "fresh" => guards'[h] # "fresh"
      BY <1>t, <2>1 DEF TypeOK
    <2>. QED  BY <1>t, <2>1, <2>2, <2>3, InvSend DEF Send, thread
  <1>5. CASE Start
    <2>1. pc = "off" /\ heap = {} /\ heap' = {} /\ pc' = "select"
      BY <1>5, <1>t DEF Start, OwnerIsFree, Stopping, SchedulerInv, HeapIsCurrent, TypeOK
    <2>2. Held' = {} /\ Held = {}
      BY <1>5, <1>h, <1>t, <2>1 DEF Start, TypeOK, Held
    <2>. QED  BY <1>5, <1>t, <2>1, <2>2
         DEF Start, SchedulerInv, HeapIsCurrent, RepeatedOnce
  <1>6. CASE StopScheduler
    BY <1>6, <1>t, InvSend, CommandKinds DEF StopScheduler, thread
  <1>7. CASE TakeCommand
    <2>1. Held = heap /\ Held' = heap' /\ Head(commands) \in Commands
      BY <1>7, <1>h, <1>t, ChannelFacts DEF TakeCommand, TypeOK, Held, Goto
    <2>2. HeapIsCurrent'
      <3>1. CASE Head(commands).type \in {"add", "repeat"}
        <4>. DEFINE job == Head(commands).job
        <4>1. job \in Jobs /\ job.id \in AllIds
          BY <2>1, <3>1, CommandKinds DEF Jobs
        <4>2. latest' = [latest EXCEPT ![job.id] = job.n]
          BY <1>7, <3>1 DEF TakeCommand, Process
        <4>3. \A j \in heap' : j = job \/ (j \in heap /\ j.id # job.id)
          <5>1. CASE Head(commands).type = "add"
            BY <1>7, <5>1 DEF TakeCommand, Process, Retain
          <5>2. CASE Head(commands).type = "repeat"
            <6>1. Head(commands) = commands[1] /\ 1 \in DOMAIN commands
              BY <1>7, <1>t, ChannelFacts DEF TakeCommand, TypeOK
            <6>2. \A j \in heap : j.id # job.id
              BY <2>1, <5>2, <6>1 DEF SchedulerInv, RepeatedOnce
            <6>. QED  BY <1>7, <5>2, <6>2 DEF TakeCommand, Process
          <5>. QED  BY <3>1, <5>1, <5>2
        <4>4. \A j \in heap : j \in Jobs /\ j.id \in AllIds
          BY <1>t DEF TypeOK, Jobs
        <4>. HIDE DEF job
        <4>5. \A j \in Held' : j.n = latest'[j.id]
          BY <1>t, <2>1, <4>1, <4>2, <4>3, <4>4 DEF SchedulerInv, HeapIsCurrent, TypeOK
        <4>6. \A j, k \in Held' : j.id = k.id => j = k
          BY <2>1, <4>3 DEF SchedulerInv, HeapIsCurrent
        <4>7. running' \notin heap' /\ pc' = "peek"
          BY <1>7, <1>t, CommandKinds DEF TakeCommand, Goto, TypeOK
        <4>. QED  BY <4>5, <4>6, <4>7 DEF HeapIsCurrent
      <3>2. CASE Head(commands).type = "cancel"
        <4>1. /\ latest' = [latest EXCEPT ![Head(commands).id] = Head(commands).n]
              /\ heap' = Retain(Head(commands).id) /\ Head(commands).id \in AllIds
          BY <1>7, <2>1, <3>2, CommandKinds DEF TakeCommand, Process
        <4>2. \A j \in heap : j \in Jobs /\ j.id \in AllIds
          BY <1>t DEF TypeOK, Jobs
        <4>3. \A j \in heap' : j \in heap /\ j.id # Head(commands).id
          BY <4>1 DEF Retain
        <4>4. \A j \in Held' : j.n = latest'[j.id]
          BY <1>t, <2>1, <4>1, <4>2, <4>3 DEF SchedulerInv, HeapIsCurrent, TypeOK
        <4>5. running' \notin heap' /\ pc' = "peek"
          BY <1>7, <4>3 DEF TakeCommand, Goto, SchedulerInv, HeapIsCurrent
        <4>. QED  BY <2>1, <4>3, <4>4, <4>5 DEF SchedulerInv, HeapIsCurrent
      <3>. QED  BY <1>7, <3>1, <3>2 DEF TakeCommand, Process
    <2>3. RepeatedOnce'
      <3>1. \A j \in Held' : \/ j \in Held
                             \/ /\ Head(commands).type \in {"add", "repeat"}
                                /\ j = Head(commands).job
        BY <1>7, <2>1 DEF TakeCommand, Process, Retain
      <3>. QED  BY <1>7, <1>t, <3>1, RestOfChannel DEF TakeCommand, SchedulerInv
    <2>. QED  BY <1>t, <2>2, <2>3 DEF SchedulerInv
  <1>8. CASE TakeStop
    <2>1. heap' = {} /\ Held' = {} /\ pc' = "off"
      BY <1>8, <1>t DEF TakeStop, Goto, TypeOK, Held
    <2>2. RepeatedOnce'
      BY <1>8, <1>t, <2>1, RestOfChannel DEF TakeStop, SchedulerInv
    <2>. QED  BY <1>t, <2>1, <2>2 DEF SchedulerInv, HeapIsCurrent
  <1>9. CASE TimeOut
    BY <1>9, <1>t DEF TimeOut, Goto, SchedulerInv, HeapIsCurrent, RepeatedOnce, Held
  <1>10. CASE Peek
    <2>1. Held' = Held
      <3>1. ASSUME NEW j \in heap, running' = j, heap' = heap \ {j} PROVE Held' = Held
        BY <1>10, <1>h, <1>t, <3>1, CommandKinds DEF Peek, Held, TypeOK
      <3>. QED  BY <1>10, <3>1 DEF Peek, Due, Earliest, Held
    <2>2. pc' # "off"
      BY <1>10 DEF Peek, Goto
    <2>. QED  BY <1>10, <1>t, <2>1, <2>2 DEF Peek, SchedulerInv, HeapIsCurrent, RepeatedOnce
  <1>11. CASE Run
    <2>1. running \in Jobs /\ Held = heap \union {running}
      BY <1>11, <1>t, CommandKinds DEF Run, TypeOK, Held
    <2>2. heap \in SUBSET Jobs /\ Held' = heap'
      BY <1>11, <1>t DEF Run, TypeOK, Held, Goto
    <2>. DEFINE again == [running EXCEPT !.at = now + running.every]
    <2>3. again.id = running.id /\ again.n = running.n
      BY <2>1 DEF Jobs
    <2>4. heap' \subseteq heap \union {again}
      BY <1>11 DEF Run
    <2>5. \A j \in heap : j.id # running.id
      BY <2>1 DEF SchedulerInv, HeapIsCurrent
    <2>. HIDE DEF again
    <2>6. \A j \in Held' : \/ j \in heap /\ j \in Held /\ j.id # running.id
                           \/ j = again
      BY <2>1, <2>2, <2>4, <2>5
    <2>7. HeapIsCurrent'
      <3>1. running' \notin heap' /\ pc' # "off" /\ latest' = latest
        BY <1>11, <1>t, <2>2, CommandKinds DEF Run, Goto, TypeOK
      <3>. QED  BY <2>1, <2>3, <2>6, <3>1 DEF SchedulerInv, HeapIsCurrent
    <2>8. RepeatedOnce'
      <3>1. commands' = commands /\ guards' = guards
        BY <1>11 DEF Run
      <3>2. running \in Held
        BY <2>1
      <3>3. \A j \in Held' : \E k \in Held : k.id = j.id
        BY <2>3, <2>6, <3>2
      <3>. QED  BY <3>1, <3>3 DEF SchedulerInv, RepeatedOnce
    <2>. QED  BY <1>t, <2>7, <2>8 DEF SchedulerInv
  <1>12. CASE Arm
    BY <1>12, <1>t DEF Arm, Goto, SchedulerInv, HeapIsCurrent, RepeatedOnce, Held
  <1>13. CASE Tick
    BY <1>13, <1>t, SchedulerAssumption
    DEF Tick, thread, SchedulerInv, HeapIsCurrent, RepeatedOnce, Held, TypeOK
  <1>14. CASE UNCHANGED vars
    BY <1>14, <1>t DEF vars, thread, SchedulerInv, HeapIsCurrent, RepeatedOnce, Held
  <1>. QED
    BY <1>1, <1>2, <1>3, <1>4, <1>5, <1>6, <1>7, <1>8, <1>9, <1>10, <1>11, <1>12,
       <1>13, <1>14 DEF Next, Callers, Thread

\* The inductive invariant of the scheduler thread (mod.rs:76-123).
THEOREM InvariantHolds == Spec => []SchedulerInv
  BY InvInit, InvStep, PTL DEF Spec

\* Replaced, cancelled and discarded jobs never run again, and no id is held
\* twice (mod.rs:82-101).
THEOREM HeapStaysCurrent == Spec => []HeapIsCurrent
  <1>1. SchedulerInv => HeapIsCurrent
    BY DEF SchedulerInv
  <1>. QED  BY <1>1, InvariantHolds, PTL

\* A repeated job is sent once, with an id of its own (mod.rs:93, 192).
THEOREM RepeatedJobsAreUnique == Spec => []RepeatedOnce
  <1>1. SchedulerInv => RepeatedOnce
    BY DEF SchedulerInv
  <1>. QED  BY <1>1, InvariantHolds, PTL
-----------------------------------------------------------------------------
(* The timer.                                                              *)

\* The instant read in a round lags behind by what the thread was busy since.
LEMMA LagStep ==
    ASSUME TypeOK, TypeOK', TimerInv, Peek \/ Run \/ Arm \/ Tick
    PROVE  pc' \in {"run", "arm"} => clock' <= now' + busy'
  <1>. SUFFICES ASSUME pc' \in {"run", "arm"} PROVE clock' <= now' + busy'
    OBVIOUS
  <1>1. clock \in Nat /\ now \in Nat /\ busy \in Nat
    BY SchedulerAssumption DEF TypeOK
  <1>2. CASE Peek
    BY <1>1, <1>2 DEF Peek
  <1>3. CASE Run
    BY <1>3 DEF Run, TimerInv
  <1>4. CASE Arm
    BY <1>4 DEF Arm, Goto
  <1>5. CASE Tick
    BY <1>1, <1>5 DEF Tick, thread, Waiting, TimerInv
  <1>. QED  BY <1>2, <1>3, <1>4, <1>5

LEMMA TimerStep == TimerInv /\ [Next]_vars => TimerInv'
  <1>. SUFFICES ASSUME TimerInv, [Next]_vars PROVE TimerInv'
    OBVIOUS
  <1>t. TypeOK /\ TypeOK'
    BY TypeStep DEF TimerInv
  <1>n. clock \in Nat /\ now \in Nat /\ busy \in Nat /\ \A j \in heap : j.at \in Nat
    BY <1>t, SchedulerAssumption DEF TypeOK, Jobs
  <1>1. CASE Schedule \/ Repeated \/ CancelById \/ DropGuard \/ StopScheduler
    BY <1>1, <1>t DEF Schedule, Repeated, CancelById, DropGuard, StopScheduler, Send, thread,
                      TimerInv, TimerCoversJobs
  <1>2. CASE Start
    BY <1>2, <1>t DEF Start, TimerInv, TimerCoversJobs
  <1>3. CASE TakeCommand \/ TakeStop \/ TimeOut
    BY <1>3, <1>t DEF TakeCommand, TakeStop, TimeOut, Goto, TimerInv, TimerCoversJobs
  <1>4. CASE Peek
    <2>1. pc' # "select"
      BY <1>4 DEF Peek, Goto
    <2>. QED  BY <1>4, <1>t, <2>1, LagStep DEF TimerInv, TimerCoversJobs
  <1>5. CASE Run
    <2>1. pc' # "select"
      BY <1>5 DEF Run, Goto
    <2>. QED  BY <1>5, <1>t, <2>1, LagStep DEF TimerInv, TimerCoversJobs
  <1>6. CASE Arm
    <2>1. heap' = heap /\ now' = now /\ busy' = busy /\ clock <= now + busy /\ pc' = "select"
      BY <1>6 DEF Arm, Goto, TimerInv
    <2>2. ASSUME NEW k \in heap PROVE timer' <= Later(k.at, now) + busy
      <3>1. PICK j \in heap : j.at <= k.at /\ timer' = clock + Saturating(j.at, now)
        BY <1>6 DEF Arm, Earliest
      <3>. QED  BY <1>n, <2>1, <3>1 DEF Saturating, Later
    <2>. QED  BY <1>t, <2>1, <2>2 DEF TimerInv, TimerCoversJobs
  <1>7. CASE Tick
    <2>1. /\ heap' = heap /\ now' = now /\ pc' = pc /\ timer' = timer
          /\ pc = "select" => busy' = busy
      BY <1>7 DEF Tick, thread, Waiting
    <2>2. TimerCoversJobs'
      BY <2>1 DEF TimerInv, TimerCoversJobs
    <2>. QED  BY <1>7, <1>t, <2>2, LagStep DEF TimerInv
  <1>8. CASE UNCHANGED vars
    BY <1>8, <1>t DEF vars, thread, TimerInv, TimerCoversJobs
  <1>. QED
    BY <1>1, <1>2, <1>3, <1>4, <1>5, <1>6, <1>7, <1>8 DEF Next, Callers, Thread

\* No job is slept over: the timer is armed for the earliest one, late by no more
\* than the thread was busy (mod.rs:78, 105, 120-121).
THEOREM JobsAreWoken == Spec => []TimerCoversJobs
  <1>1. Init => TimerInv
    BY TypeInit DEF Init, TimerInv, TimerCoversJobs
  <1>2. TimerInv => TimerCoversJobs
    BY DEF TimerInv
  <1>. QED  BY <1>1, <1>2, TimerStep, PTL DEF Spec
=============================================================================
