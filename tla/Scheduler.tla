------------------------------ MODULE Scheduler ------------------------------
(***************************************************************************)
(* The scheduler thread of rmpc/src/core/scheduler/mod.rs: jobs that run   *)
(* once after a delay, jobs that repeat, replacing and cancelling by id,   *)
(* start and stop.                                                         *)
(*                                                                         *)
(* Callers stamp a job with its run_at and send it through a channel; the  *)
(* thread takes one command or one timeout per round, runs at most one due *)
(* job, and arms its timer for the earliest job left.  The clock may       *)
(* advance between any two steps.                                          *)
(***************************************************************************)
EXTENDS Naturals, Sequences, FiniteSets

CONSTANTS
    Ids,       \* ids of schedule_replace
    Guards,    \* ids of the repeated jobs, used once each
    Delays,    \* timeouts and intervals, in ticks
    MaxTime,   \* bound: the clock
    MaxBusy,   \* bound: ticks that pass while the thread is not waiting
    MaxSent,   \* bound: commands
    MaxStarts  \* bound: calls of start

ASSUME SchedulerAssumption ==
    /\ Ids \intersect Guards = {}
    /\ Delays \subseteq Nat /\ Delays # {}
    /\ MaxTime \in Nat /\ MaxBusy \in Nat /\ MaxSent \in Nat /\ MaxStarts \in Nat

VARIABLES
    clock,
    commands,  \* the channel add_job_rx
    heap,      \* the jobs the thread knows
    timer,     \* when the armed timeout fires
    pc,        \* "off", "select", "peek", "run", "arm"
    now,       \* the instant read in this round
    running,   \* the job taken from the heap, if any
    handle,    \* start was called and stop was not
    guards,    \* the TaskGuard of each repeated job: "fresh", "held", "dropped"
    sent, busy, starts,
    latest     \* history: the last command processed for an id since start

thread == <<heap, timer, pc, now, running>>
vars   == <<clock, commands, thread, handle, guards, sent, busy, starts, latest>>

Never   == MaxTime + 1
AllIds  == Ids \union Guards
\* every = 0 marks a job that runs once.
Jobs    == [id : AllIds, n : Nat, at : Nat, every : Nat]
NoJob   == [id |-> "none"]
Add(j)      == [type |-> "add", job |-> j]
AddRep(j)   == [type |-> "repeat", job |-> j]
Cancel(id, n) == [type |-> "cancel", id |-> id, n |-> n]
Stop        == [type |-> "stop"]
Commands    == [type : {"add", "repeat"}, job : Jobs]
                   \union [type : {"cancel"}, id : AllIds, n : Nat] \union {Stop}

TypeOK ==
    /\ clock \in 0..MaxTime /\ timer \in Nat /\ now \in 0..MaxTime
    /\ heap \in SUBSET Jobs
    /\ pc \in {"off", "select", "peek", "run", "arm"}
    /\ running \in Jobs \union {NoJob} /\ (pc = "run" <=> running # NoJob)
    /\ handle \in BOOLEAN /\ guards \in [Guards -> {"fresh", "held", "dropped"}]
    /\ commands \in Seq(Commands)
    /\ sent \in 0..MaxSent /\ busy \in 0..MaxBusy /\ starts \in 0..MaxStarts
    /\ latest \in [AllIds -> Nat]

Init ==
    /\ clock = 0 /\ commands = <<>> /\ heap = {} /\ timer = Never
    /\ pc = "off" /\ now = 0 /\ running = NoJob /\ handle = FALSE
    /\ sent = 0 /\ busy = 0 /\ starts = 0
    /\ latest = [id \in AllIds |-> 0]
    /\ guards = [g \in Guards |-> "fresh"]

-----------------------------------------------------------------------------
(* The callers.                                                            *)

Stopping == ~handle /\ pc # "off"

\* stop() blocks the owner until the thread has ended.
OwnerIsFree == ~Stopping

Send(c) ==
    /\ sent < MaxSent /\ sent' = sent + 1
    /\ commands' = Append(commands, c)
    /\ UNCHANGED <<clock, thread, busy, starts, latest>>

\* The bound keeps every job due within MaxTime however late the thread is.
InTime(delay) == clock + delay + MaxBusy < MaxTime

Schedule ==
    \E id \in Ids, delay \in Delays :
        /\ OwnerIsFree /\ InTime(delay)
        /\ Send(Add([id |-> id, n |-> sent + 1, at |-> clock + delay, every |-> 0]))
        /\ UNCHANGED <<handle, guards>>

Repeated ==
    \E g \in Guards, interval \in Delays \ {0} :
        /\ OwnerIsFree /\ InTime(interval) /\ guards[g] = "fresh"
        /\ Send(AddRep([id |-> g, n |-> sent + 1, at |-> clock + interval,
                        every |-> interval]))
        /\ guards' = [guards EXCEPT ![g] = "held"]
        /\ UNCHANGED handle

\* cancel(id).
CancelById ==
    /\ OwnerIsFree
    /\ \E id \in Ids : Send(Cancel(id, sent + 1))
    /\ UNCHANGED <<handle, guards>>

\* A TaskGuard may outlive the thread, and be dropped by anyone.
DropGuard ==
    \E g \in Guards :
        /\ guards[g] = "held" /\ guards' = [guards EXCEPT ![g] = "dropped"]
        /\ Send(Cancel(g, sent + 1))
        /\ UNCHANGED handle

Start ==
    /\ OwnerIsFree /\ ~handle /\ handle' = TRUE
    /\ starts < MaxStarts /\ starts' = starts + 1
    /\ pc' = "select" /\ timer' = Never /\ heap' = {}
    /\ UNCHANGED <<clock, commands, now, running, guards, sent, busy, latest>>

StopScheduler ==
    /\ handle /\ handle' = FALSE
    /\ commands' = Append(commands, Stop)
    /\ UNCHANGED <<clock, thread, guards, sent, busy, starts, latest>>

-----------------------------------------------------------------------------
(* The thread.                                                             *)

Goto(label) == pc' = label

\* AddJob and CancelJob first remove what has the same id.
Retain(id) == {j \in heap : j.id # id}

\* Seeded fault: a job is added without removing the one it replaces.
ProcessAddKeepsOld(c) ==
    \/ c.type \in {"add", "repeat"} /\ heap' = heap \union {c.job}
           /\ latest' = [latest EXCEPT ![c.job.id] = c.job.n]
    \/ c.type = "cancel" /\ heap' = Retain(c.id)
           /\ latest' = [latest EXCEPT ![c.id] = c.n]

Process(c) ==
    \/ c.type = "add" /\ heap' = Retain(c.job.id) \union {c.job}
           /\ latest' = [latest EXCEPT ![c.job.id] = c.job.n]
    \/ c.type = "repeat" /\ heap' = heap \union {c.job}
           /\ latest' = [latest EXCEPT ![c.job.id] = c.job.n]
    \/ c.type = "cancel" /\ heap' = Retain(c.id)
           /\ latest' = [latest EXCEPT ![c.id] = c.n]

TakeCommand ==
    /\ pc = "select" /\ commands # <<>> /\ Head(commands) # Stop
    /\ commands' = Tail(commands)
    /\ Process(Head(commands))
    /\ Goto("peek")
    /\ UNCHANGED <<clock, timer, now, running, handle, guards, sent, busy, starts>>

\* Seeded fault: the thread stays until its jobs are done.
TakeStopWhenEmpty ==
    /\ pc = "select" /\ commands # <<>> /\ Head(commands) = Stop
    /\ commands' = Tail(commands) /\ UNCHANGED heap
    /\ Goto(IF heap = {} THEN "off" ELSE "peek")
    /\ UNCHANGED <<clock, timer, now, running, handle, guards, sent, busy, starts, latest>>

TakeStop ==
    /\ pc = "select" /\ commands # <<>> /\ Head(commands) = Stop
    /\ commands' = Tail(commands)
    /\ heap' = {} /\ Goto("off")
    /\ UNCHANGED <<clock, timer, now, running, handle, guards, sent, busy, starts, latest>>

\* select_biased!: a timeout only counts when no command waits.
TimeOut ==
    /\ pc = "select" /\ commands = <<>> /\ timer <= clock
    /\ Goto("peek")
    /\ UNCHANGED <<clock, commands, heap, timer, now, running, handle, guards, sent, busy,
                   starts, latest>>

\* Seeded fault: the heap gives the latest job first, for want of Reverse.
EarliestReversed(j) == j \in heap /\ \A k \in heap : k.at <= j.at

Earliest(j) == j \in heap /\ \A k \in heap : j.at <= k.at
Due(j)      == Earliest(j) /\ j.at <= clock

\* Seeded fault: a round without a due job leaves the timer alone.
PeekSkipsArm ==
    /\ pc = "peek" /\ now' = clock
    /\ \/ \E j \in heap : Due(j) /\ running' = j /\ heap' = heap \ {j} /\ Goto("run")
       \/ (\A j \in heap : ~Due(j)) /\ Goto("select") /\ UNCHANGED <<heap, running>>
    /\ UNCHANGED <<clock, commands, timer, handle, guards, sent, busy, starts, latest>>

Peek ==
    /\ pc = "peek" /\ now' = clock
    /\ \/ \E j \in heap : Due(j) /\ running' = j /\ heap' = heap \ {j} /\ Goto("run")
       \/ (\A j \in heap : ~Due(j)) /\ Goto("arm") /\ UNCHANGED <<heap, running>>
    /\ UNCHANGED <<clock, commands, timer, handle, guards, sent, busy, starts, latest>>

\* The callback runs; a repeated job goes back with its next run_at.
Run ==
    /\ pc = "run"
    /\ heap' = IF running.every = 0 THEN heap
               ELSE heap \union {[running EXCEPT !.at = now + running.every]}
    /\ running' = NoJob
    /\ Goto("arm")
    /\ UNCHANGED <<clock, commands, timer, now, handle, guards, sent, busy, starts, latest>>

Saturating(a, b) == IF a >= b THEN a - b ELSE 0

Arm ==
    /\ pc = "arm"
    /\ \/ heap = {} /\ timer' = Never
       \/ \E j \in heap : Earliest(j) /\ timer' = clock + Saturating(j.at, now)
    /\ Goto("select")
    /\ UNCHANGED <<clock, commands, heap, now, running, handle, guards, sent, busy, starts, latest>>

-----------------------------------------------------------------------------
Waiting == pc \in {"off", "select"}

Tick ==
    /\ clock < MaxTime /\ clock' = clock + 1
    /\ Waiting \/ busy < MaxBusy
    /\ busy' = IF Waiting THEN busy ELSE busy + 1
    /\ UNCHANGED <<commands, thread, handle, guards, sent, starts, latest>>

Callers == \/ Schedule \/ Repeated \/ CancelById \/ DropGuard
           \/ Start \/ StopScheduler
Thread  == TakeCommand \/ TakeStop \/ TimeOut \/ Peek \/ Run \/ Arm
Next    == Callers \/ Thread \/ Tick

Spec     == Init /\ [][Next]_vars
\* The thread never blocks but in select!, and time passes.
FairSpec == Spec /\ WF_vars(Thread) /\ WF_vars(Tick)

-----------------------------------------------------------------------------
Held == heap \union ({running} \ {NoJob})

Later(a, b) == IF a >= b THEN a ELSE b

\* While the thread waits its timer is set for every job it holds: whatever was
\* added, replaced, cancelled or run in the round before, none is slept over.  A
\* job is late by no more than the thread was busy, because the duration counts
\* from an instant read before the callback ran (mod.rs:78, 105, 120-121).
TimerCoversJobs == pc = "select" => \A j \in heap : timer <= Later(j.at, now) + busy

\* What the thread holds for an id is what the last command for that id since
\* start asked for: replaced, cancelled and discarded jobs are gone, and an id
\* is held once (mod.rs:82-101, 140-143, 20-22).
HeapIsCurrent ==
    /\ \A j \in Held : j.n = latest[j.id]
    /\ \A j, k \in Held : j.id = k.id => j = k
    /\ running \notin heap
    /\ pc = "off" => heap = {}

\* Why an AddRepeatedJob, which replaces nothing, keeps ids unique: a repeated
\* job has an id of its own and is sent once (mod.rs:93, 192).
RepeatedOnce ==
    /\ \A i \in DOMAIN commands :
           /\ commands[i].type = "add" => commands[i].job.id \in Ids
           /\ commands[i].type = "repeat" =>
                  LET g == commands[i].job.id IN
                  /\ g \in Guards /\ guards[g] # "fresh"
                  /\ \A j \in Held : j.id # g
                  /\ \A k \in DOMAIN commands :
                         commands[k].type = "repeat" /\ commands[k].job.id = g => k = i
    /\ \A j \in Held : j.id \in Guards => guards[j.id] # "fresh"

\* The inductive invariant.
SchedulerInv == TypeOK /\ HeapIsCurrent /\ RepeatedOnce

\* What makes the timer right: the instant of the round is as old as it took.
TimerInv == TypeOK /\ TimerCoversJobs /\ (pc \in {"run", "arm"} => clock <= now + busy)

Outstanding(n) ==
    \/ \E j \in Held : j.every = 0 /\ j.n = n
    \/ \E i \in DOMAIN commands : commands[i].type = "add" /\ commands[i].job.n = n

\* A job that is scheduled while the scheduler runs is run, replaced or
\* cancelled, unless the scheduler is stopped (mod.rs:17-22).
JobsSettle == \A n \in 1..MaxSent : (Outstanding(n) /\ handle) ~> (~Outstanding(n) \/ ~handle)

\* stop() returns, whatever is queued before it (mod.rs:127-138).
StopReturns == Stopping ~> ~Stopping
=============================================================================
