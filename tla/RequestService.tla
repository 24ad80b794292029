-------------------------- MODULE RequestService --------------------------
(***************************************************************************)
(* What the MPD client threads of rmpc promise to the code that submits    *)
(* ClientRequests (rmpc/src/ctx.rs: query, query_sync, command): requests  *)
(* are taken strictly in submission order, each one is settled at most     *)
(* once, a query is passed over only in favour of a newer query with the   *)
(* same replace_id, and requests are only ever thrown away as a            *)
(* contiguous block of the oldest ones.                                    *)
(***************************************************************************)
EXTENDS Naturals, Sequences

CONSTANTS
    MaxRequests,  \* bound: how many requests are ever submitted
    Keys,         \* (id, replace_id, target) triples of replaceable queries
    NoKey         \* a command, a sync query, or a query with no replace_id

VARIABLES
    backlog,      \* submitted and not settled, oldest first (request numbers)
    key,          \* key[r]: the replace key of request r
    outcome       \* outcome[r]: what became of request r

serviceVars == <<backlog, key, outcome>>

Request == 1..MaxRequests

ServiceInit ==
    /\ backlog = <<>>
    /\ key = [r \in Request |-> NoKey]
    /\ outcome = [r \in Request |-> "unsent"]

\* The next number is handed out in submission order.
Submit(k) ==
    \E r \in Request :
        /\ outcome[r] = "unsent"
        /\ \A q \in Request : q < r => outcome[q] # "unsent"
        /\ backlog' = Append(backlog, r)
        /\ key' = [key EXCEPT ![r] = k]
        /\ outcome' = [outcome EXCEPT ![r] = "pending"]

\* The oldest request is executed.
Execute ==
    /\ backlog # <<>>
    /\ \E res \in {"done", "error"} :
        outcome' = [outcome EXCEPT ![Head(backlog)] = res]
    /\ backlog' = Tail(backlog)
    /\ UNCHANGED key

\* The oldest request is a query and a newer one with its key is waiting.
Supersede ==
    /\ backlog # <<>>
    /\ key[Head(backlog)] # NoKey
    /\ \E i \in 2..Len(backlog) : key[backlog[i]] = key[Head(backlog)]
    /\ outcome' = [outcome EXCEPT ![Head(backlog)] = "skipped"]
    /\ backlog' = Tail(backlog)
    /\ UNCHANGED key

\* The oldest request ran into the read timeout; what follows it may be lost
\* with it when the connection cannot be opened again.
TimeOut ==
    /\ backlog # <<>>
    /\ \E n \in 1..Len(backlog) :
        /\ backlog' = SubSeq(backlog, n + 1, Len(backlog))
        /\ outcome' = [r \in Request |->
               IF r = Head(backlog) THEN "timedout"
               ELSE IF \E i \in 2..n : backlog[i] = r THEN "lost" ELSE outcome[r]]
    /\ UNCHANGED key

\* The connection is given up: a block of the oldest requests is dropped.
Lose ==
    /\ \E n \in 1..Len(backlog) :
        /\ backlog' = SubSeq(backlog, n + 1, Len(backlog))
        /\ outcome' = [r \in Request |->
               IF \E i \in 1..n : backlog[i] = r THEN "lost" ELSE outcome[r]]
    /\ UNCHANGED key

ServiceNext ==
    \/ \E k \in Keys \union {NoKey} : Submit(k)
    \/ Execute
    \/ Supersede
    \/ TimeOut
    \/ Lose

ServiceSpec == ServiceInit /\ [][ServiceNext]_serviceVars

===========================================================================
