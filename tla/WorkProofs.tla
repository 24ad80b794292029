----------------------------- MODULE WorkProofs -----------------------------
(***************************************************************************)
(* What TLAPS proves about the two components that hand work to the worker *)
(* thread (rmpc/src/core/work.rs): the album art, for any songs and any    *)
(* number of modals and requests, and the downloads, for any number of     *)
(* downloads and menus.                                                    *)
(***************************************************************************)
EXTENDS AlbumArt, Downloads, TLAPS, WellFoundedInduction, FiniteSetTheorems, SequenceTheorems

-----------------------------------------------------------------------------
(* The downloads.                                                          *)

\* The first of some ids, as DownloadNext finds it (manager.rs:106).
LEMMA FirstId ==
  ASSUME NEW S \in SUBSET Nat, S # {}
  PROVE  Min(S) \in S /\ \A x \in S : Min(S) <= x
  <1> DEFINE Below == {ss \in Nat \X Nat : ss[1] < ss[2]}
  <1>1. IsWellFoundedOn(Below, Nat)  BY NatLessThanWellFounded, Zenon DEF OpToRel
  <1>2. PICK x \in S : \A y \in S : ~(<<y, x>> \in Below)
    <2>. HIDE DEF Below
    <2>. QED  BY <1>1, WFMin
  <1>3. \A y \in S : x <= y
    <2>. TAKE y \in S
    <2>1. y < x => <<y, x>> \in Below  OBVIOUS
    <2>. QED  BY <1>2, <2>1
  <1>. QED  BY <1>3 DEF Min

\* download_next changes at most one download, the first that is open, and asks
\* the worker for it (manager.rs:105-138).
LEMMA StartsTheFirst ==
  ASSUME NEW n \in Nat, NEW q \in [1..n -> States], work \in Seq(1..n),
         DownloadNext(q)
  PROVE  /\ queue' \in [1..n -> States] /\ work' \in Seq(1..n)
         /\ \/ queue' = q /\ work' = work
            \/ \E id \in 1..n :
                  /\ q[id] = "queued"
                  /\ \A k \in Open(q) : id <= k
                  /\ queue' = [q EXCEPT ![id] = "downloading"]
                  /\ work' = Append(work, id)
  <1> DEFINE open == Open(q)
             next == Min(open)
  <1>1. CASE open # {} /\ q[next] = "queued"
    <2>1. next \in open /\ \A k \in open : next <= k
      <3>1. open \in SUBSET Nat  BY DEF Open, In
      <3>. HIDE DEF open
      <3>. QED  BY <3>1, <1>1, FirstId
    <2>2. next \in 1..n  BY <2>1 DEF Open, In
    <2>3. /\ queue' = [q EXCEPT ![next] = "downloading"]
          /\ work' = Append(work, next)
      BY <1>1 DEF DownloadNext
    <2>4. q[next] = "queued"  BY <1>1
    <2>. HIDE DEF next, open
    <2>5. queue' \in [1..n -> States]  BY <2>2, <2>3 DEF States
    <2>6. work' \in Seq(1..n)  BY <2>2, <2>3, AppendProperties
    <2>. QED  BY <2>1, <2>2, <2>3, <2>4, <2>5, <2>6 DEF open
  <1>2. CASE ~(open # {} /\ q[next] = "queued")
    BY <1>2 DEF DownloadNext
  <1>. QED  BY <1>1, <1>2

\* Who is counted by InFlight (manager.rs:117-121, work.rs:75-87).
Asked(id, reqs, ress) == \/ \E i \in 1..Len(reqs) : reqs[i] = id
                         \/ \E i \in 1..Len(ress) : ress[i].id = id

ServedIn(q, reqs, ress) == \A id \in In(q, "downloading") : Asked(id, reqs, ress)
BehindIn(q, again) ==
    \A i \in Open(q), j \in In(q, "downloading") : i < j => i \in again

\* The inductive invariant: what is downloading has an answer coming, and only a
\* retry is open before one that is downloading.
ManagerInv == ServedIn(queue, work, answers) /\ BehindIn(queue, retried)

\* The one that is started is before all that are open, and the worker has it.
LEMMA StartKeepsInv ==
  ASSUME NEW n \in Nat, NEW q \in [1..n -> States], work \in Seq(1..n),
         DownloadNext(q), ServedIn(q, work, answers'), BehindIn(q, retried')
  PROVE  ManagerInv'
  <1>1. CASE queue' = q /\ work' = work
    BY <1>1 DEF ManagerInv, ServedIn, BehindIn, In, Open, Asked
  <1>2. ASSUME NEW id \in 1..n, q[id] = "queued", \A k \in Open(q) : id <= k,
               queue' = [q EXCEPT ![id] = "downloading"], work' = Append(work, id)
        PROVE  ManagerInv'
    <2>1. /\ In(queue', "downloading") = In(q, "downloading") \union {id}
          /\ Open(queue') = Open(q)
      BY <1>2 DEF In, Open
    <2>2. /\ Len(work') = Len(work) + 1 /\ work'[Len(work) + 1] = id
          /\ \A i \in 1..Len(work) : work'[i] = work[i]
          /\ Len(work) \in Nat
      BY <1>2, AppendProperties, LenProperties
    <2>3. ServedIn(queue', work', answers')
      <3>1. Asked(id, work', answers')  BY <2>2 DEF Asked
      <3>2. ASSUME NEW k, Asked(k, work, answers')
            PROVE  Asked(k, work', answers')
        <4>1. ASSUME NEW i \in 1..Len(work), work[i] = k
              PROVE  i \in 1..Len(work') /\ work'[i] = k
          BY <4>1, <2>2
        <4>. QED  BY <3>2, <4>1 DEF Asked
      <3>. QED  BY <2>1, <3>1, <3>2 DEF ServedIn
    <2>4. BehindIn(queue', retried')
      <3>. SUFFICES ASSUME NEW i \in Open(q), i < id PROVE FALSE
        BY <2>1 DEF BehindIn
      <3>1. i \in Nat /\ id <= i  BY <1>2 DEF Open, In
      <3>. QED  BY <3>1
    <2>. QED  BY <2>3, <2>4 DEF ManagerInv
  <1>. QED  BY <1>1, <1>2, StartsTheFirst

\* What a step of the downloads starts from (manager.rs:59-80).
LEMMA ManagerTypes ==
  ASSUME ManagerTypeOK
  PROVE  \E n \in 0..MaxDownloads :
            /\ queue \in [1..n -> States] /\ Known = 1..n
            /\ Len(queue) = n /\ n \in Nat
            /\ work \in Seq(1..n) /\ answers \in Seq([id : 1..n, ok : BOOLEAN])
            /\ retried \subseteq 1..n
            /\ menu \in [entry : {"cancel", "redownload"}, id : 1..n] \union {NoMenu}
  <1>1. PICK n \in 0..MaxDownloads : queue \in [1..n -> States]
    BY DEF ManagerTypeOK
  <1>2. n \in Nat /\ DOMAIN queue = 1..n /\ Len(queue) = n
    BY <1>1
  <1>. QED  BY <1>1, <1>2 DEF ManagerTypeOK, Known

\* Downloads are only ever added: what refers to one goes on doing so.
LEMMA TypesGrow ==
  ASSUME NEW n \in Nat, NEW k \in Nat, n + k <= MaxDownloads, MaxDownloads \in Nat,
         queue' \in [1..(n + k) -> States], work' \in Seq(1..(n + k)),
         answers' \in Seq([id : 1..n, ok : BOOLEAN]), retried' \subseteq 1..n,
         menu' \in [entry : {"cancel", "redownload"}, id : 1..n] \union {NoMenu},
         menus' \in 0..MaxMenus, added' \in [Ids -> Nat]
  PROVE  ManagerTypeOK'
  <1>1. n + k \in 0..MaxDownloads /\ 1..n \subseteq 1..(n + k)  OBVIOUS
  <1>2. DOMAIN queue' = 1..(n + k)  OBVIOUS
  <1>3. [id : 1..n, ok : BOOLEAN] \subseteq [id : 1..(n + k), ok : BOOLEAN]  BY <1>1
  <1>4. answers' \in Seq([id : 1..(n + k), ok : BOOLEAN])  BY <1>3, SeqMonotonic
  <1>5. menu' \in [entry : {"cancel", "redownload"}, id : 1..(n + k)] \union {NoMenu}
    BY <1>1
  <1>. QED  BY <1>1, <1>2, <1>4, <1>5 DEF ManagerTypeOK, Known

LEMMA ManagerStep ==
  ASSUME ManagerTypeOK, ManagerInv, [ManagerNext]_managerVars
  PROVE  ManagerTypeOK' /\ ManagerInv'
  <1>1. PICK n \in 0..MaxDownloads :
            /\ queue \in [1..n -> States] /\ Known = 1..n
            /\ Len(queue) = n /\ n \in Nat
            /\ work \in Seq(1..n) /\ answers \in Seq([id : 1..n, ok : BOOLEAN])
            /\ retried \subseteq 1..n
            /\ menu \in [entry : {"cancel", "redownload"}, id : 1..n] \union {NoMenu}
    BY ManagerTypes
  <1>2. /\ menus \in 0..MaxMenus /\ added \in [Ids -> Nat]
        /\ MaxDownloads \in Nat /\ MaxMenus \in Nat
    BY DownloadsAssumption DEF ManagerTypeOK
  <1>3. ServedIn(queue, work, answers) /\ BehindIn(queue, retried)  BY DEF ManagerInv
  <1>4. menu.entry # "none" => menu.id \in 1..n  BY <1>1 DEF NoMenu
  <1>5. n + 0 <= MaxDownloads /\ n + 0 = n  BY <1>1
  <1>6. CASE QueueDownloads
    <2>1. PICK k \in 0..(MaxDownloads - n) :
              DownloadNext(queue \o [i \in 1..k |-> "queued"])
      BY <1>1, <1>6 DEF QueueDownloads
    <2> DEFINE q == queue \o [i \in 1..k |-> "queued"]
    <2>2. k \in Nat /\ n + k \in Nat /\ n + k <= MaxDownloads  BY <1>1, <1>2
    <2>3. q \in [1..(n + k) -> States] /\ \A i \in 1..n : q[i] = queue[i]
      <3>1. [i \in 1..k |-> "queued"] \in Seq(States) /\ queue \in Seq(States)
            /\ Len([i \in 1..k |-> "queued"]) = k
        BY <1>1, <2>2, IsASeq DEF States
      <3> DEFINE t == [i \in 1..k |-> "queued"]
      <3>2. t \in Seq(States) /\ Len(t) = k  BY <3>1
      <3>. HIDE DEF t
      <3>3. /\ queue \o t \in Seq(States) /\ Len(queue \o t) = n + k
            /\ \A i \in 1..(n + k) : (queue \o t)[i] = IF i <= n THEN queue[i] ELSE t[i - n]
        BY <1>1, <2>2, <3>1, <3>2, ConcatProperties
      <3>4. \A i \in 1..n : i \in 1..(n + k) /\ i <= n  BY <1>1, <2>2
      <3>. QED  BY <3>3, <3>4, LenProperties DEF t
    <2>4. \A i \in 1..(n + k) : i > n => q[i] = "queued"
      BY <1>1, <2>2
    <2>. HIDE DEF q
    <2>5. /\ In(q, "downloading") = In(queue, "downloading")
          /\ \A i \in Open(q) : i \in Open(queue) \/ i > n
      BY <1>1, <2>2, <2>3, <2>4 DEF In, Open
    <2>6. work \in Seq(1..(n + k))  BY <1>1, <2>2, SeqMonotonic
    <2>7. UNCHANGED <<answers, menu, menus, added, retried>>
      BY <1>6 DEF QueueDownloads
    <2>8. ServedIn(q, work, answers') /\ BehindIn(q, retried')
      <3>1. ServedIn(q, work, answers')  BY <1>3, <2>5, <2>7 DEF ServedIn
      <3>2. ASSUME NEW i \in Open(q), NEW j \in In(queue, "downloading"), i < j
            PROVE  i \in Open(queue)
        <4>1. i \in 1..(n + k) /\ j \in 1..n
          BY <1>1, <2>3 DEF In, Open
        <4>. QED  BY <3>2, <4>1, <2>2, <2>5
      <3>. QED  BY <1>3, <2>5, <2>7, <3>1, <3>2 DEF BehindIn
    <2>9. DownloadNext(q)  BY <2>1 DEF q
    <2>10. ManagerInv'  BY <2>2, <2>3, <2>6, <2>8, <2>9, StartKeepsInv
    <2>11. queue' \in [1..(n + k) -> States] /\ work' \in Seq(1..(n + k))
      BY <2>2, <2>3, <2>6, <2>9, StartsTheFirst
    <2>. QED  BY <1>1, <1>2, <2>2, <2>7, <2>10, <2>11, TypesGrow
  <1>7. CASE OpenMenu
    <2>1. menu' \in [entry : {"cancel", "redownload"}, id : 1..n] /\ menus' \in 0..MaxMenus
      BY <1>1, <1>2, <1>7 DEF OpenMenu
    <2>2. UNCHANGED <<queue, work, answers, added, retried>>
      BY <1>7 DEF OpenMenu
    <2>. QED  BY <1>1, <1>2, <1>3, <1>5, <2>1, <2>2, TypesGrow DEF ManagerInv
  <1>8. CASE CloseMenu
    BY <1>1, <1>2, <1>3, <1>5, <1>8, TypesGrow DEF CloseMenu, ManagerInv
  <1>9. CASE CancelDownload
    <2>1. /\ menu' = NoMenu /\ queue' = [queue EXCEPT ![menu.id] = "canceled"]
          /\ UNCHANGED <<work, answers, menus, added, retried>> /\ menu.id \in 1..n
      BY <1>4, <1>9 DEF CancelDownload
    <2>2. queue' \in [1..n -> States]  BY <1>1, <2>1 DEF States
    <2>3. /\ In(queue', "downloading") \subseteq In(queue, "downloading")
          /\ Open(queue') \subseteq Open(queue)
      BY <1>1, <2>1 DEF In, Open
    <2>4. ManagerInv'  BY <1>3, <2>1, <2>3 DEF ManagerInv, ServedIn, BehindIn
    <2>. QED  BY <1>1, <1>2, <1>5, <2>1, <2>2, <2>4, TypesGrow
  <1>10. CASE Redownload
    <2> DEFINE q == [queue EXCEPT ![menu.id] = "queued"]
    <2>1. /\ menu' = NoMenu /\ DownloadNext(q) /\ menu.id \in 1..n
          /\ retried' = retried \union {menu.id} /\ UNCHANGED <<answers, menus, added>>
      BY <1>4, <1>10 DEF Redownload
    <2>2. q \in [1..n -> States]  BY <1>1 DEF States
    <2>3. /\ In(q, "downloading") \subseteq In(queue, "downloading")
          /\ Open(q) \subseteq Open(queue) \union {menu.id}
      BY <1>1 DEF In, Open
    <2>. HIDE DEF q
    <2>4. ServedIn(q, work, answers') /\ BehindIn(q, retried')
      BY <1>3, <2>1, <2>3 DEF ServedIn, BehindIn
    <2>5. ManagerInv'  BY <1>1, <2>1, <2>2, <2>4, StartKeepsInv
    <2>6. queue' \in [1..n -> States] /\ work' \in Seq(1..n)
      BY <1>1, <2>1, <2>2, StartsTheFirst
    <2>7. retried' \subseteq 1..n  BY <1>1, <2>1
    <2>. QED  BY <1>1, <1>2, <1>5, <2>1, <2>5, <2>6, <2>7, TypesGrow
  <1>11. CASE WorkerAnswers
    <2>1. PICK ok \in BOOLEAN : answers' = Append(answers, [id |-> Head(work), ok |-> ok])
      BY <1>11 DEF WorkerAnswers
    <2>2. /\ work # <<>> /\ work' = Tail(work)
          /\ UNCHANGED <<queue, menu, menus, added, retried>>
      BY <1>11 DEF WorkerAnswers
    <2>3. /\ Tail(work) \in Seq(1..n) /\ Head(work) \in 1..n
          /\ Head(work) = work[1] /\ Len(work) \in Nat \ {0}
          /\ Len(Tail(work)) = Len(work) - 1
          /\ \A i \in 1..Len(Tail(work)) : Tail(work)[i] = work[i + 1]
      BY <1>1, <2>2, HeadTailProperties, EmptySeq
    <2>4. /\ answers' \in Seq([id : 1..n, ok : BOOLEAN])
          /\ Len(answers') = Len(answers) + 1 /\ Len(answers) \in Nat
          /\ answers'[Len(answers) + 1].id = work[1]
          /\ \A i \in 1..Len(answers) : answers'[i] = answers[i]
      BY <1>1, <2>1, <2>3, AppendProperties, LenProperties
    <2>5. ASSUME NEW id, Asked(id, work, answers) PROVE Asked(id, work', answers')
      <3>1. ASSUME NEW i \in 1..Len(work), work[i] = id
            PROVE  Asked(id, work', answers')
        <4>1. CASE i = 1
          <5>1. Len(answers) + 1 \in 1..Len(answers')  BY <2>4
          <5>. QED  BY <3>1, <4>1, <5>1, <2>4 DEF Asked
        <4>2. CASE i # 1
          <5>1. i - 1 \in 1..Len(work') /\ (i - 1) + 1 = i  BY <4>2, <2>2, <2>3
          <5>2. work'[i - 1] = id  BY <3>1, <5>1, <2>2, <2>3
          <5>. QED  BY <5>1, <5>2 DEF Asked
        <4>. QED  BY <4>1, <4>2
      <3>2. ASSUME NEW i \in 1..Len(answers), answers[i].id = id
            PROVE  i \in 1..Len(answers') /\ answers'[i].id = id
        BY <3>2, <2>4
      <3>. QED  BY <2>5, <3>1, <3>2 DEF Asked
    <2>6. ManagerInv'  BY <1>3, <2>2, <2>5 DEF ManagerInv, ServedIn
    <2>. QED  BY <1>1, <1>2, <1>5, <2>2, <2>3, <2>4, <2>6, TypesGrow
  <1>12. CASE Downloaded
    <2> DEFINE a == Head(answers)
               q == [queue EXCEPT ![a.id] = IF a.ok THEN "done" ELSE "failed"]
    <2>1. /\ answers # <<>> /\ answers' = Tail(answers) /\ DownloadNext(q)
          /\ added' = (IF a.ok THEN [added EXCEPT ![a.id] = @ + 1] ELSE added)
          /\ UNCHANGED <<menu, menus, retried>>
      BY <1>12 DEF Downloaded
    <2>2. /\ Tail(answers) \in Seq([id : 1..n, ok : BOOLEAN]) /\ a = answers[1]
          /\ a.id \in 1..n /\ a.ok \in BOOLEAN /\ Len(answers) \in Nat \ {0}
          /\ Len(Tail(answers)) = Len(answers) - 1
          /\ \A i \in 1..Len(Tail(answers)) : Tail(answers)[i] = answers[i + 1]
      <3>1. a \in [id : 1..n, ok : BOOLEAN]  BY <1>1, <2>1, HeadTailProperties
      <3>. QED  BY <1>1, <2>1, <3>1, HeadTailProperties, EmptySeq
    <2>. HIDE DEF a
    <2>3. q \in [1..n -> States]  BY <1>1, <2>2 DEF States
    <2>4. /\ In(q, "downloading") = In(queue, "downloading") \ {a.id}
          /\ Open(q) \subseteq Open(queue)
      BY <1>1, <2>2 DEF In, Open
    <2>5. added' \in [Ids -> Nat]
      <3>1. a.id \in Ids  BY <1>1, <1>2, <2>2 DEF Ids
      <3>2. CASE a.ok  BY <1>2, <2>1, <3>1, <3>2
      <3>. QED  BY <1>2, <2>1, <3>2
    <2>. HIDE DEF q
    <2>6. ServedIn(q, work, answers')
      <3>. SUFFICES ASSUME NEW id \in In(queue, "downloading"), id # a.id
                    PROVE  Asked(id, work, answers')
        BY <2>4 DEF ServedIn
      <3>1. Asked(id, work, answers)  BY <1>3 DEF ServedIn
      <3>2. ASSUME NEW i \in 1..Len(answers), answers[i].id = id
            PROVE  i - 1 \in 1..Len(answers') /\ answers'[i - 1].id = id
        <4>1. i # 1  BY <3>2, <2>2
        <4>2. i - 1 \in 1..Len(answers') /\ (i - 1) + 1 = i  BY <4>1, <2>1, <2>2
        <4>. QED  BY <3>2, <4>2, <2>1, <2>2
      <3>. QED  BY <3>1, <3>2 DEF Asked
    <2>7. BehindIn(q, retried')  BY <1>3, <2>1, <2>4 DEF BehindIn
    <2>8. ManagerInv'  BY <1>1, <2>1, <2>3, <2>6, <2>7, StartKeepsInv
    <2>9. queue' \in [1..n -> States] /\ work' \in Seq(1..n)
      BY <1>1, <2>1, <2>3, StartsTheFirst
    <2>. QED  BY <1>1, <1>2, <1>5, <2>1, <2>2, <2>5, <2>8, <2>9, TypesGrow
  <1>13. CASE UNCHANGED managerVars
    BY <1>1, <1>2, <1>3, <1>5, <1>13, TypesGrow DEF managerVars, ManagerInv
  <1>. QED
    BY <1>6, <1>7, <1>8, <1>9, <1>10, <1>11, <1>12, <1>13 DEF ManagerNext

\* The counts of ShownIsInFlight are those of sets of places.
LEMMA ServedCounts ==
  ASSUME ManagerTypeOK, ServedIn(queue, work, answers)
  PROVE  ShownIsInFlight
  <1>. SUFFICES ASSUME NEW id \in In(queue, "downloading")
                PROVE  InFlight(id) >= 1
    BY DEF ShownIsInFlight
  <1> DEFINE R == {i \in DOMAIN work : work[i] = id}
             A == {i \in DOMAIN answers : answers[i].id = id}
  <1>1. /\ DOMAIN work = 1..Len(work) /\ Len(work) \in Nat
        /\ DOMAIN answers = 1..Len(answers) /\ Len(answers) \in Nat
    BY ManagerTypes, LenProperties
  <1>2. IsFiniteSet(R) /\ IsFiniteSet(A)
    <2>1. R \in SUBSET (1..Len(work)) /\ A \in SUBSET (1..Len(answers))
      BY <1>1
    <2>2. IsFiniteSet(1..Len(work)) /\ IsFiniteSet(1..Len(answers))
      BY <1>1, FS_Interval
    <2>. HIDE DEF R, A
    <2>3. IsFiniteSet(R)  BY <2>1, <2>2, FS_Subset
    <2>4. IsFiniteSet(A)  BY <2>1, <2>2, FS_Subset
    <2>. QED  BY <2>3, <2>4
  <1>3. Cardinality(R) \in Nat /\ Cardinality(A) \in Nat  BY <1>2, FS_CardinalityType
  <1>4. R # {} \/ A # {}  BY <1>1 DEF ServedIn, Asked
  <1>5. Cardinality(R) # 0 \/ Cardinality(A) # 0  BY <1>2, <1>4, FS_EmptySet
  <1>6. InFlight(id) = Cardinality(R) + Cardinality(A)
    BY DEF InFlight
  <1>. HIDE DEF R, A
  <1>. QED  BY <1>3, <1>5, <1>6

LEMMA ManagerSafe ==
  ManagerSpec => [](ManagerTypeOK /\ ManagerInv)
  <1>1. ManagerInit => ManagerTypeOK /\ ManagerInv
    <2>. SUFFICES ASSUME ManagerInit PROVE ManagerTypeOK /\ ManagerInv
      OBVIOUS
    <2>1. queue \in [1..0 -> States] /\ DOMAIN queue = {}  BY DEF ManagerInit
    <2>2. ManagerInv
      BY <2>1 DEF ManagerInv, ServedIn, BehindIn, In, Open
    <2>3. ManagerTypeOK
      BY <2>1, DownloadsAssumption DEF ManagerInit, ManagerTypeOK, Known
    <2>. QED  BY <2>2, <2>3
  <1>2. ManagerTypeOK /\ ManagerInv /\ [ManagerNext]_managerVars
            => (ManagerTypeOK /\ ManagerInv)'
    BY ManagerStep
  <1>. QED  BY <1>1, <1>2, PTL DEF ManagerSpec

\* Every variable of the downloads keeps its type.
THEOREM DownloadsTypeCorrect ==
  ManagerSpec => []ManagerTypeOK
  BY ManagerSafe, PTL

\* What is shown as downloading has an answer coming.
THEOREM DownloadsAreInFlight ==
  ManagerSpec => []ShownIsInFlight
  <1>1. ManagerTypeOK /\ ManagerInv => ShownIsInFlight
    BY ServedCounts DEF ManagerInv
  <1>. QED  BY <1>1, ManagerSafe, PTL

\* Two are only shown as downloading after the lower was queued again.
THEOREM OneDownloadAtATime ==
  ManagerSpec => []OneAtATimeUnlessRetried
  <1>1. ManagerInv => OneAtATimeUnlessRetried
    BY DEF ManagerInv, BehindIn, OneAtATimeUnlessRetried, Open, In
  <1>. QED  BY <1>1, ManagerSafe, PTL

-----------------------------------------------------------------------------
(* The album art: the requests the worker has not answered.                *)

Encodes(w) == \E i \in DOMAIN w : w[i].type = "encode"

\* The encode that is answered last is one of img.
NewestIs(w, img) ==
    \A i \in DOMAIN w :
        w[i].type = "encode" /\ (\A j \in DOMAIN w : j > i => w[j].type # "encode")
            => w[i].of = img

LEMMA WorkFields ==
  ASSUME NEW m \in Work
  PROVE  /\ m.type \in {"encode", "load"}
         /\ m.type = "encode" => m.of \in Image
         /\ m.type = "load" => m.of \in Songs
  BY DEF Work

\* Asking for an encode (facade.rs:110-135).
LEMMA AppendEncode ==
  ASSUME NEW w \in Seq(Work), NEW img \in Image
  PROVE  LET a == Append(w, Encode(img))
         IN  a \in Seq(Work) /\ Encodes(a) /\ NewestIs(a, img)
  <1> DEFINE a == Append(w, Encode(img))
  <1>1. /\ Encode(img) \in Work
        /\ Encode(img).type = "encode" /\ Encode(img).of = img
    BY DEF Encode, Work
  <1>2. /\ a \in Seq(Work) /\ Len(a) = Len(w) + 1 /\ Len(w) \in Nat
        /\ a[Len(w) + 1] = Encode(img)
    BY <1>1, AppendProperties
  <1>3. DOMAIN a = 1..(Len(w) + 1)  BY <1>2
  <1>. HIDE DEF a
  <1>4. Encodes(a)  BY <1>1, <1>2, <1>3 DEF Encodes
  <1>5. NewestIs(a, img)
    <2>. SUFFICES ASSUME NEW i \in DOMAIN a,
                         \A j \in DOMAIN a : j > i => a[j].type # "encode"
                  PROVE  a[i].of = img
      BY DEF NewestIs
    <2>1. i = Len(w) + 1  BY <1>1, <1>2, <1>3
    <2>. QED  BY <2>1, <1>1, <1>2
  <1>. QED  BY <1>2, <1>4, <1>5 DEF a

\* Asking for a load changes nothing about the encodes (work.rs:95-150).
LEMMA AppendLoad ==
  ASSUME NEW w \in Seq(Work), NEW s \in Songs
  PROVE  LET a == Append(w, Load(s))
         IN  /\ a \in Seq(Work)
             /\ Encodes(a) <=> Encodes(w)
             /\ \A img : NewestIs(w, img) => NewestIs(a, img)
  <1> DEFINE a == Append(w, Load(s))
  <1>1. Load(s) \in Work /\ Load(s).type = "load"  BY DEF Load, Work
  <1>2. /\ a \in Seq(Work) /\ Len(a) = Len(w) + 1 /\ Len(w) \in Nat
        /\ a[Len(w) + 1] = Load(s) /\ \A i \in 1..Len(w) : a[i] = w[i]
    BY <1>1, AppendProperties
  <1>3. DOMAIN a = 1..(Len(w) + 1) /\ DOMAIN w = 1..Len(w)  BY <1>2
  <1>. HIDE DEF a
  <1>4. \A i \in DOMAIN a : a[i].type = "encode" => i \in DOMAIN w
    BY <1>1, <1>2, <1>3
  <1>5. DOMAIN w \subseteq DOMAIN a /\ \A i \in DOMAIN w : a[i] = w[i]
    BY <1>2, <1>3
  <1>6. Encodes(a) <=> Encodes(w)  BY <1>4, <1>5 DEF Encodes
  <1>7. ASSUME NEW img, NewestIs(w, img) PROVE NewestIs(a, img)
    <2>. SUFFICES ASSUME NEW i \in DOMAIN a, a[i].type = "encode",
                         \A j \in DOMAIN a : j > i => a[j].type # "encode"
                  PROVE  a[i].of = img
      BY DEF NewestIs
    <2>1. i \in DOMAIN w /\ w[i].type = "encode"  BY <1>4, <1>5
    <2>2. \A j \in DOMAIN w : j > i => w[j].type # "encode"  BY <1>5
    <2>. QED  BY <2>1, <2>2, <1>5, <1>7 DEF NewestIs
  <1>. QED  BY <1>2, <1>6, <1>7 DEF a

\* The worker answers its first request.
LEMMA TailOfWork ==
  ASSUME NEW w \in Seq(Work), w # <<>>
  PROVE  /\ Head(w) \in Work /\ Tail(w) \in Seq(Work)
         /\ Encodes(Tail(w)) => Encodes(w)
         /\ Encodes(w) /\ Head(w).type # "encode" => Encodes(Tail(w))
         /\ \A img : NewestIs(w, img) => NewestIs(Tail(w), img)
         /\ \A img : NewestIs(w, img) /\ Head(w).type = "encode" /\ ~Encodes(Tail(w))
                        => Head(w).of = img
  <1> DEFINE t == Tail(w)
  <1>1. /\ Head(w) \in Work /\ t \in Seq(Work) /\ Len(t) = Len(w) - 1
        /\ \A i \in 1..Len(t) : t[i] = w[i + 1]
        /\ Len(w) \in Nat /\ Len(w) # 0 /\ Head(w) = w[1]
    BY HeadTailProperties, EmptySeq, LenProperties
  <1>2. DOMAIN w = 1..Len(w) /\ DOMAIN t = 1..(Len(w) - 1)  BY <1>1
  <1>. HIDE DEF t
  <1>3. /\ 1 \in DOMAIN w
        /\ \A i \in DOMAIN t : i + 1 \in DOMAIN w /\ t[i] = w[i + 1]
        /\ \A i \in DOMAIN w : i # 1 => i - 1 \in DOMAIN t /\ t[i - 1] = w[i]
    BY <1>1, <1>2
  <1>4. Encodes(t) => Encodes(w)  BY <1>3 DEF Encodes
  <1>5. Encodes(w) /\ Head(w).type # "encode" => Encodes(t)
    BY <1>1, <1>3 DEF Encodes
  <1>6. ASSUME NEW img, NewestIs(w, img) PROVE NewestIs(t, img)
    <2>. SUFFICES ASSUME NEW i \in DOMAIN t, t[i].type = "encode",
                         \A j \in DOMAIN t : j > i => t[j].type # "encode"
                  PROVE  t[i].of = img
      BY DEF NewestIs
    <2>1. i + 1 \in DOMAIN w /\ w[i + 1] = t[i]  BY <1>3
    <2>2. ASSUME NEW j \in DOMAIN w, j > i + 1 PROVE w[j].type # "encode"
      <3>1. j # 1 /\ j - 1 > i  BY <2>2, <1>1, <1>2
      <3>. QED  BY <3>1, <1>3
    <2>. QED  BY <2>1, <2>2, <1>6 DEF NewestIs
  <1>7. ASSUME NEW img, NewestIs(w, img), Head(w).type = "encode", ~Encodes(t)
        PROVE  Head(w).of = img
    <2>1. \A j \in DOMAIN w : j > 1 => w[j].type # "encode"
      BY <1>3, <1>7 DEF Encodes
    <2>. QED  BY <2>1, <1>1, <1>3, <1>7 DEF NewestIs
  <1>. QED  BY <1>1, <1>4, <1>5, <1>6, <1>7 DEF t

-----------------------------------------------------------------------------
(* The facade.                                                             *)

\* With the art hidden nothing waits and the screen is blank; what waits last is
\* the current image, and an encode that will serve it is on its way; when
\* nothing is superseded the last encode on its way is of the current image; and
\* with none on its way the screen has the current image, unless encoding failed.
FacadeInv(c, shown, rq, scr, w, bad) ==
    /\ ~shown => rq = <<>> /\ scr = Nothing
    /\ rq # <<>> => Last(rq) = c /\ Encodes(w)
    /\ shown /\ Len(rq) <= 1 => NewestIs(w, c)
    /\ shown /\ ~Encodes(w) => scr = c \/ bad

ArtInv(f, bad) ==
    /\ f \in ArtType
    /\ FacadeInv(f.current, f.showing, f.request_queue, f.screen, f.work, bad)

LEMMA AppendLast ==
  ASSUME NEW q \in Seq(Image), NEW img \in Image
  PROVE  /\ Append(q, img) \in Seq(Image) /\ Last(Append(q, img)) = img
         /\ Append(q, img) # <<>>
         /\ q # <<>> => Len(Append(q, img)) > 1
         /\ Len(Append(<<>>, img)) = 1
  <1>1. /\ Append(q, img) \in Seq(Image) /\ Append(q, img) # <<>>
        /\ Len(Append(q, img)) = Len(q) + 1 /\ Append(q, img)[Len(q) + 1] = img
    BY AppendProperties
  <1>2. Len(q) \in Nat /\ (q # <<>> => Len(q) # 0)  BY EmptySeq, LenProperties
  <1>3. Len(Append(<<>>, img)) = 1  OBVIOUS
  <1>. QED  BY <1>1, <1>2, <1>3 DEF Last

\* Showing an image (facade.rs:94-135).
LEMMA ShowKeeps ==
  ASSUME NEW f \in ArtType, NEW bad, NEW img \in Image,
         f.request_queue # <<>> => Encodes(f.work)
  PROVE  /\ ArtInv(Show(f, img), bad) /\ Show(f, img).current = img
         /\ Show(f, img).queries = f.queries
  <1> DEFINE g == Show(f, img)
             q == f.request_queue
             w == IF q = <<>> THEN Append(f.work, Encode(img)) ELSE f.work
  <1>1. /\ f \in ArtType /\ q \in Seq(Image) /\ f.work \in Seq(Work)
        /\ (q # <<>> => Encodes(f.work))
    BY DEF ArtType
  <1>2. /\ Append(f.work, Encode(img)) \in Seq(Work)
        /\ Encodes(Append(f.work, Encode(img)))
        /\ NewestIs(Append(f.work, Encode(img)), img)
    BY <1>1, AppendEncode
  <1>3. /\ Append(q, img) \in Seq(Image) /\ Last(Append(q, img)) = img
        /\ (q # <<>> => Len(Append(q, img)) > 1)
    BY <1>1, AppendLast
  <1>4. w \in Seq(Work) /\ Encodes(w) /\ (q = <<>> => NewestIs(w, img))
    BY <1>1, <1>2
  <1>5. g = [f EXCEPT !.showing = TRUE, !.current = img,
                      !.request_queue = Append(q, img), !.work = w]
    BY <1>1 DEF Show, ArtType
  <1>. HIDE DEF g, q, w
  <1>6. /\ g \in ArtType /\ g.showing = TRUE /\ g.current = img
        /\ g.request_queue = Append(q, img) /\ g.work = w /\ g.queries = f.queries
    BY <1>1, <1>3, <1>4, <1>5 DEF ArtType
  <1>7. FacadeInv(img, TRUE, Append(q, img), g.screen, w, bad)
    <2>1. Len(Append(q, img)) <= 1 => q = <<>>
      <3>. SUFFICES ASSUME q # <<>> PROVE ~(Len(Append(q, img)) <= 1)
        OBVIOUS
      <3>1. Len(Append(q, img)) \in Nat  BY <1>3, LenProperties
      <3>. QED  BY <1>3, <3>1
    <2>. QED  BY <1>3, <1>4, <2>1 DEF FacadeInv
  <1>8. ArtInv(g, bad)  BY <1>6, <1>7 DEF ArtInv
  <1>. QED  BY <1>6, <1>8 DEF g

LEMMA ShowCurrentKeeps ==
  ASSUME NEW f, NEW bad, ArtInv(f, bad)
  PROVE  /\ ArtInv(ShowCurrent(f), bad) /\ ShowCurrent(f).current = f.current
         /\ ShowCurrent(f).queries = f.queries
  <1>1. f.current \in Image \union {Nothing}  BY DEF ArtInv, ArtType
  <1>2. f \in ArtType /\ (f.request_queue # <<>> => Encodes(f.work))
    BY DEF ArtInv, FacadeInv
  <1>. QED  BY <1>1, <1>2, ShowKeeps DEF ShowCurrent

\* Hiding the art (facade.rs:145-172).
LEMMA HideKeeps ==
  ASSUME NEW f, NEW bad, ArtInv(f, bad)
  PROVE  /\ ArtInv(Hide(f), bad) /\ Hide(f).current = f.current
         /\ Hide(f).queries = f.queries
  <1>1. f \in ArtType  BY DEF ArtInv
  <1>2. /\ Hide(f) \in ArtType /\ Hide(f).showing = FALSE
        /\ Hide(f).request_queue = <<>> /\ Hide(f).screen = Nothing
        /\ Hide(f).current = f.current /\ Hide(f).queries = f.queries
    <2> DEFINE g == [f EXCEPT !.showing = FALSE, !.request_queue = <<>>, !.screen = Nothing]
    <2>1. <<>> \in Seq(Image)  OBVIOUS
    <2>2. g \in ArtType  BY <1>1, <2>1 DEF ArtType
    <2>3. /\ g.showing = FALSE /\ g.request_queue = <<>> /\ g.screen = Nothing
          /\ g.current = f.current /\ g.queries = f.queries
      BY <1>1 DEF ArtType
    <2>4. Hide(f) = g  BY DEF Hide
    <2>. HIDE DEF g
    <2>. QED  BY <2>2, <2>3, <2>4
  <1>3. FacadeInv(Hide(f).current, FALSE, <<>>, Nothing, Hide(f).work, bad)
    BY DEF FacadeInv
  <1>. QED  BY <1>2, <1>3 DEF ArtInv

\* Changing what is asked for touches neither screen nor encodes.
LEMMA BeforeShowKeeps ==
  ASSUME NEW f, NEW bad, NEW s \in Songs \union {NoSong}, NEW custom \in BOOLEAN,
         ArtInv(f, bad)
  PROVE  ArtInv(BeforeShow(f, s, custom), bad)
  <1>1. f \in ArtType /\ f.work \in Seq(Work) /\ f.queries \in Seq(Songs)
    BY DEF ArtInv, ArtType
  <1>2. CASE s = NoSong \/ (~custom /\ s \in Disabled)
    <2>1. Default \in Image /\ (f.request_queue # <<>> => Encodes(f.work))
      BY DEF Image, ArtInv, FacadeInv
    <2>2. ArtInv(Show(f, Default), bad)  BY <1>1, <2>1, ShowKeeps
    <2>. QED  BY <1>2, <2>2 DEF BeforeShow
  <1>3. CASE ~(s = NoSong \/ (~custom /\ s \in Disabled)) /\ custom
    <2> DEFINE w == Append(f.work, Load(s))
               g == [f EXCEPT !.work = w]
    <2>1. BeforeShow(f, s, custom) = g  BY <1>1, <1>3 DEF BeforeShow, ArtType
    <2>2. /\ w \in Seq(Work) /\ (Encodes(w) <=> Encodes(f.work))
          /\ \A img : NewestIs(f.work, img) => NewestIs(w, img)
      BY <1>1, <1>3, AppendLoad
    <2>. HIDE DEF w
    <2>3. /\ g \in ArtType /\ g.current = f.current /\ g.showing = f.showing /\ g.work = w
          /\ g.request_queue = f.request_queue /\ g.screen = f.screen
      BY <1>1, <2>2 DEF ArtType
    <2>. HIDE DEF g
    <2>4. FacadeInv(f.current, f.showing, f.request_queue, f.screen, w, bad)
      BY <2>2 DEF ArtInv, FacadeInv
    <2>. QED  BY <2>1, <2>3, <2>4 DEF ArtInv
  <1>4. CASE ~(s = NoSong \/ (~custom /\ s \in Disabled)) /\ ~custom
    <2> DEFINE g == [f EXCEPT !.queries = Append(f.queries, s)]
    <2>1. BeforeShow(f, s, custom) = g
      BY <1>1, <1>4 DEF BeforeShow, RequestFromMpd, ArtType
    <2>2. Append(f.queries, s) \in Seq(Songs)  BY <1>1, <1>4, AppendProperties
    <2>3. /\ g \in ArtType /\ g.current = f.current /\ g.showing = f.showing
          /\ g.work = f.work
          /\ g.request_queue = f.request_queue /\ g.screen = f.screen
      BY <1>1, <2>2 DEF ArtType
    <2>. HIDE DEF g
    <2>. QED  BY <2>1, <2>3 DEF ArtInv
  <1>. QED  BY <1>2, <1>3, <1>4

\* Queries do not matter to the facade.
LEMMA QueriesKeep ==
  ASSUME NEW f, NEW bad, NEW qs \in Seq(Songs), ArtInv(f, bad)
  PROVE  /\ ArtInv([f EXCEPT !.queries = qs], bad)
         /\ [f EXCEPT !.queries = qs].queries = qs
         /\ [f EXCEPT !.queries = qs].current = f.current
  <1> DEFINE g == [f EXCEPT !.queries = qs]
  <1>1. f \in ArtType  BY DEF ArtInv
  <1>2. /\ g \in ArtType /\ g.current = f.current /\ g.showing = f.showing
        /\ g.work = f.work /\ g.queries = qs
        /\ g.request_queue = f.request_queue /\ g.screen = f.screen
    BY <1>1 DEF ArtType
  <1>. HIDE DEF g
  <1>3. ArtInv(g, bad)  BY <1>2 DEF ArtInv
  <1>. QED  BY <1>2, <1>3 DEF g

-----------------------------------------------------------------------------
(* The answers of the worker.                                              *)

LEMMA NoQueue ==
  ASSUME NEW f \in ArtType
  PROVE  LET g == [f EXCEPT !.request_queue = <<>>]
         IN  /\ g \in ArtType /\ g.request_queue = <<>> /\ g.queries = f.queries
             /\ g.current = f.current /\ g.showing = f.showing /\ g.work = f.work
             /\ g.screen = f.screen
  <1>1. <<>> \in Seq(Image)  OBVIOUS
  <1>. QED  BY <1>1 DEF ArtType

\* What is left when the worker has answered its first request.
Rest(f) == [f EXCEPT !.work = Tail(@)]

LEMMA RestFields ==
  ASSUME NEW f \in ArtType, f.work # <<>>
  PROVE  /\ Rest(f) \in ArtType /\ Rest(f).work = Tail(f.work)
         /\ Rest(f).current = f.current /\ Rest(f).showing = f.showing
         /\ Rest(f).request_queue = f.request_queue /\ Rest(f).screen = f.screen
         /\ Rest(f).queries = f.queries
  <1>1. f.work \in Seq(Work)  BY DEF ArtType
  <1>2. Tail(f.work) \in Seq(Work)  BY <1>1, TailOfWork
  <1>3. Rest(f) = [f EXCEPT !.work = Tail(f.work)]  BY DEF Rest, ArtType
  <1>. QED  BY <1>2, <1>3 DEF ArtType

\* An answer to a load leaves the encodes as they are.
LEMMA LoadAnswered ==
  ASSUME NEW f, NEW bad, ArtInv(f, bad), f.work # <<>>, Head(f.work).type = "load"
  PROVE  ArtInv(Rest(f), bad)
  <1>1. f \in ArtType /\ f.work \in Seq(Work)  BY DEF ArtInv, ArtType
  <1>2. /\ Encodes(Tail(f.work)) <=> Encodes(f.work)
        /\ \A img : NewestIs(f.work, img) => NewestIs(Tail(f.work), img)
    BY <1>1, TailOfWork
  <1>3. FacadeInv(f.current, f.showing, f.request_queue, f.screen, Tail(f.work), bad)
    BY <1>2 DEF ArtInv, FacadeInv
  <1>. QED  BY <1>1, <1>3, RestFields DEF ArtInv

\* One image waits at most: it is taken out of the queue.
LEMMA PopEmpties ==
  ASSUME NEW f \in ArtType, ~Superseded(f)
  PROVE  Pop(f) = [f EXCEPT !.request_queue = <<>>]
  <1>1. f.request_queue \in Seq(Image) /\ Len(f.request_queue) \in Nat
    BY DEF ArtType
  <1>2. Len(f.request_queue) <= 1  BY <1>1 DEF Superseded
  <1>3. CASE f.request_queue = <<>>
    BY <1>3 DEF Pop, ArtType
  <1>4. CASE f.request_queue # <<>>
    <2>1. Len(f.request_queue) = 1
      <3>1. Len(f.request_queue) # 0  BY <1>1, <1>4, EmptySeq
      <3>2. \A n \in Nat : n <= 1 /\ n # 0 => n = 1  OBVIOUS
      <3>. QED  BY <1>1, <1>2, <3>1, <3>2, Zenon
    <2>2. Front(f.request_queue) = <<>>  BY <1>1, <2>1 DEF Front
    <2>. QED  BY <1>4, <2>2 DEF Pop, ArtType
  <1>. QED  BY <1>3, <1>4

\* The image asked for last is encoded anew (facade.rs:174-222).
LEMMA LatestKeeps ==
  ASSUME NEW f \in ArtType, NEW bad, f.request_queue # <<>>,
         Last(f.request_queue) = f.current
  PROVE  /\ ArtInv(EncodeLatest(f), bad) /\ EncodeLatest(f).current = f.current
         /\ EncodeLatest(f).queries = f.queries
  <1> DEFINE g == [f EXCEPT !.request_queue = <<>>]
  <1>1. /\ g \in ArtType /\ g.request_queue = <<>> /\ g.queries = f.queries
    BY NoQueue
  <1>2. Last(f.request_queue) \in Image
    <2>1. f.request_queue \in Seq(Image)  BY DEF ArtType
    <2>2. Len(f.request_queue) \in 1..Len(f.request_queue)
      BY <2>1, EmptySeq, LenProperties
    <2>3. f.request_queue[Len(f.request_queue)] \in Image  BY <2>1, <2>2, ElementOfSeq
    <2>. QED  BY <2>3 DEF Last
  <1>3. EncodeLatest(f) = Show(g, Last(f.request_queue))  BY DEF EncodeLatest
  <1>. HIDE DEF g
  <1>4. g.request_queue # <<>> => Encodes(g.work)  BY <1>1
  <1>. QED  BY <1>1, <1>2, <1>3, <1>4, ShowKeeps

\* An encoded image is displayed unless the art is hidden or the image superseded
\* (facade.rs:174-222).
LEMMA DisplayKeeps ==
  ASSUME NEW f, NEW bad, ArtInv(f, bad), f.work # <<>>, Head(f.work).type = "encode"
  PROVE  LET d == Display(Rest(f), Head(f.work).of)
         IN  ArtInv(d, FALSE) /\ d.current = f.current /\ d.queries = f.queries
  <1> DEFINE g == Rest(f)
             img == Head(f.work).of
             d == Display(g, img)
  <1>1. f \in ArtType /\ f.work \in Seq(Work)  BY DEF ArtInv, ArtType
  <1>2. /\ g \in ArtType /\ g.work = Tail(f.work) /\ g.current = f.current
        /\ g.showing = f.showing /\ g.request_queue = f.request_queue
        /\ g.screen = f.screen /\ g.queries = f.queries
    BY <1>1, RestFields
  <1>3. img \in Image  BY <1>1, TailOfWork, WorkFields
  <1>4. /\ \A i : NewestIs(f.work, i) => NewestIs(g.work, i)
        /\ \A i : NewestIs(f.work, i) /\ ~Encodes(g.work) => img = i
    BY <1>1, <1>2, TailOfWork
  <1>. HIDE DEF g, img
  <1>5. CASE ~g.showing
    <2> DEFINE h == [g EXCEPT !.request_queue = <<>>]
    <2>1. d = h  BY <1>5 DEF Display
    <2>2. /\ h \in ArtType /\ h.showing = FALSE /\ h.request_queue = <<>>
          /\ h.screen = g.screen /\ h.current = g.current /\ h.queries = g.queries
      BY <1>2, <1>5, NoQueue
    <2>. HIDE DEF h, d
    <2>3. g.screen = Nothing  BY <1>2, <1>5 DEF ArtInv, FacadeInv
    <2>4. ArtInv(h, FALSE)  BY <2>2, <2>3 DEF ArtInv, FacadeInv
    <2>. QED  BY <1>2, <2>1, <2>2, <2>4 DEF d, g, img
  <1>6. CASE g.showing /\ Superseded(g)
    <2>1. d = EncodeLatest(g)  BY <1>6 DEF Display
    <2>2. g.request_queue # <<>>  BY <1>6 DEF Superseded
    <2>3. Last(g.request_queue) = g.current  BY <1>2, <2>2 DEF ArtInv, FacadeInv
    <2>. HIDE DEF d
    <2>4. ArtInv(d, FALSE) /\ d.current = g.current /\ d.queries = g.queries
      BY <1>2, <2>1, <2>2, <2>3, LatestKeeps
    <2>. QED  BY <1>2, <2>4 DEF d, g, img
  <1>7. CASE g.showing /\ ~Superseded(g)
    <2> DEFINE e == [g EXCEPT !.request_queue = <<>>]
               h == [e EXCEPT !.screen = img]
    <2>1. Pop(g) = e  BY <1>2, <1>7, PopEmpties
    <2>2. d = h  BY <1>7, <2>1 DEF Display
    <2>7. /\ e \in ArtType /\ e.request_queue = <<>> /\ e.queries = g.queries
          /\ e.current = g.current /\ e.showing = g.showing /\ e.work = g.work
      BY <1>2, NoQueue
    <2>. HIDE DEF d, e
    <2>3. /\ h \in ArtType /\ h.showing = TRUE /\ h.request_queue = <<>>
          /\ h.screen = img /\ h.current = f.current /\ h.queries = f.queries
          /\ h.work = g.work
      BY <1>2, <1>3, <1>7, <2>7 DEF ArtType
    <2>. HIDE DEF h
    <2>4. NewestIs(f.work, f.current)
      <3>1. f.request_queue \in Seq(Image)  BY <1>1 DEF ArtType
      <3>2. Len(f.request_queue) <= 1
        BY <1>2, <1>7, <3>1, LenProperties DEF Superseded
      <3>. QED  BY <1>2, <1>7, <3>2 DEF ArtInv, FacadeInv
    <2>5. FacadeInv(f.current, TRUE, <<>>, img, g.work, FALSE)
      BY <1>4, <2>4 DEF FacadeInv
    <2>6. ArtInv(h, FALSE)  BY <2>3, <2>5 DEF ArtInv
    <2>. QED  BY <2>2, <2>3, <2>6 DEF d, g, img
  <1>. QED  BY <1>5, <1>6, <1>7

\* An image that cannot be encoded leaves the screen (facade.rs:224-242).
LEMMA FailedKeeps ==
  ASSUME NEW f, NEW bad, ArtInv(f, bad), f.work # <<>>, Head(f.work).type = "encode"
  PROVE  LET d == EncodeFailed(Rest(f))
         IN  ArtInv(d, TRUE) /\ d.current = f.current /\ d.queries = f.queries
  <1> DEFINE g == Rest(f)
             d == EncodeFailed(g)
  <1>1. f \in ArtType /\ f.work \in Seq(Work)  BY DEF ArtInv, ArtType
  <1>2. /\ g \in ArtType /\ g.work = Tail(f.work) /\ g.current = f.current
        /\ g.showing = f.showing /\ g.request_queue = f.request_queue
        /\ g.screen = f.screen /\ g.queries = f.queries
    BY <1>1, RestFields
  <1>4. \A i : NewestIs(f.work, i) => NewestIs(g.work, i)
    BY <1>1, <1>2, TailOfWork
  <1>. HIDE DEF g
  <1>6. CASE Superseded(g)
    <2>1. d = EncodeLatest(g)  BY <1>6 DEF EncodeFailed
    <2>2. g.request_queue # <<>>  BY <1>6 DEF Superseded
    <2>3. Last(g.request_queue) = g.current  BY <1>2, <2>2 DEF ArtInv, FacadeInv
    <2>. HIDE DEF d
    <2>4. ArtInv(d, TRUE) /\ d.current = g.current /\ d.queries = g.queries
      BY <1>2, <2>1, <2>2, <2>3, LatestKeeps
    <2>. QED  BY <1>2, <2>4 DEF d, g
  <1>7. CASE ~Superseded(g)
    <2> DEFINE h == [g EXCEPT !.request_queue = <<>>]
    <2>1. d = h  BY <1>2, <1>7, PopEmpties DEF EncodeFailed
    <2>. HIDE DEF d
    <2>3. /\ h \in ArtType /\ h.showing = f.showing /\ h.request_queue = <<>>
          /\ h.screen = f.screen /\ h.current = f.current /\ h.queries = f.queries
          /\ h.work = g.work
      BY <1>2, <1>7, NoQueue
    <2>. HIDE DEF h
    <2>4. f.showing => NewestIs(f.work, f.current)
      <3>1. f.request_queue \in Seq(Image)  BY <1>1 DEF ArtType
      <3>2. Len(f.request_queue) <= 1
        BY <1>2, <1>7, <3>1, LenProperties DEF Superseded
      <3>. QED  BY <3>2 DEF ArtInv, FacadeInv
    <2>5. ~f.showing => f.screen = Nothing  BY DEF ArtInv, FacadeInv
    <2>6. FacadeInv(f.current, f.showing, <<>>, f.screen, g.work, TRUE)
      BY <1>4, <2>4, <2>5 DEF FacadeInv
    <2>7. ArtInv(h, TRUE)  BY <2>3, <2>6 DEF ArtInv
    <2>. QED  BY <2>1, <2>3, <2>7 DEF d, g
  <1>. QED  BY <1>6, <1>7

-----------------------------------------------------------------------------
(* The steps.                                                              *)

AlbumArtIInv == TypeOK /\ ArtInv(art, failed)

LEMMA AlbumArtInit == Init => AlbumArtIInv
  <1>. SUFFICES ASSUME Init PROVE AlbumArtIInv
    OBVIOUS
  <1>1. /\ Empty \in ArtType /\ Empty.showing = FALSE /\ Empty.request_queue = <<>>
        /\ Empty.screen = Nothing
    <2>1. <<>> \in Seq(Image) /\ <<>> \in Seq(Work) /\ <<>> \in Seq(Songs)  OBVIOUS
    <2>. QED  BY <2>1 DEF Empty, ArtType
  <1>2. ArtInv(Empty, FALSE)  BY <1>1 DEF ArtInv, FacadeInv
  <1>3. failed = FALSE /\ ArtInv(art, FALSE)  BY <1>2, BeforeShowKeeps DEF Init
  <1>4. art \in ArtType  BY <1>3 DEF ArtInv
  <1>5. 0 \in 0..MaxModals  BY AlbumArtAssumption
  <1>6. TypeOK  BY <1>4, <1>5 DEF Init, TypeOK
  <1>7. ArtInv(art, failed)  BY <1>3
  <1>. QED  BY <1>6, <1>7 DEF AlbumArtIInv

\* What the user, MPD and other programs do keeps what the facade relies on.
LEMMA EventsKeep ==
  ASSUME AlbumArtIInv,
         \/ \E s \in Songs \union {NoSong} : SongChanged(s)
         \/ ChangeTab \/ OpenModal \/ CloseModal \/ ShowAgain \/ ConfigChanged
         \/ ConnectionLost \/ HandleReconnected
  PROVE  ArtInv(art', failed)
  <1>1. /\ ArtInv(art, failed) /\ song \in Songs \union {NoSong} /\ loader \in BOOLEAN
        /\ art \in ArtType
    BY DEF AlbumArtIInv, TypeOK
  <1>2. ArtInv(BeforeShow(art, song, loader), failed)  BY <1>1, BeforeShowKeeps
  <1>3. ArtInv(Hide(art), failed)  BY <1>1, HideKeeps
  <1>4. ArtInv(Left, failed)  BY <1>1, <1>3 DEF Left
  <1>5. ArtInv(ShowCurrent(art), failed)  BY <1>1, ShowCurrentKeeps
  <1>6. ASSUME NEW s \in Songs \union {NoSong}, SongChanged(s)
        PROVE  ArtInv(art', failed)
    <2>1. ArtInv(BeforeShow(art, s, loader), failed)  BY <1>1, BeforeShowKeeps
    <2>. QED  BY <1>1, <1>6, <2>1 DEF SongChanged
  <1>7. CASE ChangeTab
    <2>1. ArtInv(BeforeShow(Left, song, loader), failed)  BY <1>1, <1>4, BeforeShowKeeps
    <2>. QED  BY <1>4, <1>7, <2>1 DEF ChangeTab
  <1>8. CASE OpenModal  BY <1>1, <1>3, <1>8 DEF OpenModal
  <1>9. CASE CloseModal  BY <1>1, <1>2, <1>5, <1>9 DEF CloseModal
  <1>10. CASE ShowAgain  BY <1>5, <1>10 DEF ShowAgain
  <1>11. CASE ConfigChanged
    <2>1. loader' \in BOOLEAN  BY <1>11 DEF ConfigChanged
    <2>2. ArtInv(BeforeShow(Left, song, loader'), failed)
      BY <1>1, <1>4, <2>1, BeforeShowKeeps
    <2>3. ArtInv(ShowCurrent(BeforeShow(Left, song, loader')), failed)
      BY <2>2, ShowCurrentKeeps
    <2>. QED  BY <1>4, <1>11, <2>2, <2>3 DEF ConfigChanged
  <1>12. CASE ConnectionLost
    <2>1. <<>> \in Seq(Songs)  OBVIOUS
    <2>. QED  BY <1>1, <1>12, <2>1, QueriesKeep DEF ConnectionLost
  <1>13. CASE HandleReconnected  BY <1>1, <1>2, <1>13 DEF HandleReconnected
  <1>. QED  BY <1>6, <1>7, <1>8, <1>9, <1>10, <1>11, <1>12, <1>13

\* A result that may come too late to be shown.
LEMMA QueryFinishedKeeps ==
  ASSUME NEW f, NEW bad, NEW img \in Image, ArtInv(f, bad)
  PROVE  ArtInv(QueryFinished(f, img), bad)
  <1>1. f \in ArtType /\ (f.request_queue # <<>> => Encodes(f.work))
    BY DEF ArtInv, FacadeInv
  <1>2. ArtInv(Show(f, img), bad)  BY <1>1, ShowKeeps
  <1>. QED  BY <1>2 DEF QueryFinished

LEMMA TailOfQueries ==
  ASSUME art \in ArtType, art.queries # <<>>
  PROVE  Head(art.queries) \in Songs /\ Tail(art.queries) \in Seq(Songs)
  <1>1. art.queries \in Seq(Songs)  BY DEF ArtType
  <1>. QED  BY <1>1, HeadTailProperties

\* So do the answers, which say whether the last encode failed.
LEMMA AnswersKeep ==
  ASSUME AlbumArtIInv, Answers
  PROVE  ArtInv(art', failed')
  <1>1. ArtInv(art, failed) /\ art \in ArtType  BY DEF AlbumArtIInv, TypeOK
  <1>2. Answered = Rest(art)  BY DEF Answered, Rest
  <1>3. CASE ImageEncoded
    <2>1. art.work # <<>> /\ Head(art.work).type = "encode"
      BY <1>3 DEF ImageEncoded, FirstIs
    <2>2. art' = Display(Rest(art), Head(art.work).of) /\ failed' = FALSE
      BY <1>2, <1>3 DEF ImageEncoded
    <2>. QED  BY <1>1, <2>1, <2>2, DisplayKeeps
  <1>4. CASE ImageEncodeFailed
    <2>1. art.work # <<>> /\ Head(art.work).type = "encode"
      BY <1>4 DEF ImageEncodeFailed, FirstIs
    <2>2. art' = EncodeFailed(Rest(art)) /\ failed' = TRUE
      BY <1>2, <1>4 DEF ImageEncodeFailed
    <2>. QED  BY <1>1, <2>1, <2>2, FailedKeeps
  <1>5. CASE AlbumArtLoaded
    <2> DEFINE s == Head(art.work).of
    <2>1. art.work # <<>> /\ Head(art.work).type = "load" /\ failed' = failed
      BY <1>5 DEF AlbumArtLoaded, FirstIs
    <2>2. ArtInv(Rest(art), failed)  BY <1>1, <2>1, LoadAnswered
    <2>3. s \in Songs
      <3>1. art.work \in Seq(Work)  BY <1>1 DEF ArtType
      <3>. QED  BY <2>1, <3>1, TailOfWork, WorkFields
    <2>4. \/ \E img \in {s, Default} : art' = QueryFinished(Rest(art), img)
          \/ art' = RequestFromMpd(Rest(art), s)
          \/ art' = Rest(art)
      BY <1>2, <1>5 DEF AlbumArtLoaded
    <2>. HIDE DEF s
    <2>5. \A img \in {s, Default} : ArtInv(QueryFinished(Rest(art), img), failed)
      BY <2>2, <2>3, QueryFinishedKeeps DEF Image
    <2>6. ArtInv(RequestFromMpd(Rest(art), s), failed)
      <3> DEFINE q == Append(Rest(art).queries, s)
      <3>1. Rest(art).queries \in Seq(Songs)  BY <2>2 DEF ArtInv, ArtType
      <3>2. q \in Seq(Songs)  BY <2>3, <3>1, AppendProperties
      <3>3. RequestFromMpd(Rest(art), s) = [Rest(art) EXCEPT !.queries = q]
        BY <2>2 DEF RequestFromMpd, ArtInv, ArtType
      <3>. HIDE DEF q
      <3>. QED  BY <2>2, <3>2, <3>3, QueriesKeep
    <2>. QED  BY <2>1, <2>2, <2>4, <2>5, <2>6
  <1>6. CASE QueryAnswered
    <2> DEFINE g == [art EXCEPT !.queries = Tail(art.queries)]
    <2>1. art.queries # <<>> /\ failed' = failed  BY <1>6 DEF QueryAnswered
    <2>2. \E img \in {Head(art.queries), Default} : art' = QueryFinished(g, img)
      BY <1>1, <1>6 DEF QueryAnswered, ArtType
    <2>. HIDE DEF g
    <2>3. Head(art.queries) \in Songs /\ Tail(art.queries) \in Seq(Songs)
      BY <1>1, <2>1, TailOfQueries
    <2>4. ArtInv(g, failed)  BY <1>1, <2>3, QueriesKeep DEF g
    <2>5. \A img \in {Head(art.queries), Default} : img \in Image  BY <2>3 DEF Image
    <2>. QED  BY <2>1, <2>2, <2>4, <2>5, QueryFinishedKeeps
  <1>7. CASE QueryLost \/ QuerySkipped
    <2> DEFINE g == [art EXCEPT !.queries = Tail(art.queries)]
    <2>1. art.queries # <<>> /\ failed' = failed  BY <1>7 DEF QueryLost, QuerySkipped
    <2>2. art' = g  BY <1>1, <1>7 DEF QueryLost, QuerySkipped, ArtType
    <2>3. Tail(art.queries) \in Seq(Songs)  BY <1>1, <2>1, TailOfQueries
    <2>4. ArtInv(g, failed)  BY <1>1, <2>3, QueriesKeep
    <2>. QED  BY <2>1, <2>2, <2>4
  <1>. QED  BY <1>3, <1>4, <1>5, <1>6, <1>7 DEF Answers

\* The variables that are not the facade's.
PaneTypes ==
    /\ song \in Songs \union {NoSong} /\ loader \in BOOLEAN /\ visible \in BOOLEAN
    /\ modals \in 0..MaxModals /\ is_modal_open \in BOOLEAN /\ fetch_needed \in BOOLEAN
    /\ reconnected \in BOOLEAN /\ failed \in BOOLEAN /\ lost \in BOOLEAN

LEMMA PaneStep == PaneTypes /\ [Next]_vars => PaneTypes'
  <1>. SUFFICES ASSUME PaneTypes, [Next]_vars PROVE PaneTypes'
    OBVIOUS
  <1>. USE DEF PaneTypes
  <1>1. ASSUME NEW s \in Songs \union {NoSong}, SongChanged(s) PROVE PaneTypes'
    BY <1>1 DEF SongChanged
  <1>2. CASE ChangeTab  BY <1>2 DEF ChangeTab, pane
  <1>3. CASE OpenModal
    <2>1. modals' \in 0..MaxModals
      <3>1. modals' \in {modals + 1, modals} /\ modals' <= MaxModals
        BY <1>3 DEF OpenModal
      <3>. QED  BY <3>1, AlbumArtAssumption
    <2>. QED  BY <1>3, <2>1 DEF OpenModal
  <1>4. CASE CloseModal
    <2>1. modals' \in 0..MaxModals
      BY <1>4, AlbumArtAssumption DEF CloseModal
    <2>2. is_modal_open' \in BOOLEAN /\ fetch_needed' \in BOOLEAN
      BY <1>4 DEF CloseModal, pane
    <2>. QED  BY <1>4, <2>1, <2>2 DEF CloseModal
  <1>5. CASE ShowAgain  BY <1>5 DEF ShowAgain, pane
  <1>6. CASE ConfigChanged  BY <1>6 DEF ConfigChanged, pane
  <1>7. CASE ConnectionLost  BY <1>7 DEF ConnectionLost, pane
  <1>8. CASE HandleReconnected  BY <1>8 DEF HandleReconnected
  <1>9. CASE Answers
    BY <1>9 DEF Answers, ImageEncoded, ImageEncodeFailed, AlbumArtLoaded, QueryAnswered,
                QueryLost, QuerySkipped, pane
  <1>10. CASE UNCHANGED vars  BY <1>10 DEF vars, pane
  <1>. QED
    BY <1>1, <1>2, <1>3, <1>4, <1>5, <1>6, <1>7, <1>8, <1>9, <1>10 DEF Next

LEMMA AlbumArtStep == AlbumArtIInv /\ [Next]_vars => AlbumArtIInv'
  <1>. SUFFICES ASSUME AlbumArtIInv, [Next]_vars PROVE AlbumArtIInv'
    OBVIOUS
  <1>1. ArtInv(art', failed')
    <2>1. CASE \/ \E s \in Songs \union {NoSong} : SongChanged(s)
               \/ ChangeTab \/ OpenModal \/ CloseModal \/ ShowAgain \/ ConfigChanged
               \/ ConnectionLost \/ HandleReconnected
      <3>1. failed' = failed
        BY <2>1 DEF SongChanged, ChangeTab, OpenModal, CloseModal, ShowAgain, ConfigChanged,
                    ConnectionLost, HandleReconnected
      <3>2. ArtInv(art', failed)  BY <2>1, EventsKeep
      <3>. QED  BY <3>1, <3>2
    <2>2. CASE Answers  BY <2>2, AnswersKeep
    <2>3. CASE UNCHANGED vars
      <3>1. art' = art /\ failed' = failed  BY <2>3 DEF vars
      <3>2. ArtInv(art, failed)  BY DEF AlbumArtIInv
      <3>. QED  BY <3>1, <3>2
    <2>. QED  BY <2>1, <2>2, <2>3 DEF Next
  <1>2. PaneTypes'  BY PaneStep DEF AlbumArtIInv, TypeOK, PaneTypes
  <1>3. art' \in ArtType  BY <1>1 DEF ArtInv
  <1>4. ArtInv(art, failed)'  BY <1>1
  <1>. QED  BY <1>2, <1>3, <1>4 DEF AlbumArtIInv, TypeOK, PaneTypes

LEMMA AlbumArtSafe == Spec => []AlbumArtIInv
  BY AlbumArtInit, AlbumArtStep, PTL DEF Spec

\* Every variable of the album art keeps its type, ArtType among them.
THEOREM AlbumArtTypeCorrect == Spec => []TypeOK
  <1>1. AlbumArtIInv => TypeOK  BY DEF AlbumArtIInv
  <1>. QED  BY <1>1, AlbumArtSafe, PTL

\* The screen stays blank while the art is hidden.
THEOREM HiddenArtIsBlank == Spec => []HiddenIsBlank
  <1>1. AlbumArtIInv => HiddenIsBlank
    BY DEF AlbumArtIInv, ArtInv, FacadeInv, HiddenIsBlank
  <1>. QED  BY <1>1, AlbumArtSafe, PTL

\* The screen has the image asked for last once no encode is on its way.
THEOREM ScreenIsCurrent == Spec => []ScreenCatchesUp
  <1>1. AlbumArtIInv => ScreenCatchesUp
    BY DEF AlbumArtIInv, ArtInv, FacadeInv, ScreenCatchesUp, Encoding, Encodes
  <1>. QED  BY <1>1, AlbumArtSafe, PTL

-----------------------------------------------------------------------------
(* The art of the song that plays.                                         *)

\* As long as Plain holds: no modal is open and nothing loads; a pane in the
\* active tab has asked last for the art of the song, or has its answer, or the
\* query had none.
NoLoads(w) == \A i \in DOMAIN w : w[i].type # "load"

AsksFor(f, s, unanswered) ==
    IF f.queries = <<>> THEN unanswered \/ f.current \in {s, Default}
    ELSE Last(f.queries) = s

PlainInv ==
    is_modal_open = FALSE /\ NoLoads(art.work) /\ (visible => AsksFor(art, song, lost))

LEMMA NoLoadsAppend ==
  ASSUME NEW w \in Seq(Work), NEW img \in Image, NoLoads(w)
  PROVE  NoLoads(Append(w, Encode(img)))
  <1>1. Encode(img) \in Work /\ Encode(img).type = "encode"  BY DEF Encode, Work
  <1> DEFINE a == Append(w, Encode(img))
  <1>2. /\ a \in Seq(Work) /\ Len(a) = Len(w) + 1 /\ Len(w) \in Nat
        /\ a[Len(w) + 1] = Encode(img) /\ \A i \in 1..Len(w) : a[i] = w[i]
    BY <1>1, AppendProperties
  <1>3. DOMAIN a = 1..(Len(w) + 1) /\ DOMAIN w = 1..Len(w)  BY <1>2
  <1>. HIDE DEF a
  <1>4. NoLoads(a)  BY <1>1, <1>2, <1>3 DEF NoLoads
  <1>. QED  BY <1>4 DEF a

LEMMA NoLoadsTail ==
  ASSUME NEW w \in Seq(Work), w # <<>>, NoLoads(w)
  PROVE  NoLoads(Tail(w)) /\ Head(w).type # "load"
  <1> DEFINE t == Tail(w)
  <1>1. /\ Head(w) \in Work /\ t \in Seq(Work) /\ Len(t) = Len(w) - 1
        /\ \A i \in 1..Len(t) : t[i] = w[i + 1]
        /\ Len(w) \in Nat /\ Len(w) # 0 /\ Head(w) = w[1]
    BY HeadTailProperties, EmptySeq, LenProperties
  <1>2. DOMAIN w = 1..Len(w) /\ DOMAIN t = 1..(Len(w) - 1)  BY <1>1
  <1>. HIDE DEF t
  <1>3. /\ 1 \in DOMAIN w
        /\ \A i \in DOMAIN t : i + 1 \in DOMAIN w /\ t[i] = w[i + 1]
    BY <1>1, <1>2
  <1>. QED  BY <1>1, <1>3 DEF NoLoads, t

\* Showing and hiding ask for no art and load nothing.
LEMMA ShowWork ==
  ASSUME NEW f \in ArtType, NEW img \in Image
  PROVE  /\ Show(f, img).queries = f.queries /\ Show(f, img).current = img
         /\ NoLoads(f.work) => NoLoads(Show(f, img).work)
  <1>1. f.work \in Seq(Work)  BY DEF ArtType
  <1>2. Show(f, img).queries = f.queries /\ Show(f, img).current = img
    BY DEF Show, ArtType
  <1>3. Show(f, img).work = IF f.request_queue = <<>> THEN Append(f.work, Encode(img)) ELSE f.work
    BY DEF Show, ArtType
  <1>. QED  BY <1>1, <1>2, <1>3, NoLoadsAppend

LEMMA ShowCurrentWork ==
  ASSUME NEW f \in ArtType
  PROVE  /\ ShowCurrent(f).queries = f.queries /\ ShowCurrent(f).current = f.current
         /\ NoLoads(f.work) => NoLoads(ShowCurrent(f).work)
  <1>1. f.current \in Image \union {Nothing}  BY DEF ArtType
  <1>. QED  BY <1>1, ShowWork DEF ShowCurrent

\* Asking MPD for the art of a song that is played.
LEMMA BeforeShowAsks ==
  ASSUME NEW f \in ArtType, NEW s \in Songs \ Disabled
  PROVE  LET g == BeforeShow(f, s, FALSE)
         IN  /\ g \in ArtType /\ g.work = f.work /\ g.current = f.current
             /\ g.queries # <<>> /\ Last(g.queries) = s
  <1>1. s # NoSong  BY AlbumArtAssumption
  <1> DEFINE q == Append(f.queries, s)
             g == [f EXCEPT !.queries = q]
  <1>2. BeforeShow(f, s, FALSE) = g
    BY <1>1 DEF BeforeShow, RequestFromMpd, ArtType
  <1>3. f.queries \in Seq(Songs)  BY DEF ArtType
  <1>4. /\ q \in Seq(Songs) /\ q # <<>> /\ Last(q) = s
    <2>1. /\ q \in Seq(Songs) /\ q # <<>> /\ Len(q) = Len(f.queries) + 1
          /\ q[Len(f.queries) + 1] = s
      BY <1>3, AppendProperties
    <2>. QED  BY <2>1 DEF Last
  <1>. HIDE DEF q
  <1>5. g \in ArtType /\ g.work = f.work /\ g.current = f.current /\ g.queries = q
    BY <1>4 DEF ArtType
  <1>. QED  BY <1>2, <1>4, <1>5

\* The query that was made last stays the last until it is answered.
LEMMA LastOfTail ==
  ASSUME NEW q \in Seq(Songs), q # <<>>
  PROVE  /\ Tail(q) \in Seq(Songs) /\ Head(q) \in Songs
         /\ Tail(q) # <<>> => Last(Tail(q)) = Last(q)
         /\ Tail(q) = <<>> => Head(q) = Last(q)
         /\ Len(q) > 1 => Tail(q) # <<>>
  <1> DEFINE t == Tail(q)
  <1>1. /\ t \in Seq(Songs) /\ Head(q) \in Songs /\ Len(t) = Len(q) - 1
        /\ \A i \in 1..Len(t) : t[i] = q[i + 1]
        /\ Len(q) \in Nat /\ Len(q) # 0 /\ Head(q) = q[1]
    BY HeadTailProperties, EmptySeq, LenProperties
  <1>. HIDE DEF t
  <1>2. t = <<>> <=> Len(t) = 0  BY <1>1, EmptySeq
  <1>3. ASSUME t # <<>> PROVE Last(t) = Last(q)
    <2>1. Len(t) \in 1..Len(t) /\ Len(t) + 1 = Len(q)  BY <1>1, <1>2, <1>3
    <2>. QED  BY <1>1, <2>1 DEF Last
  <1>4. ASSUME t = <<>> PROVE Head(q) = Last(q)
    <2>1. Len(q) = 1  BY <1>1, <1>2, <1>4
    <2>. QED  BY <1>1, <2>1 DEF Last
  <1>5. Len(q) > 1 => t # <<>>  BY <1>1, <1>2
  <1>. QED  BY <1>1, <1>3, <1>4, <1>5 DEF t

LEMMA LeftFacts ==
  ASSUME art \in ArtType
  PROVE  /\ Left \in ArtType /\ Left.work = art.work /\ Left.queries = art.queries
         /\ Left.current = art.current
  <1>1. <<>> \in Seq(Image)  OBVIOUS
  <1> DEFINE g == [art EXCEPT !.showing = FALSE, !.request_queue = <<>>, !.screen = Nothing]
  <1>2. g \in ArtType  BY <1>1 DEF ArtType
  <1>3. g.work = art.work /\ g.queries = art.queries /\ g.current = art.current
    BY DEF ArtType
  <1>4. Left = IF visible THEN g ELSE art  BY DEF Left, Hide
  <1>. HIDE DEF g
  <1>. QED  BY <1>2, <1>3, <1>4

LEMMA PlainEvents ==
  ASSUME AlbumArtIInv, PlainInv, Plain, Plain',
         \/ \E s \in Songs \union {NoSong} : SongChanged(s)
         \/ ChangeTab \/ OpenModal \/ CloseModal \/ ShowAgain \/ ConfigChanged
         \/ ConnectionLost \/ HandleReconnected
  PROVE  PlainInv'
  <1>1. /\ art \in ArtType /\ NoLoads(art.work) /\ is_modal_open = FALSE
        /\ loader = FALSE /\ loader' = FALSE /\ modals = 0 /\ modals' = 0
        /\ song \in Songs \ Disabled /\ song' \in Songs \ Disabled
        /\ (visible => AsksFor(art, song, lost)) /\ visible \in BOOLEAN
    BY DEF AlbumArtIInv, TypeOK, PlainInv, Plain
  <1>0. lost' = lost
    BY DEF SongChanged, ChangeTab, OpenModal, CloseModal, ShowAgain, ConfigChanged,
           ConnectionLost, HandleReconnected
  \* What asks for the art of a song.
  <1>2. ASSUME NEW f \in ArtType, NEW s \in Songs \ Disabled, NoLoads(f.work)
        PROVE  LET g == BeforeShow(f, s, FALSE)
               IN  g \in ArtType /\ NoLoads(g.work) /\ AsksFor(g, s, lost)
    <2> DEFINE g == BeforeShow(f, s, FALSE)
    <2>1. g \in ArtType /\ g.work = f.work /\ g.queries # <<>> /\ Last(g.queries) = s
      BY BeforeShowAsks
    <2>. HIDE DEF g
    <2>2. NoLoads(g.work) /\ AsksFor(g, s, lost)  BY <1>2, <2>1 DEF AsksFor
    <2>. QED  BY <2>1, <2>2 DEF g
  \* What shows the current image again.
  <1>3. ASSUME NEW f \in ArtType, NEW s, NoLoads(f.work)
        PROVE  /\ NoLoads(ShowCurrent(f).work)
               /\ AsksFor(f, s, lost) => AsksFor(ShowCurrent(f), s, lost)
    BY <1>3, ShowCurrentWork DEF AsksFor
  <1>4. Left \in ArtType /\ NoLoads(Left.work)  BY <1>1, LeftFacts
  <1>5. ASSUME NEW s \in Songs \union {NoSong}, SongChanged(s) PROVE PlainInv'
    <2>1. /\ song' = s /\ visible' = visible /\ is_modal_open' = is_modal_open
          /\ art' = IF visible THEN BeforeShow(art, s, FALSE) ELSE art
      BY <1>1, <1>5 DEF SongChanged
    <2>2. s \in Songs \ Disabled  BY <1>1, <2>1
    <2>. QED  BY <1>0, <1>1, <1>2, <2>1, <2>2 DEF PlainInv
  <1>6. CASE ChangeTab
    <2>1. /\ song' = song /\ is_modal_open' = is_modal_open
          /\ art' = IF visible' THEN BeforeShow(Left, song, FALSE) ELSE Left
      BY <1>1, <1>6 DEF ChangeTab, pane
    <2>. QED  BY <1>0, <1>1, <1>2, <1>4, <2>1 DEF PlainInv
  <1>7. CASE OpenModal
    <2>1. modals' # 0  BY <1>1, <1>7 DEF OpenModal
    <2>. QED  BY <1>1, <2>1
  <1>8. CASE CloseModal
    <2>1. CASE visible
      <3>1. /\ song' = song /\ visible' = visible /\ is_modal_open' = FALSE
            /\ \/ art' = BeforeShow(art, song, FALSE)
               \/ art' = ShowCurrent(art)
        BY <1>1, <1>8, <2>1 DEF CloseModal
      <3>. QED  BY <1>0, <1>1, <1>2, <1>3, <2>1, <3>1 DEF PlainInv
    <2>2. CASE ~visible
      <3>1. /\ song' = song /\ visible' = visible /\ is_modal_open' = is_modal_open
            /\ art' = art
        BY <1>1, <1>8, <2>2 DEF CloseModal, pane
      <3>. QED  BY <1>0, <1>1, <2>2, <3>1 DEF PlainInv
    <2>. QED  BY <2>1, <2>2
  <1>9. CASE ShowAgain
    <2>1. /\ song' = song /\ visible' = visible /\ is_modal_open' = is_modal_open
          /\ art' = ShowCurrent(art)
      BY <1>9 DEF ShowAgain, pane
    <2>. QED  BY <1>0, <1>1, <1>3, <2>1 DEF PlainInv
  <1>10. CASE ConfigChanged
    <2> DEFINE g == BeforeShow(Left, song, FALSE)
    <2>1. /\ song' = song /\ is_modal_open' = is_modal_open
          /\ art' = IF ~visible' THEN Left ELSE ShowCurrent(g)
      BY <1>1, <1>10 DEF ConfigChanged, pane
    <2>2. g \in ArtType /\ NoLoads(g.work) /\ AsksFor(g, song, lost)  BY <1>1, <1>2, <1>4
    <2>. HIDE DEF g
    <2>3. NoLoads(ShowCurrent(g).work) /\ AsksFor(ShowCurrent(g), song, lost)
      BY <1>3, <2>2
    <2>. QED  BY <1>0, <1>1, <1>4, <2>1, <2>3 DEF PlainInv
  <1>11. CASE ConnectionLost
    <2>1. song' = NoSong  BY <1>11 DEF ConnectionLost
    <2>. QED  BY <1>1, <2>1, AlbumArtAssumption
  <1>12. CASE HandleReconnected
    <2>1. /\ song' = song /\ visible' = visible /\ is_modal_open' = is_modal_open
          /\ art' = IF visible THEN BeforeShow(art, song, FALSE) ELSE art
      BY <1>1, <1>12 DEF HandleReconnected
    <2>. QED  BY <1>0, <1>1, <1>2, <2>1 DEF PlainInv
  <1>. QED  BY <1>5, <1>6, <1>7, <1>8, <1>9, <1>10, <1>11, <1>12

LEMMA PlainAnswers ==
  ASSUME AlbumArtIInv, PlainInv, Answers
  PROVE  PlainInv'
  <1>1. /\ art \in ArtType /\ NoLoads(art.work) /\ is_modal_open = FALSE
        /\ (visible => AsksFor(art, song, lost)) /\ ArtInv(art, failed)
        /\ art.work \in Seq(Work) /\ art.queries \in Seq(Songs)
    BY DEF AlbumArtIInv, TypeOK, PlainInv, ArtType
  <1>2. song' = song /\ visible' = visible /\ is_modal_open' = is_modal_open
    BY DEF Answers, ImageEncoded, ImageEncodeFailed, AlbumArtLoaded, QueryAnswered,
           QueryLost, QuerySkipped, pane
  <1>3. Answered = Rest(art)  BY DEF Answered, Rest
  \* An encode is asked for, or nothing.
  <1>4. ASSUME NEW f \in ArtType, NoLoads(f.work)
        PROVE  f.request_queue # <<>> => NoLoads(EncodeLatest(f).work)
    <2>. SUFFICES ASSUME f.request_queue # <<>> PROVE NoLoads(EncodeLatest(f).work)
      OBVIOUS
    <2> DEFINE g == [f EXCEPT !.request_queue = <<>>]
    <2>1. g \in ArtType /\ g.work = f.work  BY NoQueue
    <2>2. Last(f.request_queue) \in Image
      <3>1. f.request_queue \in Seq(Image)  BY DEF ArtType
      <3>2. Len(f.request_queue) \in 1..Len(f.request_queue)
        BY <3>1, EmptySeq, LenProperties
      <3>3. f.request_queue[Len(f.request_queue)] \in Image  BY <3>1, <3>2, ElementOfSeq
      <3>. QED  BY <3>3 DEF Last
    <2>3. EncodeLatest(f) = Show(g, Last(f.request_queue))  BY DEF EncodeLatest
    <2>. HIDE DEF g
    <2>. QED  BY <1>4, <2>1, <2>2, <2>3, ShowWork
  <1>5. ASSUME NEW f \in ArtType PROVE Superseded(f) => f.request_queue # <<>>
    BY DEF Superseded
  <1>6. ASSUME art.work # <<>>
        PROVE  Rest(art) \in ArtType /\ NoLoads(Rest(art).work)
    BY <1>1, <1>6, RestFields, NoLoadsTail
  <1>7. CASE ImageEncoded
    <2> DEFINE g == Rest(art)
               d == Display(g, Head(art.work).of)
    <2>1. art.work # <<>> /\ Head(art.work).type = "encode"
      BY <1>7 DEF ImageEncoded, FirstIs
    <2>2. art' = d /\ lost' = lost  BY <1>3, <1>7 DEF ImageEncoded
    <2>3. d.current = art.current /\ d.queries = art.queries
      BY <1>1, <2>1, DisplayKeeps
    <2>4. g \in ArtType /\ NoLoads(g.work)  BY <1>6, <2>1
    <2>5. NoLoads(d.work)
      <3>. HIDE DEF g
      <3>1. CASE ~g.showing  BY <2>4, <3>1, NoQueue DEF Display
      <3>2. CASE g.showing /\ Superseded(g)  BY <1>4, <1>5, <2>4, <3>2 DEF Display
      <3>3. CASE g.showing /\ ~Superseded(g)
        <4> DEFINE e == [g EXCEPT !.request_queue = <<>>]
        <4>1. d = [e EXCEPT !.screen = Head(art.work).of]
          BY <2>4, <3>3, PopEmpties DEF Display
        <4>2. e \in ArtType /\ e.work = g.work  BY <2>4, NoQueue
        <4>. HIDE DEF e
        <4>3. d.work = e.work  BY <4>1, <4>2 DEF ArtType
        <4>. QED  BY <2>4, <4>2, <4>3
      <3>. QED  BY <3>1, <3>2, <3>3
    <2>. HIDE DEF d
    <2>. QED  BY <1>1, <1>2, <2>2, <2>3, <2>5 DEF PlainInv, AsksFor
  <1>8. CASE ImageEncodeFailed
    <2> DEFINE g == Rest(art)
               d == EncodeFailed(g)
    <2>1. art.work # <<>> /\ Head(art.work).type = "encode"
      BY <1>8 DEF ImageEncodeFailed, FirstIs
    <2>2. art' = d /\ lost' = lost  BY <1>3, <1>8 DEF ImageEncodeFailed
    <2>3. d.current = art.current /\ d.queries = art.queries
      BY <1>1, <2>1, FailedKeeps
    <2>4. g \in ArtType /\ NoLoads(g.work)  BY <1>6, <2>1
    <2>5. NoLoads(d.work)
      <3>. HIDE DEF g
      <3>1. CASE Superseded(g)  BY <1>4, <1>5, <2>4, <3>1 DEF EncodeFailed
      <3>2. CASE ~Superseded(g)
        BY <2>4, <3>2, PopEmpties, NoQueue DEF EncodeFailed
      <3>. QED  BY <3>1, <3>2
    <2>. HIDE DEF d
    <2>. QED  BY <1>1, <1>2, <2>2, <2>3, <2>5 DEF PlainInv, AsksFor
  <1>9. CASE AlbumArtLoaded
    <2>1. art.work # <<>> /\ Head(art.work).type = "load"
      BY <1>9 DEF AlbumArtLoaded, FirstIs
    <2>. QED  BY <1>1, <2>1, NoLoadsTail
  <1> DEFINE g == [art EXCEPT !.queries = Tail(art.queries)]
  <1>10. ASSUME art.queries # <<>>
         PROVE  /\ g \in ArtType /\ g.work = art.work /\ g.current = art.current
                /\ g.queries = Tail(art.queries)
    <2>1. Tail(art.queries) \in Seq(Songs)  BY <1>1, <1>10, LastOfTail
    <2>. QED  BY <1>1, <2>1 DEF ArtType
  <1>11. CASE QueryAnswered
    <2>1. art.queries # <<>>  BY <1>11 DEF QueryAnswered
    <2>2. PICK img \in {Head(art.queries), Default} : art' = QueryFinished(g, img)
      BY <1>1, <1>11 DEF QueryAnswered, ArtType
    <2>3. /\ Head(art.queries) \in Songs
          /\ Tail(art.queries) # <<>> => Last(Tail(art.queries)) = Last(art.queries)
          /\ Tail(art.queries) = <<>> => Head(art.queries) = Last(art.queries)
      BY <1>1, <2>1, LastOfTail
    <2>4. img \in Image  BY <2>3 DEF Image
    <2>5. /\ g \in ArtType /\ g.work = art.work /\ g.queries = Tail(art.queries)
      BY <1>10, <2>1
    <2>. HIDE DEF g
    <2>6. CASE visible
      <3>1. art' = Show(g, img)  BY <1>1, <2>2, <2>6 DEF QueryFinished
      <3>2. /\ art'.queries = Tail(art.queries) /\ art'.current = img
            /\ NoLoads(art'.work)
        BY <1>1, <2>4, <2>5, <3>1, ShowWork
      <3>3. Last(art.queries) = song  BY <1>1, <2>1, <2>6 DEF AsksFor
      <3>4. AsksFor(art', song, lost')  BY <2>3, <3>2, <3>3 DEF AsksFor
      <3>. QED  BY <1>1, <1>2, <3>2, <3>4 DEF PlainInv
    <2>7. CASE ~visible
      <3>1. art' = g  BY <2>2, <2>7 DEF QueryFinished
      <3>. QED  BY <1>1, <1>2, <2>5, <2>7, <3>1 DEF PlainInv
    <2>. QED  BY <2>6, <2>7
  <1>12. CASE QuerySkipped
    <2>1. Len(art.queries) > 1 /\ art' = g /\ lost' = lost
      BY <1>1, <1>12 DEF QuerySkipped, ArtType
    <2>2. art.queries # <<>>  BY <2>1
    <2>3. /\ g \in ArtType /\ g.work = art.work /\ g.queries = Tail(art.queries)
      BY <1>10, <2>2
    <2>. HIDE DEF g
    <2>4. Tail(art.queries) # <<>> /\ Last(Tail(art.queries)) = Last(art.queries)
      BY <1>1, <2>1, <2>2, LastOfTail
    <2>5. visible => AsksFor(art', song, lost')
      BY <1>1, <2>1, <2>2, <2>3, <2>4 DEF AsksFor
    <2>. QED  BY <1>1, <1>2, <2>1, <2>3, <2>5 DEF PlainInv
  \* Without an answer the art may be of another song, if no newer query waits.
  <1>13. CASE QueryLost
    <2>1. art.queries # <<>> /\ art' = g /\ lost' = TRUE
      BY <1>1, <1>13 DEF QueryLost, ArtType
    <2>2. g \in ArtType /\ g.work = art.work /\ g.queries = Tail(art.queries)
      BY <1>10, <2>1
    <2>. HIDE DEF g
    <2>3. Tail(art.queries) # <<>> => Last(Tail(art.queries)) = Last(art.queries)
      BY <1>1, <2>1, LastOfTail
    <2>4. visible => AsksFor(art', song, lost')
      BY <1>1, <2>1, <2>2, <2>3 DEF AsksFor
    <2>. QED  BY <1>1, <1>2, <2>1, <2>2, <2>4 DEF PlainInv
  <1>. QED  BY <1>7, <1>8, <1>9, <1>11, <1>12, <1>13 DEF Answers

LEMMA PlainInit == Init /\ Plain => PlainInv
  <1>. SUFFICES ASSUME Init, Plain PROVE PlainInv
    OBVIOUS
  <1>1. /\ Empty \in ArtType /\ Empty.work = <<>>
    <2>1. <<>> \in Seq(Image) /\ <<>> \in Seq(Work) /\ <<>> \in Seq(Songs)  OBVIOUS
    <2>. QED  BY <2>1 DEF Empty, ArtType
  <1>2. /\ art = BeforeShow(Empty, song, FALSE) /\ song \in Songs \ Disabled
        /\ is_modal_open = FALSE
    BY DEF Init, Plain
  <1>3. art.work = <<>> /\ art.queries # <<>> /\ Last(art.queries) = song
    BY <1>1, <1>2, BeforeShowAsks
  <1>4. NoLoads(art.work)
    <2>1. art.work = <<>>  BY <1>3
    <2>2. \A w : w = <<>> => NoLoads(w)
      <3>1. DOMAIN <<>> = {}  OBVIOUS
      <3>. QED  BY <3>1 DEF NoLoads
    <2>. QED  BY <2>1, <2>2
  <1>5. AsksFor(art, song, lost)  BY <1>3 DEF AsksFor
  <1>. QED  BY <1>2, <1>4, <1>5 DEF PlainInv

\* A visible pane for which nothing is outstanding has the art of the song that
\* plays, as long as no modal is opened, nothing stops playback and the art comes
\* from MPD, unless the last query for it failed or was late (client.rs:239-253).
THEOREM ArtIsOfTheSong == Spec => PlainArtIsOfTheSong
  <1>1. AlbumArtIInv /\ PlainInv /\ Plain /\ Plain' /\ [Next]_vars => PlainInv'
    <2>. SUFFICES ASSUME AlbumArtIInv, PlainInv, Plain, Plain', [Next]_vars
                  PROVE  PlainInv'
      OBVIOUS
    <2>1. CASE Answers  BY <2>1, PlainAnswers
    <2>2. CASE UNCHANGED vars
      <3>1. UNCHANGED <<art, song, visible, is_modal_open, lost>>  BY <2>2 DEF vars, pane
      <3>. QED  BY <3>1 DEF PlainInv
    <2>. QED  BY <2>1, <2>2, PlainEvents DEF Next
  <1>2. PlainInv => (Settled /\ ~lost => art.current \in {song, Default})
    BY DEF PlainInv, Settled, AsksFor
  <1>. QED
    BY <1>1, <1>2, PlainInit, AlbumArtSafe, PTL DEF Spec, PlainArtIsOfTheSong

=============================================================================
