-------------------------- MODULE QueueSyncProofs --------------------------
(***************************************************************************)
(* What TLAPS proves about QueueSync, for queues of any length and any     *)
(* number of moves, foreign changes, lost answers and reconnects: the      *)
(* unsigned counter of ignored idle events never underflows, its           *)
(* increments and decrements are in balance until a reconnect drops a      *)
(* move, and a pending Reconcile is on its way.                            *)
(***************************************************************************)
EXTENDS QueueSync, FiniteSetTheorems, TLAPS

IsSeq(q) == \E S : q \in Seq(S)

\* How many of the first k events are of type t.
Hits(s, k, t) == {i \in 1..k : s[i].type = t}
CountTo(s, k, t) == Cardinality(Hits(s, k, t))

\* Places of a sequence.
LEMMA SeqFacts ==
    ASSUME NEW s, IsSeq(s)
    PROVE  /\ Len(s) \in Nat /\ DOMAIN s = 1..Len(s)
           /\ (s # <<>> => Len(s) > 0)
<1>1. PICK S : s \in Seq(S)  BY DEF IsSeq
<1> QED  BY <1>1

\* Sending to a channel.
LEMMA AppendFacts ==
    ASSUME NEW s, IsSeq(s), NEW e
    PROVE  /\ IsSeq(Append(s, e)) /\ Len(Append(s, e)) = Len(s) + 1
           /\ \A i \in 1..Len(s) : Append(s, e)[i] = s[i]
           /\ Append(s, e)[Len(s) + 1] = e
<1>1. PICK S : s \in Seq(S)  BY DEF IsSeq
<1>2. s \in Seq(S \union {e})  BY <1>1
<1>3. Append(s, e) \in Seq(S \union {e})  BY <1>2
<1> QED  BY <1>2, <1>3 DEF IsSeq

\* Receiving from it.
LEMMA TailFacts ==
    ASSUME NEW s, IsSeq(s), s # <<>>
    PROVE  /\ IsSeq(Tail(s)) /\ Len(Tail(s)) = Len(s) - 1 /\ Len(s) > 0
           /\ \A i \in 1..(Len(s) - 1) : Tail(s)[i] = s[i + 1]
           /\ Head(s) = s[1]
<1>1. PICK S : s \in Seq(S)  BY DEF IsSeq
<1>2. Tail(s) \in Seq(S)  BY <1>1
<1> QED  BY <1>1, <1>2 DEF IsSeq

\* Counting all is counting up to the last.
LEMMA CountIsTo == ASSUME NEW s, IsSeq(s), NEW t PROVE Count(s, t) = CountTo(s, Len(s), t)
BY SeqFacts DEF Count, CountTo, Hits

\* The first events are finitely many, whatever they are.
LEMMA HitsFinite == \A s, t : \A k \in Nat : IsFiniteSet(Hits(s, k, t)) /\ CountTo(s, k, t) \in Nat
<1> TAKE s, t
<1> TAKE k \in Nat
<1>1. IsFiniteSet(1..k)  BY FS_Interval
<1>2. Hits(s, k, t) \in SUBSET (1..k)  BY DEF Hits
<1>3. IsFiniteSet(Hits(s, k, t))  BY <1>1, <1>2, FS_Subset
<1> QED  BY <1>3, FS_CardinalityType DEF CountTo

Hit(e, t) == IF e.type = t THEN 1 ELSE 0

\* None are among the first none.
LEMMA CountNone == \A s, t : CountTo(s, 0, t) = 0
<1> TAKE s, t
<1>1. Hits(s, 0, t) = {}  BY DEF Hits
<1> QED  BY <1>1, FS_EmptySet DEF CountTo

\* One more event counts once, if it is of the type.
LEMMA CountNext ==
    ASSUME NEW s, NEW k \in Nat, NEW t
    PROVE  CountTo(s, k + 1, t) = CountTo(s, k, t) + Hit(s[k + 1], t)
<1> DEFINE A == Hits(s, k, t)  B == Hits(s, k + 1, t)
<1>0. IsFiniteSet(A)  BY HitsFinite
<1>1. IsFiniteSet(A) /\ k + 1 \notin A  BY <1>0 DEF Hits
<1>2. CASE s[k + 1].type = t
      <2>1. B = A \union {k + 1}  BY <1>2 DEF Hits
      <2>2. Cardinality(A \union {k + 1}) = Cardinality(A) + 1
            <3> HIDE DEF A
            <3> QED  BY <1>1, FS_AddElement
      <2> QED  BY <1>2, <2>1, <2>2 DEF CountTo, Hit
<1>3. CASE s[k + 1].type # t
      <2>1. B = A  BY <1>3 DEF Hits
      <2>2. Cardinality(A) \in Nat  BY HitsFinite DEF CountTo
      <2> QED  BY <1>3, <2>1, <2>2 DEF CountTo, Hit
<1> QED  BY <1>2, <1>3

\* So does one that is sent.
LEMMA CountAppend ==
    ASSUME NEW s, IsSeq(s), NEW e, NEW t
    PROVE  /\ \A k \in 0..Len(s) : CountTo(Append(s, e), k, t) = CountTo(s, k, t)
           /\ Count(Append(s, e), t) = Count(s, t) + Hit(e, t)
           /\ Count(s, t) \in Nat
<1> DEFINE a == Append(s, e)
<1>1. Len(s) \in Nat  BY SeqFacts
<1>2. /\ IsSeq(a) /\ Len(a) = Len(s) + 1 /\ a[Len(s) + 1] = e
      /\ \A i \in 1..Len(s) : a[i] = s[i]
      BY AppendFacts
<1> HIDE DEF a
<1>3. ASSUME NEW k \in 0..Len(s) PROVE CountTo(a, k, t) = CountTo(s, k, t)
      <2>1. Hits(a, k, t) = Hits(s, k, t)  BY <1>1, <1>2 DEF Hits
      <2> QED  BY <2>1 DEF CountTo
<1>4. Count(a, t) = CountTo(a, Len(s) + 1, t) /\ Count(s, t) = CountTo(s, Len(s), t)
      BY <1>2, CountIsTo
<1>5. CountTo(a, Len(s) + 1, t) = CountTo(a, Len(s), t) + Hit(a[Len(s) + 1], t)
      BY <1>1, CountNext
<1>6. CountTo(a, Len(s), t) = CountTo(s, Len(s), t)  BY <1>1, <1>3
<1>7. CountTo(s, Len(s), t) \in Nat  BY <1>1, HitsFinite
<1>8. Count(a, t) = Count(s, t) + Hit(e, t)  BY <1>2, <1>4, <1>5, <1>6
<1> QED  BY <1>3, <1>4, <1>7, <1>8 DEF a

\* And one that is received is no longer counted, wherever one counts to.
LEMMA CountTail ==
    ASSUME NEW s, IsSeq(s), s # <<>>, NEW t
    PROVE  /\ \A k \in 0..(Len(s) - 1) :
                  CountTo(s, k + 1, t) = CountTo(Tail(s), k, t) + Hit(Head(s), t)
           /\ Count(s, t) = Count(Tail(s), t) + Hit(Head(s), t)
           /\ Count(Tail(s), t) \in Nat
<1>1. Len(s) \in Nat /\ Len(s) > 0  BY SeqFacts
<1> DEFINE A(k) == Hits(Tail(s), k, t)
           B(k) == {i \in 2..(k + 1) : s[i].type = t}
           C(k) == Hits(s, k + 1, t)
<1>2. ASSUME NEW k \in 0..(Len(s) - 1)
      PROVE  CountTo(s, k + 1, t) = CountTo(Tail(s), k, t) + Hit(Head(s), t)
      <2>0. k \in Nat  BY <1>1
      <2>1. Cardinality(B(k)) = Cardinality(A(k)) /\ IsFiniteSet(B(k)) /\ Cardinality(A(k)) \in Nat
            <3> DEFINE f == [i \in A(k) |-> i + 1]
            <3>1. \A i \in 1..k : Tail(s)[i] = s[i + 1]  BY <1>1, TailFacts
            <3>2. f \in [A(k) -> B(k)]  BY <2>0, <3>1 DEF Hits
            <3>3. \A i, j \in A(k) : f[i] = f[j] => i = j  BY DEF Hits
            <3>4. \A j \in B(k) : \E i \in A(k) : f[i] = j
                  <4> TAKE j \in B(k)
                  <4>1. j - 1 \in A(k)  BY <2>0, <3>1 DEF Hits
                  <4> QED  BY <4>1
            <3>5. f \in Bijection(A(k), B(k))
                  <4> HIDE DEF f
                  <4> QED  BY <3>2, <3>3, <3>4 DEF Bijection, Injection, Surjection, IsInjective
            <3>6. ExistsBijection(A(k), B(k))  BY <3>5 DEF ExistsBijection
            <3>7. IsFiniteSet(A(k)) /\ Cardinality(A(k)) \in Nat
                  BY <2>0, HitsFinite DEF CountTo
            <3> HIDE DEF A, B
            <3> QED  BY <3>6, <3>7, FS_Bijection
      <2>2. s[1] = Head(s) /\ 1 \notin B(k)  BY TailFacts
      <2>3. CASE s[1].type = t
            <3>1. C(k) = B(k) \union {1}  BY <2>0, <2>3 DEF Hits
            <3>2. Cardinality(B(k) \union {1}) = Cardinality(B(k)) + 1
                  <4> HIDE DEF B
                  <4> QED  BY <2>1, <2>2, FS_AddElement
            <3> HIDE DEF B
            <3> QED  BY <2>1, <2>2, <2>3, <3>1, <3>2 DEF CountTo, Hit
      <2>4. CASE s[1].type # t
            <3>1. C(k) = B(k)
                  <4>1. \A i \in C(k) : i # 1  BY <2>4 DEF Hits
                  <4> QED  BY <2>0, <4>1 DEF Hits
            <3> HIDE DEF B
            <3> QED  BY <2>1, <2>2, <2>4, <3>1 DEF CountTo, Hit
      <2> QED  BY <2>3, <2>4
<1>3. Len(s) - 1 \in 0..(Len(s) - 1) /\ (Len(s) - 1) + 1 = Len(s)  BY <1>1
<1>4. CountTo(s, Len(s), t) = CountTo(Tail(s), Len(s) - 1, t) + Hit(Head(s), t)
      BY <1>2, <1>3
<1>5. Count(s, t) = CountTo(s, Len(s), t) /\ Count(Tail(s), t) = CountTo(Tail(s), Len(s) - 1, t)
      BY CountIsTo, TailFacts
<1>6. CountTo(Tail(s), Len(s) - 1, t) \in Nat  BY <1>1, HitsFinite
<1> QED  BY <1>2, <1>4, <1>5, <1>6

Ignores == ignoring + Count(events, "ignore")
Owed    == Count(events, "unignore") + Count(requests, "move") + (IF announced THEN 1 ELSE 0)

\* No UnIgnore is in the channel before its Ignore.
InOrder ==
    \A k \in 0..Len(events) :
        CountTo(events, k, "unignore") <= ignoring + CountTo(events, k, "ignore")

Kinds ==
    /\ IsSeq(events) /\ IsSeq(requests) /\ IsSeq(todo)
    /\ \A i \in DOMAIN todo : todo[i].type = "move"
    /\ ignoring \in Int /\ announced \in BOOLEAN

IInv ==
    /\ Kinds /\ InOrder
    /\ Owed <= Ignores /\ (~dropped => Owed = Ignores)

\* An empty channel.
LEMMA EmptyFacts == IsSeq(<<>>) /\ \A t : Count(<<>>, t) = 0
<1>1. IsSeq(<<>>)  BY DEF IsSeq
<1>2. ASSUME NEW t PROVE Count(<<>>, t) = 0
      <2>1. {i \in DOMAIN <<>> : <<>>[i].type = t} = {}  OBVIOUS
      <2> QED  BY <2>1, FS_EmptySet DEF Count
<1> QED  BY <1>1, <1>2

\* Counts are natural numbers.
LEMMA CountsAreNat == ASSUME NEW s, IsSeq(s), NEW t PROVE Count(s, t) \in Nat
BY SeqFacts, CountIsTo, HitsFinite

\* At the start nothing is counted and nothing owed (event_loop.rs:78-80).
LEMMA InitBalanced == Init => IInv
<1> SUFFICES ASSUME Init PROVE IInv  OBVIOUS
<1>1. events = <<>> /\ requests = <<>> /\ todo = <<>> /\ ignoring = 0
      /\ announced = FALSE
      BY DEF Init
<1>2. Kinds
      <2>1. IsSeq(events) /\ IsSeq(requests) /\ IsSeq(todo)  BY <1>1, EmptyFacts
      <2>2. \A i \in DOMAIN todo : todo[i].type = "move"
            <3>1. DOMAIN todo = {}  BY <1>1
            <3> QED  BY <3>1
      <2>3. announced \in BOOLEAN  BY <1>1
      <2>4. ignoring \in Int  BY <1>1
      <2> QED  BY <2>1, <2>2, <2>3, <2>4 DEF Kinds
<1>3. InOrder
      <2>1. \A k \in 0..Len(events) : k = 0  BY <1>1
      <2> QED  BY <1>1, <2>1, CountNone DEF InOrder
<1>4. Owed = 0 /\ Ignores = 0  BY <1>1, EmptyFacts DEF Owed, Ignores
<1> QED  BY <1>2, <1>3, <1>4 DEF IInv

\* An event is sent; if it is an UnIgnore, its Ignore is in the channel or
\* counted.
LEMMA DeliverKeepsOrder ==
    ASSUME IInv, NEW e, Deliver(e), ignoring' = ignoring,
           Count(events, "unignore") + Hit(e, "unignore") <= Ignores + Hit(e, "ignore")
    PROVE  /\ InOrder' /\ IsSeq(events')
           /\ \A t : Count(events', t) = Count(events, t) + Hit(e, t)
<1> DEFINE n == Len(events)
<1>1. IsSeq(events) /\ n \in Nat /\ ignoring \in Int  BY SeqFacts DEF IInv, Kinds
<1>2. events' = Append(events, e)  BY DEF Deliver
<1>3. IsSeq(events') /\ Len(events') = n + 1  BY <1>1, <1>2, AppendFacts
<1>4. ASSUME NEW t
      PROVE  /\ Count(events', t) = Count(events, t) + Hit(e, t)
             /\ CountTo(events', n + 1, t) = Count(events, t) + Hit(e, t)
             /\ \A k \in 0..n : CountTo(events', k, t) = CountTo(events, k, t)
      <2>1. /\ Count(Append(events, e), t) = Count(events, t) + Hit(e, t)
            /\ \A k \in 0..n : CountTo(Append(events, e), k, t) = CountTo(events, k, t)
            BY <1>1, CountAppend
      <2>2. Count(events', t) = CountTo(events', n + 1, t)  BY <1>3, CountIsTo
      <2> QED  BY <1>2, <2>1, <2>2
<1>5. ASSUME NEW k \in 0..(n + 1)
      PROVE  CountTo(events', k, "unignore") <= ignoring + CountTo(events', k, "ignore")
      <2>1. CASE k \in 0..n  BY <1>4, <2>1 DEF IInv, InOrder
      <2>2. CASE k = n + 1
            <3>1. Count(events, "unignore") \in Nat /\ Count(events, "ignore") \in Nat
                  BY <1>1, CountsAreNat
            <3> QED  BY <1>1, <1>4, <2>2, <3>1 DEF Ignores, Hit
      <2> QED  BY <1>1, <1>5, <2>1, <2>2
<1>6. InOrder'  BY <1>3, <1>5 DEF InOrder
<1> QED  BY <1>3, <1>4, <1>6

\* What the threads may do to the requests between two moves.
Asked == requests' = requests \/ requests' = Append(requests, Query)

\* Queries are not moves.
LEMMA AskedMovesNothing ==
    ASSUME IsSeq(requests), Asked
    PROVE  IsSeq(requests') /\ Count(requests', "move") = Count(requests, "move")
<1>1. CASE requests' = requests  BY <1>1
<1>2. CASE requests' = Append(requests, Query)
      <2>1. Hit(Query, "move") = 0  BY DEF Hit, Query
      <2>2. Count(requests, "move") \in Nat  BY CountsAreNat
      <2>3. IsSeq(Append(requests, Query))  BY AppendFacts
      <2>4. Count(Append(requests, Query), "move") = Count(requests, "move") + Hit(Query, "move")
            BY CountAppend
      <2> QED  BY <1>2, <2>1, <2>2, <2>3, <2>4
<1> QED  BY <1>1, <1>2 DEF Asked

\* An event that is neither Ignore nor UnIgnore; the rest as it was.
LEMMA OtherEventKeeps ==
    ASSUME IInv, NEW e, Deliver(e), e.type \notin {"ignore", "unignore"},
           IsSeq(requests'), Count(requests', "move") = Count(requests, "move"),
           UNCHANGED <<ignoring, todo, announced, dropped>>
    PROVE  IInv'
<1>1. Hit(e, "ignore") = 0 /\ Hit(e, "unignore") = 0  BY DEF Hit
<1>2. Count(events, "unignore") \in Nat /\ Count(requests, "move") \in Nat
      /\ Count(events, "ignore") \in Nat /\ ignoring \in Int
      BY CountsAreNat DEF IInv, Kinds
<1>3. Count(events, "unignore") <= Ignores
      BY <1>2 DEF IInv, Owed, Ignores
<1>4. /\ InOrder' /\ IsSeq(events')
      /\ Count(events', "unignore") = Count(events, "unignore") + Hit(e, "unignore")
      /\ Count(events', "ignore") = Count(events, "ignore") + Hit(e, "ignore")
      <2>1. Count(events, "unignore") + Hit(e, "unignore") <= Ignores + Hit(e, "ignore")
            BY <1>1, <1>2, <1>3 DEF Ignores
      <2> QED  BY <2>1, DeliverKeepsOrder
<1>5. Owed' = Owed /\ Ignores' = Ignores  BY <1>1, <1>2, <1>4 DEF Owed, Ignores
<1>6. Kinds'  BY <1>4 DEF IInv, Kinds
<1> QED  BY <1>4, <1>5, <1>6 DEF IInv

\* The loop takes an event and counts it (event_loop.rs:149-170).
LEMMA TakenKeeps ==
    ASSUME IInv, events # <<>>, events' = Tail(events), Asked,
           ignoring' = ignoring + Hit(Head(events), "ignore") - Hit(Head(events), "unignore"),
           UNCHANGED <<todo, announced, dropped>>
    PROVE  IInv'
<1> DEFINE h == Head(events)  n == Len(events)
<1>1. IsSeq(events) /\ IsSeq(requests) /\ ignoring \in Int /\ n \in Nat
      BY SeqFacts DEF IInv, Kinds
<1>2. IsSeq(events') /\ Len(events') = n - 1 /\ n > 0  BY <1>1, TailFacts
<1>0. ignoring' = ignoring + (Hit(h, "ignore") - Hit(h, "unignore"))  OBVIOUS
<1>3. Hit(h, "ignore") \in {0, 1} /\ Hit(h, "unignore") \in {0, 1}  BY DEF Hit
<1>4. ASSUME NEW t
      PROVE  /\ \A k \in 0..(n - 1) : CountTo(events, k + 1, t) = CountTo(events', k, t) + Hit(h, t)
             /\ Count(events, t) = Count(events', t) + Hit(h, t) /\ Count(events', t) \in Nat
      BY <1>1, CountTail
<1>5. IsSeq(requests') /\ Count(requests', "move") = Count(requests, "move")
      BY <1>1, AskedMovesNothing
<1>6. InOrder'
      <2> SUFFICES ASSUME NEW k \in 0..(n - 1)
                   PROVE  CountTo(events', k, "unignore") <= ignoring' + CountTo(events', k, "ignore")
          BY <1>2 DEF InOrder
      <2>1. k + 1 \in 0..n /\ k \in Nat  BY <1>1
      <2>2. CountTo(events, k + 1, "unignore") <= ignoring + CountTo(events, k + 1, "ignore")
            BY <2>1 DEF IInv, InOrder
      <2>3. CountTo(events', k, "unignore") \in Nat /\ CountTo(events', k, "ignore") \in Nat
            BY <2>1, HitsFinite
      <2>4. /\ CountTo(events, k + 1, "ignore") = CountTo(events', k, "ignore") + Hit(h, "ignore")
            /\ CountTo(events, k + 1, "unignore") = CountTo(events', k, "unignore") + Hit(h, "unignore")
            BY <1>4
      <2> HIDE DEF h
      <2> QED  BY <1>0, <1>1, <1>3, <2>2, <2>3, <2>4
<1>7. Count(requests, "move") \in Nat  BY <1>1, CountsAreNat
<1>8. /\ Owed' = Owed - Hit(h, "unignore") /\ Ignores' = Ignores - Hit(h, "unignore")
      /\ Owed \in Int /\ Ignores \in Int /\ ignoring' \in Int
      <2>1. /\ Count(events, "ignore") = Count(events', "ignore") + Hit(h, "ignore")
            /\ Count(events, "unignore") = Count(events', "unignore") + Hit(h, "unignore")
            /\ Count(events', "ignore") \in Nat /\ Count(events', "unignore") \in Nat
            BY <1>4
      <2> DEFINE own == IF announced THEN 1 ELSE 0
      <2>2. own \in Int  OBVIOUS
      <2>3. Owed = Count(events, "unignore") + Count(requests, "move") + own  BY DEF Owed
      <2>4. Owed' = Count(events', "unignore") + Count(requests', "move") + own  BY DEF Owed
      <2>5. Ignores = ignoring + Count(events, "ignore")
            /\ Ignores' = ignoring' + Count(events', "ignore")  BY DEF Ignores
      <2>6. ignoring' \in Int  BY <1>0, <1>1, <1>3
      <2> HIDE DEF own, h
      <2>7. Ignores' = Ignores - Hit(h, "unignore") /\ Ignores \in Int
            <3>1. ASSUME NEW hi \in Int, NEW hu \in Int, NEW c \in Int, NEW i \in Int
                  PROVE  (i + (hi - hu)) + c = (i + (c + hi)) - hu
                  OBVIOUS
            <3>2. Ignores' = (ignoring + (Hit(h, "ignore") - Hit(h, "unignore"))) + Count(events', "ignore")
                  BY <1>0, <2>5
            <3>3. Ignores = ignoring + (Count(events', "ignore") + Hit(h, "ignore"))
                  BY <2>1, <2>5
            <3>4. Ignores \in Int  BY <1>1, <1>3, <2>1, <3>3
            <3> QED  BY <1>1, <1>3, <2>1, <3>1, <3>2, <3>3, <3>4
      <2>8. Owed' = Owed - Hit(h, "unignore") /\ Owed \in Int
            BY <1>3, <1>5, <1>7, <2>1, <2>2, <2>3, <2>4
      <2> QED  BY <2>6, <2>7, <2>8
<1>9. Kinds'  BY <1>2, <1>5, <1>8 DEF IInv, Kinds
<1>10. Hit(h, "unignore") \in {0, 1}  BY <1>3
<1> HIDE DEF h
<1> QED  BY <1>6, <1>8, <1>9, <1>10 DEF IInv

\* A key starts to move runs of songs (queue.rs:918-928).
LEMMA StartKeeps ==
    ASSUME IInv, NEW n \in Nat, NEW runs, DOMAIN runs = 1..n, NEW shift, StartMove(runs, shift)
    PROVE  IInv'
<1> DEFINE S == {[type |-> "move", lo |-> runs[k].lo, hi |-> runs[k].hi, to |-> runs[k].lo + shift] :
                     k \in 1..n}
<1>1. todo' \in [1..n -> S]  BY DEF StartMove
<1>2. todo' \in Seq(S) /\ DOMAIN todo' = 1..n
      <2> HIDE DEF S
      <2> QED  BY <1>1
<1>3. IsSeq(todo')  BY <1>2 DEF IsSeq
<1>4. \A i \in DOMAIN todo' : todo'[i].type = "move"
      <2>1. \A i \in 1..n : todo'[i] \in S  BY <1>1
      <2>2. \A r \in S : r.type = "move"  OBVIOUS
      <2> QED  BY <1>2, <2>1, <2>2
<1>5. UNCHANGED <<events, requests, ignoring, announced, dropped>>
      BY DEF StartMove, client, loop, history
<1>6. Kinds'  BY <1>3, <1>4, <1>5 DEF IInv, Kinds
<1>7. InOrder' /\ Owed' = Owed /\ Ignores' = Ignores
      BY <1>5 DEF IInv, InOrder, Owed, Ignores
<1> QED  BY <1>5, <1>6, <1>7 DEF IInv

\* The runs of the marked songs are a sequence, first to last or last to first.
LEMMA RunsAreSeqs ==
    ASSUME NEW marked \in SUBSET Places
    PROVE  /\ \E n \in Nat : DOMAIN Runs(marked) = 1..n
           /\ \E n \in Nat : DOMAIN Reverse(Runs(marked)) = 1..n
<1> DEFINE starts == {i \in marked : i - 1 \notin marked}
<1>1. IsFiniteSet(Places)
      BY QueueSyncAssumption, FS_CardinalityType, FS_Interval DEF Places
<1>2. starts \in SUBSET Places  OBVIOUS
<1>3. IsFiniteSet(starts)
      <2> HIDE DEF starts
      <2> QED  BY <1>1, <1>2, FS_Subset
<1>4. Cardinality(starts) \in Nat
      <2> HIDE DEF starts
      <2> QED  BY <1>3, FS_CardinalityType
<1>5. DOMAIN Runs(marked) = 1..Cardinality(starts)  BY DEF Runs
<1>6. Len(Runs(marked)) = Cardinality(starts)
      <2> HIDE DEF starts
      <2> QED  BY <1>4, <1>5
<1>7. DOMAIN Reverse(Runs(marked)) = 1..Cardinality(starts)
      <2> HIDE DEF starts
      <2> QED  BY <1>6 DEF Reverse
<1> QED  BY <1>4, <1>5, <1>7

\* The keys that move songs.
LEMMA UserKeeps == IInv /\ (MoveUp \/ MoveDown \/ MoveDownLast) => IInv'
<1> SUFFICES ASSUME IInv, MoveUp \/ MoveDown \/ MoveDownLast PROVE IInv'  OBVIOUS
<1>1. CASE MoveUp
      <2>1. PICK marked \in SUBSET Places : StartMove(Runs(marked), -1)  BY <1>1 DEF MoveUp, Marks
      <2>2. PICK n \in Nat : DOMAIN Runs(marked) = 1..n  BY RunsAreSeqs
      <2> QED  BY <2>1, <2>2, StartKeeps
<1>2. CASE MoveDown
      <2>1. PICK marked \in SUBSET Places : StartMove(Reverse(Runs(marked)), 1)
            BY <1>2 DEF MoveDown, Marks
      <2>2. PICK n \in Nat : DOMAIN Reverse(Runs(marked)) = 1..n  BY RunsAreSeqs
      <2> QED  BY <2>1, <2>2, StartKeeps
<1>3. CASE MoveDownLast
      <2> DEFINE runs == <<[lo |-> Len(view), hi |-> Len(view)]>>
      <2>1. DOMAIN runs = 1..1 /\ 1 \in Nat  OBVIOUS
      <2>2. StartMove(runs, 0)  BY <1>3 DEF MoveDownLast
      <2> HIDE DEF runs
      <2> QED  BY <2>1, <2>2, StartKeeps
<1> QED  BY <1>1, <1>2, <1>3

\* Ignore is sent, then its command is queued (queue.rs:936-945).
LEMMA MoveRunKeeps == IInv /\ MoveRun => IInv'
<1> SUFFICES ASSUME IInv, MoveRun PROVE IInv'  OBVIOUS
<1>0. /\ IsSeq(events) /\ IsSeq(requests) /\ IsSeq(todo) /\ ignoring \in Int
      /\ Count(events, "unignore") \in Nat /\ Count(requests, "move") \in Nat
      /\ Count(events, "ignore") \in Nat /\ announced \in BOOLEAN
      BY CountsAreNat DEF IInv, Kinds
<1>1. todo # <<>> /\ dropped' = dropped /\ announced' = ~announced
      BY DEF MoveRun, Idle, history
<1>2. Head(todo).type = "move"
      BY <1>0, <1>1, TailFacts, SeqFacts DEF IInv, Kinds
<1>3. IsSeq(Tail(todo)) /\ \A i \in DOMAIN Tail(todo) : Tail(todo)[i].type = "move"
      <2>1. /\ IsSeq(Tail(todo)) /\ Len(Tail(todo)) = Len(todo) - 1
            /\ \A i \in 1..(Len(todo) - 1) : Tail(todo)[i] = todo[i + 1]
            BY <1>0, <1>1, TailFacts
      <2>2. DOMAIN Tail(todo) = 1..(Len(todo) - 1) /\ DOMAIN todo = 1..Len(todo) /\ Len(todo) \in Nat
            BY <1>0, <2>1, SeqFacts
      <2>3. \A i \in 1..(Len(todo) - 1) : i + 1 \in DOMAIN todo  BY <2>2
      <2> QED  BY <2>1, <2>2, <2>3 DEF IInv, Kinds
<1>4. CASE announced
      <2>1. /\ requests' = Append(requests, Head(todo)) /\ todo' = Tail(todo)
            /\ events' = events /\ ignoring' = ignoring /\ announced' = FALSE
            BY <1>0, <1>1, <1>4 DEF MoveRun, Command, loop
      <2>2. IsSeq(requests') /\ Count(requests', "move") = Count(requests, "move") + 1
            <3>1. Hit(Head(todo), "move") = 1  BY <1>2 DEF Hit
            <3>2. /\ IsSeq(Append(requests, Head(todo)))
                  /\ Count(Append(requests, Head(todo)), "move")
                         = Count(requests, "move") + Hit(Head(todo), "move")
                  BY <1>0, AppendFacts, CountAppend
            <3> QED  BY <2>1, <3>1, <3>2
      <2>3. Kinds'
            <3>1. IsSeq(todo') /\ \A i \in DOMAIN todo' : todo'[i].type = "move"  BY <1>3, <2>1
            <3> QED  BY <1>0, <1>1, <2>1, <2>2, <3>1 DEF Kinds
      <2>4. Owed' = Owed /\ Ignores' = Ignores
            BY <1>0, <1>4, <2>1, <2>2 DEF Owed, Ignores
      <2>5. InOrder'  BY <2>1 DEF IInv, InOrder
      <2> QED  BY <1>1, <2>3, <2>4, <2>5 DEF IInv
<1>5. CASE ~announced
      <2> DEFINE e == Event("ignore")
      <2>1. /\ Deliver(e) /\ todo' = todo /\ requests' = requests /\ ignoring' = ignoring
            /\ announced' = TRUE
            BY <1>0, <1>1, <1>5 DEF MoveRun, Announce
      <2>2. Hit(e, "unignore") = 0 /\ Hit(e, "ignore") = 1  BY DEF Hit, Event
      <2> HIDE DEF e
      <2>3. Count(events, "unignore") <= Ignores
            BY <1>0 DEF IInv, Owed, Ignores
      <2>4. /\ InOrder' /\ IsSeq(events')
            /\ Count(events', "unignore") = Count(events, "unignore") + Hit(e, "unignore")
            /\ Count(events', "ignore") = Count(events, "ignore") + Hit(e, "ignore")
            <3>1. Count(events, "unignore") + Hit(e, "unignore") <= Ignores + Hit(e, "ignore")
                  BY <1>0, <2>2, <2>3 DEF Ignores
            <3> QED  BY <2>1, <3>1, DeliverKeepsOrder
      <2>5. Owed' = Owed + 1 /\ Ignores' = Ignores + 1 /\ Owed \in Int /\ Ignores \in Int
            BY <1>0, <1>5, <2>1, <2>2, <2>4 DEF Owed, Ignores
      <2>6. Kinds'  BY <1>0, <1>1, <2>1, <2>4 DEF IInv, Kinds
      <2> QED  BY <1>0, <1>1, <2>4, <2>5, <2>6 DEF IInv
<1> QED  BY <1>0, <1>4, <1>5

\* The event loop: only Ignore and UnIgnore change the counter.
LEMMA LoopKeeps == IInv /\ LoopNext => IInv'
<1> SUFFICES ASSUME IInv, LoopNext PROVE IInv'  OBVIOUS
<1> DEFINE h == Head(events)
           Counted == ignoring' = ignoring + Hit(h, "ignore") - Hit(h, "unignore")
<1>0. ignoring \in Int  BY DEF IInv, Kinds
<1>1. CASE MoveRun  BY <1>1, MoveRunKeeps
<1>2. ASSUME NEW t, Handle(t), Asked, Counted, dropped' = dropped PROVE IInv'
      <2>1. events # <<>> /\ events' = Tail(events) /\ UNCHANGED <<todo, announced>>
            BY <1>2 DEF Handle, FirstIs, handler
      <2> QED  BY <1>2, <2>1, TakenKeeps
<1>3. ASSUME NEW t, Handle(t), t \notin {"ignore", "unignore"}, ignoring' = ignoring PROVE Counted
      <2>1. h.type = t  BY <1>3 DEF Handle, FirstIs
      <2>2. Hit(h, "ignore") = 0 /\ Hit(h, "unignore") = 0  BY <1>3, <2>1 DEF Hit
      <2> HIDE DEF h
      <2> QED  BY <1>0, <1>3, <2>2
<1>4. CASE HandleIgnore
      <2>1. Handle("ignore") /\ Asked /\ ignoring' = ignoring + 1 /\ dropped' = dropped
            BY <1>4 DEF HandleIgnore, Asked, client, history
      <2>2. Hit(h, "ignore") = 1 /\ Hit(h, "unignore") = 0  BY <2>1 DEF Hit, Handle, FirstIs
      <2>3. Counted
            <3> HIDE DEF h
            <3> QED  BY <1>0, <2>1, <2>2
      <2> QED  BY <1>2, <2>1, <2>3
<1>5. CASE HandleUnIgnore
      <2>1. Handle("unignore") /\ Asked /\ ignoring' = ignoring - 1 /\ dropped' = dropped
            BY <1>5 DEF HandleUnIgnore, Asked, client, history
      <2>2. Hit(h, "ignore") = 0 /\ Hit(h, "unignore") = 1  BY <2>1 DEF Hit, Handle, FirstIs
      <2>3. Counted
            <3> HIDE DEF h
            <3> QED  BY <1>0, <2>1, <2>2
      <2> QED  BY <1>2, <2>1, <2>3
<1>6. CASE HandleReconcile
      <2>1. Handle("reconcile") /\ Asked /\ ignoring' = ignoring /\ dropped' = dropped
            BY <1>6 DEF HandleReconcile, QueryQueue, Asked, history
      <2>2. Counted  BY <1>3, <2>1
      <2> QED  BY <1>2, <2>1, <2>2
<1>7. CASE HandleIdle
      <2>1. Handle("idle") /\ Asked /\ ignoring' = ignoring /\ dropped' = dropped
            BY <1>7 DEF HandleIdle, QueryQueue, Asked, history, loop
      <2>2. Counted  BY <1>3, <2>1
      <2> QED  BY <1>2, <2>1, <2>2
<1>8. CASE HandleReconnected
      <2>1. Handle("reconnected") /\ Asked /\ ignoring' = ignoring /\ dropped' = dropped
            BY <1>8 DEF HandleReconnected, QueryQueue, Asked, history, loop
      <2>2. Counted  BY <1>3, <2>1
      <2> QED  BY <1>2, <2>1, <2>2
<1>9. CASE HandleQueue
      <2>1. Handle("queue") /\ Asked /\ ignoring' = ignoring /\ dropped' = dropped
            BY <1>9 DEF HandleQueue, Asked, history, client
      <2>2. Counted  BY <1>3, <2>1
      <2> QED  BY <1>2, <2>1, <2>2
<1> QED  BY <1>1, <1>4, <1>5, <1>6, <1>7, <1>8, <1>9 DEF LoopNext

\* The first request taken away.
LEMMA RequestTaken ==
    ASSUME IsSeq(requests), requests # <<>>
    PROVE  /\ IsSeq(Tail(requests)) /\ Count(Tail(requests), "move") \in Nat
           /\ Count(requests, "move")
                  = Count(Tail(requests), "move") + Hit(Head(requests), "move")
BY TailFacts, CountTail

\* A move is executed: what it owed is sent, whether MPD answers in time or not
\* (queue.rs:942).
LEMMA ClientMovesKeeps == IInv /\ (ClientMoves \/ ClientMovesUnanswered) => IInv'
<1> SUFFICES ASSUME IInv, ClientMoves \/ ClientMovesUnanswered PROVE IInv'  OBVIOUS
<1> DEFINE e == Event("unignore")
<1>0. /\ IsSeq(events) /\ IsSeq(requests) /\ ignoring \in Int
      /\ Count(events, "unignore") \in Nat /\ Count(requests, "move") \in Nat
      /\ Count(events, "ignore") \in Nat
      BY CountsAreNat DEF IInv, Kinds
<1>1. /\ requests # <<>> /\ Head(requests).type = "move" /\ requests' = Tail(requests)
      /\ Deliver(e) /\ UNCHANGED <<ignoring, todo, announced, dropped>>
      BY DEF ClientMoves, ClientMovesUnanswered, loop, handler, history
<1>2. Hit(e, "unignore") = 1 /\ Hit(e, "ignore") = 0 /\ Hit(Head(requests), "move") = 1
      BY <1>1 DEF Hit, Event
<1> HIDE DEF e
<1>3. /\ IsSeq(requests') /\ Count(requests', "move") \in Nat
      /\ Count(requests, "move") = Count(requests', "move") + 1
      BY <1>0, <1>1, <1>2, RequestTaken
<1>4. Count(events, "unignore") + 1 <= Ignores
      BY <1>0, <1>3 DEF IInv, Owed, Ignores
<1>5. /\ InOrder' /\ IsSeq(events')
      /\ Count(events', "unignore") = Count(events, "unignore") + Hit(e, "unignore")
      /\ Count(events', "ignore") = Count(events, "ignore") + Hit(e, "ignore")
      <2>1. Count(events, "unignore") + Hit(e, "unignore") <= Ignores + Hit(e, "ignore")
            BY <1>0, <1>2, <1>4 DEF Ignores
      <2> QED  BY <1>1, <2>1, DeliverKeepsOrder
<1>6. Owed' = Owed /\ Ignores' = Ignores
      BY <1>0, <1>1, <1>2, <1>3, <1>5 DEF Owed, Ignores
<1>7. Kinds'  BY <1>1, <1>3, <1>5 DEF IInv, Kinds
<1> QED  BY <1>1, <1>5, <1>6, <1>7 DEF IInv

\* A query is answered, skipped, or gets no answer (client.rs:227-253).
LEMMA ClientQueriesKeeps == IInv /\ (ClientQueries \/ ClientQueriesUnanswered) => IInv'
<1> SUFFICES ASSUME IInv, ClientQueries \/ ClientQueriesUnanswered PROVE IInv'  OBVIOUS
<1>1. /\ requests # <<>> /\ Head(requests) = Query /\ requests' = Tail(requests)
      /\ UNCHANGED <<ignoring, todo, announced, dropped>>
      BY DEF ClientQueries, ClientQueriesUnanswered, loop, handler, history
<1>2. Hit(Head(requests), "move") = 0  BY <1>1 DEF Hit, Query
<1>3. IsSeq(requests') /\ Count(requests', "move") = Count(requests, "move")
      <2>1. IsSeq(requests)  BY DEF IInv, Kinds
      <2> QED  BY <1>1, <1>2, <2>1, RequestTaken
<1>4. CASE events' = events
      <2>1. Owed' = Owed /\ Ignores' = Ignores /\ InOrder'
            BY <1>1, <1>3, <1>4 DEF IInv, InOrder, Owed, Ignores
      <2>2. Kinds'  BY <1>1, <1>3, <1>4 DEF IInv, Kinds
      <2> QED  BY <1>1, <2>1, <2>2 DEF IInv
<1>5. CASE Deliver([type |-> "queue", songs |-> server])
      <2>1. [type |-> "queue", songs |-> server].type \notin {"ignore", "unignore"}  OBVIOUS
      <2> QED  BY <1>1, <1>3, <1>5, <2>1, OtherEventKeeps
<1> QED  BY <1>4, <1>5 DEF ClientQueries, ClientQueriesUnanswered

\* Whatever is told of changes or by the scheduler.
LEMMA ToldKeeps ==
    ASSUME IInv, NEW t, t \notin {"ignore", "unignore"}, Deliver(Event(t)), requests' = requests,
           UNCHANGED <<ignoring, todo, announced, dropped>>
    PROVE  IInv'
<1>1. Event(t).type \notin {"ignore", "unignore"}  BY DEF Event
<1>2. IsSeq(requests') /\ Count(requests', "move") = Count(requests, "move")
      BY DEF IInv, Kinds
<1> QED  BY <1>1, <1>2, OtherEventKeeps

\* A reconnect that drops moves drops what they owe: less is owed than ignored
\* (client.rs:342).
LEMMA ReconnectKeeps == IInv /\ ClientReconnects => IInv'
<1> SUFFICES ASSUME IInv, ClientReconnects PROVE IInv'  OBVIOUS
<1> DEFINE e == Event("reconnected")
<1>0. /\ IsSeq(events) /\ ignoring \in Int
      /\ Count(events, "unignore") \in Nat /\ Count(requests, "move") \in Nat
      /\ Count(events, "ignore") \in Nat
      BY CountsAreNat DEF IInv, Kinds
<1>1. /\ requests' = <<>> /\ Deliver(e)
      /\ dropped' = (dropped \/ Count(requests, "move") > 0)
      /\ UNCHANGED <<ignoring, todo, announced>>
      BY DEF ClientReconnects, loop, handler
<1>2. Hit(e, "unignore") = 0 /\ Hit(e, "ignore") = 0  BY DEF Hit, Event
<1> HIDE DEF e
<1>3. IsSeq(requests') /\ Count(requests', "move") = 0  BY <1>1, EmptyFacts
<1>4. /\ InOrder' /\ IsSeq(events')
      /\ Count(events', "unignore") = Count(events, "unignore") + Hit(e, "unignore")
      /\ Count(events', "ignore") = Count(events, "ignore") + Hit(e, "ignore")
      <2>1. Count(events, "unignore") + Hit(e, "unignore") <= Ignores + Hit(e, "ignore")
            BY <1>0, <1>2 DEF IInv, Owed, Ignores
      <2> QED  BY <1>1, <2>1, DeliverKeepsOrder
<1>5. Owed' <= Owed /\ Ignores' = Ignores /\ Owed' \in Int /\ Owed \in Int /\ Ignores \in Int
      BY <1>0, <1>1, <1>2, <1>3, <1>4 DEF Owed, Ignores
<1>6. Kinds'  BY <1>1, <1>3, <1>4 DEF IInv, Kinds
<1>7. ASSUME ~dropped' PROVE Owed' = Owed /\ ~dropped
      <2>1. ~dropped /\ ~(Count(requests, "move") > 0)  BY <1>1, <1>7, Zenon
      <2>2. Count(requests, "move") = 0  BY <1>0, <2>1
      <2> QED  BY <1>0, <1>1, <1>2, <1>3, <1>4, <2>1, <2>2 DEF Owed
<1> QED  BY <1>4, <1>5, <1>6, <1>7 DEF IInv

\* What touches neither channel nor counter.
LEMMA UntouchedKeeps ==
    ASSUME IInv, UNCHANGED <<events, requests, ignoring, todo, announced, dropped>>
    PROVE  IInv'
<1>1. Owed' = Owed /\ Ignores' = Ignores /\ InOrder' /\ Kinds'
      BY DEF IInv, Kinds, InOrder, Owed, Ignores
<1> QED  BY <1>1 DEF IInv

\* The invariant: as many UnIgnores are owed as were Ignores announced, fewer
\* after a reconnect that drops a move, and in the channel none comes before its Ignore.  The
\* second part is what keeps the counter from underflowing in between.
THEOREM BalanceInvariant == Spec => []IInv
<1>1. IInv /\ [Next]_vars => IInv'
      <2> SUFFICES ASSUME IInv, [Next]_vars PROVE IInv'  OBVIOUS
      <2> USE DEF client, loop, handler, scheduler, history
      <2>1. CASE MoveUp \/ MoveDown \/ MoveDownLast  BY <2>1, UserKeeps
      <2>2. CASE LoopNext  BY <2>2, LoopKeeps
      <2>3. CASE ClientMoves \/ ClientMovesUnanswered  BY <2>3, ClientMovesKeeps
      <2>4. CASE ClientQueries \/ ClientQueriesUnanswered  BY <2>4, ClientQueriesKeeps
      <2>5. CASE ClientNotifies  BY <2>5, ToldKeeps DEF ClientNotifies
      <2>6. CASE ClientReconnects  BY <2>6, ReconnectKeeps
      <2>7. CASE JobFires  BY <2>7, ToldKeeps DEF JobFires
      <2>8. CASE ZombieFires  BY <2>8, ToldKeeps DEF ZombieFires
      <2>9. CASE ZombieIsRemoved  BY <2>9, UntouchedKeeps DEF ZombieIsRemoved
      <2>10. CASE ForeignChange  BY <2>10, UntouchedKeeps DEF ForeignChange
      <2>11. CASE OtherAnswerLate  BY <2>11, UntouchedKeeps DEF OtherAnswerLate
      <2>12. CASE UNCHANGED vars  BY <2>12, UntouchedKeeps DEF vars
      <2> QED  BY <2>1, <2>2, <2>3, <2>4, <2>5, <2>6, <2>7, <2>8, <2>9, <2>10, <2>11, <2>12
               DEF Next, ClientNext
<1> QED  BY InitBalanced, <1>1, PTL DEF Spec

\* In every reachable state Ignores and UnIgnores are in balance, and an
\* UnIgnore finds something to take back (event_loop.rs:149-170).
THEOREM IgnoresAreBalanced == Spec => []IgnoresBalanced
<1>1. IInv => IgnoresBalanced
      <2> SUFFICES ASSUME IInv PROVE IgnoresBalanced  OBVIOUS
      <2>1. IsSeq(events) /\ ignoring \in Int  BY DEF IInv, Kinds
      <2>2. ASSUME FirstIs("unignore") PROVE ignoring > 0
            <3>1. events # <<>> /\ Head(events).type = "unignore"  BY <2>2 DEF FirstIs
            <3>2. Len(events) \in Nat /\ Len(events) > 0 /\ Head(events) = events[1]
                  BY <2>1, <3>1, TailFacts, SeqFacts
            <3>3. /\ CountTo(events, 1, "unignore") = Hit(Head(events), "unignore")
                  /\ CountTo(events, 1, "ignore") = Hit(Head(events), "ignore")
                  <4>1. \A t : CountTo(events, 0 + 1, t)
                                   = CountTo(events, 0, t) + Hit(events[0 + 1], t)
                        BY CountNext
                  <4>2. \A t : Hit(Head(events), t) \in Int  BY DEF Hit
                  <4> QED  BY <3>2, <4>1, <4>2, CountNone
            <3>4. Hit(Head(events), "unignore") = 1 /\ Hit(Head(events), "ignore") = 0
                  BY <3>1 DEF Hit
            <3>5. CountTo(events, 1, "unignore") <= ignoring + CountTo(events, 1, "ignore")
                  BY <3>2 DEF IInv, InOrder
            <3> QED  BY <2>1, <3>3, <3>4, <3>5
      <2>3. /\ Owed <= Ignores /\ (~dropped => Owed = Ignores)  BY DEF IInv
      <2> QED  BY <2>2, <2>3 DEF IgnoresBalanced, Owed, Ignores
<1> QED  BY BalanceInvariant, <1>1, PTL

\* What is sent is counted.
LEMMA DeliverCounts ==
    ASSUME IsSeq(events), NEW e, Deliver(e), NEW t
    PROVE  Count(events', t) = Count(events, t) + Hit(e, t) /\ Count(events, t) \in Nat
BY CountAppend DEF Deliver

\* Whoever leaves the flag and the job alone and takes no Reconcile away.
LEMMA PendingStays ==
    ASSUME PendingReconcileComes, UNCHANGED <<pending, job>>,
           Count(events, "reconcile") > 0 => Count(events', "reconcile") > 0
    PROVE  PendingReconcileComes'
BY DEF PendingReconcileComes

\* Sending takes no Reconcile away.
LEMMA DeliveredStays ==
    ASSUME IsSeq(events), NEW e, Deliver(e)
    PROVE  Count(events, "reconcile") > 0 => Count(events', "reconcile") > 0
<1>1. Hit(e, "reconcile") \in {0, 1}  BY DEF Hit
<1>2. Count(events', "reconcile") = Count(events, "reconcile") + Hit(e, "reconcile")
      /\ Count(events, "reconcile") \in Nat
      BY DeliverCounts
<1> QED  BY <1>1, <1>2

\* Nor does taking something else.
LEMMA TakenStays ==
    ASSUME IsSeq(events), NEW t, Handle(t), t # "reconcile"
    PROVE  Count(events, "reconcile") > 0 => Count(events', "reconcile") > 0
<1>1. events # <<>> /\ Head(events).type = t /\ events' = Tail(events)  BY DEF Handle, FirstIs
<1>2. Hit(Head(events), "reconcile") = 0  BY <1>1 DEF Hit
<1>3. Count(events, "reconcile") = Count(Tail(events), "reconcile") + Hit(Head(events), "reconcile")
      /\ Count(Tail(events), "reconcile") \in Nat
      BY <1>1, CountTail
<1> QED  BY <1>1, <1>2, <1>3

\* The job sends what it was scheduled for (event_loop.rs:158-166).
LEMMA JobSent == ASSUME IsSeq(events), JobFires PROVE PendingReconcileComes'
<1>1. Deliver(Event("reconcile"))  BY DEF JobFires
<1>2. Hit(Event("reconcile"), "reconcile") = 1  BY DEF Hit, Event
<1>3. Count(events', "reconcile") = Count(events, "reconcile") + Hit(Event("reconcile"), "reconcile")
      /\ Count(events, "reconcile") \in Nat
      BY <1>1, DeliverCounts
<1> QED  BY <1>2, <1>3 DEF PendingReconcileComes

\* In every reachable state a pending Reconcile is scheduled or in the channel,
\* so swallowing idle events ends (event_loop.rs:158-173).
THEOREM ReconcileComes == Spec => []PendingReconcileComes
<1>1. Init => PendingReconcileComes  BY DEF Init, PendingReconcileComes
<1>2. IInv /\ PendingReconcileComes /\ [Next]_vars => PendingReconcileComes'
      <2> SUFFICES ASSUME IInv, PendingReconcileComes, [Next]_vars PROVE PendingReconcileComes'
          OBVIOUS
      <2>0. IsSeq(events)  BY DEF IInv, Kinds
      <2> USE DEF client, loop, handler, scheduler, history
      <2>1. CASE UNCHANGED <<events, pending, job>>  BY <2>1, PendingStays
      <2>2. CASE MoveUp \/ MoveDown \/ MoveDownLast
            BY <2>1, <2>2 DEF MoveUp, MoveDown, MoveDownLast, StartMove
      <2>3. CASE MoveRun
            <3>1. UNCHANGED <<pending, job>>  BY <2>3 DEF MoveRun, Announce, Command
            <3>2. events' = events \/ Deliver(Event("ignore"))
                  BY <2>3 DEF MoveRun, Announce, Command
            <3> QED  BY <2>0, <3>1, <3>2, PendingStays, DeliveredStays
      <2>4. CASE HandleIgnore
            <3>1. pending' = FALSE  BY <2>4 DEF HandleIgnore
            <3> QED  BY <3>1 DEF PendingReconcileComes
      <2>5. CASE HandleUnIgnore
            <3>1. CASE ignoring = 1
                  <4>1. job' = TRUE  BY <2>5, <3>1 DEF HandleUnIgnore, ScheduleReplace
                  <4> QED  BY <4>1 DEF PendingReconcileComes
            <3>2. CASE ignoring # 1
                  BY <2>0, <2>5, <3>2, PendingStays, TakenStays DEF HandleUnIgnore
            <3> QED  BY <3>1, <3>2
      <2>6. CASE HandleReconcile
            <3>1. pending' = FALSE  BY <2>6 DEF HandleReconcile
            <3> QED  BY <3>1 DEF PendingReconcileComes
      <2>7. CASE HandleIdle  BY <2>0, <2>7, PendingStays, TakenStays DEF HandleIdle
      <2>8. CASE HandleReconnected
            BY <2>0, <2>8, PendingStays, TakenStays DEF HandleReconnected
      <2>9. CASE HandleQueue  BY <2>0, <2>9, PendingStays, TakenStays DEF HandleQueue
      <2>10. CASE ClientMoves \/ ClientMovesUnanswered
            BY <2>0, <2>10, PendingStays, DeliveredStays DEF ClientMoves, ClientMovesUnanswered
      <2>11. CASE ClientQueries  BY <2>0, <2>11, PendingStays, DeliveredStays DEF ClientQueries
      <2>12. CASE ClientNotifies  BY <2>0, <2>12, PendingStays, DeliveredStays DEF ClientNotifies
      <2>13. CASE ClientReconnects
            BY <2>0, <2>13, PendingStays, DeliveredStays DEF ClientReconnects
      <2>14. CASE JobFires  BY <2>0, <2>14, JobSent
      <2>15. CASE ZombieFires  BY <2>0, <2>15, PendingStays, DeliveredStays DEF ZombieFires
      <2>16. CASE ZombieIsRemoved \/ ForeignChange \/ OtherAnswerLate \/ ClientQueriesUnanswered
                  \/ UNCHANGED vars
            BY <2>1, <2>16 DEF ZombieIsRemoved, ForeignChange, OtherAnswerLate,
                               ClientQueriesUnanswered, vars
      <2> QED  BY <2>2, <2>3, <2>4, <2>5, <2>6, <2>7, <2>8, <2>9, <2>10, <2>11, <2>12, <2>13,
                  <2>14, <2>15, <2>16 DEF Next, LoopNext, ClientNext
<1> QED  BY BalanceInvariant, <1>1, <1>2, PTL DEF Spec
=============================================================================
