---------------------------- MODULE InputProofs ----------------------------
(***************************************************************************)
(* What TLAPS proves about the two components that take keys.               *)
(*                                                                         *)
(* Input, for every set of keys and bindings and any bound on keys and      *)
(* modals: a sequence that was begun has something coming that ends it, no   *)
(* modal's callback acts twice, and what is typed for a buffer arrives there *)
(* whole and in order.                                                     *)
(*                                                                         *)
(* Search, for every configuration of the form and menus of any size: the   *)
(* songs shown are those of the last search, and those the form asks for    *)
(* when there is no search button; the open menu has exactly one            *)
(* highlighted item.                                                       *)
(***************************************************************************)
EXTENDS Input, Search, TLAPS, WellFoundedInduction

IsSeq(q) == \E S : q \in Seq(S)

LEMMA EmptyIsSeq == IsSeq(<<>>)
<1>1. <<>> \in Seq({})  OBVIOUS
<1> QED  BY <1>1 DEF IsSeq

\* Places of a sequence.
LEMMA SeqFacts ==
    ASSUME NEW s, IsSeq(s)
    PROVE  /\ Len(s) \in Nat /\ DOMAIN s = 1..Len(s)
           /\ (s # <<>> => Len(s) > 0)
<1>1. PICK S : s \in Seq(S)  BY DEF IsSeq
<1> QED  BY <1>1

\* Taking an event or a command.
LEMMA TailFacts ==
    ASSUME NEW s, IsSeq(s), s # <<>>
    PROVE  /\ IsSeq(Tail(s)) /\ Len(Tail(s)) = Len(s) - 1 /\ Len(s) \in Nat \ {0}
           /\ \A i \in 1..(Len(s) - 1) : Tail(s)[i] = s[i + 1]
           /\ Head(s) = s[1]
<1>1. PICK S : s \in Seq(S)  BY DEF IsSeq
<1>2. Tail(s) \in Seq(S)  BY <1>1
<1> QED  BY <1>1, <1>2 DEF IsSeq

\* What a key adds to the channel and tells the scheduler.
LEMMA ConcatFacts ==
    ASSUME NEW s, IsSeq(s), NEW t, IsSeq(t)
    PROVE  /\ IsSeq(s \o t) /\ Len(s \o t) = Len(s) + Len(t)
           /\ \A i \in 1..Len(s) : (s \o t)[i] = s[i]
           /\ \A i \in 1..Len(t) : (s \o t)[Len(s) + i] = t[i]
<1>1. PICK S : s \in Seq(S)  BY DEF IsSeq
<1>2. PICK T : t \in Seq(T)  BY DEF IsSeq
<1>3. s \in Seq(S \union T) /\ t \in Seq(S \union T)  BY <1>1, <1>2
<1>4. (s \o t) \in Seq(S \union T)  BY <1>3
<1> QED  BY <1>3, <1>4 DEF IsSeq

\* Sending one event.
LEMMA AppendFacts ==
    ASSUME NEW s, IsSeq(s), NEW e
    PROVE  /\ IsSeq(Append(s, e)) /\ Len(Append(s, e)) = Len(s) + 1
           /\ \A i \in 1..Len(s) : Append(s, e)[i] = s[i]
           /\ Append(s, e)[Len(s) + 1] = e
<1>1. PICK S : s \in Seq(S)  BY DEF IsSeq
<1>2. s \in Seq(S \union {e})  BY <1>1
<1>3. Append(s, e) \in Seq(S \union {e})  BY <1>2
<1> QED  BY <1>2, <1>3 DEF IsSeq

\* Every set of numbers that is not empty has a least one.
LEMMA LeastExists ==
    ASSUME NEW S \in SUBSET Nat, S # {}
    PROVE  \E x \in S : \A y \in S : x <= y
<1> DEFINE Below == {ss \in Nat \X Nat : ss[1] < ss[2]}
<1>1. IsWellFoundedOn(Below, Nat)  BY NatLessThanWellFounded, Zenon DEF OpToRel
<1>2. PICK x \in S : \A y \in S : ~(<<y, x>> \in Below)
      <2> HIDE DEF Below
      <2> QED  BY <1>1, WFMin
<1>3. \A y \in S : x <= y
      <2> TAKE y \in S
      <2>1. y < x => <<y, x>> \in Below  OBVIOUS
      <2> QED  BY <1>2, <2>1
<1> QED  BY <1>3

\* What will end a sequence is in the channel.
Ends(es) == \E i \in DOMAIN es : es[i].type \in {"key", "timeout"}
\* What the scheduler will do in the end.
WillFire == IF commands = <<>> THEN job ELSE Last(commands) = "schedule"

IInv ==
    /\ IsSeq(events) /\ IsSeq(commands)
    /\ PendingEnds
    /\ ActsOnce

\* What is sent takes nothing away that would end a sequence.
LEMMA AppendEnds ==
    ASSUME NEW es, IsSeq(es), NEW e
    PROVE  /\ IsSeq(Append(es, e))
           /\ Ends(es) => Ends(Append(es, e))
           /\ e.type \in {"key", "timeout"} => Ends(Append(es, e))
<1> DEFINE a == Append(es, e)
<1>1. /\ IsSeq(a) /\ Len(a) = Len(es) + 1 /\ a[Len(es) + 1] = e
      /\ \A i \in 1..Len(es) : a[i] = es[i]
      BY AppendFacts
<1> HIDE DEF a
<1>2. DOMAIN a = 1..(Len(es) + 1) /\ DOMAIN es = 1..Len(es) /\ Len(es) \in Nat
      BY <1>1, SeqFacts
<1>3. Ends(es) => Ends(a)  BY <1>1, <1>2 DEF Ends
<1>4. e.type \in {"key", "timeout"} => Ends(a)  BY <1>1, <1>2 DEF Ends
<1> QED  BY <1>1, <1>3, <1>4 DEF a

\* Nor does taking something that is no key and no timeout.
LEMMA TailEnds ==
    ASSUME NEW es, IsSeq(es), es # <<>>
    PROVE  /\ IsSeq(Tail(es))
           /\ Ends(es) /\ Head(es).type \notin {"key", "timeout"} => Ends(Tail(es))
<1> DEFINE t == Tail(es)
<1>1. /\ IsSeq(t) /\ Len(t) = Len(es) - 1 /\ Len(es) \in Nat \ {0} /\ Head(es) = es[1]
      /\ \A i \in 1..(Len(es) - 1) : t[i] = es[i + 1]
      BY TailFacts
<1> HIDE DEF t
<1>2. DOMAIN es = 1..Len(es) /\ DOMAIN t = 1..(Len(es) - 1)  BY <1>1, SeqFacts
<1>3. ASSUME Ends(es), Head(es).type \notin {"key", "timeout"} PROVE Ends(t)
      <2>1. PICK i \in DOMAIN es : es[i].type \in {"key", "timeout"}  BY <1>3 DEF Ends
      <2>2. i - 1 \in DOMAIN t /\ t[i - 1] = es[i]  BY <1>1, <1>2, <1>3, <2>1
      <2> QED  BY <2>1, <2>2 DEF Ends
<1> QED  BY <1>1, <1>3 DEF t

\* The invariant by its two halves.
LEMMA PendingIs == PendingEnds <=> (pending # <<>> => Ends(events) \/ WillFire)
BY DEF PendingEnds, Ends, WillFire

\* Whoever leaves resolver and scheduler alone and takes no key or timeout.
LEMMA PendingStays ==
    ASSUME PendingEnds, UNCHANGED <<pending, commands, job>>, Ends(events) => Ends(events')
    PROVE  PendingEnds'
BY PendingIs DEF PendingEnds, Ends, WillFire

\* At the start no key waits and no prompt has been opened (key_resolver.rs:35-44).
LEMMA InitEnds == Init => IInv
<1> SUFFICES ASSUME Init PROVE IInv  OBVIOUS
<1>1. events = <<>> /\ commands = <<>> /\ pending = <<>> /\ called = [p \in {} |-> <<>>]
      BY DEF Init
<1>2. IsSeq(<<>>)  BY DEF IsSeq
<1>3. ActsOnce  BY <1>1 DEF ActsOnce
<1>4. PendingEnds  BY <1>1 DEF PendingEnds
<1>5. IsSeq(events) /\ IsSeq(commands)  BY <1>1, <1>2
<1> QED  BY <1>3, <1>4, <1>5 DEF IInv

\* A key is typed: it will end what waits.
LEMMA TypeEnds == IInv /\ Type => IInv'
<1> SUFFICES ASSUME IInv, Type PROVE IInv'  OBVIOUS
<1>1. PICK k \in Keys : events' = Append(events, Key(k))  BY DEF Type
<1>2. UNCHANGED <<pending, commands, job, called>>  BY DEF Type, resolver, screen
<1>3. IsSeq(events') /\ (Ends(events) => Ends(events'))  BY <1>1, AppendEnds DEF IInv
<1>4. PendingEnds'  BY <1>2, <1>3, PendingStays DEF IInv
<1> QED  BY <1>2, <1>3, <1>4 DEF IInv, ActsOnce

\* The scheduler obeys in order: the last command decides (key_resolver.rs:131-144).
LEMMA ScheduleEnds == IInv /\ Schedule => IInv'
<1> SUFFICES ASSUME IInv, Schedule PROVE IInv'  OBVIOUS
<1>1. /\ commands # <<>> /\ commands' = Tail(commands) /\ (job' <=> Head(commands) = "schedule")
      /\ UNCHANGED <<events, pending, called>>
      BY DEF Schedule, screen
<1>2. /\ IsSeq(Tail(commands)) /\ Len(Tail(commands)) = Len(commands) - 1
      /\ Len(commands) \in Nat \ {0} /\ Head(commands) = commands[1]
      /\ \A i \in 1..(Len(commands) - 1) : Tail(commands)[i] = commands[i + 1]
      BY <1>1, TailFacts DEF IInv
<1>3. WillFire => WillFire'
      <2>1. SUFFICES ASSUME Last(commands) = "schedule" PROVE WillFire'
            BY <1>1 DEF WillFire
      <2>2. CASE Len(commands) = 1
            <3>1. job'  BY <1>1, <1>2, <2>1, <2>2 DEF Last
            <3>2. commands' = <<>>
                  <4>1. Len(Tail(commands)) = 0  BY <1>2, <2>2
                  <4> DEFINE rest == Tail(commands)
                  <4>2. IsSeq(rest) /\ Len(rest) = 0  BY <1>2, <4>1
                  <4> HIDE DEF rest
                  <4>3. rest = <<>>  BY <4>2, SeqFacts
                  <4> QED  BY <1>1, <4>3 DEF rest
            <3> QED  BY <3>1, <3>2 DEF WillFire
      <2>3. CASE Len(commands) > 1
            <3>1. Last(commands') = Last(commands)
                  <4>1. Len(commands) - 1 \in 1..(Len(commands) - 1)  BY <1>2, <2>3
                  <4> QED  BY <1>1, <1>2, <4>1 DEF Last
            <3>2. commands' # <<>>
                  <4>1. Len(commands') # 0  BY <1>1, <1>2, <2>3
                  <4> QED  BY <4>1
            <3> QED  BY <2>1, <3>1, <3>2 DEF WillFire
      <2> QED  BY <1>2, <2>2, <2>3
<1>4. PendingEnds'  BY <1>1, <1>3, PendingIs DEF IInv, PendingEnds, Ends, WillFire
<1> QED  BY <1>1, <1>2, <1>4 DEF IInv, ActsOnce

\* The job that fires leaves its timeout in the channel.
LEMMA FireEnds == IInv /\ Fire => IInv'
<1> SUFFICES ASSUME IInv, Fire PROVE IInv'  OBVIOUS
<1>1. events' = Append(events, KeyTimeout) /\ UNCHANGED <<pending, commands, called>>
      BY DEF Fire, resolver, screen
<1>2. IsSeq(events') /\ Ends(events')
      BY <1>1, AppendEnds DEF IInv, KeyTimeout
<1>3. PendingEnds'  BY <1>2 DEF PendingEnds, Ends
<1> QED  BY <1>1, <1>2, <1>3 DEF IInv, ActsOnce

\* What comes of keys is no event or one (key_resolver.rs:146-158).
LEMMA OutcomeIsSeq == \A keys : IsSeq(Outcome(keys))
<1> TAKE keys
<1>1. \A e : IsSeq(<<e>>)
      <2> TAKE e
      <2>1. <<e>> \in Seq({e})  OBVIOUS
      <2> QED  BY <2>1 DEF IsSeq
<1>2. IsSeq(<<>>)  BY DEF IsSeq
<1> QED  BY <1>1, <1>2 DEF Outcome

\* A key either leaves nothing waiting or schedules last of all
\* (key_resolver.rs:92-144).
LEMMA KeyEnds == IInv /\ HandleKey => IInv'
<1> SUFFICES ASSUME IInv, HandleKey PROVE IInv'  OBVIOUS
<1> DEFINE keys == Append(pending, Head(events).key)
           waits == GoesOn(keys, mode)
           more == IF waits THEN <<>> ELSE Outcome(keys)
           told == IF waits THEN <<"cancel", "schedule">> ELSE <<"cancel">>
<1>1. /\ events # <<>> /\ events' = Tail(events) \o more
      /\ pending' = (IF waits THEN keys ELSE <<>>) /\ commands' = commands \o told
      /\ UNCHANGED called
      BY DEF HandleKey, Wait, screen
<1>2. IsSeq(<<>>)  BY DEF IsSeq
<1>3. IsSeq(more)  BY <1>2, OutcomeIsSeq
<1>4. IsSeq(events')  BY <1>1, <1>3, TailFacts, ConcatFacts DEF IInv
<1>5. told \in Seq({"cancel", "schedule"})
      <2>1. CASE waits   BY <2>1
      <2>2. CASE ~waits  BY <2>2
      <2> QED  BY <2>1, <2>2
<1>6. IsSeq(told)  BY <1>5 DEF IsSeq
<1>7. IsSeq(commands')  BY <1>1, <1>6, ConcatFacts DEF IInv
<1>8. PendingEnds'
      <2>1. CASE ~waits  BY <1>1, <2>1 DEF PendingEnds
      <2>2. CASE waits
            <3>1. told = <<"cancel", "schedule">>  BY <2>2
            <3>2. Len(told) = 2 /\ told[2] = "schedule"  BY <3>1
            <3> HIDE DEF told
            <3>3. Len(commands') = Len(commands) + 2 /\ commands'[Len(commands) + 2] = told[2]
                  <4> DEFINE all == commands \o told
                  <4>1. 2 \in 1..Len(told)  BY <3>2
                  <4>2. /\ Len(all) = Len(commands) + Len(told)
                        /\ \A i \in 1..Len(told) : all[Len(commands) + i] = told[i]
                        BY <1>6, ConcatFacts DEF IInv
                  <4>3. commands' = all  BY <1>1
                  <4> HIDE DEF all
                  <4>4. all[Len(commands) + 2] = told[2]  BY <4>1, <4>2
                  <4>5. Len(all) = Len(commands) + 2  BY <3>2, <4>2
                  <4> QED  BY <4>3, <4>4, <4>5
            <3>4. commands' # <<>> /\ Last(commands') = "schedule"
                  <4>1. Len(commands) \in Nat  BY SeqFacts DEF IInv
                  <4>2. Len(commands') # 0  BY <3>3, <4>1
                  <4> QED  BY <3>2, <3>3, <4>2 DEF Last
            <3> QED  BY <3>4 DEF PendingEnds
      <2> QED  BY <2>1, <2>2
<1> QED  BY <1>1, <1>4, <1>7, <1>8 DEF IInv, ActsOnce

\* A timeout leaves nothing waiting, a stale one too (key_resolver.rs:50-90).
LEMMA TimeoutEnds == IInv /\ HandleTimeout => IInv'
<1> SUFFICES ASSUME IInv, HandleTimeout PROVE IInv'  OBVIOUS
<1> DEFINE more == IF pending = <<>> THEN <<>> ELSE Outcome(pending)
<1>1. /\ events # <<>> /\ events' = Tail(events) \o more /\ pending' = <<>>
      /\ UNCHANGED <<commands, called>>
      BY DEF HandleTimeout, screen
<1>2. IsSeq(<<>>)  BY DEF IsSeq
<1>3. IsSeq(more)  BY <1>2, OutcomeIsSeq
<1>4. IsSeq(events')  BY <1>1, <1>3, TailFacts, ConcatFacts DEF IInv
<1>5. PendingEnds'  BY <1>1 DEF PendingEnds
<1> QED  BY <1>1, <1>4, <1>5 DEF IInv, ActsOnce

\* What an action does to the channel: the event itself goes, others come.
Follows(es) == \/ es = Tail(events)
               \/ \E a : es = Append(Tail(events), a)
               \/ \E a, b : es = Append(Append(Tail(events), a), b)

\* An event that is no key and no timeout, answered by at most two others.
LEMMA FollowsEnds ==
    ASSUME IInv, events # <<>>, Head(events).type \notin {"key", "timeout"}, Follows(events'),
           UNCHANGED <<pending, commands, job>>
    PROVE  IsSeq(events') /\ PendingEnds'
<1>1. IsSeq(Tail(events)) /\ (Ends(events) => Ends(Tail(events)))  BY TailEnds DEF IInv
<1>2. IsSeq(events') /\ (Ends(events) => Ends(events'))
      <2>1. ASSUME NEW a PROVE /\ IsSeq(Append(Tail(events), a))
                               /\ (Ends(events) => Ends(Append(Tail(events), a)))
            BY <1>1, AppendEnds
      <2>2. ASSUME NEW a, NEW b
            PROVE  /\ IsSeq(Append(Append(Tail(events), a), b))
                   /\ (Ends(events) => Ends(Append(Append(Tail(events), a), b)))
            BY <2>1, AppendEnds
      <2> QED  BY <1>1, <2>1, <2>2 DEF Follows
<1> QED  BY <1>2, PendingStays DEF IInv

\* A callback is taken out to be called (input_modal.rs:171-188,
\* list_section.rs:125-131).
LEMMA CallOnce ==
    ASSUME ActsOnce, NEW id, Call(id)
    PROVE  ActsOnce'
<1>1. CASE id \in DOMAIN called
      <2>1. called' = called  BY <1>1 DEF Call
      <2> QED  BY <2>1 DEF ActsOnce
<1>2. CASE id \notin DOMAIN called
      <2> DEFINE t == LineOf(<<id>>).text
                 given == With(called, id, <<t>>)
      <2>1. called' = given  BY <1>2 DEF Call
      <2>2. /\ DOMAIN given = {id} \union DOMAIN called
            /\ given[id] = <<t>>
            /\ \A x \in DOMAIN called : given[x] = called[x]
            BY <1>2 DEF With
      <2>3. Len(<<t>>) = 1  OBVIOUS
      <2> HIDE DEF given
      <2>4. ASSUME NEW x \in DOMAIN given PROVE Len(given[x]) = 1
            <3>1. CASE x = id  BY <2>2, <2>3, <3>1
            <3>2. CASE x # id  BY <2>2, <3>2 DEF ActsOnce
            <3> QED  BY <3>1, <3>2
      <2> QED  BY <2>1, <2>4 DEF ActsOnce
<1> QED  BY <1>1, <1>2

\* The two ways in which a modal or pane answers.
Answers == Follows(events') /\ (called' = called \/ \E id : Call(id))

\* Answering an event keeps the invariant.
LEMMA AnswersEnds ==
    ASSUME IInv, events # <<>>, Head(events).type \notin {"key", "timeout"}, Answers,
           UNCHANGED <<pending, commands, job>>
    PROVE  IInv'
<1>1. IsSeq(events') /\ PendingEnds'  BY FollowsEnds DEF Answers
<1>2. ActsOnce'
      <2>1. CASE called' = called  BY <2>1 DEF IInv, ActsOnce
      <2>2. CASE \E id : Call(id)  BY <2>2, CallOnce DEF IInv
      <2> QED  BY <2>1, <2>2 DEF Answers
<1> QED  BY <1>1, <1>2 DEF IInv

\* A modal that is confirmed.
LEMMA ConfirmAnswers ==
    ASSUME NEW top, ConfirmModal(top, Tail(events))
    PROVE  Answers
<1>1. Call(top.id)  BY DEF ConfirmModal
<1>2. PICK prompts \in BOOLEAN :
          events' = Append(IF prompts THEN Append(Tail(events), Prompt) ELSE Tail(events),
                           PopModal(top.id))
      BY DEF ConfirmModal, Hide
<1>3. Follows(events')
      <2>1. CASE prompts   BY <1>2, <2>1 DEF Follows
      <2>2. CASE ~prompts  BY <1>2, <2>2 DEF Follows
      <2> QED  BY <2>1, <2>2
<1> QED  BY <1>1, <1>3 DEF Answers

\* Any action that goes to a modal.
LEMMA ModalAnswers ==
    ASSUME NEW action, NEW top, ModalAction(action, top, Tail(events))
    PROVE  Answers
<1>1. CASE ConfirmModal(top, Tail(events))  BY <1>1, ConfirmAnswers
<1>2. CASE CloseModal(top, Tail(events))
      BY <1>2 DEF CloseModal, Hide, screen, Answers, Follows
<1>3. CASE FocusPrompt(top, Tail(events))
      BY <1>3 DEF FocusPrompt, screen, Answers, Follows
<1>4. CASE Ignore(Tail(events))  BY <1>4 DEF Ignore, screen, Answers, Follows
<1> QED  BY <1>1, <1>2, <1>3, <1>4 DEF ModalAction

\* Any action that goes to the pane.
LEMMA PaneAnswers ==
    ASSUME NEW action, PaneAction(action, Tail(events))
    PROVE  Answers
<1>1. CASE EnterSearch(Tail(events))  BY <1>1 DEF EnterSearch, Answers, Follows
<1>2. CASE Rename(Tail(events))  BY <1>2 DEF Rename, Answers, Follows
<1>3. CASE ContextMenu(Tail(events))  BY <1>3 DEF ContextMenu, Answers, Follows
<1>4. CASE Ignore(Tail(events))  BY <1>4 DEF Ignore, screen, Answers, Follows
<1> QED  BY <1>1, <1>2, <1>3, <1>4 DEF PaneAction

\* A resolved action (event_loop.rs:275-299).
LEMMA ActionEnds == IInv /\ HandleAction => IInv'
<1> SUFFICES ASSUME IInv, HandleAction PROVE IInv'  OBVIOUS
<1>1. /\ events # <<>> /\ Head(events).type = "action"
      /\ UNCHANGED <<pending, commands, job>>
      BY DEF HandleAction, resolver
<1>2. Answers
      <2>1. CASE modals = <<>>  BY <2>1, PaneAnswers DEF HandleAction
      <2>2. CASE modals # <<>>  BY <2>2, ModalAnswers DEF HandleAction
      <2> QED  BY <2>1, <2>2
<1> QED  BY <1>1, <1>2, AnswersEnds

\* Confirm or Close in insert mode (event_loop.rs:300-305).
LEMMA EndEnds == IInv /\ HandleEnd => IInv'
<1> SUFFICES ASSUME IInv, HandleEnd PROVE IInv'  OBVIOUS
<1>1. /\ events # <<>> /\ Head(events).type = "flush"
      /\ UNCHANGED <<pending, commands, job>>
      BY DEF HandleEnd, resolver
<1>2. Answers
      <2>1. CASE modals # <<>> /\ Head(events).action = "Confirm"
            BY <2>1, ConfirmAnswers DEF HandleEnd
      <2>2. CASE ~(modals # <<>> /\ Head(events).action = "Confirm")
            <3>1. events' = Tail(events) /\ called' = called  BY <2>2 DEF HandleEnd
            <3> QED  BY <3>1 DEF Answers, Follows
      <2> QED  BY <2>1, <2>2
<1> QED  BY <1>1, <1>2, AnswersEnds

\* Text for the buffer of the mode (ui/mod.rs:824-864).
LEMMA TextEnds == IInv /\ HandleText => IInv'
<1> SUFFICES ASSUME IInv, HandleText PROVE IInv'  OBVIOUS
<1>1. /\ events # <<>> /\ Head(events).type = "flush" /\ Answers
      /\ UNCHANGED <<pending, commands, job>>
      BY DEF HandleText, resolver, screen, Answers, Follows
<1> QED  BY <1>1, AnswersEnds

\* A modal comes or goes (ui/mod.rs:887-927).
LEMMA ModalEnds == IInv /\ HandleModal => IInv'
<1> SUFFICES ASSUME IInv, HandleModal PROVE IInv'  OBVIOUS
<1>1. /\ events # <<>> /\ Head(events).type \in {"modal", "pop"} /\ Answers
      /\ UNCHANGED <<pending, commands, job>>
      BY DEF HandleModal, resolver, Answers, Follows
<1> QED  BY <1>1, AnswersEnds

\* Every step.
LEMMA NextEnds == IInv /\ [Next]_vars => IInv'
<1> SUFFICES ASSUME IInv, [Next]_vars PROVE IInv'  OBVIOUS
<1>1. CASE Type           BY <1>1, TypeEnds
<1>2. CASE Schedule       BY <1>2, ScheduleEnds
<1>3. CASE Fire           BY <1>3, FireEnds
<1>4. CASE HandleKey      BY <1>4, KeyEnds
<1>5. CASE HandleTimeout  BY <1>5, TimeoutEnds
<1>6. CASE HandleAction   BY <1>6, ActionEnds
<1>7. CASE HandleEnd      BY <1>7, EndEnds
<1>8. CASE HandleText     BY <1>8, TextEnds
<1>9. CASE HandleModal    BY <1>9, ModalEnds
<1>10. CASE UNCHANGED vars
      <2>1. UNCHANGED <<events, commands, job, pending, called>>  BY <1>10 DEF vars
      <2>2. PendingEnds'  BY <2>1, PendingStays DEF IInv
      <2> QED  BY <2>1, <2>2 DEF IInv, ActsOnce
<1> QED  BY <1>1, <1>2, <1>3, <1>4, <1>5, <1>6, <1>7, <1>8, <1>9, <1>10 DEF Next

\* The invariant: what waits has its end coming, and every modal that has acted
\* acted once; the channels are sequences, which the steps above rest on.
THEOREM InputInvariant == Spec => []IInv
BY InitEnds, NextEnds, PTL DEF Spec

\* In every reachable state, while keys wait, a key or timeout is in the channel,
\* a timeout is due, or scheduling one is the last thing the scheduler is told:
\* no stale cancellation leaves a sequence waiting for ever (key_resolver.rs:91-144).
THEOREM SequencesEnd == Spec => []PendingEnds
<1>1. IInv => PendingEnds  BY DEF IInv
<1> QED  BY <1>1, InputInvariant, PTL

\* In every reachable state no prompt or menu has acted twice, although Confirm
\* reaches it again before its PopModal is handled (input_modal.rs:176,
\* list_section.rs:125).
THEOREM PromptsActOnce == Spec => []ActsOnce
<1>1. IInv => ActsOnce  BY DEF IInv
<1> QED  BY <1>1, InputInvariant, PTL

-----------------------------------------------------------------------------
(* Edits one after the other.                                              *)

\* The recursion of EditAll, as far as n keys.
EditedAfter(l, keys, n, f) ==
    [k \in 0..n |-> IF k = 0 THEN l ELSE Edit(f[k - 1], keys[k])]

\* It has a solution for every n.
LEMMA EditedExists ==
    ASSUME NEW l, NEW keys, NEW n \in Nat
    PROVE  \E f : f = EditedAfter(l, keys, n, f)
<1> DEFINE Bad == {m \in Nat : ~ \E f : f = EditedAfter(l, keys, m, f)}
<1> SUFFICES Bad = {}  OBVIOUS
<1> SUFFICES ASSUME Bad # {} PROVE FALSE  OBVIOUS
<1>1. PICK m \in Bad : \A x \in Bad : m <= x
      <2>1. Bad \in SUBSET Nat  OBVIOUS
      <2> HIDE DEF Bad
      <2> QED  BY <2>1, LeastExists
<1>2. CASE m = 0
      <2> DEFINE f == [k \in 0..0 |-> l]
      <2>1. f = EditedAfter(l, keys, 0, f)  BY DEF EditedAfter
      <2> QED  BY <1>2, <2>1
<1>3. CASE m # 0
      <2>1. m \in Nat /\ m - 1 \in Nat /\ ~(m <= m - 1)  BY <1>3
      <2>2. PICK f : f = EditedAfter(l, keys, m - 1, f)  BY <1>1, <2>1
      <2> DEFINE g == [k \in 0..m |-> IF k = m THEN Edit(f[m - 1], keys[m]) ELSE f[k]]
      <2>3. \A k \in 0..m : g[k] = EditedAfter(l, keys, m, g)[k]
            <3> TAKE k \in 0..m
            <3>1. CASE k = m
                  <4>1. g[k] = Edit(f[m - 1], keys[m]) /\ m - 1 \in 0..m /\ m - 1 # m  BY <3>1, <2>1
                  <4>2. g[m - 1] = f[m - 1]  BY <4>1
                  <4> QED  BY <3>1, <4>1, <4>2, <1>3 DEF EditedAfter
            <3>2. CASE k # m
                  <4>1. k \in 0..(m - 1) /\ g[k] = f[k]  BY <3>2, <2>1
                  <4>2. f[k] = EditedAfter(l, keys, m - 1, f)[k]  BY <2>2
                  <4>3. k # 0 => k - 1 \in 0..m /\ k - 1 # m  BY <4>1, <2>1
                  <4>4. k # 0 => g[k - 1] = f[k - 1]  BY <4>3
                  <4> HIDE DEF g
                  <4> QED  BY <4>1, <4>2, <4>4 DEF EditedAfter
            <3> QED  BY <3>1, <3>2
      <2>4. g = EditedAfter(l, keys, m, g)
            <3>1. g = [k \in 0..m |-> g[k]]  OBVIOUS
            <3> HIDE DEF g
            <3> QED  BY <3>1, <2>3 DEF EditedAfter
      <2> HIDE DEF g
      <2> QED  BY <2>4
<1> QED  BY <1>2, <1>3

\* f[n] is the line after n keys.
EditsOf(l, keys, f) == f[0] = l /\ \A n \in 1..Len(keys) : f[n] = Edit(f[n - 1], keys[n])

\* EditAll is the last line of such a function (ui/mod.rs:850-858).
LEMMA EditAllIsLast ==
    ASSUME NEW l, NEW keys, Len(keys) \in Nat
    PROVE  \E f : EditsOf(l, keys, f) /\ EditAll(l, keys) = f[Len(keys)]
<1> DEFINE after[n \in 0..Len(keys)] == IF n = 0 THEN l ELSE Edit(after[n - 1], keys[n])
<1>1. after = EditedAfter(l, keys, Len(keys), after)
      <2>1. after = CHOOSE f : f = EditedAfter(l, keys, Len(keys), f)  BY DEF EditedAfter
      <2> HIDE DEF after
      <2> QED  BY <2>1, EditedExists
<1>2. EditAll(l, keys) = after[Len(keys)]  BY DEF EditAll
<1> HIDE DEF after
<1>3. \A n \in 0..Len(keys) : after[n] = EditedAfter(l, keys, Len(keys), after)[n]  BY <1>1
<1>4. after[0] = l  BY <1>3 DEF EditedAfter
<1>5. \A n \in 1..Len(keys) : n \in 0..Len(keys) /\ n # 0  OBVIOUS
<1>6. \A n \in 1..Len(keys) : after[n] = Edit(after[n - 1], keys[n])  BY <1>3, <1>5 DEF EditedAfter
<1> QED  BY <1>2, <1>4, <1>6 DEF EditsOf

\* From f[k] on f takes one key after the other.
EditsFrom(f, k, keys) == \A n \in 1..Len(keys) : f[k + n] = Edit(f[k + (n - 1)], keys[n])

\* The same keys lead from the same line to the same line.
LEMMA EditsAgree ==
    ASSUME NEW keys, Len(keys) \in Nat, NEW f, NEW g, NEW k \in Nat, f[k] = g[0],
           EditsFrom(f, k, keys), EditsFrom(g, 0, keys)
    PROVE  f[k + Len(keys)] = g[Len(keys)]
<1> DEFINE m == Len(keys)
           Bad == {n \in Nat : n <= m /\ f[k + n] # g[n]}
<1>1. Bad = {}
      <2> SUFFICES ASSUME Bad # {} PROVE FALSE  OBVIOUS
      <2>1. PICK n \in Bad : \A x \in Bad : n <= x
            <3>1. Bad \in SUBSET Nat  OBVIOUS
            <3> HIDE DEF Bad
            <3> QED  BY <3>1, LeastExists
      <2>2. n # 0
            <3>1. k + 0 = k  OBVIOUS
            <3> QED  BY <3>1
      <2>3. n \in 1..m /\ n - 1 \in Nat /\ n - 1 <= m /\ ~(n <= n - 1)  BY <2>2
      <2>4. f[k + (n - 1)] = g[n - 1]  BY <2>1, <2>3
      <2>5. 0 + n = n /\ 0 + (n - 1) = n - 1  BY <2>3
      <2>6. f[k + n] = g[n]
            <3>1. f[k + n] = Edit(f[k + (n - 1)], keys[n])  BY <2>3 DEF EditsFrom
            <3>2. g[0 + n] = Edit(g[0 + (n - 1)], keys[n])  BY <2>3 DEF EditsFrom
            <3> QED  BY <2>4, <2>5, <3>1, <3>2
      <2> QED  BY <2>6
<1> QED  BY <1>1

\* Keys applied in two parts (ui/mod.rs:850-858).
LEMMA EditAllInParts ==
    ASSUME NEW l, NEW a, IsSeq(a), NEW b, IsSeq(b)
    PROVE  EditAll(l, a \o b) = EditAll(EditAll(l, a), b)
<1> DEFINE ab == a \o b
<1>1. /\ Len(a) \in Nat /\ Len(b) \in Nat /\ Len(ab) = Len(a) + Len(b)
      /\ \A i \in 1..Len(a) : ab[i] = a[i]
      /\ \A i \in 1..Len(b) : ab[Len(a) + i] = b[i]
      BY SeqFacts, ConcatFacts
<1> HIDE DEF ab
<1>2. PICK f : EditsOf(l, ab, f) /\ EditAll(l, ab) = f[Len(ab)]  BY <1>1, EditAllIsLast
<1>3. PICK g : EditsOf(l, a, g) /\ EditAll(l, a) = g[Len(a)]  BY <1>1, EditAllIsLast
<1>4. PICK h : EditsOf(EditAll(l, a), b, h) /\ EditAll(EditAll(l, a), b) = h[Len(b)]
      BY <1>1, EditAllIsLast
<1>5. f[0 + Len(a)] = g[Len(a)]
      <2>1. f[0] = g[0]  BY <1>2, <1>3 DEF EditsOf
      <2>2. \A n \in 1..Len(a) : 0 + n = n /\ 0 + (n - 1) = n - 1 /\ n \in 1..Len(ab)
            BY <1>1
      <2>3. EditsFrom(f, 0, a)  BY <1>1, <1>2, <2>2 DEF EditsOf, EditsFrom
      <2>4. EditsFrom(g, 0, a)  BY <1>3, <2>2 DEF EditsOf, EditsFrom
      <2>5. 0 \in Nat  OBVIOUS
      <2> QED  BY <1>1, <2>1, <2>3, <2>4, <2>5, EditsAgree
<1>6. f[Len(a) + Len(b)] = h[Len(b)]
      <2>1. 0 + Len(a) = Len(a)  BY <1>1
      <2>2. f[Len(a)] = h[0]  BY <1>3, <1>4, <1>5, <2>1 DEF EditsOf
      <2>3. EditsFrom(f, Len(a), b)
            <3> SUFFICES ASSUME NEW n \in 1..Len(b)
                         PROVE  f[Len(a) + n] = Edit(f[Len(a) + (n - 1)], b[n])
                BY DEF EditsFrom
            <3>1. /\ (Len(a) + n) - 1 = Len(a) + (n - 1) /\ Len(a) + n \in 1..Len(ab)
                  /\ ab[Len(a) + n] = b[n]
                  BY <1>1
            <3>2. f[Len(a) + n] = Edit(f[(Len(a) + n) - 1], ab[Len(a) + n])
                  BY <1>2, <3>1 DEF EditsOf
            <3> QED  BY <3>1, <3>2
      <2>4. \A n \in 1..Len(b) : 0 + n = n /\ 0 + (n - 1) = n - 1  BY <1>1
      <2>5. EditsFrom(h, 0, b)  BY <1>4, <2>4 DEF EditsOf, EditsFrom
      <2> QED  BY <1>1, <2>2, <2>3, <2>5, EditsAgree
<1> QED  BY <1>1, <1>2, <1>4, <1>6 DEF ab

\* No keys change nothing.
LEMMA EditAllOfNone == ASSUME NEW l PROVE EditAll(l, <<>>) = l
<1>1. Len(<<>>) = 0  OBVIOUS
<1>2. PICK f : EditsOf(l, <<>>, f) /\ EditAll(l, <<>>) = f[Len(<<>>)]  BY <1>1, EditAllIsLast
<1> QED  BY <1>1, <1>2 DEF EditsOf

-----------------------------------------------------------------------------
(* The text in the channel.                                                *)

\* Joining sequences.
LEMMA JoinIsAssociative ==
    \A a, b, c : IsSeq(a) /\ IsSeq(b) /\ IsSeq(c) => (a \o b) \o c = a \o (b \o c)
<1> SUFFICES ASSUME NEW a, NEW b, NEW c, IsSeq(a), IsSeq(b), IsSeq(c)
             PROVE  (a \o b) \o c = a \o (b \o c)
    OBVIOUS
<1>1. PICK A, B, C : a \in Seq(A) /\ b \in Seq(B) /\ c \in Seq(C)  BY DEF IsSeq
<1> DEFINE S == A \union B \union C
<1>2. a \in Seq(S) /\ b \in Seq(S) /\ c \in Seq(S)  BY <1>1
<1> HIDE DEF S
<1> QED  BY <1>2

LEMMA JoinFacts ==
    ASSUME NEW a, IsSeq(a)
    PROVE  /\ a \o <<>> = a /\ <<>> \o a = a
           /\ \A b : IsSeq(b) => IsSeq(a \o b)
<1>1. PICK S : a \in Seq(S)  BY DEF IsSeq
<1>2. a \o <<>> = a /\ <<>> \o a = a  BY <1>1
<1> QED  BY <1>2, ConcatFacts

\* The recursion of FlattenSeq, as far as n sequences.
FlatAfter(s, n, f) == [i \in 1..n |-> IF i = 1 THEN s[i] ELSE f[i - 1] \o s[i]]

\* It has a solution for every n.
LEMMA FlatExists ==
    ASSUME NEW s, NEW n \in Nat
    PROVE  \E f : f = FlatAfter(s, n, f)
<1> DEFINE Bad == {m \in Nat : ~ \E f : f = FlatAfter(s, m, f)}
<1> SUFFICES Bad = {}  OBVIOUS
<1> SUFFICES ASSUME Bad # {} PROVE FALSE  OBVIOUS
<1>1. PICK m \in Bad : \A x \in Bad : m <= x
      <2>1. Bad \in SUBSET Nat  OBVIOUS
      <2> HIDE DEF Bad
      <2> QED  BY <2>1, LeastExists
<1>2. CASE m = 0
      <2> DEFINE f == [i \in 1..0 |-> s]
      <2>1. f = FlatAfter(s, 0, f)  BY DEF FlatAfter
      <2> QED  BY <1>2, <2>1
<1>3. CASE m # 0
      <2>1. m \in Nat /\ m - 1 \in Nat /\ ~(m <= m - 1)  BY <1>3
      <2>2. PICK f : f = FlatAfter(s, m - 1, f)  BY <1>1, <2>1
      <2> DEFINE last == IF m = 1 THEN s[m] ELSE f[m - 1] \o s[m]
                 g == [i \in 1..m |-> IF i = m THEN last ELSE f[i]]
      <2>3. \A i \in 1..m : g[i] = FlatAfter(s, m, g)[i]
            <3> TAKE i \in 1..m
            <3>1. CASE i = m
                  <4>1. g[i] = last  BY <3>1
                  <4>2. m # 1 => m - 1 \in 1..m /\ m - 1 # m  BY <2>1
                  <4>3. m # 1 => g[m - 1] = f[m - 1]  BY <4>2
                  <4> HIDE DEF g
                  <4> QED  BY <3>1, <4>1, <4>3 DEF FlatAfter
            <3>2. CASE i # m
                  <4>1. i \in 1..(m - 1) /\ g[i] = f[i]  BY <3>2, <2>1
                  <4>2. f[i] = FlatAfter(s, m - 1, f)[i]  BY <2>2
                  <4>3. i # 1 => i - 1 \in 1..m /\ i - 1 # m  BY <4>1, <2>1
                  <4>4. i # 1 => g[i - 1] = f[i - 1]  BY <4>3
                  <4> HIDE DEF g
                  <4> QED  BY <4>1, <4>2, <4>4 DEF FlatAfter
            <3> QED  BY <3>1, <3>2
      <2>4. g = FlatAfter(s, m, g)
            <3>1. g = [i \in 1..m |-> g[i]]  OBVIOUS
            <3> HIDE DEF g
            <3> QED  BY <3>1, <2>3 DEF FlatAfter
      <2> HIDE DEF g
      <2> QED  BY <2>4
<1> QED  BY <1>2, <1>3

\* The text of an event, and of all of a channel.
IsText(e)  == e.type = "flush" /\ e.action = None
TextIn(e)  == IF IsText(e) THEN e.keys ELSE <<>>
Queued(es) == FlattenSeq([i \in DOMAIN es |-> TextIn(es[i])])

\* f[n] is the text of the first n events.
TextsOf(es, f) == f[0] = <<>> /\ \A n \in 1..Len(es) : f[n] = f[n - 1] \o TextIn(es[n])

\* A channel whose texts are sequences of keys.
IsChannel(es) == IsSeq(es) /\ \A i \in DOMAIN es : IsSeq(TextIn(es[i]))

\* The text of a channel is the last value of such a function.
LEMMA QueuedIsLast ==
    ASSUME NEW es, IsChannel(es)
    PROVE  \E f : TextsOf(es, f) /\ Queued(es) = f[Len(es)]
<1> DEFINE s == [i \in DOMAIN es |-> TextIn(es[i])]
<1>1. IsSeq(es) /\ Len(es) \in Nat /\ DOMAIN es = 1..Len(es)  BY SeqFacts DEF IsChannel
<1>2. /\ Len(s) = Len(es) /\ \A i \in 1..Len(es) : s[i] = TextIn(es[i])
      /\ Len(es) = 0 => s = <<>>
      <2>1. s = [i \in 1..Len(es) |-> TextIn(es[i])]  BY <1>1
      <2> QED  BY <1>1, <2>1
<1> HIDE DEF s
<1>3. CASE Len(es) = 0
      <2> DEFINE f == [n \in {0} |-> <<>>]
      <2>1. FlattenSeq(s) = f[0]  BY <1>2, <1>3 DEF FlattenSeq
      <2>2. TextsOf(es, f)  BY <1>3 DEF TextsOf
      <2> QED  BY <1>3, <2>1, <2>2 DEF Queued, s
<1>4. CASE Len(es) # 0
      <2> DEFINE flatten[i \in 1..Len(s)] == IF i = 1 THEN s[i] ELSE flatten[i - 1] \o s[i]
      <2>1. flatten = FlatAfter(s, Len(s), flatten)
            <3>1. flatten = CHOOSE f : f = FlatAfter(s, Len(s), f)  BY DEF FlatAfter
            <3> HIDE DEF flatten
            <3> QED  BY <1>1, <1>2, <3>1, FlatExists
      <2>2. FlattenSeq(s) = flatten[Len(s)]  BY <1>2, <1>4 DEF FlattenSeq
      <2> HIDE DEF flatten
      <2>3. \A i \in 1..Len(es) : flatten[i] = IF i = 1 THEN s[i] ELSE flatten[i - 1] \o s[i]
            <3>1. \A i \in 1..Len(s) : flatten[i] = FlatAfter(s, Len(s), flatten)[i]  BY <2>1
            <3> QED  BY <1>2, <3>1 DEF FlatAfter
      <2> DEFINE f == [n \in 0..Len(es) |-> IF n = 0 THEN <<>> ELSE flatten[n]]
      <2>4. f[0] = <<>> /\ \A n \in 1..Len(es) : f[n] = flatten[n]  BY <1>1
      <2> HIDE DEF f
      <2>5. ASSUME NEW n \in 1..Len(es) PROVE f[n] = f[n - 1] \o TextIn(es[n])
            <3>1. CASE n = 1
                  <4>1. IsSeq(TextIn(es[1]))  BY <1>1, <3>1 DEF IsChannel
                  <4>2. <<>> \o TextIn(es[1]) = TextIn(es[1])  BY <4>1, JoinFacts
                  <4>3. f[1 - 1] = <<>>  BY <2>4
                  <4> QED  BY <1>2, <2>3, <2>4, <3>1, <4>2, <4>3
            <3>2. CASE n # 1
                  <4>1. n - 1 \in 1..Len(es)  BY <1>1, <3>2
                  <4> QED  BY <1>2, <2>3, <2>4, <3>2, <4>1
            <3> QED  BY <3>1, <3>2
      <2>6. Queued(es) = f[Len(es)]
            <3>1. Len(es) \in 1..Len(es)  BY <1>1, <1>4
            <3> QED  BY <1>2, <2>2, <2>4, <3>1 DEF Queued, s
      <2> QED  BY <2>4, <2>5, <2>6 DEF TextsOf
<1> QED  BY <1>3, <1>4


\* From f[k] on f takes the texts of one event after the other.
TextsFrom(f, k, es) == \A n \in 1..Len(es) : f[k + n] = f[k + (n - 1)] \o TextIn(es[n])

\* The same events add the same text, whatever came before.
LEMMA TextsAgree ==
    ASSUME NEW es, IsChannel(es), NEW f, NEW g, NEW k \in Nat, NEW x, IsSeq(x),
           IsSeq(g[0]), f[k] = x \o g[0], TextsFrom(f, k, es), TextsFrom(g, 0, es)
    PROVE  f[k + Len(es)] = x \o g[Len(es)] /\ IsSeq(g[Len(es)])
<1> DEFINE m == Len(es)
           Bad == {n \in Nat : n <= m /\ ~(f[k + n] = x \o g[n] /\ IsSeq(g[n]))}
<1>1. m \in Nat /\ DOMAIN es = 1..m  BY SeqFacts DEF IsChannel
<1>2. Bad = {}
      <2> SUFFICES ASSUME Bad # {} PROVE FALSE  OBVIOUS
      <2>1. PICK n \in Bad : \A y \in Bad : n <= y
            <3>1. Bad \in SUBSET Nat  OBVIOUS
            <3> HIDE DEF Bad
            <3> QED  BY <3>1, LeastExists
      <2>2. n # 0
            <3>1. k + 0 = k  OBVIOUS
            <3> QED  BY <3>1
      <2>3. n \in 1..m /\ n - 1 \in Nat /\ n - 1 <= m /\ ~(n <= n - 1)  BY <1>1, <2>2
      <2>4. f[k + (n - 1)] = x \o g[n - 1] /\ IsSeq(g[n - 1])  BY <2>1, <2>3
      <2>5. 0 + n = n /\ 0 + (n - 1) = n - 1  BY <2>3
      <2>6. IsSeq(TextIn(es[n]))  BY <1>1, <2>3 DEF IsChannel
      <2>7. f[k + n] = f[k + (n - 1)] \o TextIn(es[n])  BY <2>3 DEF TextsFrom
      <2>8. g[n] = g[n - 1] \o TextIn(es[n])  BY <2>3, <2>5 DEF TextsFrom
      <2>9. (x \o g[n - 1]) \o TextIn(es[n]) = x \o (g[n - 1] \o TextIn(es[n]))
            <3> DEFINE b == g[n - 1]
                       c == TextIn(es[n])
            <3>1. IsSeq(x) /\ IsSeq(b) /\ IsSeq(c)  BY <2>4, <2>6
            <3> HIDE DEF b, c
            <3>2. (x \o b) \o c = x \o (b \o c)  BY ONLY <3>1, JoinIsAssociative
            <3> QED  BY <3>2 DEF b, c
      <2>10. f[k + n] = x \o g[n]  BY <2>4, <2>7, <2>8, <2>9
      <2>11. IsSeq(g[n])  BY <2>4, <2>6, <2>8, JoinFacts
      <2> QED  BY <2>10, <2>11
<1> QED  BY <1>1, <1>2

\* The text of two channels one after the other.
LEMMA QueuedInParts ==
    ASSUME NEW es, IsChannel(es), NEW ds, IsChannel(ds)
    PROVE  /\ IsChannel(es \o ds) /\ Queued(es \o ds) = Queued(es) \o Queued(ds)
           /\ IsSeq(Queued(es)) /\ IsSeq(Queued(ds))
<1> DEFINE all == es \o ds
<1>1. /\ IsSeq(es) /\ IsSeq(ds) /\ IsSeq(all) /\ Len(es) \in Nat /\ Len(ds) \in Nat
      /\ Len(all) = Len(es) + Len(ds)
      /\ DOMAIN es = 1..Len(es) /\ DOMAIN ds = 1..Len(ds) /\ DOMAIN all = 1..Len(all)
      /\ \A i \in 1..Len(es) : all[i] = es[i]
      /\ \A i \in 1..Len(ds) : all[Len(es) + i] = ds[i]
      BY SeqFacts, ConcatFacts DEF IsChannel
<1> HIDE DEF all
<1>2. IsChannel(all)
      <2> SUFFICES ASSUME NEW i \in 1..Len(all) PROVE IsSeq(TextIn(all[i]))
          BY <1>1 DEF IsChannel
      <2>1. CASE i <= Len(es)
            <3>1. i \in 1..Len(es)  BY <1>1, <2>1
            <3> QED  BY <1>1, <3>1 DEF IsChannel
      <2>2. CASE ~(i <= Len(es))
            <3>1. i - Len(es) \in 1..Len(ds) /\ Len(es) + (i - Len(es)) = i  BY <1>1, <2>2
            <3>2. all[i] = ds[i - Len(es)]  BY <1>1, <3>1
            <3> QED  BY <1>1, <3>1, <3>2 DEF IsChannel
      <2> QED  BY <2>1, <2>2
<1>3. PICK f : TextsOf(all, f) /\ Queued(all) = f[Len(all)]  BY <1>2, QueuedIsLast
<1>4. PICK g : TextsOf(es, g) /\ Queued(es) = g[Len(es)]  BY QueuedIsLast
<1>5. PICK h : TextsOf(ds, h) /\ Queued(ds) = h[Len(ds)]  BY QueuedIsLast
<1>6. f[0] = <<>> /\ g[0] = <<>> /\ h[0] = <<>>  BY <1>3, <1>4, <1>5 DEF TextsOf
<1>7. IsSeq(<<>>) /\ \A s : IsSeq(s) => s \o <<>> = s /\ <<>> \o s = s  BY EmptyIsSeq, JoinFacts
<1>8. f[0 + Len(es)] = <<>> \o g[Len(es)] /\ IsSeq(g[Len(es)])
      <2>1. f[0] = <<>> \o g[0] /\ IsSeq(g[0])  BY <1>6, <1>7
      <2>2. \A n \in 1..Len(es) : 0 + n = n /\ 0 + (n - 1) = n - 1 /\ n \in 1..Len(all)
            BY <1>1
      <2>3. TextsFrom(f, 0, es)  BY <1>1, <1>3, <2>2 DEF TextsOf, TextsFrom
      <2>4. TextsFrom(g, 0, es)  BY <1>4, <2>2 DEF TextsOf, TextsFrom
      <2>5. 0 \in Nat  OBVIOUS
      <2> QED  BY <1>7, <2>1, <2>3, <2>4, <2>5, TextsAgree
<1>9. f[Len(es)] = g[Len(es)]
      <2>1. 0 + Len(es) = Len(es)  BY <1>1
      <2> QED  BY <1>7, <1>8, <2>1
<1>10. f[Len(es) + Len(ds)] = g[Len(es)] \o h[Len(ds)] /\ IsSeq(h[Len(ds)])
      <2>1. f[Len(es)] = g[Len(es)] \o h[0] /\ IsSeq(h[0])  BY <1>6, <1>7, <1>8, <1>9
      <2>2. TextsFrom(f, Len(es), ds)
            <3> SUFFICES ASSUME NEW n \in 1..Len(ds)
                         PROVE  f[Len(es) + n] = f[Len(es) + (n - 1)] \o TextIn(ds[n])
                BY DEF TextsFrom
            <3>1. /\ (Len(es) + n) - 1 = Len(es) + (n - 1) /\ Len(es) + n \in 1..Len(all)
                  /\ all[Len(es) + n] = ds[n]
                  BY <1>1
            <3>2. f[Len(es) + n] = f[(Len(es) + n) - 1] \o TextIn(all[Len(es) + n])
                  BY <1>3, <3>1 DEF TextsOf
            <3> QED  BY <3>1, <3>2
      <2>3. \A n \in 1..Len(ds) : 0 + n = n /\ 0 + (n - 1) = n - 1  BY <1>1
      <2>4. TextsFrom(h, 0, ds)  BY <1>5, <2>3 DEF TextsOf, TextsFrom
      <2> QED  BY <1>1, <1>8, <2>1, <2>2, <2>4, TextsAgree
<1>11. Queued(all) = Queued(es) \o Queued(ds)  BY <1>1, <1>3, <1>4, <1>5, <1>10
<1> QED  BY <1>2, <1>4, <1>5, <1>8, <1>10, <1>11 DEF all

\* An empty channel, and a channel of one event.
LEMMA QueuedOfOne ==
    /\ IsChannel(<<>>) /\ Queued(<<>>) = <<>>
    /\ \A e : IsSeq(TextIn(e)) => IsChannel(<<e>>) /\ Queued(<<e>>) = TextIn(e)
<1>1. IsChannel(<<>>) /\ Queued(<<>>) = <<>>
      <2>1. IsChannel(<<>>)  BY EmptyIsSeq DEF IsChannel
      <2>2. PICK f : TextsOf(<<>>, f) /\ Queued(<<>>) = f[Len(<<>>)]  BY <2>1, QueuedIsLast
      <2>3. Len(<<>>) = 0  OBVIOUS
      <2> QED  BY <2>1, <2>2, <2>3 DEF TextsOf
<1>2. ASSUME NEW e, IsSeq(TextIn(e)) PROVE IsChannel(<<e>>) /\ Queued(<<e>>) = TextIn(e)
      <2> DEFINE es == <<e>>
      <2>1. es \in Seq({e}) /\ Len(es) = 1 /\ es[1] = e  OBVIOUS
      <2> HIDE DEF es
      <2>2. IsSeq(es) /\ DOMAIN es = 1..1  BY <2>1 DEF IsSeq
      <2>3. IsChannel(es)  BY <1>2, <2>1, <2>2 DEF IsChannel
      <2>4. PICK f : TextsOf(es, f) /\ Queued(es) = f[Len(es)]  BY <2>3, QueuedIsLast
      <2>5. f[0] = <<>> /\ f[1] = f[1 - 1] \o TextIn(es[1])  BY <2>1, <2>4 DEF TextsOf
      <2>6. f[1] = <<>> \o TextIn(e)
            <3>1. 1 - 1 = 0  OBVIOUS
            <3> QED  BY <2>1, <2>5, <3>1
      <2>7. <<>> \o TextIn(e) = TextIn(e)  BY <1>2, JoinFacts
      <2> QED  BY <2>1, <2>3, <2>4, <2>6, <2>7 DEF es
<1> QED  BY <1>1, <1>2

\* Sending an event.
LEMMA QueuedAppend ==
    ASSUME NEW es, IsChannel(es), NEW e, IsSeq(TextIn(e))
    PROVE  IsChannel(Append(es, e)) /\ Queued(Append(es, e)) = Queued(es) \o TextIn(e)
<1>1. PICK S : es \in Seq(S)  BY DEF IsChannel, IsSeq
<1>2. Append(es, e) = es \o <<e>>
      <2>1. es \in Seq(S \union {e})  BY <1>1
      <2> QED  BY <2>1
<1> QED  BY <1>2, QueuedOfOne, QueuedInParts

\* An event that is not text.
LEMMA QueuedOther ==
    ASSUME NEW es, IsChannel(es), NEW e, ~IsText(e)
    PROVE  IsChannel(Append(es, e)) /\ Queued(Append(es, e)) = Queued(es)
<1>1. TextIn(e) = <<>> /\ IsSeq(<<>>)  BY EmptyIsSeq DEF TextIn
<1>2. IsSeq(Queued(es))  BY QueuedOfOne, QueuedInParts
<1>3. Queued(es) \o <<>> = Queued(es)  BY <1>1, <1>2, JoinFacts
<1> QED  BY <1>1, <1>3, QueuedAppend

\* Taking an event.
LEMMA QueuedTail ==
    ASSUME NEW es, IsChannel(es), es # <<>>
    PROVE  /\ IsChannel(Tail(es)) /\ IsSeq(TextIn(Head(es)))
           /\ Queued(es) = TextIn(Head(es)) \o Queued(Tail(es))
<1>1. PICK S : es \in Seq(S)  BY DEF IsChannel, IsSeq
<1>2. /\ IsSeq(Tail(es)) /\ Len(Tail(es)) = Len(es) - 1 /\ Len(es) \in Nat \ {0}
      /\ \A i \in 1..(Len(es) - 1) : Tail(es)[i] = es[i + 1]
      /\ Head(es) = es[1] /\ DOMAIN es = 1..Len(es)
      BY TailFacts, SeqFacts DEF IsChannel
<1>3. IsSeq(TextIn(Head(es)))  BY <1>2 DEF IsChannel
<1>4. IsChannel(Tail(es))
      <2>1. DOMAIN Tail(es) = 1..(Len(es) - 1)  BY <1>2, SeqFacts
      <2>2. \A i \in 1..(Len(es) - 1) : i + 1 \in 1..Len(es)  BY <1>2
      <2> QED  BY <1>2, <2>1, <2>2 DEF IsChannel
<1>5. es = <<Head(es)>> \o Tail(es)  BY <1>1
<1>6. IsChannel(<<Head(es)>>) /\ Queued(<<Head(es)>>) = TextIn(Head(es))
      BY <1>3, QueuedOfOne
<1>7. Queued(<<Head(es)>> \o Tail(es)) = Queued(<<Head(es)>>) \o Queued(Tail(es))
      BY <1>4, <1>6, QueuedInParts
<1> QED  BY <1>3, <1>4, <1>5, <1>6, <1>7

\* A channel without text.
LEMMA NothingQueued ==
    ASSUME NEW es, IsChannel(es), \A i \in DOMAIN es : ~IsText(es[i])
    PROVE  Queued(es) = <<>>
<1>1. PICK f : TextsOf(es, f) /\ Queued(es) = f[Len(es)]  BY QueuedIsLast
<1>2. Len(es) \in Nat /\ DOMAIN es = 1..Len(es)  BY SeqFacts DEF IsChannel
<1> DEFINE Bad == {n \in Nat : n <= Len(es) /\ f[n] # <<>>}
<1>3. Bad = {}
      <2> SUFFICES ASSUME Bad # {} PROVE FALSE  OBVIOUS
      <2>1. PICK n \in Bad : \A y \in Bad : n <= y
            <3>1. Bad \in SUBSET Nat  OBVIOUS
            <3> HIDE DEF Bad
            <3> QED  BY <3>1, LeastExists
      <2>2. n # 0  BY <1>1 DEF TextsOf
      <2>3. n \in 1..Len(es) /\ n - 1 \in Nat /\ n - 1 <= Len(es) /\ ~(n <= n - 1)  BY <1>2, <2>2
      <2>4. f[n - 1] = <<>>  BY <2>1, <2>3
      <2>5. TextIn(es[n]) = <<>>  BY <1>2, <2>3 DEF TextIn
      <2>6. f[n] = f[n - 1] \o TextIn(es[n])  BY <1>1, <2>3 DEF TextsOf
      <2>7. <<>> \o <<>> = <<>>  BY EmptyIsSeq, JoinFacts
      <2> QED  BY <2>4, <2>5, <2>6, <2>7
<1> QED  BY <1>1, <1>2, <1>3

-----------------------------------------------------------------------------
(* What has been typed is what has been applied and what is on its way.    *)

\* The history has been kept for as long as keys went to this buffer.
IsHistory(s) == s = [start |-> s.start, keys |-> s.keys, clean |-> s.clean] /\ IsSeq(s.keys)

\* The keys p have been applied to the line, and q are still to be.
AppliedAre(p, q, line) ==
    IsSeq(p) /\ session.keys = p \o q /\ line = EditAll(session.start, p)

TextInv ==
    /\ IsChannel(events) /\ IsSeq(pending) /\ IsHistory(session)
    /\ mode # Normal /\ session.clean =>
           \E p : AppliedAre(p, Queued(events) \o pending, LineOf(mode))

\* It is what the property says of the line (event_loop.rs:261, ui/mod.rs:848-862).
LEMMA TextInvArrives == TextInv => TextArrives
<1> SUFFICES ASSUME TextInv, mode # Normal, session.clean
             PROVE  EditAll(LineOf(mode), QueuedText \o pending)
                    = EditAll(session.start, session.keys)
    BY DEF TextArrives
<1>1. PICK p : AppliedAre(p, Queued(events) \o pending, LineOf(mode))  BY DEF TextInv
<1>2. QueuedText = Queued(events)  BY DEF QueuedText, Queued, TextIn, IsText
<1> DEFINE q == Queued(events) \o pending
<1>3. IsSeq(Queued(events))  BY QueuedOfOne, QueuedInParts DEF TextInv
<1>4. IsSeq(q)  BY <1>3, JoinFacts DEF TextInv
<1> HIDE DEF q
<1>5. EditAll(session.start, p \o q) = EditAll(EditAll(session.start, p), q)
      BY <1>1, <1>4, EditAllInParts DEF AppliedAre
<1> QED  BY <1>1, <1>2, <1>5 DEF AppliedAre, q

\* Who sends no text and leaves mode, buffers and resolver alone.
LEMMA TextStays ==
    ASSUME TextInv, IsChannel(events'), Queued(events') = Queued(events),
           UNCHANGED <<pending, mode, lines, session>>
    PROVE  TextInv'
BY DEF TextInv, IsHistory, AppliedAre, LineOf

\* The mode is entered: what is in the channel is not for it, or the history is
\* not clean (ui/input/mod.rs:23-58).
LEMMA EnterKeeps ==
    ASSUME TextInv, NEW m, NEW ls, IsChannel(events'), EnterMode(m, ls, events'),
           UNCHANGED pending
    PROVE  TextInv'
<1> DEFINE start == IF m \in DOMAIN ls THEN ls[m] ELSE EmptyLine
           clean == /\ pending = <<>>
                    /\ \A i \in DOMAIN events' : events'[i].type \notin {"flush", "action"}
<1>1. /\ mode' = m /\ lines' = ls
      /\ session' = IF m = Normal THEN NoSession
                    ELSE [start |-> start, keys |-> <<>>, clean |-> clean]
      BY DEF EnterMode
<1>2. LineOf(mode)' = start  BY <1>1 DEF LineOf
<1> HIDE DEF start
<1>3. IsSeq(pending')  BY DEF TextInv
<1>4. CASE m = Normal
      <2>1. session' = NoSession  BY <1>1, <1>4
      <2>2. IsHistory(session')  BY <2>1, EmptyIsSeq DEF IsHistory, NoSession
      <2> QED  BY <1>1, <1>3, <1>4, <2>2 DEF TextInv
<1>5. CASE m # Normal
      <2> HIDE DEF clean
      <2>1. /\ session' = [start |-> start, keys |-> <<>>, clean |-> clean]
            /\ session'.start = start /\ session'.keys = <<>> /\ session'.clean = clean
            BY <1>1, <1>5
      <2>2. IsHistory(session')  BY <2>1, EmptyIsSeq DEF IsHistory
      <2>3. ASSUME clean PROVE AppliedAre(<<>>, Queued(events) \o pending, LineOf(mode))'
            <3>1. \A i \in DOMAIN events' : ~IsText(events'[i])  BY <2>3 DEF clean, IsText
            <3>2. Queued(events') = <<>>  BY <3>1, NothingQueued
            <3>3. pending' = <<>>  BY <2>3 DEF clean
            <3>4. <<>> \o <<>> = <<>>  BY EmptyIsSeq, JoinFacts
            <3>5. start = EditAll(start, <<>>)  BY EditAllOfNone
            <3> QED  BY <1>2, <2>1, <3>2, <3>3, <3>4, <3>5, EmptyIsSeq DEF AppliedAre
      <2> QED  BY <1>3, <2>1, <2>2, <2>3 DEF TextInv
<1> QED  BY <1>4, <1>5

LEMMA InitText == Init => TextInv
<1> SUFFICES ASSUME Init PROVE TextInv  OBVIOUS
<1>1. events = <<>> /\ pending = <<>> /\ mode = Normal /\ session = NoSession  BY DEF Init
<1>2. IsHistory(session)  BY <1>1, EmptyIsSeq DEF IsHistory, NoSession
<1> QED  BY <1>1, <1>2, EmptyIsSeq, QueuedOfOne DEF TextInv

\* A key is typed, or a job fires.
LEMMA ArrivalKeepsText == TextInv /\ (Type \/ Fire) => TextInv'
<1> SUFFICES ASSUME TextInv, Type \/ Fire PROVE TextInv'  OBVIOUS
<1>1. /\ \E e : ~IsText(e) /\ events' = Append(events, e)
      /\ UNCHANGED <<pending, mode, lines, session>>
      BY DEF Type, Fire, Key, KeyTimeout, IsText, resolver, input
<1>2. IsChannel(events') /\ Queued(events') = Queued(events)  BY <1>1, QueuedOther DEF TextInv
<1> QED  BY <1>1, <1>2, TextStays

LEMMA ScheduleKeepsText == TextInv /\ Schedule => TextInv'
<1> SUFFICES ASSUME TextInv, Schedule PROVE TextInv'  OBVIOUS
<1>1. UNCHANGED <<events, pending, mode, lines, session>>  BY DEF Schedule, input
<1> QED  BY <1>1, TextStays DEF TextInv

\* Taking an event that is not text.
LEMMA TailOther ==
    ASSUME TextInv, events # <<>>, ~IsText(Head(events))
    PROVE  IsChannel(Tail(events)) /\ Queued(Tail(events)) = Queued(events)
<1>1. IsChannel(Tail(events)) /\ Queued(events) = TextIn(Head(events)) \o Queued(Tail(events))
      BY QueuedTail DEF TextInv
<1>2. TextIn(Head(events)) = <<>>  BY DEF TextIn
<1>3. IsSeq(Queued(Tail(events)))  BY <1>1, QueuedOfOne, QueuedInParts
<1>4. <<>> \o Queued(Tail(events)) = Queued(Tail(events))  BY <1>3, JoinFacts
<1> QED  BY <1>1, <1>2, <1>4

\* A modal comes or goes (ui/mod.rs:887-927).
LEMMA ModalKeepsText == TextInv /\ HandleModal => TextInv'
<1> SUFFICES ASSUME TextInv, HandleModal PROVE TextInv'  OBVIOUS
<1>1. /\ events # <<>> /\ events' = Tail(events) /\ Head(events).type \in {"modal", "pop"}
      /\ UNCHANGED <<pending, mode, lines, session>>
      BY DEF HandleModal, resolver, input
<1>2. ~IsText(Head(events))  BY <1>1 DEF IsText
<1> QED  BY <1>1, <1>2, TailOther, TextStays

\* Text is applied to the buffer of the mode (ui/mod.rs:848-862).
LEMMA TextKeepsText == TextInv /\ HandleText => TextInv'
<1> SUFFICES ASSUME TextInv, HandleText PROVE TextInv'  OBVIOUS
<1> DEFINE t == Head(events).keys
           rest == Queued(Tail(events))
           line == EditAll(LineOf(mode), t)
<1>1. /\ events # <<>> /\ IsText(Head(events)) /\ events' = Tail(events)
      /\ lines' = (IF mode = Normal THEN lines ELSE With(lines, mode, line))
      /\ UNCHANGED <<pending, mode, session>>
      BY DEF HandleText, resolver, IsText
<1>2. IsChannel(Tail(events)) /\ IsSeq(t) /\ Queued(events) = t \o rest
      BY <1>1, QueuedTail DEF TextInv, TextIn
<1>3. IsSeq(rest)  BY <1>2, QueuedOfOne, QueuedInParts
<1> HIDE DEF t, rest
<1>4. IsHistory(session')  BY <1>1 DEF TextInv, IsHistory
<1>5. ASSUME mode # Normal, session.clean
      PROVE  (\E p : AppliedAre(p, Queued(events) \o pending, LineOf(mode)))'
      <2>1. LineOf(mode)' = line
            <3>1. lines' = With(lines, mode, line)  BY <1>1, <1>5
            <3> HIDE DEF line
            <3>2. mode \in DOMAIN With(lines, mode, line) /\ With(lines, mode, line)[mode] = line
                  BY DEF With
            <3> QED  BY <1>1, <3>1, <3>2 DEF LineOf
      <2>2. PICK p : AppliedAre(p, Queued(events) \o pending, LineOf(mode))
            BY <1>5 DEF TextInv
      <2> DEFINE q == rest \o pending
      <2>3. IsSeq(pending)  BY DEF TextInv
      <2>4. IsSeq(q) /\ (t \o rest) \o pending = t \o q
            BY <1>2, <1>3, <2>3, JoinFacts, JoinIsAssociative
      <2> HIDE DEF q
      <2>5. IsSeq(p) /\ session.keys = p \o (t \o q)  BY <1>2, <2>2, <2>4 DEF AppliedAre
      <2>6. session.keys = (p \o t) \o q /\ IsSeq(p \o t)
            BY <1>2, <2>4, <2>5, JoinFacts, JoinIsAssociative
      <2>7. EditAll(session.start, p \o t) = line
            BY <1>2, <2>2, <2>5, EditAllInParts DEF AppliedAre
      <2>8. Queued(events') \o pending' = q  BY <1>1 DEF q, rest
      <2> HIDE DEF line
      <2> PICK applied : applied = p \o t  OBVIOUS
      <2>9. /\ session'.start = session.start /\ session'.keys = session.keys
            /\ IsSeq(applied) /\ session.keys = applied \o q
            /\ EditAll(session.start, applied) = line
            BY <1>1, <2>6, <2>7
      <2>10. AppliedAre(applied, Queued(events) \o pending, LineOf(mode))'
            BY <2>1, <2>8, <2>9 DEF AppliedAre
      <2> QED  BY <2>10
<1>6. IsSeq(pending')  BY <1>1 DEF TextInv
<1>7. IsChannel(events')  BY <1>1, <1>2
<1>8. mode' = mode /\ session' = session  BY <1>1
<1> QED  BY <1>4, <1>5, <1>6, <1>7, <1>8 DEF TextInv

\* What comes of keys: an event that is not text, nothing, or all of them as text.
LEMMA OutcomeIs ==
    ASSUME NEW keys, IsSeq(keys)
    PROVE  /\ IsChannel(Outcome(keys))
           /\ mode # Normal => Queued(Outcome(keys)) = IF IsBound(keys, mode) THEN <<>> ELSE keys
<1>1. ASSUME NEW e, ~IsText(e)
      PROVE  IsChannel(<<e>>) /\ Queued(<<e>>) = <<>>
      <2>1. TextIn(e) = <<>>  BY <1>1 DEF TextIn
      <2> QED  BY <2>1, EmptyIsSeq, QueuedOfOne
<1>2. CASE mode = Normal
      <2>1. ~IsText(Resolved(Bindings[keys]))  BY DEF Resolved, IsText
      <2>2. Outcome(keys) = <<Resolved(Bindings[keys])>> \/ Outcome(keys) = <<>>
            BY <1>2 DEF Outcome
      <2> QED  BY <1>1, <1>2, <2>1, <2>2, QueuedOfOne
<1>3. CASE mode # Normal /\ IsBound(keys, mode)
      <2>1. Bindings[keys] \in InsertActions
            BY <1>3 DEF IsBound, BindingsOf, Restrict
      <2>2. Bindings[keys] # None  BY <2>1 DEF InsertActions, None
      <2>3. ~IsText(Flush(Bindings[keys], keys))  BY <2>2 DEF Flush, IsText
      <2>4. Outcome(keys) = <<Flush(Bindings[keys], keys)>>  BY <1>3 DEF Outcome
      <2> QED  BY <1>1, <1>3, <2>3, <2>4
<1>4. CASE mode # Normal /\ ~IsBound(keys, mode)
      <2>1. TextIn(Flush(None, keys)) = keys  BY DEF Flush, IsText, TextIn
      <2>2. Outcome(keys) = <<Flush(None, keys)>>  BY <1>4 DEF Outcome
      <2> QED  BY <1>4, <2>1, <2>2, QueuedOfOne
<1> QED  BY <1>2, <1>3, <1>4

\* The keys of an action are not text: what was typed before them is left.
LEMMA CutJoined ==
    ASSUME NEW a, IsSeq(a), NEW b, IsSeq(b)
    PROVE  SubSeq(a \o b, 1, Len(a \o b) - Len(b)) = a
<1>1. PICK S, T : a \in Seq(S) /\ b \in Seq(T)  BY DEF IsSeq
<1>2. a \in Seq(S \union T) /\ b \in Seq(S \union T)  BY <1>1
<1>3. Len(a \o b) - Len(b) = Len(a)  BY <1>2
<1>4. SubSeq(a \o b, 1, Len(a)) = a  BY <1>2
<1> QED  BY <1>3, <1>4

\* A part of a sequence is one.
LEMMA CutIsSeq ==
    ASSUME NEW s, IsSeq(s), NEW t, IsSeq(t)
    PROVE  IsSeq(SubSeq(s, 1, Len(s) - Len(t)))
<1>1. PICK S : s \in Seq(S)  BY DEF IsSeq
<1> DEFINE n == Len(s) - Len(t)
<1>2. n \in Int /\ n <= Len(s)  BY SeqFacts
<1> HIDE DEF n
<1>3. SubSeq(s, 1, n) \in Seq(S)  BY <1>1, <1>2
<1> QED  BY <1>3 DEF IsSeq, n

\* The history of a key, or of a timeout, which brings none.
LEMMA RecordIs ==
    ASSUME NEW key, NEW keys, NEW done, IsHistory(session), Record(key, keys, done)
    PROVE  /\ session'.start = session.start /\ session'.clean = session.clean
           /\ session' = [start |-> session'.start, keys |-> session'.keys,
                          clean |-> session'.clean]
           /\ mode # Normal => session'.keys =
                 IF done /\ IsBound(keys, mode)
                 THEN SubSeq(session.keys, 1, Len(session.keys) - Len(pending))
                 ELSE session.keys \o key
           /\ mode = Normal => session' = session
<1> DEFINE new == IF done /\ IsBound(keys, mode)
                  THEN SubSeq(session.keys, 1, Len(session.keys) - Len(pending))
                  ELSE session.keys \o key
<1>1. session = [start |-> session.start, keys |-> session.keys, clean |-> session.clean]
      BY DEF IsHistory
<1>2. session' = IF mode = Normal THEN session ELSE [session EXCEPT !.keys = new]
      BY DEF Record
<1> HIDE DEF new
<1>3. CASE mode = Normal  BY <1>1, <1>2, <1>3
<1>4. CASE mode # Normal
      <2>1. session' = [start |-> session.start, keys |-> new, clean |-> session.clean]
            BY <1>1, <1>2, <1>4
      <2> QED  BY <1>4, <2>1 DEF new
<1> QED  BY <1>3, <1>4

\* The resolver has taken keys: what comes of them and what waits now add up
\* (key_resolver.rs:50-158).
LEMMA ResolverKeepsText ==
    ASSUME TextInv, NEW key, IsSeq(key), NEW more, IsChannel(more),
           events # <<>>, ~IsText(Head(events)), events' = Tail(events) \o more,
           UNCHANGED <<mode, lines>>, IsSeq(pending'), IsHistory(session'),
           session'.start = session.start, session'.clean = session.clean,
           mode # Normal =>
              \/ /\ session'.keys = session.keys \o key
                 /\ Queued(more) \o pending' = pending \o key
              \/ /\ session'.keys = SubSeq(session.keys, 1, Len(session.keys) - Len(pending))
                 /\ Queued(more) \o pending' = <<>>
    PROVE  TextInv'
<1> DEFINE old == Queued(events)
           new == Queued(more)
<1>1. /\ IsChannel(events') /\ Queued(events') = old \o new /\ IsSeq(old) /\ IsSeq(new)
      /\ IsSeq(pending)
      BY TailOther, QueuedInParts DEF TextInv
<1>2. Queued(events') \o pending' = old \o (new \o pending')
      <2> DEFINE w == pending'
      <2>1. IsSeq(old) /\ IsSeq(new) /\ IsSeq(w)  BY <1>1
      <2> HIDE DEF old, new, w
      <2>2. (old \o new) \o w = old \o (new \o w)  BY ONLY <2>1, JoinIsAssociative
      <2> QED  BY <1>1, <2>2 DEF w
<1> HIDE DEF old
<1>3. ASSUME mode # Normal, session.clean
      PROVE  (\E p : AppliedAre(p, Queued(events) \o pending, LineOf(mode)))'
      <2>1. PICK p : AppliedAre(p, old \o pending, LineOf(mode))
            BY <1>3 DEF TextInv, old
      <2>2. LineOf(mode)' = LineOf(mode)  BY DEF LineOf
      <2>3. IsSeq(p) /\ session.keys = p \o (old \o pending) /\ LineOf(mode) = EditAll(session.start, p)
            BY <2>1 DEF AppliedAre
      <2>4. IsSeq(old \o pending) /\ IsSeq(p \o old)  BY <1>1, <2>3, JoinFacts
      <2> DEFINE w == pending
      <2>5. session.keys = (p \o old) \o pending
            <3>1. IsSeq(p) /\ IsSeq(old) /\ IsSeq(w)  BY <1>1, <2>3
            <3> HIDE DEF w
            <3>2. (p \o old) \o w = p \o (old \o w)  BY ONLY <3>1, JoinIsAssociative
            <3> QED  BY <2>3, <3>2 DEF w
      <2>6. session'.keys = p \o (old \o (new \o pending'))
            <3>1. CASE /\ session'.keys = session.keys \o key
                       /\ new \o pending' = pending \o key
                  <4> DEFINE ow == old \o w
                  <4>1. IsSeq(p) /\ IsSeq(old) /\ IsSeq(w) /\ IsSeq(ow) /\ IsSeq(key)
                        BY <1>1, <2>3, <2>4
                  <4> HIDE DEF w
                  <4>2. ow \o key = old \o (w \o key)  BY ONLY <4>1, JoinIsAssociative DEF ow
                  <4> HIDE DEF ow
                  <4>3. (p \o ow) \o key = p \o (ow \o key)  BY ONLY <4>1, JoinIsAssociative
                  <4> QED  BY <2>3, <3>1, <4>2, <4>3 DEF w, ow
            <3>2. CASE /\ session'.keys = SubSeq(session.keys, 1, Len(session.keys) - Len(pending))
                       /\ new \o pending' = <<>>
                  <4>1. session'.keys = p \o old  BY <1>1, <2>4, <2>5, <3>2, CutJoined
                  <4>2. old \o <<>> = old  BY <1>1, JoinFacts
                  <4> QED  BY <3>2, <4>1, <4>2
            <3> QED  BY <1>3, <3>1, <3>2
      <2>7. AppliedAre(p, Queued(events) \o pending, LineOf(mode))'
            BY <1>2, <2>2, <2>3, <2>6 DEF AppliedAre
      <2> QED  BY <2>7
<1>4. mode' = mode /\ session'.clean = session.clean  OBVIOUS
<1> QED  BY <1>1, <1>3, <1>4 DEF TextInv

\* A key waits, is text with those that waited, or ends an action
\* (key_resolver.rs:92-158).
LEMMA KeyKeepsText == TextInv /\ HandleKey => TextInv'
<1> SUFFICES ASSUME TextInv, HandleKey PROVE TextInv'  OBVIOUS
<1> DEFINE key == Head(events).key
           keys == Append(pending, key)
           waits == GoesOn(keys, mode)
           more == IF waits THEN <<>> ELSE Outcome(keys)
<1>1. /\ events # <<>> /\ ~IsText(Head(events)) /\ events' = Tail(events) \o more
      /\ pending' = (IF waits THEN keys ELSE <<>>)
      /\ Record(<<key>>, keys, ~waits) /\ UNCHANGED <<mode, lines>>
      BY DEF HandleKey, IsText, input
<1> HIDE DEF key
<1>2. IsSeq(pending) /\ IsHistory(session)  BY DEF TextInv
<1>3. IsSeq(keys) /\ IsSeq(<<key>>) /\ keys = pending \o <<key>>
      <2>1. PICK S : pending \in Seq(S)  BY <1>2 DEF IsSeq
      <2>2. pending \in Seq(S \union {key}) /\ <<key>> \in Seq(S \union {key})  BY <2>1
      <2>3. keys = pending \o <<key>>  BY <2>2
      <2>4. keys \in Seq(S \union {key})  BY <2>2
      <2> QED  BY <2>2, <2>3, <2>4 DEF IsSeq
<1> HIDE DEF keys, waits
<1>4. IsChannel(Outcome(keys)) /\ IsChannel(more)  BY <1>3, OutcomeIs, QueuedOfOne
<1>5. IsSeq(pending')  BY <1>1, <1>3, EmptyIsSeq
<1>6. /\ session'.start = session.start /\ session'.clean = session.clean
      /\ session' = [start |-> session'.start, keys |-> session'.keys,
                     clean |-> session'.clean]
      /\ mode # Normal => session'.keys =
            IF ~waits /\ IsBound(keys, mode)
            THEN SubSeq(session.keys, 1, Len(session.keys) - Len(pending))
            ELSE session.keys \o <<key>>
      /\ mode = Normal => session' = session
      BY <1>1, <1>2, RecordIs
<1>7. IsSeq(session'.keys)
      <2>1. IsSeq(session.keys \o <<key>>)  BY <1>2, <1>3, JoinFacts DEF IsHistory
      <2>2. IsSeq(SubSeq(session.keys, 1, Len(session.keys) - Len(pending)))
            BY <1>2, CutIsSeq DEF IsHistory
      <2> QED  BY <1>2, <1>6, <2>1, <2>2 DEF IsHistory
<1>8. IsHistory(session')  BY <1>6, <1>7 DEF IsHistory
<1>9. <<>> \o <<>> = <<>> /\ keys \o <<>> = keys /\ <<>> \o keys = keys
      BY <1>3, EmptyIsSeq, JoinFacts
<1>10. ASSUME mode # Normal
       PROVE  \/ /\ session'.keys = session.keys \o <<key>>
                 /\ Queued(more) \o pending' = pending \o <<key>>
              \/ /\ session'.keys = SubSeq(session.keys, 1, Len(session.keys) - Len(pending))
                 /\ Queued(more) \o pending' = <<>>
      <2>1. CASE waits
            <3>1. Queued(more) = <<>>  BY <2>1, QueuedOfOne
            <3> QED  BY <1>1, <1>3, <1>6, <1>9, <1>10, <2>1, <3>1
      <2>2. CASE ~waits
            <3>1. Queued(more) = IF IsBound(keys, mode) THEN <<>> ELSE keys
                  BY <1>3, <1>10, <2>2, OutcomeIs
            <3> HIDE DEF more
            <3> QED  BY <1>1, <1>3, <1>6, <1>9, <1>10, <2>2, <3>1
      <2> QED  BY <2>1, <2>2
<1> HIDE DEF more
<1> QED  BY <1>1, <1>3, <1>4, <1>5, <1>6, <1>8, <1>10, ResolverKeepsText

\* A timeout makes text of what waits, or ends an action (key_resolver.rs:50-90).
LEMMA TimeoutKeepsText == TextInv /\ HandleTimeout => TextInv'
<1> SUFFICES ASSUME TextInv, HandleTimeout PROVE TextInv'  OBVIOUS
<1> DEFINE more == IF pending = <<>> THEN <<>> ELSE Outcome(pending)
<1>1. /\ events # <<>> /\ ~IsText(Head(events)) /\ events' = Tail(events) \o more
      /\ pending' = <<>> /\ Record(<<>>, pending, TRUE) /\ UNCHANGED <<mode, lines>>
      BY DEF HandleTimeout, IsText, input
<1>2. IsSeq(pending) /\ IsHistory(session) /\ IsSeq(<<>>)  BY EmptyIsSeq DEF TextInv
<1>3. IsChannel(more)  BY <1>2, OutcomeIs, QueuedOfOne
<1>4. /\ session'.start = session.start /\ session'.clean = session.clean
      /\ session' = [start |-> session'.start, keys |-> session'.keys,
                     clean |-> session'.clean]
      /\ mode # Normal => session'.keys =
            IF IsBound(pending, mode)
            THEN SubSeq(session.keys, 1, Len(session.keys) - Len(pending))
            ELSE session.keys \o <<>>
      /\ mode = Normal => session' = session
      BY <1>1, <1>2, RecordIs
<1>5. IsSeq(session'.keys)
      <2>1. IsSeq(session.keys \o <<>>)  BY <1>2, JoinFacts DEF IsHistory
      <2>2. IsSeq(SubSeq(session.keys, 1, Len(session.keys) - Len(pending)))
            BY <1>2, CutIsSeq DEF IsHistory
      <2> QED  BY <1>2, <1>4, <2>1, <2>2 DEF IsHistory
<1>6. IsHistory(session')  BY <1>4, <1>5 DEF IsHistory
<1>7. <<>> \o <<>> = <<>> /\ pending \o <<>> = pending  BY <1>2, JoinFacts
<1>8. ASSUME mode # Normal
      PROVE  \/ /\ session'.keys = session.keys \o <<>>
                /\ Queued(more) \o pending' = pending \o <<>>
             \/ /\ session'.keys = SubSeq(session.keys, 1, Len(session.keys) - Len(pending))
                /\ Queued(more) \o pending' = <<>>
      <2>1. CASE pending = <<>>
            <3>1. Queued(more) = <<>>  BY <2>1, QueuedOfOne
            <3> HIDE DEF more
            <3> QED  BY <1>1, <1>4, <1>7, <1>8, <2>1, <3>1
      <2>2. CASE pending # <<>>
            <3>1. Queued(more) = IF IsBound(pending, mode) THEN <<>> ELSE pending
                  BY <1>2, <1>8, <2>2, OutcomeIs
            <3> HIDE DEF more
            <3> QED  BY <1>1, <1>4, <1>7, <1>8, <3>1
      <2> QED  BY <2>1, <2>2
<1> HIDE DEF more
<1>9. IsSeq(pending')  BY <1>1, <1>2
<1> QED  BY <1>1, <1>2, <1>3, <1>4, <1>6, <1>8, <1>9, ResolverKeepsText

\* What an action does to the channel: its own event goes, and no text comes.
FollowsQuietly(es) ==
    \/ es = Tail(events)
    \/ \E a : ~IsText(a) /\ es = Append(Tail(events), a)
    \/ \E a, b : ~IsText(a) /\ ~IsText(b) /\ es = Append(Append(Tail(events), a), b)

\* It enters a mode, or leaves mode, buffers and history alone.
Reacts ==
    /\ FollowsQuietly(events')
    /\ \/ \E m, ls : EnterMode(m, ls, events')
       \/ UNCHANGED <<mode, lines, session>>

LEMMA ReactsKeepText ==
    ASSUME TextInv, events # <<>>, ~IsText(Head(events)), Reacts, UNCHANGED pending
    PROVE  TextInv'
<1>1. IsChannel(Tail(events)) /\ Queued(Tail(events)) = Queued(events)  BY TailOther
<1>2. IsChannel(events') /\ Queued(events') = Queued(events)
      <2>1. ASSUME NEW a, ~IsText(a)
            PROVE  /\ IsChannel(Append(Tail(events), a))
                   /\ Queued(Append(Tail(events), a)) = Queued(events)
            BY <1>1, <2>1, QueuedOther
      <2>2. ASSUME NEW a, NEW b, ~IsText(a), ~IsText(b)
            PROVE  /\ IsChannel(Append(Append(Tail(events), a), b))
                   /\ Queued(Append(Append(Tail(events), a), b)) = Queued(events)
            BY <2>1, <2>2, QueuedOther
      <2>3. FollowsQuietly(events')  BY DEF Reacts
      <2>4. CASE events' = Tail(events)  BY <1>1, <2>4
      <2>5. ASSUME NEW a, ~IsText(a), events' = Append(Tail(events), a)
            PROVE  IsChannel(events') /\ Queued(events') = Queued(events)
            BY <2>1, <2>5
      <2>6. ASSUME NEW a, NEW b, ~IsText(a), ~IsText(b),
                   events' = Append(Append(Tail(events), a), b)
            PROVE  IsChannel(events') /\ Queued(events') = Queued(events)
            BY <2>2, <2>6
      <2> QED  BY <2>3, <2>4, <2>5, <2>6 DEF FollowsQuietly
<1>3. CASE \E m, ls : EnterMode(m, ls, events')  BY <1>2, <1>3, EnterKeeps
<1>4. CASE UNCHANGED <<mode, lines, session>>  BY <1>2, <1>4, TextStays
<1> QED  BY <1>3, <1>4 DEF Reacts

\* Modals that come and go are no text.
LEMMA ModalsAreNoText ==
    /\ \A id : ~IsText(PopModal(id))
    /\ \A kind, id : ~IsText(OpenModal(kind, id))
BY DEF PopModal, OpenModal, IsText

LEMMA ConfirmReacts ==
    ASSUME NEW top, ConfirmModal(top, Tail(events))
    PROVE  Reacts
<1>1. PICK prompts \in BOOLEAN :
          /\ events' = Append(IF prompts THEN Append(Tail(events), Prompt) ELSE Tail(events),
                              PopModal(top.id))
          /\ \E m, ls : EnterMode(m, ls, events')
      BY DEF ConfirmModal, Hide
<1>2. FollowsQuietly(events')
      <2>1. ~IsText(Prompt) /\ ~IsText(PopModal(top.id))  BY ModalsAreNoText DEF Prompt
      <2>2. CASE prompts   BY <1>1, <2>1, <2>2 DEF FollowsQuietly
      <2>3. CASE ~prompts  BY <1>1, <2>1, <2>3 DEF FollowsQuietly
      <2> QED  BY <2>2, <2>3
<1> QED  BY <1>1, <1>2 DEF Reacts

LEMMA ModalReacts ==
    ASSUME NEW action, NEW top, ModalAction(action, top, Tail(events))
    PROVE  Reacts
<1>1. CASE ConfirmModal(top, Tail(events))  BY <1>1, ConfirmReacts
<1>2. CASE CloseModal(top, Tail(events))
      BY <1>2, ModalsAreNoText DEF CloseModal, Hide, Reacts, FollowsQuietly
<1>3. CASE FocusPrompt(top, Tail(events))
      BY <1>3 DEF FocusPrompt, Reacts, FollowsQuietly
<1>4. CASE Ignore(Tail(events))
      BY <1>4 DEF Ignore, input, Reacts, FollowsQuietly
<1> QED  BY <1>1, <1>2, <1>3, <1>4 DEF ModalAction

LEMMA PaneReacts ==
    ASSUME NEW action, PaneAction(action, Tail(events))
    PROVE  Reacts
<1>1. CASE EnterSearch(Tail(events))
      BY <1>1 DEF EnterSearch, Reacts, FollowsQuietly
<1>2. CASE Rename(Tail(events))
      BY <1>2, ModalsAreNoText DEF Rename, Prompt, Reacts, FollowsQuietly
<1>3. CASE ContextMenu(Tail(events))
      BY <1>3, ModalsAreNoText DEF ContextMenu, input, Reacts, FollowsQuietly
<1>4. CASE Ignore(Tail(events))
      BY <1>4 DEF Ignore, input, Reacts, FollowsQuietly
<1> QED  BY <1>1, <1>2, <1>3, <1>4 DEF PaneAction

\* A resolved action (event_loop.rs:275-299).
LEMMA ActionKeepsText == TextInv /\ HandleAction => TextInv'
<1> SUFFICES ASSUME TextInv, HandleAction PROVE TextInv'  OBVIOUS
<1>1. events # <<>> /\ ~IsText(Head(events)) /\ UNCHANGED pending
      BY DEF HandleAction, resolver, IsText
<1>2. Reacts
      <2>1. CASE modals = <<>>  BY <2>1, PaneReacts DEF HandleAction
      <2>2. CASE modals # <<>>  BY <2>2, ModalReacts DEF HandleAction
      <2> QED  BY <2>1, <2>2
<1> QED  BY <1>1, <1>2, ReactsKeepText

\* Confirm or Close in insert mode (event_loop.rs:300-305).
LEMMA EndKeepsText == TextInv /\ HandleEnd => TextInv'
<1> SUFFICES ASSUME TextInv, HandleEnd PROVE TextInv'  OBVIOUS
<1>1. events # <<>> /\ ~IsText(Head(events)) /\ UNCHANGED pending
      BY DEF HandleEnd, resolver, IsText
<1>2. Reacts
      <2>1. CASE modals # <<>> /\ Head(events).action = "Confirm"
            BY <2>1, ConfirmReacts DEF HandleEnd
      <2>2. CASE ~(modals # <<>> /\ Head(events).action = "Confirm")
            <3>1. events' = Tail(events) /\ \E m, ls : EnterMode(m, ls, Tail(events))
                  BY <2>2 DEF HandleEnd
            <3> QED  BY <3>1 DEF Reacts, FollowsQuietly
      <2> QED  BY <2>1, <2>2
<1> QED  BY <1>1, <1>2, ReactsKeepText

LEMMA NextKeepsText == TextInv /\ [Next]_vars => TextInv'
<1> SUFFICES ASSUME TextInv, [Next]_vars PROVE TextInv'  OBVIOUS
<1>1. CASE Type \/ Fire   BY <1>1, ArrivalKeepsText
<1>2. CASE Schedule       BY <1>2, ScheduleKeepsText
<1>3. CASE HandleKey      BY <1>3, KeyKeepsText
<1>4. CASE HandleTimeout  BY <1>4, TimeoutKeepsText
<1>5. CASE HandleAction   BY <1>5, ActionKeepsText
<1>6. CASE HandleEnd      BY <1>6, EndKeepsText
<1>7. CASE HandleText     BY <1>7, TextKeepsText
<1>8. CASE HandleModal    BY <1>8, ModalKeepsText
<1>9. CASE UNCHANGED vars
      <2>1. UNCHANGED <<events, pending, mode, lines, session>>  BY <1>9 DEF vars
      <2> QED  BY <2>1, TextStays DEF TextInv
<1> QED  BY <1>1, <1>2, <1>3, <1>4, <1>5, <1>6, <1>7, <1>8, <1>9 DEF Next

\* The invariant: while a mode is entered cleanly, the keys typed for it are those
\* applied to its line, then the text in the channel, then what waits.
THEOREM TextInvariant == Spec => []TextInv
BY InitText, NextKeepsText, PTL DEF Spec

\* In every reachable state nothing typed for a buffer is lost, doubled or out of
\* order, whatever the bindings and however sequences broke off: the line, with the
\* text on its way, is what every key applied when it was taken would make it
\* (event_loop.rs:261, ui/mod.rs:848-862).
THEOREM TypedTextArrives == Spec => []TextArrives
BY TextInvariant, TextInvArrives, PTL

-----------------------------------------------------------------------------
(* The search pane, another owner of text boxes, and its menu.             *)

\* A bounded set of numbers has a greatest one.
LEMMA GreatestExists ==
    ASSUME NEW n \in Nat, NEW S \in SUBSET (0..n), S # {}
    PROVE  \E x \in S : \A y \in S : y <= x
<1> DEFINE T == {n - x : x \in S}
<1>1. T \in SUBSET Nat /\ T # {}
      <2>1. \A x \in S : x \in 0..n  OBVIOUS
      <2>2. \A x \in S : n - x \in Nat  BY <2>1
      <2>3. T \in SUBSET Nat  BY <2>2
      <2>4. PICK x \in S : TRUE  OBVIOUS
      <2>5. n - x \in T  OBVIOUS
      <2> QED  BY <2>3, <2>5
<1>2. PICK t \in T : \A u \in T : t <= u
      <2> HIDE DEF T
      <2> QED  BY <1>1, LeastExists
<1>3. PICK x \in S : t = n - x  OBVIOUS
<1>4. ASSUME NEW y \in S PROVE y <= x
      <2>1. n - y \in T  OBVIOUS
      <2>2. n - x <= n - y  BY <1>2, <1>3, <2>1
      <2>3. x \in 0..n /\ y \in 0..n  OBVIOUS
      <2> QED  BY <2>2, <2>3
<1> QED  BY <1>4

-----------------------------------------------------------------------------
(* Its menu, with any number of sections and items.                        *)

Sections == [kind : {"list", "select", "input"}, len : Nat, sel : Int]

\* A menu of n sections with the highlight in section c and nowhere else.
Lit(n, ss, c) ==
    /\ ss \in [1..n -> Sections] /\ c \in 1..n
    /\ \A i \in 1..n : i # c => ss[i].sel = Unselected
    /\ ss[c].len > 0 => ss[c].sel \in 0..(ss[c].len - 1)

MenuOf(n, m) == m \in [sections : [1..n -> Sections], cur : 1..n] /\ Lit(n, m.sections, m.cur)

\* A step within a section, down or up (menu/list_section.rs:84-113): it ends on an
\* item, or leaves the section without a highlight.
Stepped(s, r) ==
    /\ r.section \in Sections /\ r.stays \in BOOLEAN /\ r.section.len = s.len
    /\ r.stays /\ s.len > 0 => r.section.sel \in 0..(s.len - 1)
    /\ ~r.stays => r.section.sel = Unselected /\ s.sel # Unselected

LEMMA StepsAreSound ==
    ASSUME NEW s \in Sections,
           s.len > 0 => s.sel \in 0..(s.len - 1) \/ s.sel = Unselected
    PROVE  Stepped(s, Down(s)) /\ Stepped(s, Up(s))
<1>1. ASSUME NEW row \in Int
      PROVE  /\ Go(s, row) \in Sections /\ Go(s, row).len = s.len
             /\ Go(s, row).sel = row
      BY DEF Go, Sections
<1>2. /\ s.len \in Nat /\ s.sel \in Int /\ Unselected = -1
      BY DEF Sections, Unselected
<1>3. Unselect(s) = Go(s, -1)  BY <1>2 DEF Unselect
<1>4. ASSUME NEW first \in Int, NEW next \in Int, NEW last \in Int,
             s.len > 0 => first \in 0..(s.len - 1),
             s.len > 0 /\ s.sel # -1 /\ s.sel # last => next \in 0..(s.len - 1)
      PROVE  Stepped(s, StepFrom(s, first, next, last))
      <2> DEFINE r == StepFrom(s, first, next, last)
      <2>1. CASE s.kind = "list" /\ s.len = 0 /\ s.sel = -1
            <3>1. r = [section |-> s, stays |-> TRUE]  BY <1>2, <2>1 DEF StepFrom
            <3> HIDE DEF r
            <3> QED  BY <2>1, <3>1 DEF Stepped, r
      <2>2. CASE ~(s.kind = "list" /\ s.len = 0 /\ s.sel = -1) /\ s.sel = -1
            <3>1. r = [section |-> Go(s, first), stays |-> TRUE]
                  BY <1>2, <2>2 DEF StepFrom
            <3> HIDE DEF r
            <3> QED  BY <1>1, <1>4, <2>2, <3>1 DEF Stepped, r
      <2>3. CASE s.sel # -1 /\ s.sel = last
            <3>1. r = [section |-> Go(s, -1), stays |-> FALSE]
                  BY <1>2, <1>3, <2>3 DEF StepFrom
            <3> HIDE DEF r
            <3> QED  BY <1>1, <1>2, <2>3, <3>1 DEF Stepped, r
      <2>4. CASE s.sel # -1 /\ s.sel # last
            <3>1. r = [section |-> Go(s, next), stays |-> TRUE]
                  BY <1>2, <2>4 DEF StepFrom
            <3> HIDE DEF r
            <3> QED  BY <1>1, <1>4, <2>4, <3>1 DEF Stepped, r
      <2> QED  BY <2>1, <2>2, <2>3, <2>4
<1>5. LastItem(s) = IF s.len = 0 THEN 0 ELSE s.len - 1  BY DEF LastItem
<1>6. Stepped(s, Down(s))
      <2>1. Stepped(s, StepFrom(s, 0, s.sel + 1, LastItem(s)))
            BY <1>2, <1>4, <1>5
      <2> QED  BY <2>1 DEF Down
<1>7. Stepped(s, Up(s))
      <2>1. Stepped(s, StepFrom(s, LastItem(s), s.sel - 1, 0))
            BY <1>2, <1>4, <1>5
      <2> QED  BY <2>1 DEF Up
<1> QED  BY <1>6, <1>7

LEMMA PutFacts ==
    ASSUME NEW n \in Nat, NEW m \in [sections : [1..n -> Sections], cur : 1..n],
           NEW i \in 1..n, NEW s \in Sections
    PROVE  LET p == Put(m, i, s)
           IN  /\ p \in [sections : [1..n -> Sections], cur : 1..n]
               /\ p.sections = [m.sections EXCEPT ![i] = s] /\ p.cur = m.cur
BY DEF Put

\* Moving the highlight: within its section by the step r, or into section c by
\* the step q that is taken there (menu/modal.rs:457-472).
LEMMA WalkKeeps ==
    ASSUME NEW n \in Nat, NEW m, MenuOf(n, m), NEW c \in 1..n,
           NEW r, Stepped(Current(m), r), NEW q,
           ~r.stays => Stepped(Put(m, m.cur, r.section).sections[c], q)
    PROVE  MenuOf(n, IF r.stays THEN Put(m, m.cur, r.section)
                     ELSE [Put(Put(m, m.cur, r.section), c, q.section)
                              EXCEPT !.cur = c])
<1> DEFINE p == Put(m, m.cur, r.section)
           ps == [m.sections EXCEPT ![m.cur] = r.section]
<1>1. /\ m \in [sections : [1..n -> Sections], cur : 1..n] /\ m.cur \in 1..n
      /\ m.sections \in [1..n -> Sections] /\ r.section \in Sections
      BY DEF MenuOf, Stepped
<1>2. /\ p \in [sections : [1..n -> Sections], cur : 1..n]
      /\ p.sections = ps /\ p.cur = m.cur
      BY <1>1, PutFacts
<1>3. /\ ps \in [1..n -> Sections] /\ ps[m.cur] = r.section
      /\ \A i \in 1..n : i # m.cur => ps[i] = m.sections[i]
      BY <1>1
<1>4. \A i \in 1..n : i # m.cur => ps[i].sel = Unselected
      BY <1>3 DEF MenuOf, Lit
<1> HIDE DEF p, ps
<1>5. CASE r.stays
      <2>1. r.section.len > 0 => r.section.sel \in 0..(r.section.len - 1)
            BY <1>5 DEF Stepped
      <2>2. Lit(n, ps, m.cur)  BY <1>1, <1>3, <1>4, <2>1 DEF Lit
      <2>3. MenuOf(n, p)  BY <1>2, <2>2 DEF MenuOf
      <2> QED  BY <1>5, <2>3 DEF p
<1>6. CASE ~r.stays
      <2>1. Stepped(ps[c], q)  BY <1>2, <1>6 DEF p
      <2>2. \A i \in 1..n : ps[i].sel = Unselected
            <3>1. ps[m.cur].sel = Unselected  BY <1>3, <1>6 DEF Stepped
            <3> QED  BY <1>4, <3>1
      <2>3. q.stays /\ q.section \in Sections /\ q.section.len = ps[c].len
            BY <2>1, <2>2 DEF Stepped
      <2>4. q.section.len > 0 => q.section.sel \in 0..(q.section.len - 1)
            BY <2>1, <2>3 DEF Stepped
      <2> DEFINE v == Put(p, c, q.section)
                 vs == [ps EXCEPT ![c] = q.section]
                 w == [v EXCEPT !.cur = c]
      <2>5. v \in [sections : [1..n -> Sections], cur : 1..n] /\ v.sections = vs
            BY <1>2, <2>3, PutFacts
      <2>6. /\ vs \in [1..n -> Sections] /\ vs[c] = q.section
            /\ \A i \in 1..n : i # c => vs[i] = ps[i]
            BY <1>3, <2>3
      <2> HIDE DEF v, vs
      <2>7. /\ w \in [sections : [1..n -> Sections], cur : 1..n]
            /\ w.sections = vs /\ w.cur = c
            BY <2>5
      <2>8. Lit(n, vs, c)  BY <2>2, <2>4, <2>6 DEF Lit
      <2> HIDE DEF w
      <2>9. MenuOf(n, w)  BY <2>7, <2>8 DEF MenuOf
      <2> QED  BY <1>6, <2>9 DEF w, v, p
<1> QED  BY <1>5, <1>6

\* What a section may be stepped from.
LEMMA CanBeStepped ==
    ASSUME NEW n \in Nat, NEW m, MenuOf(n, m), NEW i \in 1..n
    PROVE  /\ m.sections[i] \in Sections
           /\ m.sections[i].len > 0 =>
                 \/ m.sections[i].sel \in 0..(m.sections[i].len - 1)
                 \/ m.sections[i].sel = Unselected
BY DEF MenuOf, Lit

\* Down and Up.
LEMMA StepKeeps ==
    ASSUME NEW n \in Nat, NEW m, MenuOf(n, m)
    PROVE  MenuOf(n, NextItem(m)) /\ MenuOf(n, PrevItem(m))
<1>1. /\ m.sections \in [1..n -> Sections] /\ m.cur \in 1..n
      /\ m.sections \in Seq(Sections) /\ Len(m.sections) = n
      BY DEF MenuOf
<1>2. After(m, m.cur) \in 1..n /\ Before(m, m.cur) \in 1..n
      <2>1. After(m, m.cur) = (m.cur % n) + 1  BY <1>1 DEF After
      <2>2. (m.cur % n) \in 0..(n - 1)  BY <1>1
      <2>3. Before(m, m.cur) = IF m.cur = 1 THEN n ELSE m.cur - 1
            BY <1>1 DEF Before
      <2> QED  BY <1>1, <2>1, <2>2, <2>3
<1>3. Current(m) = m.sections[m.cur]  BY DEF Current
\* A section of the menu after a step that has left the current one.
<1>4. ASSUME NEW r, Stepped(Current(m), r), ~r.stays, NEW c \in 1..n
      PROVE  LET s == Put(m, m.cur, r.section).sections[c]
             IN  s \in Sections /\ (s.len > 0 => s.sel \in 0..(s.len - 1) \/ s.sel = Unselected)
      <2> DEFINE s == Put(m, m.cur, r.section).sections[c]
      <2>1. r.section \in Sections /\ r.section.sel = Unselected
            BY <1>4 DEF Stepped
      <2>2. Put(m, m.cur, r.section).sections = [m.sections EXCEPT ![m.cur] = r.section]
            BY <1>1, <2>1, PutFacts DEF MenuOf
      <2>3. s = IF c = m.cur THEN r.section ELSE m.sections[c]  BY <1>1, <2>2
      <2> HIDE DEF s
      <2>4. s \in Sections /\ (s.len > 0 => s.sel \in 0..(s.len - 1) \/ s.sel = Unselected)
            BY <2>1, <2>3, CanBeStepped
      <2> QED  BY <2>4 DEF s
<1>5. MenuOf(n, NextItem(m))
      <2> DEFINE r == Down(Current(m))
                 c == After(m, m.cur)
                 q == Down(Put(m, m.cur, r.section).sections[c])
      <2>1. Stepped(Current(m), r)  BY <1>1, <1>3, CanBeStepped, StepsAreSound
      <2>2. NextItem(m) = IF r.stays THEN Put(m, m.cur, r.section)
                     ELSE [Put(Put(m, m.cur, r.section), c, q.section)
                              EXCEPT !.cur = c]
            BY DEF NextItem, Walk
      <2> HIDE DEF r, c
      <2>3. c \in 1..n  BY <1>2 DEF c
      <2>4. ~r.stays => Stepped(Put(m, m.cur, r.section).sections[c], q)
            BY <1>4, <2>1, <2>3, StepsAreSound
      <2> HIDE DEF q
      <2> QED  BY <2>1, <2>2, <2>3, <2>4, WalkKeeps
<1>6. MenuOf(n, PrevItem(m))
      <2> DEFINE r == Up(Current(m))
                 c == Before(m, m.cur)
                 q == Up(Put(m, m.cur, r.section).sections[c])
      <2>1. Stepped(Current(m), r)  BY <1>1, <1>3, CanBeStepped, StepsAreSound
      <2>2. PrevItem(m) = IF r.stays THEN Put(m, m.cur, r.section)
                     ELSE [Put(Put(m, m.cur, r.section), c, q.section)
                              EXCEPT !.cur = c]
            BY DEF PrevItem, Walk
      <2> HIDE DEF r, c
      <2>3. c \in 1..n  BY <1>2 DEF c
      <2>4. ~r.stays => Stepped(Put(m, m.cur, r.section).sections[c], q)
            BY <1>4, <2>1, <2>3, StepsAreSound
      <2> HIDE DEF q
      <2> QED  BY <2>1, <2>2, <2>3, <2>4, WalkKeeps
<1> QED  BY <1>5, <1>6

\* Straight to an item (menu/modal.rs:173-191, 216-227).
LEMMA HighlightKeeps ==
    ASSUME NEW n \in Nat, NEW m, MenuOf(n, m), NEW i \in 1..n, NEW row \in Int,
           m.sections[i].len > 0 => row \in 0..(m.sections[i].len - 1)
    PROVE  MenuOf(n, Highlight(m, i, row))
<1> DEFINE d == IF i = m.cur THEN m ELSE Put(m, m.cur, Unselect(Current(m)))
           p == Put(d, i, Go(d.sections[i], row))
           h == [p EXCEPT !.cur = i]
<1>1. /\ m \in [sections : [1..n -> Sections], cur : 1..n] /\ m.cur \in 1..n
      /\ m.sections \in [1..n -> Sections]
      BY DEF MenuOf
<1>2. ASSUME NEW s \in Sections, NEW x \in Int
      PROVE  /\ Go(s, x) \in Sections /\ Go(s, x).len = s.len
             /\ Go(s, x).sel = x
      BY DEF Go, Sections
<1>3. /\ d \in [sections : [1..n -> Sections], cur : 1..n]
      /\ \A j \in 1..n : j # i => d.sections[j].sel = Unselected
      /\ d.sections[i].len = m.sections[i].len
      <2>1. CASE i = m.cur  BY <1>1, <2>1 DEF MenuOf, Lit
      <2>2. CASE i # m.cur
            <3> DEFINE u == Unselect(Current(m))
            <3>1. u \in Sections /\ u.sel = Unselected
                  <4>1. Unselected \in Int  BY DEF Unselected
                  <4>2. Current(m) \in Sections  BY <1>1 DEF Current
                  <4> QED  BY <1>2, <4>1, <4>2 DEF Unselect
            <3> HIDE DEF u
            <3>2. /\ Put(m, m.cur, u) \in [sections : [1..n -> Sections], cur : 1..n]
                  /\ Put(m, m.cur, u).sections = [m.sections EXCEPT ![m.cur] = u]
                  BY <1>1, <3>1, PutFacts
            <3>3. d = Put(m, m.cur, u)  BY <2>2 DEF u
            <3> HIDE DEF d
            <3>4. d.sections[i] = m.sections[i]  BY <1>1, <2>2, <3>2, <3>3
            <3>5. ASSUME NEW j \in 1..n, j # i PROVE d.sections[j].sel = Unselected
                  <4>1. d.sections[j] = IF j = m.cur THEN u ELSE m.sections[j]
                        BY <1>1, <3>2, <3>3
                  <4> QED  BY <3>1, <4>1 DEF MenuOf, Lit
            <3> QED  BY <3>2, <3>3, <3>4, <3>5
      <2> QED  BY <2>1, <2>2
<1>4. Highlight(m, i, row) = h  BY DEF Highlight
<1> HIDE DEF d
<1>5. /\ d.sections[i] \in Sections  BY <1>3
<1> DEFINE g == Go(d.sections[i], row)
           gs == [d.sections EXCEPT ![i] = g]
<1>6. g \in Sections /\ g.len = m.sections[i].len /\ g.sel = row  BY <1>2, <1>3, <1>5
<1>7. p = Put(d, i, g)  OBVIOUS
<1> HIDE DEF g, p
<1>8. p \in [sections : [1..n -> Sections], cur : 1..n] /\ p.sections = gs
      BY <1>3, <1>6, <1>7, PutFacts
<1>9. /\ gs \in [1..n -> Sections] /\ gs[i] = g
      /\ \A j \in 1..n : j # i => gs[j] = d.sections[j]
      BY <1>3, <1>6
<1> HIDE DEF gs
<1>10. h \in [sections : [1..n -> Sections], cur : 1..n] /\ h.sections = gs /\ h.cur = i
      BY <1>8
<1> HIDE DEF h
<1>11. Lit(n, gs, i)  BY <1>3, <1>6, <1>9 DEF Lit
<1>12. MenuOf(n, h)  BY <1>10, <1>11 DEF MenuOf
<1> QED  BY <1>4, <1>12

\* The places of the items of a menu.
Places(n, ss) == {h \in (1..n) \X Nat : h[2] < ss[h[1]].len}

\* The search of the menu finds the first and the last of its hits.
LEMMA FirstHitExists ==
    ASSUME NEW n \in Nat, NEW hits \in SUBSET ((1..n) \X Nat), hits # {}
    PROVE  FirstHit(hits) \in hits
<1> DEFINE A == {h[1] : h \in hits}
<1>1. A \in SUBSET Nat /\ A # {}  OBVIOUS
<1>2. PICK a \in A : \A x \in A : a <= x
      <2> HIDE DEF A
      <2> QED  BY <1>1, LeastExists
<1> DEFINE B == {h[2] : h \in {g \in hits : g[1] = a}}
<1>3. B \in SUBSET Nat /\ B # {}  OBVIOUS
<1>4. PICK b \in B : \A x \in B : b <= x
      <2> HIDE DEF B
      <2> QED  BY <1>3, LeastExists
<1>5. PICK h \in hits : h[1] = a /\ h[2] = b  OBVIOUS
<1>6. ASSUME NEW g \in hits PROVE h = g \/ InOrder(h, g)
      <2>1. g[1] \in A /\ a <= g[1]  BY <1>2
      <2>2. g[1] = a => b <= g[2]
            <3>1. g[1] = a => g[2] \in B  OBVIOUS
            <3> QED  BY <1>4, <3>1
      <2>3. g = <<g[1], g[2]>> /\ h = <<h[1], h[2]>>  OBVIOUS
      <2>4. g[1] \in Nat /\ g[2] \in Nat /\ h[1] \in Nat /\ h[2] \in Nat  OBVIOUS
      <2>5. h = g \/ h[1] < g[1] \/ (h[1] = g[1] /\ h[2] < g[2])
            BY <1>5, <2>1, <2>2, <2>3, <2>4
      <2> QED  BY <2>5 DEF InOrder
<1> QED  BY <1>6 DEF FirstHit

LEMMA LastHitExists ==
    ASSUME NEW n \in Nat, NEW ss \in [1..n -> Sections],
           NEW hits \in SUBSET Places(n, ss), hits # {}
    PROVE  LastHit(hits) \in hits
<1> DEFINE A == {h[1] : h \in hits}
<1>0. /\ \A h \in hits : /\ h \in (1..n) \X Nat /\ h[1] \in 1..n /\ h[2] \in Nat
                         /\ h[2] < ss[h[1]].len
      /\ \A i \in 1..n : ss[i].len \in Nat
      BY DEF Places, Sections
<1>1. A \in SUBSET (0..n) /\ A # {}  BY <1>0
<1>2. PICK a \in A : \A x \in A : x <= a
      <2> HIDE DEF A
      <2> QED  BY <1>1, GreatestExists
<1> DEFINE B == {h[2] : h \in {g \in hits : g[1] = a}}
<1>3. B \in SUBSET (0..ss[a].len) /\ B # {} /\ ss[a].len \in Nat  BY <1>0
<1>4. PICK b \in B : \A x \in B : x <= b
      <2> HIDE DEF B
      <2> QED  BY <1>3, GreatestExists
<1>5. PICK h \in hits : h[1] = a /\ h[2] = b  OBVIOUS
<1>6. ASSUME NEW g \in hits PROVE h = g \/ InOrder(g, h)
      <2>1. g[1] \in A /\ g[1] <= a  BY <1>2
      <2>2. g[1] = a => g[2] <= b
            <3>1. g[1] = a => g[2] \in B  OBVIOUS
            <3> QED  BY <1>4, <3>1
      <2>3. g = <<g[1], g[2]>> /\ h = <<h[1], h[2]>>  BY <1>0
      <2>4. g[1] \in Nat /\ g[2] \in Nat /\ h[1] \in Nat /\ h[2] \in Nat  BY <1>0
      <2>5. h = g \/ g[1] < h[1] \/ (h[1] = g[1] /\ g[2] < h[2])
            BY <1>5, <2>1, <2>2, <2>3, <2>4
      <2> QED  BY <2>5 DEF InOrder
<1> QED  BY <1>6 DEF LastHit

\* Going to what the search has found, from anywhere (menu/modal.rs:276-370).
LEMMA ResultKeeps ==
    ASSUME NEW n \in Nat, NEW m, MenuOf(n, m), NEW hits \in SUBSET Places(n, m.sections)
    PROVE  /\ MenuOf(n, FirstResult(m, hits)) /\ MenuOf(n, NextResult(m, hits))
           /\ MenuOf(n, PrevResult(m, hits))
<1>1. m.sections \in [1..n -> Sections]  BY DEF MenuOf
<1>2. ASSUME NEW h \in hits PROVE MenuOf(n, Highlight(m, h[1], h[2]))
      <2>1. h[1] \in 1..n /\ h[2] \in Int /\ h[2] \in 0..(m.sections[h[1]].len - 1)
            <3>1. h[1] \in 1..n /\ h[2] \in Nat /\ h[2] < m.sections[h[1]].len
                  BY DEF Places
            <3>2. m.sections[h[1]].len \in Nat  BY <1>1, <3>1 DEF Sections
            <3> QED  BY <3>1, <3>2
      <2> QED  BY <2>1, HighlightKeeps
<1>3. ASSUME NEW some \in SUBSET hits PROVE MenuOf(n, FirstResult(m, some))
      <2>1. CASE some = {}  BY <2>1 DEF FirstResult
      <2>2. CASE some # {}
            <3>1. some \in SUBSET ((1..n) \X Nat)  BY DEF Places
            <3>2. FirstHit(some) \in hits  BY <2>2, <3>1, FirstHitExists
            <3> QED  BY <1>2, <2>2, <3>2 DEF FirstResult
      <2> QED  BY <2>1, <2>2
<1>4. MenuOf(n, NextResult(m, hits))
      <2>1. Ahead(m, hits) \in SUBSET hits  BY DEF Ahead
      <2> QED  BY <1>3, <2>1 DEF NextResult
<1>5. MenuOf(n, PrevResult(m, hits))
      <2> DEFINE from == IF Current(m).sel = Unselected
                         THEN Go(Current(m), Current(m).len) ELSE Current(m)
                 behind == Behind(Put(m, m.cur, from), hits)
                 some == IF behind # {} THEN behind ELSE hits
      <2>1. some \in SUBSET hits  BY DEF Behind
      <2>2. PrevResult(m, hits) =
               IF hits = {} THEN m
               ELSE Highlight(m, LastHit(some)[1], LastHit(some)[2])
            BY DEF PrevResult
      <2>3. hits # {} => some # {}  OBVIOUS
      <2> HIDE DEF some
      <2>4. hits # {} => LastHit(some) \in hits  BY <1>1, <2>1, <2>3, LastHitExists
      <2> QED  BY <1>2, <2>2, <2>4
<1> QED  BY <1>3, <1>4, <1>5

\* The first and the last item.
LEMMA EndsKeep ==
    ASSUME NEW n \in Nat, NEW m, MenuOf(n, m)
    PROVE  MenuOf(n, TopItem(m)) /\ MenuOf(n, BottomItem(m))
<1>1. /\ m.sections \in [1..n -> Sections] /\ m.cur \in 1..n
      /\ m.sections \in Seq(Sections) /\ Len(m.sections) = n
      BY DEF MenuOf
<1>2. 1 \in 1..n /\ n \in 1..n  BY <1>1
<1>3. m.sections[1].len \in Nat /\ m.sections[n].len \in Nat  BY <1>1, <1>2 DEF Sections
<1>4. Last(m.sections) = m.sections[n]  BY <1>1 DEF Last
<1>5. MenuOf(n, Highlight(m, 1, 0))
      <2>1. m.sections[1].len > 0 => 0 \in 0..(m.sections[1].len - 1)  BY <1>3
      <2> QED  BY <1>2, <2>1, HighlightKeeps
<1>6. MenuOf(n, Highlight(m, n, LastItem(m.sections[n])))
      <2> DEFINE row == LastItem(m.sections[n])
      <2>1. row = IF m.sections[n].len = 0 THEN 0 ELSE m.sections[n].len - 1
            BY DEF LastItem
      <2>2. row \in Int /\ (m.sections[n].len > 0 => row \in 0..(m.sections[n].len - 1))
            BY <1>3, <2>1
      <2> HIDE DEF row
      <2>3. MenuOf(n, Highlight(m, n, row))  BY <1>2, <2>2, HighlightKeeps
      <2> QED  BY <2>3 DEF row
<1> QED  BY <1>1, <1>4, <1>5, <1>6 DEF TopItem, BottomItem

\* A new menu (menu/modal.rs:377-390).
LEMMA NewMenuIsLit ==
    ASSUME NEW n \in Nat, n > 0, NEW ss \in [1..n -> Sections],
           \A i \in 1..n : ss[i].sel = Unselected
    PROVE  MenuOf(n, NewMenu(ss))
<1> DEFINE full == {i \in DOMAIN ss : ss[i].len > 0}
           cur == IF full = {} THEN 1 ELSE Min(full)
           r == Down(ss[cur])
           ns == [ss EXCEPT ![cur] = r.section]
           m == [sections |-> ns, cur |-> cur]
<1>1. cur \in 1..n
      <2>1. CASE full = {}  BY <2>1
      <2>2. CASE full # {}
            <3>1. full \in SUBSET Nat /\ full \subseteq 1..n  OBVIOUS
            <3> HIDE DEF full
            <3>2. \E x \in full : \A y \in full : x <= y  BY <2>2, <3>1, LeastExists
            <3>3. Min(full) \in full  BY <3>2 DEF Min
            <3> QED  BY <2>2, <3>1, <3>3
      <2> QED  BY <2>1, <2>2
<1>2. NewMenu(ss) = m
      BY DEF NewMenu
<1> HIDE DEF cur
<1>3. Stepped(ss[cur], r) /\ r.stays
      <2>1. ss[cur] \in Sections /\ ss[cur].sel = Unselected  BY <1>1
      <2>2. Stepped(ss[cur], r)  BY <2>1, StepsAreSound
      <2> QED  BY <2>1, <2>2 DEF Stepped
<1>4. r.section \in Sections /\ r.section.len = ss[cur].len  BY <1>3 DEF Stepped
<1>5. r.section.len > 0 => r.section.sel \in 0..(r.section.len - 1)
      BY <1>3, <1>4 DEF Stepped
<1> HIDE DEF r
<1>6. /\ ns \in [1..n -> Sections] /\ ns[cur] = r.section
      /\ \A i \in 1..n : i # cur => ns[i] = ss[i]
      BY <1>1, <1>4
<1> HIDE DEF ns
<1>7. Lit(n, ns, cur)  BY <1>1, <1>5, <1>6 DEF Lit
<1>8. /\ m \in [sections : [1..n -> Sections], cur : 1..n]
      /\ m.sections = ns /\ m.cur = cur
      BY <1>1, <1>6
<1> HIDE DEF m
<1>9. MenuOf(n, m)  BY <1>7, <1>8 DEF MenuOf
<1> QED  BY <1>2, <1>9

-----------------------------------------------------------------------------
(* The form and the songs.                                                 *)

\* A form of the configuration c.
FormOf(c, f) == DOMAIN f = {"text", "spin"} /\ DOMAIN f.text = Boxes(c)

\* What is to be searched for.
Of(f) == IF IsEmpty(Query(f)) THEN <<>> ELSE <<Query(f)>>

InBox == insert \in DOMAIN form.text

\* One question waits at most; what answers it, or the last answer on its way, or
\* else the songs are of the last search, unless the results were emptied before an
\* answer came or that search has no answer; that search was for the form, unless
\* there is a reason in apart; a text that was left half typed is such a reason.
Followed == "late" \notin apart /\ "lost" \notin apart
LastSearch ==
    Followed =>
        IF asks # <<>> THEN wanted = asks
        ELSE IF answers # <<>> THEN Last(answers).of = wanted
        ELSE results.of = wanted
FormSearched == ~config.button /\ ~InBox /\ apart = {} => wanted = Of(form)
StrayedIsApart == (phase # "search" \/ menu # <<>>) /\ InBox => apart # {}

PaneInv ==
    /\ config \in Configs /\ FormOf(config, form)
    /\ (asks = <<>> \/ \E q : asks = <<q>>) /\ IsSeq(answers)
    /\ LastSearch /\ FormSearched /\ StrayedIsApart

\* The buffers that are no text boxes of the form.
LEMMA NotBoxes ==
    ASSUME NEW c \in Configs
    PROVE  {NoBuffer, Gone, SongFilter, "menu"} \intersect Boxes(c) = {}
<1>1. ToSet(c.tags)
         \intersect {"query", "value", "menu", NoBuffer, Gone, SongFilter} = {}
      BY SearchAssumption
<1>2. NoBuffer = "none" /\ Gone = "gone" /\ SongFilter = "filter"
      BY DEF NoBuffer, Gone, SongFilter
<1>3. {NoBuffer, Gone, SongFilter, "menu"} \intersect {"query", "value"} = {}
      BY <1>2
<1> QED  BY <1>1, <1>3 DEF Boxes

\* No text box, before or after: a list that was replaced takes its filter with it.
LEMMA ReplacedBox ==
    ASSUME NEW c \in Configs, NEW b
    PROVE  Replaced(b) \in Boxes(c) <=> b \in Boxes(c)
BY NotBoxes DEF Replaced

\* A form whose inputs hold what they began with asks for nothing.
Fresh ==
    /\ config \in Configs /\ FormOf(config, form)
    /\ \A k \in Boxes(config) : form.text[k] = Initial(k)
    /\ form.spin["rating"] = 0 /\ form.spin["liked"] = 0

LEMMA FreshAsksNothing == Fresh => Of(form) = <<>>
<1> SUFFICES ASSUME Fresh PROVE Of(form) = <<>>
    OBVIOUS
<1>1. Custom(form) = ""
      BY DEF Fresh, FormOf, Custom, Initial
<1>2. Filters(form) = {}
      <2>1. ASSUME NEW k \in ToSet(config.tags) PROVE form.text[k] = ""
            <3>1. k \in Boxes(config)  BY DEF Boxes
            <3>2. k # "value"  BY SearchAssumption DEF Fresh
            <3> QED  BY <3>1, <3>2 DEF Fresh, Initial
      <2> QED  BY <2>1 DEF Filters
<1>3. Rating(form) = <<>>  BY DEF Fresh, Rating
<1>4. /\ Query(form).custom = "" /\ Query(form).tags = {}
      /\ Query(form).rating = <<>> /\ Query(form).liked = 0
      BY <1>1, <1>2, <1>3 DEF Query, Fresh
<1> QED  BY <1>4 DEF Of, IsEmpty

\* Such are the form of a new configuration and one that is reset.
LEMMA NewFormIsFresh ==
    ASSUME config' \in Configs,
           \/ form' = NewForm(config')
           \/ \E a, b : form' = [NewForm(config') EXCEPT !.spin["mode"] = a, !.spin["strip"] = b]
    PROVE  FormOf(config', form') /\ Of(form)' = <<>>
<1> DEFINE f == NewForm(config')
<1>1. /\ DOMAIN f = {"text", "spin"} /\ DOMAIN f.text = Boxes(config')
      /\ \A k \in Boxes(config') : f.text[k] = Initial(k)
      /\ f.spin["rating"] = 0 /\ f.spin["liked"] = 0
      /\ {"rating", "liked", "mode"} \subseteq DOMAIN f.spin
      BY SearchAssumption DEF NewForm
<1>0. \/ form' = f
      \/ \E a, b : form' = [f EXCEPT !.spin["mode"] = a, !.spin["strip"] = b]
      OBVIOUS
<1> HIDE DEF f
<1>2. /\ DOMAIN form' = {"text", "spin"} /\ form'.text = f.text
      /\ form'.spin["rating"] = 0 /\ form'.spin["liked"] = 0
      <2>1. CASE form' = f  BY <1>1, <2>1
      <2>2. CASE \E a, b : form' = [f EXCEPT !.spin["mode"] = a, !.spin["strip"] = b]
            <3> PICK a, b : form' = [f EXCEPT !.spin["mode"] = a, !.spin["strip"] = b]
                BY <2>2
            <3> DEFINE spin == [f.spin EXCEPT !["mode"] = a, !["strip"] = b]
            <3>1. spin["rating"] = 0 /\ spin["liked"] = 0
                  <4>1. {"rating", "liked"} \intersect {"mode", "strip"} = {}  OBVIOUS
                  <4>2. "rating" \in DOMAIN f.spin /\ "liked" \in DOMAIN f.spin
                        BY <1>1
                  <4> QED  BY <1>1, <4>1, <4>2
            <3>2. form' = [f EXCEPT !.spin = spin]  BY <1>1
            <3> HIDE DEF spin
            <3> QED  BY <1>1, <3>1, <3>2
      <2> QED  BY <1>0, <2>1, <2>2
<1>3. FormOf(config', form')  BY <1>1, <1>2 DEF FormOf
<1>4. Fresh'  BY <1>1, <1>2, <1>3 DEF Fresh
<1>5. Fresh' => (Of(form) = <<>>)'  BY FreshAsksNothing, PTL
<1> QED  BY <1>3, <1>4, <1>5

LEMMA CycleShape ==
    ASSUME NEW c, NEW f, FormOf(c, f), NEW key
    PROVE  FormOf(c, Cycle(f, key))
<1> DEFINE g == Cycle(f, key)
<1>1. \E spin : g = [f EXCEPT !.spin = spin]  BY DEF Cycle, FormOf
<1>2. DOMAIN g = DOMAIN f /\ g.text = f.text  BY <1>1 DEF FormOf
<1> HIDE DEF g
<1>3. FormOf(c, g)  BY <1>2 DEF FormOf
<1> QED  BY <1>3 DEF g

LEMMA ResetOneShape ==
    ASSUME NEW c, NEW f, FormOf(c, f), NEW in
    PROVE  FormOf(c, ResetOne(f, in))
<1>1. CASE in.kind = "box"
      <2>1. ResetOne(f, in) = [f EXCEPT !.text[in.key] = Initial(in.key)]
            BY <1>1 DEF ResetOne
      <2> QED  BY <2>1 DEF FormOf
<1>2. CASE in.kind = "spinner"
      <2>1. \E v : ResetOne(f, in) = [f EXCEPT !.spin[in.key] = v]
            BY <1>2 DEF ResetOne
      <2> QED  BY <2>1 DEF FormOf
<1>3. CASE in.kind # "box" /\ in.kind # "spinner"
      BY <1>3 DEF ResetOne
<1> QED  BY <1>1, <1>2, <1>3

\* Everything is dropped: the list is empty, and so is what was asked for last.
LEMMA ForgetKeeps ==
    ASSUME PaneInv, NEW b, NEW why, Forget(b, why),
           config' \in Configs, FormOf(config', form'), answers' = answers,
           why = {} => Of(form)' = <<>>, StrayedIsApart'
    PROVE  PaneInv'
<1>1. /\ results' = Nothing /\ wanted' = <<>> /\ asks' = asks
      /\ apart' = why \union (IF OnTheirWay THEN {"late"} ELSE {})
      BY DEF Forget
<1>2. LastSearch'
      <2> SUFFICES ASSUME "late" \notin apart' PROVE LastSearch'
          BY DEF LastSearch, Followed
      <2>1. asks' = <<>> /\ answers' = <<>>  BY <1>1 DEF OnTheirWay
      <2>2. results'.of = wanted'  BY <1>1 DEF Nothing
      <2> QED  BY <2>1, <2>2 DEF LastSearch
<1>3. FormSearched'
      <2>1. apart' = {} => why = {}  BY <1>1
      <2> QED  BY <1>1, <2>1 DEF FormSearched
<1> QED  BY <1>1, <1>2, <1>3 DEF PaneInv

\* A search for what the form holds, from the form itself (search/mod.rs:200-350).
LEMMA SearchKeeps ==
    ASSUME PaneInv, NEW b, SearchFor(form', b),
           config' = config, FormOf(config, form'), answers' = answers,
           phase' = "search", menu' = <<>>
    PROVE  PaneInv'
<1>1. StrayedIsApart'  BY DEF StrayedIsApart
<1>2. config \in Configs /\ IsSeq(answers) /\ LastSearch  BY DEF PaneInv
<1>3. CASE ~IsValid(form')
      <2>1. apart' = apart \union {"invalid"} /\ UNCHANGED <<results, asks, wanted>>
            BY <1>3 DEF SearchFor
      <2>2. LastSearch'  BY <1>2, <2>1 DEF LastSearch, Followed
      <2>3. FormSearched'  BY <2>1 DEF FormSearched
      <2> QED  BY <1>1, <2>1, <2>2, <2>3 DEF PaneInv
<1>4. CASE IsValid(form') /\ IsEmpty(Query(form'))
      <2>1. Forget(b, {})  BY <1>4 DEF SearchFor
      <2>2. Of(form)' = <<>>
            <3>1. Query(form)' = Query(form')
                  BY DEF Query, Filters, Custom, Rating, Number
            <3> QED  BY <1>4, <3>1 DEF Of, IsEmpty
      <2> QED  BY <1>1, <1>2, <2>1, <2>2, ForgetKeeps
<1>5. CASE IsValid(form') /\ ~IsEmpty(Query(form'))
      <2> DEFINE q == Query(form')
      <2>1. asks' = <<q>> /\ wanted' = <<q>> /\ apart' = {}
            BY <1>5 DEF SearchFor
      <2>2. Of(form)' = <<q>>
            <3>1. Query(form)' = Query(form')
                  BY DEF Query, Filters, Custom, Rating, Number
            <3> QED  BY <1>5, <3>1 DEF Of, IsEmpty
      <2> HIDE DEF q
      <2>3. <<q>> # <<>>  OBVIOUS
      <2>4. LastSearch'  BY <2>1, <2>3 DEF LastSearch, Followed
      <2>5. FormSearched'  BY <2>1, <2>2 DEF FormSearched
      <2> QED  BY <1>1, <1>2, <2>1, <2>4, <2>5 DEF PaneInv
<1> QED  BY <1>3, <1>4, <1>5

\* Nothing is searched for; with no search button the form stays as it is, and a
\* text is not left unless there is already a reason.
LEMMA UnsearchedKeeps ==
    ASSUME PaneInv, NEW b, Unsearched(b), config' = config,
           FormOf(config, form'), answers' = answers,
           \/ config.button
           \/ form' = form /\ (InBox /\ b \notin DOMAIN form.text => apart # {}),
           StrayedIsApart'
    PROVE  PaneInv'
<1>1. insert' = b /\ UNCHANGED <<results, asks, wanted, apart>>
      BY DEF Unsearched
<1>2. LastSearch'  BY <1>1 DEF PaneInv, LastSearch, Followed
<1>3. FormSearched'
      <2>1. CASE config.button  BY <2>1 DEF FormSearched
      <2>2. CASE form' = form /\ (InBox /\ b \notin DOMAIN form.text => apart # {})
            <3>1. Of(form)' = Of(form)
                  BY <2>2 DEF Of, IsEmpty, Query, Filters, Custom,
                              Rating, Number
            <3>2. ~InBox' /\ apart' = {} => ~InBox /\ apart = {}
                  BY <1>1, <2>2 DEF InBox
            <3> QED  BY <1>1, <3>1, <3>2 DEF PaneInv, FormSearched
      <2> QED  BY <2>1, <2>2
<1> QED  BY <1>1, <1>2, <1>3 DEF PaneInv

\* A search unless there is a button for it (search/mod.rs:192-198).
LEMMA OnChangeKeeps ==
    ASSUME PaneInv, NEW b, OnChange(form', b),
           config' = config, FormOf(config, form'), answers' = answers,
           phase' = "search", menu' = <<>>
    PROVE  PaneInv'
<1>1. StrayedIsApart'  BY DEF StrayedIsApart
<1>2. CASE config.button
      <2>1. Unsearched(b)  BY <1>2 DEF OnChange
      <2> QED  BY <1>1, <1>2, <2>1, UnsearchedKeeps
<1>3. CASE ~config.button
      <2>1. SearchFor(form', b)  BY <1>3 DEF OnChange
      <2> QED  BY <2>1, SearchKeeps
<1> QED  BY <1>2, <1>3

LEMMA OutOfBox ==
    ASSUME PaneInv,
           insert \in {NoBuffer, Gone, SongFilter, "menu"}
    PROVE  ~InBox
BY NotBoxes DEF PaneInv, FormOf, InBox

\* What Enter does, or a second click (search/inputs.rs:232-280).
LEMMA ActivateKeeps ==
    ASSUME PaneInv, Activate, config' = config,
           answers' = answers, phase = "search", menu' = <<>>
    PROVE  PaneInv'
<1>1. phase' = "search"  BY DEF Activate
<1>2. FormOf(config, form) /\ config \in Configs  BY DEF PaneInv
<1>3. ASSUME form' = form, NEW b, OnChange(form, b) PROVE PaneInv'
      BY <1>1, <1>2, <1>3, OnChangeKeeps
<1>4. ASSUME Activated(Focused.key) PROVE PaneInv'
      <2>1. /\ form' = Cycle(form, Focused.key)
            /\ OnChange(form', insert)
            BY <1>4 DEF Activated
      <2>2. FormOf(config, form')  BY <1>2, <2>1, CycleShape
      <2> QED  BY <1>1, <2>1, <2>2, OnChangeKeeps
<1>5. ASSUME form' = ResetAll(form), Forget(insert, {}) PROVE PaneInv'
      <2>1. \E a, b : form' = [NewForm(config') EXCEPT !.spin["mode"] = a, !.spin["strip"] = b]
            BY <1>5 DEF ResetAll
      <2>2. FormOf(config', form') /\ Of(form)' = <<>>  BY <1>2, <2>1, NewFormIsFresh
      <2>3. StrayedIsApart'  BY <1>1 DEF StrayedIsApart
      <2> QED  BY <1>2, <1>5, <2>2, <2>3, ForgetKeeps
<1>6. ASSUME form' = form, SearchFor(form, insert) PROVE PaneInv'
      BY <1>1, <1>2, <1>6, SearchKeeps
<1> QED  BY <1>3, <1>4, <1>5, <1>6 DEF Activate

\* The user, in the form.
LEMMA FormKeeps ==
    ASSUME PaneInv, InForm
    PROVE  PaneInv'
<1>1. FormOf(config, form) /\ config \in Configs  BY DEF PaneInv
<1>2. ASSUME NEW in, PaneKey(in)
      PROVE  /\ config' = config /\ answers' = answers /\ menu = <<>> /\ menu' = <<>>
             /\ phase = in /\ insert = NoBuffer /\ ~InBox
      <2>1. /\ config' = config /\ answers' = answers /\ menu = <<>> /\ menu' = <<>>
            /\ phase = in /\ insert = NoBuffer
            BY <1>2 DEF PaneKey, User
      <2> QED  BY <2>1, OutOfBox
<1>3. ASSUME NEW in, Mouse(in)
      PROVE  /\ config' = config /\ answers' = answers /\ menu = <<>> /\ menu' = <<>>
             /\ phase = in
      BY <1>3 DEF Mouse, User
\* Nothing but the place of the cursor, or the buffer, changes in the form.
<1>4. ASSUME config' = config, answers' = answers, menu' = <<>>, phase' = "search",
             form' = form, NEW b, Unsearched(b),
             InBox /\ b \notin DOMAIN form.text => apart # {}
      PROVE  PaneInv'
      <2>1. StrayedIsApart'  BY <1>4 DEF StrayedIsApart
      <2> QED  BY <1>1, <1>4, <2>1, UnsearchedKeeps
<1>5. ASSUME config' = config, answers' = answers, menu' = <<>>, phase' = "search",
             form' = form, Ended
      PROVE  PaneInv'
      <2>1. CASE insert = NoBuffer
            <3>1. Unsearched(NoBuffer) /\ ~InBox
                  BY <1>5, <2>1, OutOfBox DEF Ended
            <3> QED  BY <1>4, <1>5, <3>1
      <2>2. CASE insert # NoBuffer
            <3>1. OnChange(form, NoBuffer)  BY <1>5, <2>2 DEF Ended
            <3> QED  BY <1>1, <1>5, <3>1, OnChangeKeeps
      <2> QED  BY <2>1, <2>2
<1>6. CASE FocusMoves
      <2>1. PaneKey("search") /\ UNCHANGED <<phase, form>> /\ Unsearched(insert)
            BY <1>6 DEF FocusMoves
      <2> QED  BY <1>2, <1>4, <2>1
<1>7. CASE Confirm
      BY <1>2, <1>7, ActivateKeeps DEF Confirm
<1>8. CASE DoubleClick
      BY <1>3, <1>8, ActivateKeeps DEF DoubleClick
<1>9. CASE FocusInput
      <2>1. /\ PaneKey("search") /\ UNCHANGED <<phase, form>>
            /\ Unsearched(Focused.key)
            BY <1>9 DEF FocusInput
      <2> QED  BY <1>2, <1>4, <2>1
<1>10. CASE Delete
      <2>1. /\ PaneKey("search") /\ phase' = phase
            /\ form' = ResetOne(form, Focused)
            /\ Forget(insert, {"dropped"})
            BY <1>10 DEF Delete
      <2>2. FormOf(config, form')  BY <1>1, <2>1, ResetOneShape
      <2>3. phase' = "search" /\ menu' = <<>>  BY <1>2, <2>1
      <2>4. StrayedIsApart'  BY <2>3 DEF StrayedIsApart
      <2> QED  BY <1>1, <1>2, <2>1, <2>2, <2>4, ForgetKeeps
<1>11. CASE ClickForm
      <2>1. Mouse("search") /\ UNCHANGED <<phase, form>> /\ Ended
            BY <1>11 DEF ClickForm
      <2> QED  BY <1>3, <1>5, <2>1
<1>12. CASE Wheel
      <2>1. Mouse("search") /\ UNCHANGED <<phase, form>> /\ Ended
            BY <1>12 DEF Wheel
      <2> QED  BY <1>3, <1>5, <2>1
<1>13. CASE ShowResults
      <2>1. PaneKey("search") /\ form' = form /\ Unsearched(insert)
            BY <1>13 DEF ShowResults
      <2>2. ~InBox /\ insert' = insert  BY <1>2, <2>1 DEF Unsearched
      <2>3. StrayedIsApart'  BY <2>1, <2>2 DEF StrayedIsApart, InBox
      <2> QED  BY <1>1, <1>2, <2>1, <2>2, <2>3, UnsearchedKeeps
<1>14. CASE ClickPreview
      <2>1. /\ Mouse("search") /\ insert' = insert
            /\ apart' = IF InBox THEN apart \union {"strayed"} ELSE apart
            /\ UNCHANGED <<form, results, asks, wanted>>
            BY <1>14 DEF ClickPreview, InBox
      <2>2. config' = config /\ answers' = answers /\ menu' = <<>>  BY <1>3, <2>1
      <2>3. InBox' <=> InBox  BY <2>1 DEF InBox
      <2>4. StrayedIsApart'  BY <2>1, <2>3 DEF StrayedIsApart
      <2>5. LastSearch'  BY <2>1, <2>2 DEF PaneInv, LastSearch, Followed
      <2>6. Of(form)' = Of(form)
            BY <2>1, <2>2 DEF Of, IsEmpty, Query, Filters, Custom,
                              Rating, Number
      <2>7. FormSearched'  BY <2>1, <2>2, <2>3, <2>6 DEF PaneInv, FormSearched
      <2> QED  BY <1>1, <2>1, <2>2, <2>4, <2>5, <2>7 DEF PaneInv
<1> QED
    BY <1>6, <1>7, <1>8, <1>9, <1>10, <1>11, <1>12, <1>13, <1>14 DEF InForm

\* The user, among the songs.
LEMMA SongsKeep ==
    ASSUME PaneInv, InSongs
    PROVE  PaneInv'
<1>1. FormOf(config, form)  BY DEF PaneInv
\* Neither form nor buffer changes, or no box is active before and after.
<1>2. ASSUME NEW b, Unsearched(b), config' = config, answers' = answers, form' = form,
             phase = "browse", b = insert \/ (~InBox /\ b \notin DOMAIN form.text)
      PROVE  PaneInv'
      <2>1. insert' = b /\ apart' = apart  BY <1>2 DEF Unsearched
      <2>2. InBox' <=> InBox  BY <1>2, <2>1 DEF InBox
      <2>3. StrayedIsApart'  BY <1>2, <2>1, <2>2 DEF PaneInv, StrayedIsApart
      <2>4. InBox /\ b \notin DOMAIN form.text => apart # {}  BY <1>2 DEF InBox
      <2> QED  BY <1>1, <1>2, <2>3, <2>4, UnsearchedKeeps
<1>3. ASSUME PaneKey("browse")
      PROVE  /\ config' = config /\ answers' = answers /\ phase = "browse" /\ ~InBox
      <2>1. /\ config' = config /\ answers' = answers /\ phase = "browse"
            /\ insert = NoBuffer
            BY <1>3 DEF PaneKey, User
      <2> QED  BY <2>1, OutOfBox
<1>4. CASE BackToForm
      <2>1. PaneKey("browse") /\ form' = form /\ Unsearched(insert)
            BY <1>4 DEF BackToForm
      <2> QED  BY <1>2, <1>3, <2>1
<1>5. CASE ClickBack
      <2>1. /\ config' = config /\ answers' = answers /\ phase = "browse"
            /\ form' = form /\ Unsearched(insert)
            BY <1>5 DEF ClickBack, Mouse, User
      <2> QED  BY <1>2, <2>1
<1>6. CASE FilterSongs
      <2>1. PaneKey("browse") /\ form' = form /\ Unsearched(SongFilter)
            BY <1>6 DEF FilterSongs
      <2>2. SongFilter \notin DOMAIN form.text
            BY NotBoxes DEF PaneInv, FormOf
      <2> QED  BY <1>2, <1>3, <2>1, <2>2
<1>7. CASE OpenMenu
      <2>1. /\ config' = config /\ answers' = answers /\ phase = "browse"
            /\ form' = form /\ Unsearched(insert)
            BY <1>7 DEF OpenMenu, User
      <2> QED  BY <1>2, <2>1
<1> QED  BY <1>4, <1>5, <1>6, <1>7 DEF InSongs

\* The user, typing (search/mod.rs:1383-1417).
LEMMA TypingKeeps ==
    ASSUME PaneInv, Typing
    PROVE  PaneInv'
<1>1. FormOf(config, form)  BY DEF PaneInv
<1>2. config' = config /\ answers' = answers /\ phase' = phase /\ menu' = menu
      BY DEF Typing, TypeText, EndTyping, User
<1>3. CASE TypeText /\ InBox
      <2>1. /\ insert' = insert /\ UNCHANGED <<results, asks, wanted, apart>>
            /\ \E t \in Texts : form' = [form EXCEPT !.text[insert] = t]
            BY <1>3 DEF TypeText, Unsearched, InBox
      <2>2. DOMAIN form'.text = DOMAIN form.text /\ DOMAIN form' = DOMAIN form
            BY <1>1, <2>1 DEF FormOf
      <2>3. InBox'  BY <1>3, <2>1, <2>2 DEF InBox
      <2>4. FormOf(config, form')  BY <1>1, <2>2 DEF FormOf
      <2>5. StrayedIsApart'  BY <1>2, <1>3, <2>1 DEF PaneInv, StrayedIsApart
      <2>6. FormSearched'  BY <2>3 DEF FormSearched
      <2>7. LastSearch'  BY <1>2, <2>1 DEF PaneInv, LastSearch, Followed
      <2> QED  BY <1>2, <2>1, <2>4, <2>5, <2>6, <2>7 DEF PaneInv
<1>4. CASE TypeText /\ ~InBox
      <2>1. Unsearched(insert) /\ form' = form
            BY <1>4 DEF TypeText, InBox
      <2>2. insert' = insert /\ apart' = apart  BY <2>1 DEF Unsearched
      <2>3. StrayedIsApart'  BY <1>2, <2>1, <2>2 DEF PaneInv, StrayedIsApart, InBox
      <2> QED  BY <1>1, <1>2, <1>4, <2>1, <2>3, UnsearchedKeeps
<1>5. CASE EndTyping /\ phase = "search"
      <2>1. OnChange(form, NoBuffer) /\ form' = form /\ menu = <<>>
            BY <1>5 DEF EndTyping
      <2> QED  BY <1>1, <1>2, <1>5, <2>1, OnChangeKeeps
<1>6. CASE EndTyping /\ phase # "search"
      <2>1. Unsearched(NoBuffer) /\ form' = form /\ phase = phase' /\ menu = <<>>
            BY <1>6 DEF EndTyping
      <2>2. ~InBox'
            <3>1. insert' = NoBuffer  BY <2>1 DEF Unsearched
            <3> QED  BY <2>1, <3>1, NotBoxes DEF InBox, PaneInv, FormOf
      <2>3. StrayedIsApart'  BY <2>2 DEF StrayedIsApart
      <2>4. InBox => apart # {}  BY <1>6 DEF PaneInv, StrayedIsApart
      <2> QED  BY <1>1, <1>2, <2>1, <2>3, <2>4, UnsearchedKeeps
<1> QED  BY <1>3, <1>4, <1>5, <1>6 DEF Typing

\* What is done in the menu searches for nothing (menu/modal.rs:109-247).
LEMMA OnMenuKeeps ==
    ASSUME PaneInv, OnMenu
    PROVE  PaneInv'
<1>1. FormOf(config, form)  BY DEF PaneInv
<1>2. InMenu /\ \E b \in {insert, "menu", NoBuffer} : Unsearched(b)
      <2>1. MenuWalk \/ MenuEnds \/ MenuResult => <1>2
            BY DEF MenuWalk, MenuEnds, MenuResult, MenuKey
      <2>2. MenuWheel \/ MenuClick => <1>2
            BY DEF MenuWheel, MenuClick, MenuMouse
      <2>3. MenuSearch \/ MenuType \/ MenuEndTyping \/ MenuCloses => <1>2
            BY DEF MenuSearch, MenuType, MenuEndTyping, MenuCloses
      <2> QED  BY <2>1, <2>2, <2>3 DEF OnMenu
<1>3. /\ menu # <<>> /\ config' = config /\ answers' = answers /\ phase' = phase
      /\ form' = form
      BY <1>2 DEF InMenu
<1> PICK b \in {insert, "menu", NoBuffer} : Unsearched(b)  BY <1>2
<1>4. insert' = b /\ apart' = apart  BY <1>3 DEF Unsearched
<1>5. InBox => apart # {}  BY <1>3 DEF PaneInv, StrayedIsApart
<1>6. InBox' => InBox
      <2>1. {"menu", NoBuffer} \intersect DOMAIN form.text = {}
            BY NotBoxes DEF PaneInv, FormOf
      <2> QED  BY <1>3, <1>4, <2>1 DEF InBox
<1>7. StrayedIsApart'  BY <1>4, <1>5, <1>6 DEF StrayedIsApart
<1> QED  BY <1>1, <1>3, <1>5, <1>7, UnsearchedKeeps

\* Events from outside (search/mod.rs:1164-1178).
LEMMA EventKeeps ==
    ASSUME PaneInv, Events
    PROVE  PaneInv'
<1>1. FormOf(config, form) /\ config \in Configs /\ IsSeq(answers)  BY DEF PaneInv
<1>2. CASE Database
      <2>1. /\ config' = config /\ answers' = answers
            /\ form' = [form EXCEPT !.text = [k \in DOMAIN form.text |-> ""]]
            /\ Forget(NoBuffer, {"dropped"})
            BY <1>1, <1>2 DEF Database, FormOf
      <2>2. FormOf(config, form')  BY <1>1, <2>1 DEF FormOf
      <2>3. apart' # {}  BY <2>1 DEF Forget
      <2>4. StrayedIsApart'  BY <2>3 DEF StrayedIsApart
      <2> QED  BY <1>1, <2>1, <2>2, <2>4, ForgetKeeps
<1>3. CASE Reconnected
      <2>1. /\ UNCHANGED <<config, form, answers>> /\ asks' = <<>>
            /\ results' = Nothing /\ wanted' = <<>>
            /\ apart' = {"dropped"} \union (IF answers # <<>> THEN {"late"} ELSE {})
            BY <1>3 DEF Reconnected
      <2>2. apart' # {}  BY <2>1
      <2>3. StrayedIsApart'  BY <2>2 DEF StrayedIsApart
      <2>4. FormSearched'  BY <2>2 DEF FormSearched
      <2>5. LastSearch'  BY <2>1 DEF LastSearch, Followed, Nothing
      <2> QED  BY <1>1, <2>1, <2>3, <2>4, <2>5 DEF PaneInv
<1>4. CASE ConfigChanged
      <2> DEFINE b == IF insert \in {NoBuffer, "menu"} THEN insert ELSE Gone
      <2>1. /\ config' \in Configs /\ form' = NewForm(config') /\ answers' = answers
            /\ Forget(b, {})
            BY <1>4 DEF ConfigChanged
      <2>2. FormOf(config', form') /\ Of(form)' = <<>>  BY <2>1, NewFormIsFresh
      <2>3. b \in {NoBuffer, "menu", Gone}  OBVIOUS
      <2> HIDE DEF b
      <2>4. insert' = Replaced(b)  BY <2>1 DEF Forget
      <2>5. insert' \notin Boxes(config')
            <3>1. b \notin Boxes(config')  BY <2>1, <2>3, NotBoxes
            <3> QED  BY <2>1, <2>4, <3>1, ReplacedBox
      <2>6. ~InBox'  BY <2>2, <2>5 DEF InBox, FormOf
      <2>7. StrayedIsApart'  BY <2>6 DEF StrayedIsApart
      <2> QED  BY <2>1, <2>2, <2>7, ForgetKeeps
<1> QED  BY <1>2, <1>3, <1>4 DEF Events

\* The last of what is on its way.
LEMMA LastOfAppend ==
    ASSUME NEW s, IsSeq(s), NEW e
    PROVE  IsSeq(Append(s, e)) /\ Append(s, e) # <<>> /\ Last(Append(s, e)) = e
<1> DEFINE a == Append(s, e)
<1>1. /\ IsSeq(a) /\ Len(a) = Len(s) + 1 /\ a[Len(s) + 1] = e /\ Len(s) \in Nat
      BY AppendFacts, SeqFacts
<1> HIDE DEF a
<1>2. a # <<>>
      <2>1. Len(<<>>) = 0  OBVIOUS
      <2> QED  BY <1>1, <2>1
<1>3. Last(a) = e  BY <1>1 DEF Last
<1> QED  BY <1>1, <1>2, <1>3 DEF a

LEMMA LastOfRest ==
    ASSUME NEW s, IsSeq(s), s # <<>>
    PROVE  /\ IsSeq(Tail(s))
           /\ Tail(s) # <<>> => Last(Tail(s)) = Last(s)
           /\ Tail(s) = <<>> => Head(s) = Last(s)
<1> DEFINE t == Tail(s)
<1>1. /\ IsSeq(t) /\ Len(t) = Len(s) - 1 /\ Len(s) \in Nat \ {0}
      /\ \A i \in 1..(Len(s) - 1) : t[i] = s[i + 1]
      /\ Head(s) = s[1]
      BY TailFacts
<1> HIDE DEF t
<1>2. t # <<>> => Len(t) > 0  BY <1>1, SeqFacts
<1>3. ASSUME t # <<>> PROVE Last(t) = Last(s)
      <2>1. Len(t) \in 1..(Len(s) - 1) /\ Len(t) + 1 = Len(s)  BY <1>1, <1>2, <1>3
      <2> QED  BY <1>1, <2>1 DEF Last
<1>4. ASSUME t = <<>> PROVE Head(s) = Last(s)
      <2>1. Len(t) = 0  BY <1>4
      <2>2. Len(s) = 1  BY <1>1, <2>1
      <2> QED  BY <1>1, <2>2 DEF Last
<1> QED  BY <1>1, <1>3, <1>4 DEF t

\* The one question that waits, and its answer.
LEMMA OnlyOne ==
    ASSUME NEW q, NEW n
    PROVE  /\ Tail(<<q>>) = <<>> /\ Head(<<q>>) = q
           /\ [of |-> <<q>>, len |-> n].of = <<q>>
<1>1. <<q>> \in Seq({q})  OBVIOUS
<1>2. Tail(<<q>>) = <<>> /\ Head(<<q>>) = q  BY <1>1
<1>3. [of |-> <<q>>, len |-> n].of = <<q>>  OBVIOUS
<1> QED  BY <1>2, <1>3

\* The client thread answers the question that waits.
LEMMA WorkKeeps ==
    ASSUME PaneInv, Work
    PROVE  PaneInv'
<1>1. /\ asks # <<>> /\ asks' = Tail(asks)
      /\ UNCHANGED <<config, phase, form, insert, results, menu, wanted, apart>>
      /\ \E len \in 0..2 : answers' = Append(answers, [of |-> <<Head(asks)>>, len |-> len])
      BY DEF Work
<1>2. PICK len : answers' = Append(answers, [of |-> <<Head(asks)>>, len |-> len])  BY <1>1
<1>3. PICK q : asks = <<q>>  BY <1>1 DEF PaneInv
<1>4. asks' = <<>> /\ Head(asks) = q
      BY <1>1, <1>3, OnlyOne
<1>5. IsSeq(answers)  BY DEF PaneInv
<1>6. /\ IsSeq(answers') /\ answers' # <<>> /\ Last(answers') = [of |-> <<q>>, len |-> len]
      <2>1. answers' = Append(answers, [of |-> <<q>>, len |-> len])  BY <1>2, <1>4
      <2> QED  BY <1>5, <2>1, LastOfAppend
<1>7. LastSearch'
      <2>1. Followed => wanted = <<q>>  BY <1>1, <1>3 DEF PaneInv, LastSearch, Followed
      <2>2. Last(answers)'.of = <<q>>
            <3> DEFINE l == Last(answers')
            <3>1. Last(answers)' = l  BY DEF Last
            <3>2. l = [of |-> <<q>>, len |-> len]  BY <1>6
            <3> HIDE DEF l
            <3>3. l.of = <<q>>  BY <3>2, OnlyOne
            <3> QED  BY <3>1, <3>3
      <2> QED  BY <1>1, <1>4, <1>6, <2>1, <2>2 DEF LastSearch, Followed
<1>8. Of(form)' = Of(form) /\ InBox' = InBox
      BY <1>1 DEF InBox, Of, IsEmpty, Query, Filters, Custom,
                  Rating, Number
<1>9. FormSearched' /\ StrayedIsApart'
      BY <1>1, <1>8 DEF PaneInv, FormSearched, StrayedIsApart
<1> QED  BY <1>1, <1>4, <1>6, <1>7, <1>9 DEF PaneInv

\* Or it has no answer.
LEMMA LostKeeps ==
    ASSUME PaneInv, WorkLost
    PROVE  PaneInv'
<1>1. /\ asks # <<>> /\ asks' = Tail(asks) /\ apart' = apart \union {"lost"}
      /\ UNCHANGED <<config, phase, form, insert, results, answers, menu, wanted>>
      BY DEF WorkLost
<1>2. asks' = <<>>  BY <1>1, OnlyOne DEF PaneInv
<1>3. "lost" \in apart'  BY <1>1
<1>4. LastSearch' /\ FormSearched'  BY <1>3 DEF LastSearch, Followed, FormSearched
<1>5. StrayedIsApart'  BY <1>1, <1>3 DEF StrayedIsApart
<1> QED  BY <1>1, <1>2, <1>4, <1>5 DEF PaneInv

\* The pane takes an answer (search/mod.rs:1184-1200).
LEMMA QueryFinishedKeeps ==
    ASSUME PaneInv, QueryFinished
    PROVE  PaneInv'
<1>1. /\ answers # <<>> /\ results' = Head(answers) /\ answers' = Tail(answers)
      /\ insert' = Replaced(insert)
      /\ UNCHANGED <<config, phase, form, asks, menu, wanted, apart>>
      BY DEF QueryFinished
<1>2. IsSeq(answers)  BY DEF PaneInv
<1>3. /\ IsSeq(answers')
      /\ answers' # <<>> => Last(answers') = Last(answers)
      /\ answers' = <<>> => results' = Last(answers)
      BY <1>1, <1>2, LastOfRest
<1>4. InBox' <=> InBox
      <2>1. Replaced(insert) \in Boxes(config) <=> insert \in Boxes(config)
            BY ReplacedBox DEF PaneInv
      <2> QED  BY <1>1, <2>1 DEF InBox, PaneInv, FormOf
<1>5. LastSearch'  BY <1>1, <1>3 DEF PaneInv, LastSearch, Followed
<1>6. Of(form)' = Of(form)
      BY <1>1 DEF Of, IsEmpty, Query, Filters, Custom,
                  Rating, Number
<1>7. FormSearched' /\ StrayedIsApart'
      BY <1>1, <1>4, <1>6 DEF PaneInv, FormSearched, StrayedIsApart
<1> QED  BY <1>1, <1>3, <1>5, <1>7 DEF PaneInv

\* The menu is lit, whatever its sections.
MenuInv == menu # <<>> => \E n, m : n \in Nat /\ menu = <<m>> /\ MenuOf(n, m)

LEMMA ResultMenuIsLit == \E n \in Nat : MenuOf(n, ResultMenu)
<1> DEFINE s1 == Section("list", IF results.len > 0 THEN 4 ELSE 0)
           s2 == Section("list", 2)
           s3 == Section("list", 1)
           ss == <<s1, s2, s3>>
<1>1. \A k \in Nat : /\ Section("list", k) \in Sections
                     /\ Section("list", k).sel = Unselected
      BY DEF Section, Sections, Unselected
<1>2. /\ s1 \in Sections /\ s2 \in Sections /\ s3 \in Sections
      /\ s1.sel = Unselected /\ s2.sel = Unselected /\ s3.sel = Unselected
      BY <1>1
<1>3. ResultMenu = NewMenu(ss)  BY DEF ResultMenu
<1> HIDE DEF s1, s2, s3
<1>4. ss \in [1..3 -> Sections] /\ \A i \in 1..3 : ss[i].sel = Unselected
      BY <1>2
<1> HIDE DEF ss
<1>5. MenuOf(3, NewMenu(ss))
      <2>1. 3 \in Nat /\ 3 > 0  OBVIOUS
      <2> QED  BY <1>4, <2>1, NewMenuIsLit
<1> QED  BY <1>3, <1>5

LEMMA MenuStep ==
    ASSUME MenuInv, [PaneNext]_paneVars
    PROVE  MenuInv'
<1>1. CASE menu' = menu  BY <1>1 DEF MenuInv
<1>2. CASE menu' = <<>>  BY <1>2 DEF MenuInv
<1>3. CASE OpenMenu
      <2>1. menu' = <<ResultMenu>>  BY <1>3 DEF OpenMenu
      <2> QED  BY <2>1, ResultMenuIsLit DEF MenuInv
<1>4. CASE OnMenu
      <2>1. menu # <<>>
            BY <1>4 DEF OnMenu, MenuWalk, MenuWheel, MenuEnds,
             MenuClick, MenuSearch, MenuType, MenuResult,
             MenuEndTyping, MenuCloses, MenuKey, MenuMouse, InMenu
      <2>2. PICK n, m : n \in Nat /\ menu = <<m>> /\ MenuOf(n, m)  BY <2>1 DEF MenuInv
      <2>3. menu[1] = m /\ m.sections \in [1..n -> Sections]  BY <2>2 DEF MenuOf
      <2>4. AllItems \subseteq Places(n, m.sections)
            <3>1. DOMAIN m.sections = 1..n  BY <2>3
            <3> SUFFICES ASSUME NEW i \in 1..n, NEW h \in {i} \X Items(m.sections[i])
                         PROVE  h \in Places(n, m.sections)
                BY <2>3, <3>1 DEF AllItems
            <3>2. m.sections[i].len \in Nat  BY <2>3 DEF Sections
            <3>3. h[1] = i /\ h[2] \in 0..(m.sections[i].len - 1) /\ h = <<h[1], h[2]>>
                  BY DEF Items
            <3> QED  BY <3>2, <3>3 DEF Places
      <2>5. ASSUME NEW k, MenuOf(n, k), menu' = <<k>> PROVE MenuInv'
            BY <2>2, <2>5 DEF MenuInv
      <2>6. CASE MenuWalk \/ MenuWheel
            <3>1. menu' \in {<<NextItem(m)>>, <<PrevItem(m)>>}
                  BY <2>3, <2>6 DEF MenuWalk, MenuWheel
            <3> QED  BY <2>2, <2>5, <3>1, StepKeeps
      <2>7. CASE MenuEnds
            <3>1. menu' \in {<<TopItem(m)>>, <<BottomItem(m)>>}
                  BY <2>3, <2>7 DEF MenuEnds
            <3> QED  BY <2>2, <2>5, <3>1, EndsKeep
      <2>8. CASE MenuClick
            <3>1. PICK at \in AllItems : menu' = <<Highlight(m, at[1], at[2])>>
                  BY <2>3, <2>8 DEF MenuClick
            <3>2. at[1] \in 1..n /\ at[2] \in Nat /\ at[2] < m.sections[at[1]].len
                  BY <2>4 DEF Places
            <3>3. m.sections[at[1]].len \in Nat  BY <2>3, <3>2 DEF Sections
            <3>4. at[2] \in Int /\ at[2] \in 0..(m.sections[at[1]].len - 1)
                  BY <3>2, <3>3
            <3> QED  BY <2>2, <2>5, <3>1, <3>2, <3>4, HighlightKeeps
      <2>9. CASE MenuType \/ MenuResult
            <3>1. PICK hits \in Hits :
                     \/ menu' = <<FirstResult(m, hits)>>
                     \/ menu' = <<NextResult(m, hits)>>
                     \/ menu' = <<PrevResult(m, hits)>>
                  BY <2>3, <2>9 DEF MenuType, MenuResult
            <3>2. hits \in SUBSET Places(n, m.sections)  BY <2>4 DEF Hits
            <3> QED  BY <2>2, <2>5, <3>1, <3>2, ResultKeeps
      <2>10. CASE MenuSearch \/ MenuEndTyping \/ MenuCloses
            <3>1. menu' = menu \/ menu' = <<>>
                  BY <2>10 DEF MenuSearch, MenuEndTyping, MenuCloses
            <3> QED  BY <1>1, <1>2, <3>1
      <2> QED  BY <1>4, <2>6, <2>7, <2>8, <2>9, <2>10 DEF OnMenu
<1>5. CASE Work \/ WorkLost \/ QueryFinished
      BY <1>1, <1>5 DEF Work, WorkLost, QueryFinished
<1>6. CASE InForm
      BY <1>1, <1>6 DEF InForm, FocusMoves, Confirm, DoubleClick,
           FocusInput, Delete, ClickForm, Wheel, ShowResults,
           ClickPreview, PaneKey, Mouse
<1>7. CASE InSongs
      BY <1>1, <1>3, <1>7 DEF InSongs, BackToForm, ClickBack, FilterSongs,
           PaneKey, Mouse
<1>8. CASE Typing
      BY <1>1, <1>8 DEF Typing, TypeText, EndTyping
<1>9. CASE Events
      BY <1>1, <1>9 DEF Events, Database, Reconnected, ConfigChanged,
           Event
<1>10. CASE UNCHANGED paneVars  BY <1>1, <1>10 DEF paneVars
<1> QED  BY <1>4, <1>5, <1>6, <1>7, <1>8, <1>9, <1>10 DEF PaneNext

LEMMA PaneStep ==
    ASSUME PaneInv, [PaneNext]_paneVars
    PROVE  PaneInv'
<1>1. CASE UNCHANGED paneVars
      <2>1. UNCHANGED <<config, phase, form, insert, results, asks, answers, menu, wanted, apart>>
            BY <1>1 DEF paneVars
      <2>2. Of(form)' = Of(form) /\ InBox' = InBox
            BY <2>1 DEF InBox, Of, IsEmpty, Query, Filters, Custom,
                        Rating, Number
      <2>3. LastSearch' /\ FormSearched' /\ StrayedIsApart'
            BY <2>1, <2>2 DEF PaneInv, LastSearch, Followed, FormSearched, StrayedIsApart
      <2> QED  BY <2>1, <2>3 DEF PaneInv
<1> QED
    BY <1>1, WorkKeeps, LostKeeps, QueryFinishedKeeps, FormKeeps, SongsKeep, TypingKeeps, OnMenuKeeps,
       EventKeeps
       DEF PaneNext

LEMMA PaneBegins == PaneInit => PaneInv /\ MenuInv
<1> SUFFICES ASSUME PaneInit PROVE PaneInv /\ MenuInv
    OBVIOUS
<1>1. /\ config \in Configs /\ form = NewForm(config) /\ insert = NoBuffer
      /\ results = Nothing /\ asks = <<>> /\ answers = <<>> /\ menu = <<>>
      /\ wanted = <<>> /\ phase = "search"
      BY DEF PaneInit
<1>2. Fresh
      <2>1. /\ DOMAIN form = {"text", "spin"} /\ DOMAIN form.text = Boxes(config)
            /\ \A k \in Boxes(config) : form.text[k] = Initial(k)
            /\ form.spin["rating"] = 0 /\ form.spin["liked"] = 0
            BY <1>1, SearchAssumption DEF NewForm
      <2> QED  BY <1>1, <2>1 DEF Fresh, FormOf
<1>3. LastSearch  BY <1>1 DEF LastSearch, Nothing
<1>4. FormSearched  BY <1>1, <1>2, FreshAsksNothing DEF FormSearched
<1>5. StrayedIsApart  BY <1>1 DEF StrayedIsApart
<1>6. IsSeq(answers)  BY <1>1, EmptyIsSeq
<1> QED  BY <1>1, <1>2, <1>3, <1>4, <1>5, <1>6 DEF PaneInv, MenuInv, Fresh

\* For every configuration, any inputs and any number of questions and answers.
THEOREM PaneInvariant ==
    PaneSpec => [](PaneInv /\ MenuInv)
<1>1. PaneInit => PaneInv /\ MenuInv  BY PaneBegins
<1>2. (PaneInv /\ MenuInv) /\ [PaneNext]_paneVars => (PaneInv /\ MenuInv)'
      BY PaneStep, MenuStep
<1> QED  BY <1>1, <1>2, PTL DEF PaneSpec

\* With nothing on its way the songs are those of the last search.
THEOREM SongsOfLastSearch ==
    PaneSpec => []ResultsOfLastSearch
<1>1. PaneInv => ResultsOfLastSearch
      BY DEF PaneInv, LastSearch, Followed, ResultsOfLastSearch, Quiet, OnTheirWay
<1> QED  BY <1>1, PaneInvariant, PTL

\* Without a search button they are those the form asks for.
THEOREM SongsOfForm ==
    PaneSpec => []ResultsOfForm
<1>1. PaneInv => ResultsOfForm
      <2> SUFFICES ASSUME PaneInv, Quiet, ~config.button, ~InBox, apart = {}
                   PROVE  results.of = Of(form)
          BY DEF ResultsOfForm, InBox, Of
      <2>1. results.of = wanted
            BY DEF PaneInv, LastSearch, Followed, Quiet, OnTheirWay
      <2>2. wanted = Of(form)  BY DEF PaneInv, FormSearched
      <2> QED  BY <2>1, <2>2
<1> QED  BY <1>1, PaneInvariant, PTL

\* One item of the open menu is highlighted, whatever it was reached by.
THEOREM OneHighlight ==
    PaneSpec => []MenuIsHighlighted
<1>1. MenuInv => MenuIsHighlighted
      <2> SUFFICES ASSUME MenuInv, menu # <<>> PROVE IsHighlighted(menu[1])
          BY DEF MenuIsHighlighted
      <2>1. PICK n, m : n \in Nat /\ menu = <<m>> /\ MenuOf(n, m)  BY DEF MenuInv
      <2>2. menu[1] = m  BY <2>1
      <2>3. DOMAIN m.sections = 1..n  BY <2>1 DEF MenuOf
      <2> QED
          BY <2>1, <2>2, <2>3
             DEF MenuOf, Lit, IsHighlighted, Current, Items
<1> QED  BY <1>1, PaneInvariant, PTL

=============================================================================
