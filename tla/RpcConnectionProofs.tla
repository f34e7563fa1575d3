------------------------- MODULE RpcConnectionProofs -------------------------
(***************************************************************************)
(* Proofs about RpcConnection for any number of requests, messages and     *)
(* permits and a bus of any size: its types, and that a window which       *)
(* subscribes and then reads the backlog misses nothing.                   *)
(***************************************************************************)
EXTENDS RpcConnection, SequenceTheorems, TLAPS

USE BoundsAssumption, LimitsAssumption

\* What is in a queue.
Elems(q) == {q[k] : k \in 1..Len(q)}

Answer  == [id : 0..MaxRequest, page : SUBSET (1..MaxMessage)]
Request == [method : Methods, knew : SUBSET (0..MaxRequest)]

\* Whoever has got anywhere was asked for, a window knows the answers it
\* asked with, and what is replayed is a roster, to who subscribed.
AskedOK ==
    /\ \A i \in Ids : task[i] # "none" => i <= Len(asked)
    /\ \A i \in Elems(lines) : i <= Len(asked)
    /\ \A a \in Elems(out) : a.id <= Len(asked)
    /\ \A a \in answered : a <= Len(asked)
    /\ \A i \in 1..Len(asked) : asked[i].knew \subseteq answered
    /\ \A i \in Ids : task[i] = "replaying" =>
          found[i].roster # 0 /\ asked[i].method = "subscribe"

\* The lines are the last requests in their order, and no task has them.
LinesOK ==
    /\ \A k \in 1..Len(lines) : lines[k] = Len(asked) - Len(lines) + k
    /\ open => \A i \in Ids :
          i > Len(asked) - Len(lines) => task[i] = "none"

\* Request i was answered, or its answer is on the way.
Got(i) == i \in answered \/ \E a \in Elems(out) : a.id = i

\* A subscription that was answered holds, when none was taken back.
SubscribedOK ==
    AskedFor("unsubscribe") = {} =>
        \A s \in AskedFor("subscribe") :
            task[s] \in {"replaying", "finished"} \/ Got(s) => subs

\* What is said to be deleted was stored and is not any more.
DeletedOK ==
    \A e \in unsaid \cup Elems(pending) :
        e.kind = "messageDeleted" => e.of <= sent /\ e.of \notin stored

Message(m) == [kind |-> "message", of |-> m]

\* m is shown, or on its way: as an event, or on the page b asked for.
Arrives(m, b) ==
    \/ m \in shown
    \/ Message(m) \in unsaid \cup Elems(pending)
    \/ task[b] = "finished" /\ m \in found[b].messages
    \/ \E a \in Elems(out) : m \in a.page

\* b asked for the backlog knowing it was subscribed.
Follows(b) == /\ b \in AskedFor("getBacklog")
              /\ AskedFor("subscribe") \cap asked[b].knew # {}

\* From the moment a backlog is read, nothing is only in the store.
CaughtOK ==
    open /\ ~lagged /\ AskedFor("unsubscribe") = {} =>
        \A b \in Ids : Follows(b) /\ (task[b] = "finished" \/ Got(b)) =>
            \A m \in stored : Arrives(m, b)

\* The inductive invariant.
Inv == TypeOK /\ AskedOK /\ LinesOK /\ SubscribedOK /\ DeletedOK /\ CaughtOK

-----------------------------------------------------------------------------
(* Queues.                                                                 *)

\* What is put in a queue is in it from then on.
LEMMA ElemsAppend ==
    ASSUME NEW S, NEW q \in Seq(S), NEW x \in S
    PROVE  /\ Append(q, x) \in Seq(S)
           /\ Len(Append(q, x)) = Len(q) + 1
           /\ Elems(Append(q, x)) = Elems(q) \cup {x}
<1>1. /\ Append(q, x) \in Seq(S)
      /\ Len(Append(q, x)) = Len(q) + 1 /\ Len(q) \in Nat
      /\ \A k \in 1..Len(q) : Append(q, x)[k] = q[k]
      /\ Append(q, x)[Len(q) + 1] = x
  BY AppendProperties
<1>2. 1..(Len(q) + 1) = 1..Len(q) \cup {Len(q) + 1}
  BY <1>1
<1>3. QED
  BY <1>1, <1>2 DEF Elems

\* Taking the first of a queue leaves the others in it.
LEMMA ElemsTail ==
    ASSUME NEW S, NEW q \in Seq(S), q # <<>>
    PROVE  /\ Tail(q) \in Seq(S)
           /\ Len(Tail(q)) = Len(q) - 1
           /\ Head(q) \in S
           /\ Elems(q) = {Head(q)} \cup Elems(Tail(q))
<1>1. /\ Tail(q) \in Seq(S) /\ Head(q) \in S
      /\ Len(Tail(q)) = Len(q) - 1
      /\ \A k \in 1..(Len(q) - 1) : Tail(q)[k] = q[k + 1]
      /\ Head(q) = q[1]
  BY HeadTailProperties
<1>2. Len(q) \in Nat \ {0}
  BY EmptySeq
<1>3. ASSUME NEW k \in 1..Len(q)
      PROVE  q[k] \in {Head(q)} \cup Elems(Tail(q))
  <2>1. CASE k = 1
    BY <1>1, <2>1
  <2>2. CASE k # 1
    <3>1. k - 1 \in 1..(Len(q) - 1) /\ q[k] = Tail(q)[k - 1]
      BY <1>1, <1>2, <2>2
    <3>2. QED
      BY <1>1, <3>1 DEF Elems
  <2>3. QED
    BY <2>1, <2>2
<1>4. ASSUME NEW k \in 1..Len(Tail(q))
      PROVE  Tail(q)[k] \in Elems(q)
  <2>1. k + 1 \in 1..Len(q)
    BY <1>1, <1>2
  <2>2. QED
    BY <1>1, <2>1 DEF Elems
<1>5. Head(q) \in Elems(q)
  BY <1>1, <1>2 DEF Elems
<1>6. QED
  BY <1>1, <1>3, <1>4, <1>5 DEF Elems

\* What is in a queue is of its type.
LEMMA ElemsIn ==
    ASSUME NEW S, NEW q \in Seq(S)
    PROVE  Elems(q) \subseteq S
BY DEF Elems

\* Nothing is in an empty queue.
LEMMA ElemsEmpty == Elems(<<>>) = {}
BY DEF Elems

\* What is emitted is on the bus, with all that was, unless it ran over.
LEMMA Emitted ==
    ASSUME BusOK, NEW e \in Events, Emit(e)
    PROVE  /\ pending' \in Seq(Events) /\ Len(pending') <= Capacity
           /\ lagged' \in BOOLEAN
           /\ Elems(pending') \subseteq Elems(pending) \cup {e}
           /\ ~lagged' =>
                 ~lagged /\ Elems(pending') = Elems(pending) \cup {e}
<1>1. pending \in Seq(Events) /\ Len(pending) \in Nat /\ Len(pending) <= Capacity
  BY DEF BusOK
<1>2. CASE Len(pending) < Capacity
  <2>1. pending' = Append(pending, e) /\ lagged' = lagged
    BY <1>2 DEF Emit
  <2>2. QED
    BY <1>1, <1>2, <2>1, ElemsAppend DEF BusOK
<1>3. CASE ~(Len(pending) < Capacity)
  <2>1. pending' = Append(Tail(pending), e) /\ lagged'
    BY <1>3 DEF Emit
  <2>2. pending # <<>>
    BY <1>1, <1>3, EmptySeq
  <2>3. /\ Tail(pending) \in Seq(Events) /\ Len(Tail(pending)) = Len(pending) - 1
        /\ Elems(Tail(pending)) \subseteq Elems(pending)
    BY <1>1, <2>2, ElemsTail
  <2>4. lagged' \in BOOLEAN
    BY <1>3 DEF Emit
  <2>5. /\ pending' \in Seq(Events) /\ Len(pending') <= Capacity
        /\ Elems(pending') \subseteq Elems(pending) \cup {e}
    <3>1. /\ pending' \in Seq(Events)
          /\ Len(pending') = Len(Tail(pending)) + 1
          /\ Elems(pending') = Elems(Tail(pending)) \cup {e}
      <4> DEFINE t == Tail(pending)
      <4>1. t \in Seq(Events) /\ pending' = Append(t, e)
        BY <2>1, <2>3
      <4> HIDE DEF t
      <4>2. /\ pending' \in Seq(Events)
            /\ Len(pending') = Len(t) + 1
            /\ Elems(pending') = Elems(t) \cup {e}
        BY <4>1, ElemsAppend
      <4>3. QED
        BY <4>2 DEF t
    <3>2. Len(pending') <= Capacity
      <4>1. Len(pending') = (Len(pending) - 1) + 1
        BY <2>3, <3>1
      <4>2. QED
        BY <1>1, <4>1
    <3>3. Elems(pending') \subseteq Elems(pending) \cup {e}
      BY <2>3, <3>1
    <3>4. QED
      BY <3>1, <3>2, <3>3
  <2>6. QED
    BY <2>1, <2>4, <2>5
<1>4. QED
  BY <1>2, <1>3

-----------------------------------------------------------------------------
(* Types.                                                                  *)

\* What a task does to the requests, at most, is to put an answer in `out'.
LEMMA AnswerPut ==
    ASSUME TypeOK, NEW i \in Ids, NEW a \in Answer, Answers(i, a)
    PROVE  /\ out' \in Seq(Answer)
           /\ Elems(out) \subseteq Elems(out')
           /\ Elems(out') \subseteq Elems(out) \cup {a}
           /\ open => Elems(out') = Elems(out) \cup {a}
<1>1. out \in Seq(Answer)
  BY DEF TypeOK, RequestsOK, Answer
<1>2. CASE open
  BY <1>1, <1>2, ElemsAppend DEF Answers
<1>3. CASE ~open
  BY <1>1, <1>3 DEF Answers
<1>4. QED
  BY <1>2, <1>3

\* The answers a task gives.
LEMMA AnswerOf ==
    ASSUME TypeOK, NEW i \in Ids
    PROVE  /\ [id |-> i, page |-> found[i].messages] \in Answer
           /\ [id |-> 0, page |-> {}] \in Answer
BY DEF TypeOK, TasksOK, Answer, Ids

\* What is said is an event.
LEMMA EventsOf ==
    /\ \A m \in 1..MaxMessage : Message(m) \in Events
    /\ \A m \in 1..MaxMessage :
          [kind |-> "messageDeleted", of |-> m] \in Events
    /\ \A r \in 1..MaxRoster :
          [kind |-> "presenceChange", of |-> r] \in Events
BY DEF Events, Message

\* Requests, lines and answers keep their type.
LEMMA RequestsStep == TypeOK /\ [Next]_vars => RequestsOK'
<1> SUFFICES ASSUME TypeOK, [Next]_vars
             PROVE  RequestsOK'
  OBVIOUS
<1> USE DEF RequestsOK
<1>0. /\ asked \in Seq(Request) /\ Len(asked) \in Nat /\ Len(asked) <= MaxRequest
      /\ lines \in Seq(Ids) /\ out \in Seq(Answer)
  BY DEF TypeOK, Request, Answer
<1>1. ASSUME NEW method \in Methods, Ask(method)
      PROVE  RequestsOK'
  <2>1. [method |-> method, knew |-> answered] \in Request
    BY DEF TypeOK, WindowOK, Request
  <2>2. Len(asked) + 1 \in Ids
    BY <1>0, <1>1 DEF Ask, Ids
  <2>3. asked' \in Seq(Request) /\ Len(asked') <= MaxRequest
    BY <1>0, <1>1, <2>1, ElemsAppend DEF Ask
  <2>4. lines' \in Seq(Ids)
    BY <1>0, <1>1, <2>2, ElemsAppend DEF Ask
  <2>5. QED
    BY <1>0, <1>1, <2>3, <2>4 DEF Ask, Request, Answer
<1>2. CASE Close
  <2>1. lines' \in Seq(Ids) /\ out' \in Seq(Answer)
    BY <1>2 DEF Close
  <2>2. QED
    BY <1>0, <1>2, <2>1 DEF Close, Request, Answer
<1>3. CASE ReadLine
  <2>1. lines' \in Seq(Ids)
    BY <1>0, <1>3, ElemsTail DEF ReadLine
  <2>2. QED
    BY <1>0, <1>3, <2>1 DEF ReadLine, Request, Answer
<1>4. CASE WriteAnswer
  <2>1. out' \in Seq(Answer)
    BY <1>0, <1>4, ElemsTail DEF WriteAnswer
  <2>2. QED
    BY <1>0, <1>4, <2>1 DEF WriteAnswer, Request, Answer
<1>5. ASSUME NEW i \in Ids, Respond(i) \/ Panics(i)
      PROVE  RequestsOK'
  <2>1. out' \in Seq(Answer)
    BY <1>5, AnswerPut, AnswerOf DEF Respond, Panics
  <2>2. QED
    BY <1>0, <1>5, <2>1 DEF Respond, Panics, Answers, Request, Answer
<1>6. CASE Record \/ Delete \/ SetPresence \/ Say \/ ForwardEvent
  BY <1>0, <1>6 DEF Record, Delete, SetPresence, Say, ForwardEvent, Request,
     Answer
<1>7. ASSUME NEW i \in Ids, \/ Start(i) \/ Subscribe(i) \/ Replay(i)
                            \/ Unsubscribe(i) \/ GetBacklog(i)
      PROVE  RequestsOK'
  BY <1>0, <1>7 DEF Start, Subscribe, Replay, Unsubscribe, GetBacklog,
     Request, Answer
<1>8. CASE UNCHANGED vars
  BY <1>0, <1>8 DEF vars, Request, Answer
<1>9. QED
  BY <1>1, <1>2, <1>3, <1>4, <1>5, <1>6, <1>7, <1>8 DEF Next

\* What each task does and found keeps its type.
LEMMA TasksStep == TypeOK /\ AskedOK /\ [Next]_vars => TasksOK'
<1> SUFFICES ASSUME TypeOK, [Next]_vars
             PROVE  TasksOK'
  OBVIOUS
<1> USE DEF TasksOK
<1>0. TasksOK
  BY DEF TypeOK
<1>1. CASE ReadLine
  BY <1>0, <1>1 DEF ReadLine
<1>2. ASSUME NEW i \in Ids, Start(i) \/ Replay(i)
      PROVE  TasksOK'
  BY <1>0, <1>2 DEF Start, Replay
<1>3. ASSUME NEW i \in Ids, Subscribe(i) \/ Unsubscribe(i)
      PROVE  TasksOK'
  <2>1. subs' \in BOOLEAN
    BY <1>3 DEF Subscribe, Unsubscribe
  <2>2. /\ \/ task' = [task EXCEPT ![i] = "finished"]
           \/ task' = [task EXCEPT ![i] = "replaying"]
        /\ \/ found' = found
           \/ found' = [found EXCEPT ![i].roster = roster]
    BY <1>3 DEF Subscribe, Unsubscribe
  <2>3. roster \in 0..MaxRoster
    BY DEF TypeOK, BackendOK
  <2>4. /\ task' \in [Ids -> {"none", "waiting", "running", "replaying",
                              "finished", "done", "panicked"}]
        /\ found' \in [Ids -> [messages : SUBSET (1..MaxMessage),
                               roster : 0..MaxRoster]]
    BY <1>0, <2>2, <2>3
  <2>5. QED
    BY <2>1, <2>4
<1>4. ASSUME NEW i \in Ids, GetBacklog(i)
      PROVE  TasksOK'
  BY <1>0, <1>4 DEF GetBacklog, TypeOK, BackendOK
<1>5. ASSUME NEW i \in Ids, Respond(i) \/ Panics(i)
      PROVE  TasksOK'
  <2>1. Nothing \in [messages : SUBSET (1..MaxMessage), roster : 0..MaxRoster]
    BY DEF Nothing
  <2>2. /\ \/ task' = [task EXCEPT ![i] = "done"]
           \/ task' = [task EXCEPT ![i] = "panicked"]
        /\ found' = [found EXCEPT ![i] = Nothing]
    BY <1>5 DEF Respond, Panics, Answers
  <2>3. /\ task' \in [Ids -> {"none", "waiting", "running", "replaying",
                              "finished", "done", "panicked"}]
        /\ found' \in [Ids -> [messages : SUBSET (1..MaxMessage),
                               roster : 0..MaxRoster]]
    BY <1>0, <2>1, <2>2
  <2>4. subs' \in BOOLEAN
    BY <1>0, <1>5, Zenon DEF Respond, Panics, Answers
  <2>5. QED
    BY <2>3, <2>4
<1>6. CASE \/ Record \/ Delete \/ SetPresence \/ Say \/ Close
           \/ WriteAnswer \/ ForwardEvent
           \/ \E method \in Methods : Ask(method)
  BY <1>0, <1>6 DEF Record, Delete, SetPresence, Say, Close, WriteAnswer,
     ForwardEvent, Ask, tasks
<1>7. CASE UNCHANGED vars
  BY <1>0, <1>7 DEF vars, tasks
<1>8. QED
  BY <1>1, <1>2, <1>3, <1>4, <1>5, <1>6, <1>7 DEF Next

\* The bus holds events, and no more of them than it can.
LEMMA BusStep == TypeOK /\ AskedOK /\ [Next]_vars => BusOK'
<1> SUFFICES ASSUME TypeOK, AskedOK, [Next]_vars
             PROVE  BusOK'
  OBVIOUS
<1> USE DEF BusOK
<1>0. BusOK
  BY DEF TypeOK
<1>1. CASE Say
  <2>1. PICK e \in unsaid : Emit(e)
    BY <1>1 DEF Say
  <2>2. e \in Events
    BY DEF TypeOK, BackendOK
  <2>3. QED
    BY <1>0, <1>1, <2>1, <2>2, Emitted DEF Say
<1>2. ASSUME NEW i \in Ids, Replay(i)
      PROVE  BusOK'
  <2>1. CASE open
    <3>1. found[i].roster \in 1..MaxRoster
      BY <1>2 DEF Replay, AskedOK, TypeOK, TasksOK
    <3>2. Emit([kind |-> "presenceChange", of |-> found[i].roster])
      BY <1>2, <2>1 DEF Replay
    <3>3. QED
      BY <1>0, <1>2, <3>1, <3>2, Emitted, EventsOf DEF Replay
  <2>2. CASE ~open
    BY <1>0, <1>2, <2>2 DEF Replay, bus
  <2>3. QED
    BY <2>1, <2>2
<1>3. CASE Close
  <2>1. pending' \in Seq(Events) /\ Len(pending') <= Capacity
    BY <1>3 DEF Close
  <2>2. open' \in BOOLEAN /\ lagged' \in BOOLEAN
    BY <1>0, <1>3 DEF Close
  <2>3. QED
    BY <2>1, <2>2
<1>4. CASE ForwardEvent
  <2>1. pending' \in Seq(Events) /\ Len(pending') = Len(pending) - 1
    BY <1>0, <1>4, ElemsTail DEF ForwardEvent
  <2>2. Len(pending) \in Nat
    BY <1>0
  <2>3. QED
    BY <1>0, <1>4, <2>1, <2>2 DEF ForwardEvent
<1>5. CASE \/ Record \/ Delete \/ SetPresence \/ ReadLine \/ WriteAnswer
           \/ \E method \in Methods : Ask(method)
  BY <1>0, <1>5 DEF Record, Delete, SetPresence, ReadLine, WriteAnswer, Ask, bus
<1>6. ASSUME NEW i \in Ids, \/ Start(i) \/ Subscribe(i) \/ Unsubscribe(i)
                            \/ GetBacklog(i) \/ Respond(i) \/ Panics(i)
      PROVE  BusOK'
  BY <1>0, <1>6 DEF Start, Subscribe, Unsubscribe, GetBacklog, Respond,
     Panics, Answers, bus
<1>7. CASE UNCHANGED vars
  BY <1>0, <1>7 DEF vars, bus
<1>8. QED
  BY <1>1, <1>2, <1>3, <1>4, <1>5, <1>6, <1>7 DEF Next

\* What is stored, and what is still to be said, keeps its type.
LEMMA BackendStep == TypeOK /\ [Next]_vars => BackendOK'
<1> SUFFICES ASSUME TypeOK, [Next]_vars
             PROVE  BackendOK'
  OBVIOUS
<1> USE DEF BackendOK
<1>0. BackendOK
  BY DEF TypeOK
<1>1. CASE Record
  <2>1. Message(sent + 1) \in Events
    BY <1>0, <1>1, EventsOf DEF Record
  <2>2. QED
    BY <1>0, <1>1, <2>1 DEF Record, Message
<1>2. CASE Delete
  <2>1. PICK m \in stored :
            /\ stored' = stored \ {m}
            /\ unsaid' = unsaid \cup {[kind |-> "messageDeleted", of |-> m]}
    BY <1>2 DEF Delete
  <2>2. [kind |-> "messageDeleted", of |-> m] \in Events
    BY <1>0, EventsOf
  <2>3. QED
    BY <1>0, <1>2, <2>1, <2>2 DEF Delete
<1>3. CASE SetPresence
  <2>1. [kind |-> "presenceChange", of |-> roster + 1] \in Events
    BY <1>0, <1>3, EventsOf DEF SetPresence
  <2>2. QED
    BY <1>0, <1>3, <2>1 DEF SetPresence
<1>4. CASE Say
  BY <1>0, <1>4 DEF Say
<1>5. CASE \/ Close \/ ReadLine \/ WriteAnswer \/ ForwardEvent
           \/ \E method \in Methods : Ask(method)
  BY <1>0, <1>5 DEF Close, ReadLine, WriteAnswer, ForwardEvent, Ask, backend
<1>6. ASSUME NEW i \in Ids, \/ Start(i) \/ Subscribe(i) \/ Replay(i)
                            \/ Unsubscribe(i) \/ GetBacklog(i)
                            \/ Respond(i) \/ Panics(i)
      PROVE  BackendOK'
  BY <1>0, <1>6 DEF Start, Subscribe, Replay, Unsubscribe, GetBacklog,
     Respond, Panics, Answers, backend
<1>7. CASE UNCHANGED vars
  BY <1>0, <1>7 DEF vars, backend
<1>8. QED
  BY <1>1, <1>2, <1>3, <1>4, <1>5, <1>6, <1>7 DEF Next

\* What the window shows keeps its type.
LEMMA WindowStep == TypeOK /\ [Next]_vars => WindowOK'
<1> SUFFICES ASSUME TypeOK, [Next]_vars
             PROVE  WindowOK'
  OBVIOUS
<1> USE DEF WindowOK
<1>0. WindowOK
  BY DEF TypeOK
<1>1. CASE WriteAnswer
  <2>1. Head(out) \in Answer
    BY <1>1, ElemsTail DEF WriteAnswer, TypeOK, RequestsOK, Answer
  <2>2. QED
    BY <1>0, <1>1, <2>1 DEF WriteAnswer, Answer
<1>2. CASE ForwardEvent
  <2>1. Head(pending) \in Events
    BY <1>2, ElemsTail DEF ForwardEvent, TypeOK, BusOK
  <2>2. CASE subs
    BY <1>0, <1>2, <2>1, <2>2 DEF ForwardEvent, Takes, Events
  <2>3. CASE ~subs
    BY <1>0, <1>2, <2>3 DEF ForwardEvent
  <2>4. QED
    BY <2>2, <2>3
<1>3. CASE \/ Record \/ Delete \/ SetPresence \/ Say \/ Close \/ ReadLine
           \/ \E method \in Methods : Ask(method)
  BY <1>0, <1>3 DEF Record, Delete, SetPresence, Say, Close, ReadLine, Ask,
     window
<1>4. ASSUME NEW i \in Ids, \/ Start(i) \/ Subscribe(i) \/ Replay(i)
                            \/ Unsubscribe(i) \/ GetBacklog(i)
                            \/ Respond(i) \/ Panics(i)
      PROVE  WindowOK'
  BY <1>0, <1>4 DEF Start, Subscribe, Replay, Unsubscribe, GetBacklog,
     Respond, Panics, Answers, window
<1>5. CASE UNCHANGED vars
  BY <1>0, <1>5 DEF vars, window
<1>6. QED
  BY <1>1, <1>2, <1>3, <1>4, <1>5 DEF Next

-----------------------------------------------------------------------------
(* Who asked, and what is said.                                            *)

\* Nobody answers, or is answered, who did not ask.
LEMMA AskedStep == TypeOK /\ AskedOK /\ [Next]_vars => AskedOK'
<1> SUFFICES ASSUME TypeOK, AskedOK, [Next]_vars
             PROVE  AskedOK'
  OBVIOUS
<1> USE DEF AskedOK
<1>0. /\ asked \in Seq(Request) /\ Len(asked) \in Nat
      /\ lines \in Seq(Ids) /\ out \in Seq(Answer)
      /\ Elems(lines) \subseteq Ids /\ Elems(out) \subseteq Answer
      /\ answered \subseteq 0..MaxRequest
      /\ task \in [Ids -> {"none", "waiting", "running", "replaying",
                           "finished", "done", "panicked"}]
      /\ DOMAIN found = Ids
  <2>1. asked \in Seq(Request) /\ lines \in Seq(Ids) /\ out \in Seq(Answer)
    BY DEF TypeOK, RequestsOK, Request, Answer
  <2>2. Elems(lines) \subseteq Ids /\ Elems(out) \subseteq Answer
    BY <2>1, ElemsIn
  <2>3. QED
    BY <2>1, <2>2 DEF TypeOK, TasksOK, WindowOK
<1>1. ASSUME NEW method \in Methods, Ask(method)
      PROVE  AskedOK'
  <2> DEFINE r == [method |-> method, knew |-> answered]
  <2>1. r \in Request
    BY <1>0 DEF Request
  <2>2. Len(asked) + 1 \in Ids
    BY <1>0, <1>1 DEF Ask, Ids, TypeOK, RequestsOK
  <2>3. /\ asked' = Append(asked, r)
        /\ lines' = Append(lines, Len(asked) + 1)
        /\ UNCHANGED <<task, found, out, answered>>
    BY <1>1 DEF Ask, tasks, window
  <2>4. /\ Len(asked') = Len(asked) + 1
        /\ \A i \in 1..Len(asked) : asked'[i] = asked[i]
        /\ asked'[Len(asked) + 1] = r
    BY <1>0, <2>1, <2>3, AppendProperties
  <2>5. Elems(lines') = Elems(lines) \cup {Len(asked) + 1}
    BY <1>0, <2>2, <2>3, ElemsAppend
  <2>6. ASSUME NEW i \in 1..Len(asked')
        PROVE  asked'[i].knew \subseteq answered'
    <3>1. CASE i \in 1..Len(asked)
      BY <2>3, <2>4, <3>1
    <3>2. CASE i = Len(asked) + 1
      BY <2>3, <2>4, <3>2
    <3>3. QED
      BY <1>0, <2>4, <3>1, <3>2
  <2>7. /\ \A i \in Ids : task'[i] # "none" => i <= Len(asked')
        /\ \A i \in Elems(lines') : i <= Len(asked')
        /\ \A a \in Elems(out') : a.id <= Len(asked')
        /\ \A a \in answered' : a <= Len(asked')
    <3> DEFINE n == Len(asked)
    <3>1. /\ n \in Nat /\ Len(asked') = n + 1
          /\ \A i \in Ids : task[i] # "none" => i <= n
          /\ \A i \in Elems(lines) : i <= n
          /\ \A a \in Elems(out) : a.id <= n
          /\ \A a \in answered : a <= n
      BY <1>0, <2>4
    <3>2. /\ Ids \subseteq Nat /\ Elems(lines) \subseteq Nat
          /\ answered \subseteq Nat
          /\ \A a \in Elems(out) : a.id \in Nat
      <4>1. Ids \subseteq Nat /\ \A a \in Answer : a.id \in Nat
        BY DEF Ids, Answer
      <4>2. Elems(lines) \subseteq Nat
        BY <1>0, <4>1
      <4>3. answered \subseteq Nat
        BY <1>0
      <4>4. \A a \in Elems(out) : a.id \in Nat
        BY <1>0, <4>1
      <4>5. QED
        BY <4>1, <4>2, <4>3, <4>4
    <3> HIDE DEF n
    <3>3. Elems(lines') = Elems(lines) \cup {n + 1}
      BY <2>5 DEF n
    <3>4. \A i \in Nat : i <= n => i <= Len(asked')
      BY <3>1
    <3>5. \A i \in Ids : task'[i] # "none" => i <= Len(asked')
      BY <2>3, <3>1, <3>2, <3>4
    <3>6. \A i \in Elems(lines') : i <= Len(asked')
      BY <3>1, <3>2, <3>3, <3>4
    <3>7. \A a \in Elems(out') : a.id <= Len(asked')
      BY <2>3, <3>1, <3>2, <3>4
    <3>8. \A a \in answered' : a <= Len(asked')
      BY <2>3, <3>1, <3>2, <3>4
    <3>9. QED
      BY <3>5, <3>6, <3>7, <3>8
  <2>8. ASSUME NEW i \in Ids, task'[i] = "replaying"
        PROVE  found'[i].roster # 0 /\ asked'[i].method = "subscribe"
    <3>1. task[i] = "replaying" /\ i \in 1..Len(asked)
      BY <1>0, <2>3, <2>8 DEF Ids
    <3>2. QED
      BY <2>3, <2>4, <3>1
  <2>9. QED
    BY <2>6, <2>7, <2>8
<1>2. CASE Close
  BY <1>0, <1>2, ElemsEmpty DEF Close, tasks, window
<1>3. CASE ReadLine
  <2>1. /\ Head(lines) \in Elems(lines) /\ Elems(lines') \subseteq Elems(lines)
    BY <1>0, <1>3, ElemsTail DEF ReadLine
  <2>2. QED
    BY <1>0, <1>3, <2>1 DEF ReadLine, window
<1>4. CASE WriteAnswer
  <2>1. /\ Head(out) \in Elems(out) /\ Elems(out') \subseteq Elems(out)
    BY <1>0, <1>4, ElemsTail DEF WriteAnswer
  <2>2. answered' = answered \cup {Head(out).id}
    BY <1>4 DEF WriteAnswer
  <2>3. QED
    BY <1>0, <1>4, <2>1, <2>2 DEF WriteAnswer, tasks
<1>5. ASSUME NEW i \in Ids, Respond(i) \/ Panics(i)
      PROVE  AskedOK'
  <2>1. PICK a \in Answer : Answers(i, a) /\ a.id \in {0, i}
    BY <1>5, AnswerOf DEF Respond, Panics
  <2>2. i <= Len(asked)
    BY <1>0, <1>5 DEF Respond, Panics
  <2>3. \A b \in Elems(out') : b.id <= Len(asked)
    BY <1>0, <2>1, <2>2, AnswerPut
  <2>4. QED
    BY <1>0, <2>1, <2>2, <2>3 DEF Answers, window
<1>6. ASSUME NEW i \in Ids, Subscribe(i)
      PROVE  AskedOK'
  BY <1>0, <1>6 DEF Subscribe, window, TypeOK, TasksOK, BackendOK
<1>7. ASSUME NEW i \in Ids, \/ Start(i) \/ Replay(i) \/ Unsubscribe(i)
      PROVE  AskedOK'
  BY <1>0, <1>7 DEF Start, Replay, Unsubscribe, window
<1>8. ASSUME NEW i \in Ids, GetBacklog(i)
      PROVE  AskedOK'
  BY <1>0, <1>8 DEF GetBacklog, window, TypeOK, TasksOK
<1>9. CASE Record \/ Delete \/ SetPresence \/ Say \/ ForwardEvent
  BY <1>0, <1>9 DEF Record, Delete, SetPresence, Say, ForwardEvent, tasks,
     window
<1>10. CASE UNCHANGED vars
  BY <1>10 DEF vars, tasks, window
<1>11. QED
  BY <1>1, <1>2, <1>3, <1>4, <1>5, <1>6, <1>7, <1>8, <1>9, <1>10 DEF Next

\* How a request that was asked is seen after a step: as it was.
LEMMA AskedFacts ==
    ASSUME TypeOK, [Next]_vars
    PROVE  /\ \A i \in 1..Len(asked) : asked'[i] = asked[i]
           /\ \/ asked' = asked
              \/ /\ Len(asked') = Len(asked) + 1
                 /\ UNCHANGED <<tasks, out, open, bus, backend, window>>
           /\ Len(asked) \in Nat
           /\ DOMAIN asked = 1..Len(asked) /\ DOMAIN asked' = 1..Len(asked')
<1>0. asked \in Seq(Request) /\ Len(asked) \in Nat
  BY DEF TypeOK, RequestsOK, Request
<1>1. ASSUME NEW method \in Methods, Ask(method)
      PROVE  /\ \A i \in 1..Len(asked) : asked'[i] = asked[i]
             /\ Len(asked') = Len(asked) + 1
             /\ UNCHANGED <<tasks, out, open, bus, backend, window>>
             /\ DOMAIN asked' = 1..Len(asked')
  <2>1. [method |-> method, knew |-> answered] \in Request
    BY DEF TypeOK, WindowOK, Request
  <2>2. QED
    BY <1>0, <1>1, <2>1, AppendProperties DEF Ask
<1>2. CASE ~\E method \in Methods : Ask(method)
  <2>1. asked' = asked
    BY <1>2 DEF Next, vars, Record, Delete, SetPresence, Say, Close, ReadLine,
       WriteAnswer, ForwardEvent, Start, Subscribe, Replay, Unsubscribe,
       GetBacklog, Respond, Panics, Answers
  <2>2. QED
    BY <1>0, <2>1
<1>3. QED
  BY <1>0, <1>1, <1>2

\* What was asked for stays asked for; what is new was never answered.
LEMMA AskedForFacts ==
    ASSUME TypeOK, AskedOK, [Next]_vars
    PROVE  \A method \in Methods :
              /\ AskedFor(method) \subseteq AskedFor(method)'
              /\ \A i \in AskedFor(method)' :
                    \/ i \in AskedFor(method)
                    \/ i = Len(asked) + 1 /\ asked' # asked
BY AskedFacts DEF AskedFor

\* No message that is said to be deleted comes back.
LEMMA DeletedStep == TypeOK /\ DeletedOK /\ AskedOK /\ [Next]_vars => DeletedOK'
<1> SUFFICES ASSUME TypeOK, DeletedOK, AskedOK, [Next]_vars
             PROVE  DeletedOK'
  OBVIOUS
<1> USE DEF DeletedOK
<1>0. /\ pending \in Seq(Events) /\ unsaid \subseteq Events
      /\ Elems(pending) \subseteq Events
      /\ sent \in Nat /\ stored \subseteq 1..sent
      /\ BusOK
  BY ElemsIn DEF TypeOK, BusOK, BackendOK
<1>1. CASE Record
  <2>1. /\ sent' = sent + 1 /\ stored' = stored \cup {sent + 1}
        /\ unsaid' = unsaid \cup {[kind |-> "message", of |-> sent + 1]}
        /\ pending' = pending
    BY <1>1 DEF Record, bus
  <2>2. ASSUME NEW e \in unsaid' \cup Elems(pending'), e.kind = "messageDeleted"
        PROVE  e.of <= sent' /\ e.of \notin stored'
    <3>1. e \in unsaid \cup Elems(pending)
      BY <2>1, <2>2
    <3>2. e.of <= sent /\ e.of \notin stored /\ e.of \in Nat
      BY <1>0, <2>2, <3>1 DEF Events
    <3>3. QED
      BY <1>0, <2>1, <3>2
  <2>3. QED
    BY <2>2
<1>2. CASE Delete
  <2>1. PICK m \in stored :
            /\ stored' = stored \ {m}
            /\ unsaid' = unsaid \cup {[kind |-> "messageDeleted", of |-> m]}
    BY <1>2 DEF Delete
  <2>2. UNCHANGED <<sent, pending>>
    BY <1>2 DEF Delete, bus
  <2>3. QED
    BY <1>0, <2>1, <2>2
<1>3. CASE SetPresence
  BY <1>0, <1>3 DEF SetPresence, bus
<1>4. CASE Say
  <2>1. PICK e \in unsaid : unsaid' = unsaid \ {e} /\ Emit(e)
    BY <1>4 DEF Say
  <2>2. Elems(pending') \subseteq Elems(pending) \cup {e}
    BY <1>0, <2>1, Emitted
  <2>3. QED
    BY <1>0, <1>4, <2>1, <2>2 DEF Say
<1>5. ASSUME NEW i \in Ids, Replay(i)
      PROVE  DeletedOK'
  <2> DEFINE e == [kind |-> "presenceChange", of |-> found[i].roster]
  <2>1. Elems(pending') \subseteq Elems(pending) \cup {e}
    <3>1. CASE open
      <4>1. found[i].roster \in 1..MaxRoster
        BY <1>5 DEF Replay, AskedOK, TypeOK, TasksOK
      <4>2. e \in Events /\ Emit(e)
        BY <1>5, <3>1, <4>1, EventsOf DEF Replay
      <4> HIDE DEF e
      <4>3. QED
        BY <1>0, <4>2, Emitted
    <3>2. CASE ~open
      BY <1>5, <3>2 DEF Replay, bus
    <3>3. QED
      BY <3>1, <3>2
  <2>2. UNCHANGED <<unsaid, stored, sent>>
    BY <1>5 DEF Replay, backend
  <2>3. e.kind # "messageDeleted"
    OBVIOUS
  <2> HIDE DEF e
  <2>4. QED
    BY <2>1, <2>2, <2>3
<1>6. CASE Close
  BY <1>6, ElemsEmpty DEF Close, backend
<1>7. CASE ForwardEvent
  <2>1. Elems(pending') \subseteq Elems(pending)
    BY <1>0, <1>7, ElemsTail DEF ForwardEvent
  <2>2. QED
    BY <1>7, <2>1 DEF ForwardEvent, backend
<1>8. CASE ReadLine \/ WriteAnswer \/ \E method \in Methods : Ask(method)
  BY <1>8 DEF ReadLine, WriteAnswer, Ask, bus, backend
<1>9. ASSUME NEW i \in Ids, \/ Start(i) \/ Subscribe(i) \/ Unsubscribe(i)
                            \/ GetBacklog(i) \/ Respond(i) \/ Panics(i)
      PROVE  DeletedOK'
  BY <1>9 DEF Start, Subscribe, Unsubscribe, GetBacklog, Respond, Panics,
     Answers, bus, backend
<1>10. CASE UNCHANGED vars
  BY <1>10 DEF vars, bus, backend
<1>11. QED
  BY <1>1, <1>2, <1>3, <1>4, <1>5, <1>6, <1>7, <1>8, <1>9, <1>10 DEF Next

-----------------------------------------------------------------------------
(* What a window that subscribes, and then reads the backlog, is sure of.  *)

\* A step of a task that has begun leaves those that have not.
LEMMA LinesKept ==
    ASSUME TypeOK, LinesOK, UNCHANGED <<asked, lines, open>>,
           \A i \in Ids : task[i] = "none" => task'[i] = "none"
    PROVE  LinesOK'
BY DEF LinesOK

\* Lines are read in the order of the requests.
LEMMA LinesStep == TypeOK /\ AskedOK /\ LinesOK /\ [Next]_vars => LinesOK'
<1> SUFFICES ASSUME TypeOK, AskedOK, LinesOK, [Next]_vars
             PROVE  LinesOK'
  OBVIOUS
<1>0. /\ asked \in Seq(Request) /\ Len(asked) \in Nat /\ Ids \subseteq Nat
      /\ lines \in Seq(Ids) /\ Len(lines) \in Nat
      /\ task \in [Ids -> {"none", "waiting", "running", "replaying",
                           "finished", "done", "panicked"}]
  <2>1. asked \in Seq(Request) /\ lines \in Seq(Ids)
    BY DEF TypeOK, RequestsOK, Request
  <2>2. Len(asked) \in Nat /\ Len(lines) \in Nat /\ Ids \subseteq Nat
    BY <2>1 DEF Ids
  <2>3. QED
    BY <2>1, <2>2 DEF TypeOK, TasksOK
<1>1. ASSUME NEW method \in Methods, Ask(method)
      PROVE  LinesOK'
  <2>1. [method |-> method, knew |-> answered] \in Request
    BY DEF TypeOK, WindowOK, Request
  <2>2. Len(asked) + 1 \in Ids
    BY <1>0, <1>1 DEF Ask, Ids, TypeOK, RequestsOK
  <2>3. Len(asked') = Len(asked) + 1
    BY <1>0, <1>1, <2>1, AppendProperties DEF Ask
  <2>4. /\ Len(lines') = Len(lines) + 1
        /\ \A k \in 1..Len(lines) : lines'[k] = lines[k]
        /\ lines'[Len(lines) + 1] = Len(asked) + 1
    BY <1>0, <1>1, <2>2, AppendProperties DEF Ask
  <2>5. ASSUME NEW k \in 1..Len(lines')
        PROVE  lines'[k] = Len(asked') - Len(lines') + k
    <3>1. CASE k \in 1..Len(lines)
      <4>1. lines[k] = Len(asked) - Len(lines) + k
        BY <3>1 DEF LinesOK
      <4>2. QED
        BY <1>0, <2>3, <2>4, <3>1, <4>1
    <3>2. CASE k = Len(lines) + 1
      BY <1>0, <2>3, <2>4, <3>2
    <3>3. QED
      BY <1>0, <2>4, <3>1, <3>2
  <2>6. ASSUME NEW i \in Ids, i > Len(asked') - Len(lines')
        PROVE  task'[i] = "none"
    <3>1. i > Len(asked) - Len(lines)
      BY <1>0, <2>3, <2>4, <2>6
    <3>2. QED
      BY <1>1, <3>1 DEF Ask, LinesOK, tasks
  <2>7. QED
    BY <2>5, <2>6 DEF LinesOK
<1>2. CASE Close
  <2>1. Len(lines') = 0 /\ ~open'
    BY <1>2 DEF Close
  <2>2. QED
    BY <2>1 DEF LinesOK
<1>3. CASE ReadLine
  <2>1. /\ lines # <<>> /\ lines' = Tail(lines) /\ open /\ asked' = asked
        /\ task' = [task EXCEPT ![Head(lines)] = "waiting"]
    BY <1>3 DEF ReadLine
  <2>2. /\ Len(lines') = Len(lines) - 1 /\ Len(lines) # 0
        /\ Head(lines) = lines[1]
        /\ \A k \in 1..(Len(lines) - 1) : lines'[k] = lines[k + 1]
    BY <1>0, <2>1, HeadTailProperties, EmptySeq
  <2>3. Head(lines) = Len(asked) - Len(lines) + 1
    BY <1>0, <2>2 DEF LinesOK
  <2>4. ASSUME NEW k \in 1..Len(lines')
        PROVE  lines'[k] = Len(asked') - Len(lines') + k
    <3>1. k + 1 \in 1..Len(lines) /\ lines'[k] = lines[k + 1]
      BY <1>0, <2>2
    <3>2. lines[k + 1] = Len(asked) - Len(lines) + (k + 1)
      BY <3>1 DEF LinesOK
    <3>3. QED
      BY <1>0, <2>1, <2>2, <3>1, <3>2
  <2>5. ASSUME NEW i \in Ids, i > Len(asked') - Len(lines')
        PROVE  task'[i] = "none"
    <3>1. i > Len(asked) - Len(lines) /\ i # Head(lines)
      BY <1>0, <2>1, <2>2, <2>3, <2>5
    <3>2. QED
      BY <1>0, <2>1, <3>1 DEF LinesOK
  <2>6. QED
    BY <2>4, <2>5 DEF LinesOK
<1>4. ASSUME NEW i \in Ids, \/ Start(i) \/ Subscribe(i) \/ Replay(i)
                            \/ Unsubscribe(i) \/ GetBacklog(i)
      PROVE  LinesOK'
  BY <1>0, <1>4, LinesKept DEF Start, Subscribe, Replay, Unsubscribe,
     GetBacklog
<1>5. ASSUME NEW i \in Ids, Respond(i) \/ Panics(i)
      PROVE  LinesOK'
  BY <1>0, <1>5, LinesKept DEF Respond, Panics, Answers
<1>6. CASE \/ Record \/ Delete \/ SetPresence \/ Say \/ WriteAnswer
           \/ ForwardEvent
  BY <1>6, LinesKept DEF Record, Delete, SetPresence, Say, WriteAnswer,
     ForwardEvent, tasks
<1>7. CASE UNCHANGED vars
  BY <1>7, LinesKept DEF vars, tasks
<1>8. QED
  BY <1>1, <1>2, <1>3, <1>4, <1>5, <1>6, <1>7 DEF Next

\* A step after which no more is answered than before, and which leaves the
\* subscription alone.
LEMMA SubscribedKept ==
    ASSUME SubscribedOK, UNCHANGED <<asked, subs>>,
           \A s \in AskedFor("subscribe") :
              task'[s] \in {"replaying", "finished"} \/ Got(s)' =>
                 task[s] \in {"replaying", "finished"} \/ Got(s)
    PROVE  SubscribedOK'
BY DEF SubscribedOK, AskedFor

\* Only an unsubscribe ends a subscription that was answered.
LEMMA SubscribedStep ==
    TypeOK /\ AskedOK /\ SubscribedOK /\ [Next]_vars => SubscribedOK'
<1> SUFFICES ASSUME TypeOK, AskedOK, SubscribedOK, [Next]_vars
             PROVE  SubscribedOK'
  OBVIOUS
<1>0. /\ Len(asked) \in Nat /\ DOMAIN asked = 1..Len(asked)
      /\ DOMAIN asked \subseteq Ids
      /\ out \in Seq(Answer) /\ Elems(out) \subseteq Answer
      /\ lines \in Seq(Ids)
      /\ task \in [Ids -> {"none", "waiting", "running", "replaying",
                           "finished", "done", "panicked"}]
  <2>1. out \in Seq(Answer) /\ lines \in Seq(Ids) /\ asked \in Seq(Request)
    BY DEF TypeOK, RequestsOK, Answer, Request
  <2>2. /\ Elems(out) \subseteq Answer /\ Len(asked) \in Nat
        /\ DOMAIN asked = 1..Len(asked)
    BY <2>1, ElemsIn
  <2>3. DOMAIN asked \subseteq Ids
    BY <2>2 DEF Ids, TypeOK, RequestsOK
  <2>4. QED
    BY <2>1, <2>2, <2>3 DEF TypeOK, TasksOK
<1>1. ASSUME NEW method \in Methods, Ask(method)
      PROVE  SubscribedOK'
  <2>1. /\ UNCHANGED <<task, subs, out, answered>>
        /\ \A s : Got(s)' <=> Got(s)
    BY <1>1 DEF Ask, tasks, window, Got
  <2>2. ASSUME AskedFor("unsubscribe")' = {}, NEW s \in AskedFor("subscribe")',
               task[s] \in {"replaying", "finished"} \/ Got(s)
        PROVE  subs
    <3>1. s \in DOMAIN asked' /\ s \in Ids
      <4>1. Len(asked') = Len(asked) + 1 /\ DOMAIN asked' = 1..Len(asked')
        <5>1. [method |-> method, knew |-> answered] \in Request
          BY DEF TypeOK, WindowOK, Request
        <5>2. asked \in Seq(Request)
          BY DEF TypeOK, RequestsOK, Request
        <5>3. QED
          BY <1>1, <5>1, <5>2, AppendProperties DEF Ask
      <4>2. Len(asked) < MaxRequest
        BY <1>1 DEF Ask
      <4>3. QED
        BY <1>0, <4>1, <4>2 DEF AskedFor, Ids
    <3>2. s <= Len(asked)
      BY <2>2, <3>1 DEF AskedOK, Got
    <3>3. s \in AskedFor("subscribe")
      BY <1>0, <3>2, AskedForFacts DEF Methods
    <3>4. AskedFor("unsubscribe") = {}
      BY <2>2, AskedForFacts DEF Methods
    <3>5. QED
      BY <2>2, <3>3, <3>4 DEF SubscribedOK
  <2>3. QED
    BY <2>1, <2>2 DEF SubscribedOK
<1>2. CASE Close
  BY <1>2, SubscribedKept, ElemsEmpty DEF Close, tasks, window, Got
<1>3. CASE ReadLine
  BY <1>0, <1>3, SubscribedKept DEF ReadLine, window, Got, AskedFor
<1>4. CASE WriteAnswer
  <2>1. Elems(out) = {Head(out)} \cup Elems(out')
    BY <1>0, <1>4, ElemsTail DEF WriteAnswer
  <2>2. answered' = answered \cup {Head(out).id}
    BY <1>4 DEF WriteAnswer
  <2>3. \A s : Got(s)' => Got(s)
    BY <2>1, <2>2 DEF Got
  <2>4. QED
    BY <1>4, <2>3, SubscribedKept DEF WriteAnswer, tasks
<1>5. ASSUME NEW i \in Ids, NEW a \in Answer, Answers(i, a),
             a.id = 0 \/ (a.id = i /\ task[i] = "finished")
      PROVE  SubscribedOK'
  <2>1. Elems(out') \subseteq Elems(out) \cup {a}
    BY <1>5, AnswerPut
  <2>2. ASSUME NEW s \in AskedFor("subscribe"), Got(s)'
        PROVE  task[s] = "finished" \/ Got(s)
    BY <1>0, <1>5, <2>1, <2>2 DEF Got, AskedFor, Answers, window
  <2>3. ASSUME NEW s \in AskedFor("subscribe"),
               task'[s] \in {"replaying", "finished"}
        PROVE  task[s] \in {"replaying", "finished"}
    BY <1>0, <1>5, <2>3 DEF Answers, AskedFor
  <2>4. UNCHANGED <<asked, subs>>
    BY <1>5 DEF Answers
  <2>5. QED
    BY <2>2, <2>3, <2>4, SubscribedKept
<1>6. ASSUME NEW i \in Ids, Respond(i)
       PROVE  SubscribedOK'
  BY <1>5, <1>6, AnswerOf DEF Respond
<1>7. ASSUME NEW i \in Ids, Panics(i)
       PROVE  SubscribedOK'
  <2> DEFINE a == [id |-> 0, page |-> {}]
  <2>1. a \in Answer /\ a.id = 0
    BY AnswerOf
  <2>2. Answers(i, a)
    BY <1>7 DEF Panics
  <2> HIDE DEF a
  <2>3. QED
    BY <1>5, <1>7, <2>1, <2>2
<1>8. ASSUME NEW i \in Ids, Subscribe(i)
      PROVE  SubscribedOK'
  <2>1. subs'
    BY <1>8 DEF Subscribe
  <2>2. QED
    BY <2>1 DEF SubscribedOK
<1>9. ASSUME NEW i \in Ids, Unsubscribe(i)
      PROVE  SubscribedOK'
  <2>1. i \in AskedFor("unsubscribe")'
    BY <1>0, <1>9 DEF Unsubscribe, AskedOK, AskedFor, Ids
  <2>2. QED
    BY <2>1 DEF SubscribedOK
<1>10. ASSUME NEW i \in Ids, GetBacklog(i)
      PROVE  SubscribedOK'
  <2>1. i \notin AskedFor("subscribe") /\ UNCHANGED <<asked, subs, out, answered>>
    BY <1>10 DEF GetBacklog, AskedFor, window
  <2>2. QED
    BY <1>0, <1>10, <2>1, SubscribedKept DEF GetBacklog, Got
<1>11. ASSUME NEW i \in Ids, Start(i) \/ Replay(i)
      PROVE  SubscribedOK'
  BY <1>0, <1>11, SubscribedKept DEF Start, Replay, Got, window, AskedFor
<1>12. CASE Record \/ Delete \/ SetPresence \/ Say \/ ForwardEvent
  BY <1>12, SubscribedKept DEF Record, Delete, SetPresence, Say, ForwardEvent,
     tasks, window, Got
<1>13. CASE UNCHANGED vars
  BY <1>13, SubscribedKept DEF vars, tasks, window, Got
<1>14. QED
  BY <1>1, <1>2, <1>3, <1>4, <1>8, <1>9, <1>10, <1>11, <1>12, <1>13, <1>6,
     <1>7 DEF Next

\* Who follows after a step did before it, is subscribed, and had what was
\* stored on its way if it had read the backlog.
LEMMA FollowsFacts ==
    ASSUME TypeOK, AskedOK, SubscribedOK, CaughtOK, [Next]_vars,
           open, ~lagged, AskedFor("unsubscribe")' = {},
           NEW b \in Ids, Follows(b)'
    PROVE  /\ b = Len(asked) + 1 \/ b \in AskedFor("getBacklog")
           /\ b \in AskedFor("getBacklog") => subs
           /\ AskedFor("unsubscribe") = {}
           /\ b \in AskedFor("getBacklog") /\ (task[b] = "finished" \/ Got(b)) =>
                 \A m \in stored : Arrives(m, b)
<1>1. AskedFor("unsubscribe") = {}
  BY AskedForFacts DEF Methods
<1>2. b = Len(asked) + 1 \/ b \in AskedFor("getBacklog")
  BY AskedForFacts DEF Methods, Follows
<1>3. ASSUME b \in AskedFor("getBacklog")
      PROVE  subs /\ Follows(b)
  <2>1. b \in 1..Len(asked) /\ asked'[b] = asked[b]
    BY <1>3, AskedFacts DEF AskedFor
  <2>2. PICK s \in AskedFor("subscribe")' : s \in asked[b].knew
    BY <2>1 DEF Follows
  <2>3. s \in answered /\ s <= Len(asked)
    BY <2>1, <2>2 DEF AskedOK
  <2>4. s \in AskedFor("subscribe")
    BY <2>2, <2>3, AskedFacts, AskedForFacts DEF Methods
  <2>5. subs
    BY <1>1, <2>3, <2>4 DEF SubscribedOK, Got
  <2>6. Follows(b)
    BY <1>3, <2>2, <2>4 DEF Follows
  <2>7. QED
    BY <2>5, <2>6
<1>4. QED
  BY <1>1, <1>2, <1>3 DEF CaughtOK

\* Once a backlog is read, every step leaves each stored message shown or on
\* its way.
LEMMA CaughtStep ==
    TypeOK /\ AskedOK /\ LinesOK /\ SubscribedOK /\ DeletedOK /\ CaughtOK
       /\ [Next]_vars => CaughtOK'
<1> SUFFICES ASSUME TypeOK, AskedOK, LinesOK, SubscribedOK, DeletedOK, CaughtOK,
                    [Next]_vars, open', ~lagged', AskedFor("unsubscribe")' = {},
                    NEW b \in Ids, Follows(b)', task'[b] = "finished" \/ Got(b)',
                    NEW m \in stored'
             PROVE  Arrives(m, b)'
  BY DEF CaughtOK
<1>0. /\ out \in Seq(Answer) /\ pending \in Seq(Events) /\ lines \in Seq(Ids)
      /\ unsaid \subseteq Events /\ BusOK
      /\ Elems(out) \subseteq Answer /\ Elems(pending) \subseteq Events
      /\ task \in [Ids -> {"none", "waiting", "running", "replaying",
                           "finished", "done", "panicked"}]
      /\ DOMAIN found = Ids
  <2>1. out \in Seq(Answer) /\ pending \in Seq(Events) /\ lines \in Seq(Ids)
    BY DEF TypeOK, RequestsOK, BusOK, Answer
  <2>2. Elems(out) \subseteq Answer /\ Elems(pending) \subseteq Events
    BY <2>1, ElemsIn
  <2>3. QED
    BY <2>1, <2>2 DEF TypeOK, TasksOK, BackendOK
<1>1. open
  BY DEF Next, vars, Record, Delete, SetPresence, Say, Close, ReadLine,
     WriteAnswer, ForwardEvent, Ask, Start, Subscribe, Replay, Unsubscribe,
     GetBacklog, Respond, Panics, Answers
<1>2. ~lagged
  BY DEF Next, vars, bus, Emit, Record, Delete, SetPresence, Say, Close,
     ReadLine, WriteAnswer, ForwardEvent, Ask, Start, Subscribe, Replay,
     Unsubscribe, GetBacklog, Respond, Panics, Answers
<1>3. /\ b = Len(asked) + 1 \/ b \in AskedFor("getBacklog")
      /\ b \in AskedFor("getBacklog") => subs
      /\ AskedFor("unsubscribe") = {}
      /\ b \in AskedFor("getBacklog") /\ (task[b] = "finished" \/ Got(b)) =>
            \A x \in stored : Arrives(x, b)
  BY <1>1, <1>2, FollowsFacts
<1>4. ASSUME NEW method \in Methods, Ask(method)
      PROVE  Arrives(m, b)'
  <2>1. UNCHANGED <<task, found, out, pending, unsaid, stored, answered, shown>>
    BY <1>4 DEF Ask, tasks, bus, backend, window
  <2>2. task[b] = "finished" \/ Got(b)
    BY <2>1 DEF Got
  <2>3. b <= Len(asked)
    BY <2>2 DEF AskedOK, Got
  <2>4. b \in AskedFor("getBacklog")
    BY <1>3, <2>3, AskedFacts
  <2>5. Arrives(m, b)
    BY <1>3, <2>1, <2>2, <2>4
  <2>6. QED
    BY <2>1, <2>5 DEF Arrives, Message
<1>5. CASE ~\E method \in Methods : Ask(method)
  <2>1. asked' = asked
    BY <1>5 DEF Next, vars, Record, Delete, SetPresence, Say, Close, ReadLine,
       WriteAnswer, ForwardEvent, Start, Subscribe, Replay, Unsubscribe,
       GetBacklog, Respond, Panics, Answers
  <2>2. /\ b \in AskedFor("getBacklog") /\ subs
        /\ asked[b].method = "getBacklog"
        /\ (task[b] = "finished" \/ Got(b)) => \A x \in stored : Arrives(x, b)
    BY <1>3, <2>1 DEF Follows, AskedFor
  <2>3. CASE Record
    <3>1. /\ stored' = stored \cup {sent + 1}
          /\ unsaid' = unsaid \cup {Message(sent + 1)}
          /\ UNCHANGED <<task, found, out, pending, answered, shown>>
      BY <2>3 DEF Record, tasks, bus, window, Message
    <3>2. Got(b)' <=> Got(b)
      BY <3>1 DEF Got
    <3>3. CASE m = sent + 1
      BY <3>1, <3>3 DEF Arrives, Message
    <3>4. CASE m \in stored
      <4>1. Arrives(m, b)
        BY <2>2, <3>1, <3>2, <3>4
      <4>2. QED
        BY <3>1, <4>1 DEF Arrives, Message
    <3>5. QED
      BY <3>1, <3>3, <3>4
  <2>4. CASE Delete \/ SetPresence
    <3>1. /\ stored' \subseteq stored /\ unsaid \subseteq unsaid'
          /\ UNCHANGED <<task, found, out, pending, answered, shown>>
      BY <2>4 DEF Delete, SetPresence, tasks, bus, window
    <3>2. Arrives(m, b)
      BY <2>2, <3>1 DEF Got
    <3>3. QED
      BY <3>1, <3>2 DEF Arrives, Message
  <2>5. CASE Say
    <3>1. PICK e \in unsaid : unsaid' = unsaid \ {e} /\ Emit(e)
      BY <2>5 DEF Say
    <3>2. Elems(pending') = Elems(pending) \cup {e}
      BY <1>0, <3>1, Emitted
    <3>3. UNCHANGED <<task, found, out, stored, answered, shown>>
      BY <2>5 DEF Say, tasks, window
    <3>4. Arrives(m, b)
      BY <2>2, <3>3 DEF Got
    <3>5. QED
      BY <3>1, <3>2, <3>3, <3>4 DEF Arrives, Message
  <2>6. CASE Close
    BY <2>6 DEF Close
  <2>7. CASE ReadLine
    <3>1. /\ task' = [task EXCEPT ![Head(lines)] = "waiting"]
          /\ UNCHANGED <<found, out, pending, unsaid, stored, answered, shown>>
      BY <2>7 DEF ReadLine, bus, backend, window
    <3>2. task[Head(lines)] = "none" /\ Head(lines) \in Ids
      <4>1. Head(lines) \in Ids /\ Head(lines) = lines[1] /\ Len(lines) \in Nat \ {0}
        BY <1>0, <2>7, HeadTailProperties, EmptySeq DEF ReadLine
      <4>2. Head(lines) = Len(asked) - Len(lines) + 1
        BY <4>1 DEF LinesOK
      <4>3. Head(lines) > Len(asked) - Len(lines)
        BY <4>1, <4>2, AskedFacts
      <4>4. QED
        BY <1>1, <4>1, <4>3 DEF LinesOK
    <3>3. task'[b] = "finished" <=> task[b] = "finished"
      BY <1>0, <3>1, <3>2
    <3>4. Arrives(m, b)
      BY <2>2, <3>1, <3>3 DEF Got
    <3>5. QED
      BY <3>1, <3>3, <3>4 DEF Arrives, Message
  <2>8. CASE WriteAnswer
    <3>1. /\ Elems(out) = {Head(out)} \cup Elems(out')
          /\ Head(out) \in Answer
      BY <1>0, <2>8, ElemsTail DEF WriteAnswer
    <3>2. /\ answered' = answered \cup {Head(out).id}
          /\ shown' = shown \cup Head(out).page
          /\ UNCHANGED <<task, found, pending, unsaid, stored>>
      BY <2>8 DEF WriteAnswer, tasks, bus, backend
    <3>3. Got(b)' => Got(b)
      BY <3>1, <3>2 DEF Got
    <3>4. Arrives(m, b)
      BY <2>2, <3>2, <3>3
    <3>5. QED
      BY <3>1, <3>2, <3>4 DEF Arrives, Message
  <2>9. CASE ForwardEvent
    <3>1. /\ Elems(pending) = {Head(pending)} \cup Elems(pending')
          /\ Takes(Head(pending))
          /\ UNCHANGED <<task, found, out, unsaid, stored, answered>>
      BY <1>0, <2>2, <2>9, ElemsTail DEF ForwardEvent, tasks, backend
    <3>2. Arrives(m, b)
      BY <2>2, <3>1 DEF Got
    <3>3. m \in shown => m \in shown'
      <4>1. CASE Head(pending).kind = "messageDeleted"
        <5>1. Head(pending).of \notin stored
          BY <3>1, <4>1 DEF DeletedOK
        <5>2. QED
          BY <3>1, <4>1, <5>1 DEF Takes
      <4>2. CASE Head(pending).kind # "messageDeleted"
        BY <3>1, <4>2 DEF Takes
      <4>3. QED
        BY <4>1, <4>2
    <3>4. Message(m) = Head(pending) => m \in shown'
      BY <3>1 DEF Takes, Message
    <3>5. QED
      BY <3>1, <3>2, <3>3, <3>4 DEF Arrives, Message
  <2>10. ASSUME NEW i \in Ids, Start(i) \/ Subscribe(i)
         PROVE  Arrives(m, b)'
    <3>1. /\ UNCHANGED <<out, pending, unsaid, stored, answered, shown>>
          /\ task'[b] = "finished" <=> task[b] = "finished"
          /\ found'[b].messages = found[b].messages
      BY <1>0, <2>2, <2>10 DEF Start, Subscribe, bus, backend, window
    <3>2. Arrives(m, b)
      BY <2>2, <3>1 DEF Got
    <3>3. QED
      BY <3>1, <3>2 DEF Arrives, Message
  <2>11. ASSUME NEW i \in Ids, Replay(i)
         PROVE  Arrives(m, b)'
    <3>1. i # b
      BY <2>2, <2>11 DEF Replay, AskedOK
    <3>2. found[i].roster \in 1..MaxRoster
      BY <2>11 DEF Replay, AskedOK, TypeOK, TasksOK
    <3>3. Elems(pending) \subseteq Elems(pending')
      BY <1>0, <1>1, <2>11, <3>2, Emitted, EventsOf DEF Replay
    <3>4. /\ UNCHANGED <<found, out, unsaid, stored, answered, shown>>
          /\ task'[b] = task[b]
      BY <1>0, <2>11, <3>1 DEF Replay, backend, window
    <3>5. Arrives(m, b)
      BY <2>2, <3>4 DEF Got
    <3>6. QED
      BY <3>3, <3>4, <3>5 DEF Arrives, Message
  <2>12. ASSUME NEW i \in Ids, Unsubscribe(i)
         PROVE  Arrives(m, b)'
    <3>1. i \in AskedFor("unsubscribe")
      BY <2>12, AskedFacts DEF Unsubscribe, AskedFor, AskedOK, Ids
    <3>2. QED
      BY <1>3, <3>1
  <2>13. ASSUME NEW i \in Ids, GetBacklog(i)
         PROVE  Arrives(m, b)'
    <3>1. UNCHANGED <<out, pending, unsaid, stored, answered, shown>>
      BY <2>13 DEF GetBacklog, bus, backend, window
    <3>2. CASE i = b
      <4>1. task'[b] = "finished" /\ found'[b].messages = stored
        BY <1>0, <2>13, <3>2 DEF GetBacklog, TypeOK, TasksOK
      <4>2. QED
        BY <3>1, <4>1 DEF Arrives
    <3>3. CASE i # b
      <4>1. task'[b] = task[b] /\ found'[b] = found[b]
        BY <1>0, <2>13, <3>3 DEF GetBacklog
      <4>2. Arrives(m, b)
        BY <2>2, <3>1, <4>1 DEF Got
      <4>3. QED
        BY <3>1, <4>1, <4>2 DEF Arrives, Message
    <3>4. QED
      BY <3>2, <3>3
  <2>14. ASSUME NEW i \in Ids, NEW a \in Answer, Answers(i, a),
                \/ a.id = 0 /\ task[i] # "finished"
                \/ /\ a.id = i /\ task[i] = "finished"
                   /\ a.page = found[i].messages
         PROVE  Arrives(m, b)'
    <3>1. /\ Elems(out') = Elems(out) \cup {a}
          /\ UNCHANGED <<pending, unsaid, stored, answered, shown>>
          /\ task'[i] \in {"done", "panicked"}
          /\ i # b => task'[b] = task[b] /\ found'[b] = found[b]
      BY <1>0, <1>1, <2>14, AnswerPut DEF Answers, bus, backend, window
    <3>2. task[b] = "finished" \/ Got(b)
      <4>1. b # 0
        BY DEF Ids
      <4>2. QED
        BY <2>14, <3>1, <4>1 DEF Got
    <3>3. Arrives(m, b)
      BY <2>2, <3>1, <3>2
    <3>4. QED
      BY <2>14, <3>1, <3>3 DEF Arrives, Message
  <2>15. ASSUME NEW i \in Ids, Respond(i)
         PROVE  Arrives(m, b)'
    <3> DEFINE a == [id |-> i, page |-> found[i].messages]
    <3>1. a \in Answer /\ a.id = i /\ a.page = found[i].messages
      BY AnswerOf
    <3>2. Answers(i, a) /\ task[i] = "finished"
      BY <2>15 DEF Respond
    <3> HIDE DEF a
    <3>3. QED
      BY <2>14, <2>15, <3>1, <3>2
  <2>16. ASSUME NEW i \in Ids, Panics(i)
         PROVE  Arrives(m, b)'
    <3> DEFINE a == [id |-> 0, page |-> {}]
    <3>1. a \in Answer /\ a.id = 0
      BY <2>16, AnswerOf
    <3>2. Answers(i, a) /\ task[i] # "finished"
      BY <2>16 DEF Panics
    <3> HIDE DEF a
    <3>3. QED
      BY <2>14, <2>16, <3>1, <3>2
  <2>17. CASE UNCHANGED vars
    <3>1. UNCHANGED <<task, found, out, pending, unsaid, stored, answered, shown>>
      BY <2>17 DEF vars, tasks, bus, backend, window
    <3>2. Arrives(m, b)
      BY <2>2, <3>1 DEF Got
    <3>3. QED
      BY <3>1, <3>2 DEF Arrives, Message
  <2>18. QED
    BY <1>5, <2>3, <2>4, <2>5, <2>6, <2>7, <2>8, <2>9, <2>10, <2>11, <2>12,
       <2>13, <2>15, <2>16, <2>17 DEF Next
<1>6. QED
  BY <1>4, <1>5

-----------------------------------------------------------------------------
\* At the start nothing was asked or said.
LEMMA InitInv == Init => Inv
<1> SUFFICES ASSUME Init
             PROVE  Inv
  OBVIOUS
<1> USE DEF Init
<1>1. TypeOK
  <2>1. RequestsOK
    BY DEF RequestsOK
  <2>2. TasksOK
    <3>1. Nothing \in [messages : SUBSET (1..MaxMessage), roster : 0..MaxRoster]
      BY DEF Nothing
    <3>2. subs \in BOOLEAN
      OBVIOUS
    <3>3. QED
      BY <3>1, <3>2 DEF TasksOK
  <2>3. BusOK
    <3>1. open \in BOOLEAN /\ lagged \in BOOLEAN
      OBVIOUS
    <3>2. pending \in Seq(Events) /\ Len(pending) <= Capacity
      OBVIOUS
    <3>3. QED
      BY <3>1, <3>2 DEF BusOK
  <2>4. BackendOK /\ WindowOK
    BY DEF BackendOK, WindowOK
  <2>5. QED
    BY <2>1, <2>2, <2>3, <2>4 DEF TypeOK
<1>2. AskedOK /\ LinesOK
  BY ElemsEmpty DEF AskedOK, LinesOK
<1>3. SubscribedOK /\ DeletedOK /\ CaughtOK
  BY ElemsEmpty DEF SubscribedOK, DeletedOK, CaughtOK, AskedFor, Follows
<1>4. QED
  BY <1>1, <1>2, <1>3 DEF Inv

\* The inductive invariant holds of every behaviour.
LEMMA Invariant == Spec => []Inv
<1>1. Init => Inv
  BY InitInv
<1>2. Inv /\ [Next]_vars => Inv'
  BY RequestsStep, TasksStep, BusStep, BackendStep, WindowStep, AskedStep,
     LinesStep, SubscribedStep, DeletedStep, CaughtStep DEF Inv, TypeOK
<1>3. QED
  BY <1>1, <1>2, PTL DEF Spec

\* Type correctness of the connection.
THEOREM TypeCorrect == Spec => []TypeOK
<1>1. Inv => TypeOK
  BY DEF Inv
<1>2. QED
  BY <1>1, Invariant, PTL

\* Subscribe, then read the backlog: no message falls between the two,
\* however answers, events and deletions overtake each other.
THEOREM NothingFallsBetween == Spec => []NothingMissed
<1>1. Inv => NothingMissed
  <2> SUFFICES ASSUME Inv, Watching, Settled, NEW m \in stored
               PROVE  m \in shown
    BY DEF NothingMissed
  <2>1. PICK b \in AskedFor("getBacklog") \cap answered :
            AskedFor("subscribe") \cap asked[b].knew # {}
    BY DEF Watching
  <2>2. b \in Ids
    BY <2>1 DEF AskedFor, Inv, TypeOK, RequestsOK, Ids
  <2>3. Arrives(m, b)
    BY <2>1, <2>2 DEF Inv, CaughtOK, Follows, Got, Watching, Settled
  <2>4. task[b] # "finished"
    BY <2>2 DEF Settled, Holding
  <2>5. QED
    BY <2>3, <2>4, ElemsEmpty DEF Arrives, Settled
<1>2. QED
  BY <1>1, Invariant, PTL

=============================================================================
