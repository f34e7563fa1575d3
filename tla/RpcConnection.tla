--------------------------- MODULE RpcConnection ---------------------------
(***************************************************************************)
(* One window's connection to the daemon (rpc/mod.rs), and one             *)
(* conversation it looks at: the requests, each answered by a task of its  *)
(* own, the events of the bus (events.rs), and what the window then shows  *)
(* of what the store and the runtime hold.                                 *)
(*                                                                         *)
(* A loop owns the connection and picks what is ready: a line to read, an  *)
(* answer to write, an event to forward.  The tasks and the backends run   *)
(* beside it, and both write first and say so afterwards.                  *)
(***************************************************************************)
EXTENDS Naturals, FiniteSets, Sequences

CONSTANTS
    MaxRequest,  \* bound: requests of the window
    MaxMessage,  \* bound: messages of the conversation
    MaxRoster,   \* bound: changes of its roster
    MaxChange,   \* bound: messages and changes of the roster together
    Permits,     \* MAX_CONCURRENT_REQUESTS
    Capacity,    \* of the bus
    MayPanic,    \* the methods whose handler may panic
    MayDelete    \* whether messages are deleted

ASSUME BoundsAssumption == /\ MaxRequest \in Nat
                           /\ MaxMessage \in Nat
                           /\ MaxRoster \in Nat
                           /\ MaxChange \in Nat
ASSUME LimitsAssumption == /\ Permits \in Nat \ {0}
                           /\ Capacity \in Nat \ {0}

VARIABLES
    asked,      \* the window's requests: [method, knew], by id
    lines,      \* those the loop has not read yet
    task,       \* where the task of each is
    found,      \* what it found: messages for getBacklog, a roster for subscribe
    out,        \* answers to be written: [id, page]
    subs,       \* Subscriptions names the conversation
    open,       \* the window is there
    pending,    \* events of the bus the loop has not forwarded: [kind, of]
    lagged,     \* some were dropped before it could
    stored,     \* the store's messages of the conversation
    sent,       \* messages there ever were
    roster,     \* the runtime's roster of it, 0 for none
    unsaid,     \* written, but its event not emitted yet
    answered,   \* the window: ids it has the answers to
    shown,      \* the window: the messages
    shownRoster \* the window: the roster

window  == <<answered, shown, shownRoster>>
backend == <<stored, sent, roster, unsaid>>
bus     == <<pending, lagged>>
tasks   == <<task, found, subs>>
vars    == <<asked, lines, tasks, out, open, bus, backend, window>>

Ids     == 1..MaxRequest
Methods == {"subscribe", "unsubscribe", "getBacklog"}
Nothing == [messages |-> {}, roster |-> 0]

Init ==
    /\ asked = <<>> /\ lines = <<>> /\ out = <<>>
    /\ task = [i \in Ids |-> "none"]
    /\ found = [i \in Ids |-> Nothing]
    /\ subs = FALSE /\ open = TRUE
    /\ pending = <<>> /\ lagged = FALSE
    /\ stored = {} /\ sent = 0 /\ roster = 0 /\ unsaid = {}
    /\ answered = {} /\ shown = {} /\ shownRoster = 0

-----------------------------------------------------------------------------
(* The bus.                                                                *)

\* As Emit, without an end.
EmitUnbounded(e) ==
    /\ pending' = Append(pending, e)
    /\ UNCHANGED lagged

\* EventBus::emit; a receiver that is behind skips the oldest.
Emit(e) ==
    IF Len(pending) < Capacity
    THEN pending' = Append(pending, e) /\ UNCHANGED lagged
    ELSE pending' = Append(Tail(pending), e) /\ lagged' = TRUE

-----------------------------------------------------------------------------
(* The backend, and the runtime's part of it.                              *)

\* record_message: stored ...
Record ==
    /\ sent < MaxMessage
    /\ sent + roster < MaxChange
    /\ sent' = sent + 1
    /\ stored' = stored \cup {sent + 1}
    /\ unsaid' = unsaid \cup {[kind |-> "message", of |-> sent + 1]}
    /\ UNCHANGED <<asked, lines, tasks, out, open, bus, roster, window>>

\* delete_message: the row taken out ...
Delete ==
    /\ MayDelete
    /\ \E m \in stored :
          /\ [kind |-> "message", of |-> m] \notin unsaid
          /\ stored' = stored \ {m}
          /\ unsaid' = unsaid \cup {[kind |-> "messageDeleted", of |-> m]}
    /\ UNCHANGED <<asked, lines, tasks, out, open, bus, sent, roster, window>>

\* set_presence: a roster put in place of the last ...
SetPresence ==
    /\ roster < MaxRoster
    /\ sent + roster < MaxChange
    /\ \A e \in unsaid : e.kind # "presenceChange"
    /\ roster' = roster + 1
    /\ unsaid' = unsaid \cup {[kind |-> "presenceChange", of |-> roster + 1]}
    /\ UNCHANGED <<asked, lines, tasks, out, open, bus, stored, sent, window>>

\* ... and announced.
Say ==
    /\ \E e \in unsaid :
          /\ unsaid' = unsaid \ {e}
          /\ Emit(e)
    /\ UNCHANGED <<asked, lines, tasks, out, open, stored, sent, roster,
                   window>>

-----------------------------------------------------------------------------
(* The window.                                                             *)

\* It asks without waiting for the answers to what it asked before.
Ask(method) ==
    /\ open
    /\ Len(asked) < MaxRequest
    /\ asked' = Append(asked, [method |-> method, knew |-> answered])
    /\ lines' = Append(lines, Len(asked) + 1)
    /\ UNCHANGED <<tasks, out, open, bus, backend, window>>

\* It goes: what its tasks were asked for is done all the same.
Close ==
    /\ open
    /\ open' = FALSE
    /\ lines' = <<>> /\ out' = <<>> /\ pending' = <<>>
    /\ UNCHANGED <<asked, tasks, lagged, backend, window>>

-----------------------------------------------------------------------------
(* The loop, handle_connection.                                            *)

ReadLine ==
    /\ open
    /\ lines # <<>>
    /\ lines' = Tail(lines)
    /\ task' = [task EXCEPT ![Head(lines)] = "waiting"]
    /\ UNCHANGED <<asked, found, subs, out, open, bus, backend, window>>

WriteAnswer ==
    /\ open
    /\ out # <<>>
    /\ out' = Tail(out)
    /\ answered' = answered \cup {Head(out).id}
    /\ shown' = shown \cup Head(out).page
    /\ UNCHANGED <<asked, lines, tasks, open, bus, backend, shownRoster>>

\* What the window does with an event that is forwarded.
Takes(e) ==
    /\ shown' = CASE e.kind = "message"        -> shown \cup {e.of}
                  [] e.kind = "messageDeleted" -> shown \ {e.of}
                  [] OTHER                     -> shown
    /\ shownRoster' = IF e.kind = "presenceChange" THEN e.of ELSE shownRoster

\* As ForwardEvent, the event let go if a task is at the subscriptions.
ForwardUncontended ==
    /\ open
    /\ pending # <<>>
    /\ pending' = Tail(pending)
    /\ IF subs /\ \A i \in Ids : task[i] # "running"
       THEN Takes(Head(pending))
       ELSE UNCHANGED <<shown, shownRoster>>
    /\ UNCHANGED <<asked, lines, tasks, out, open, lagged, backend, answered>>

\* Scoped events are the subscriber's only, as of now and not of when they
\* were emitted.
ForwardEvent ==
    /\ open
    /\ pending # <<>>
    /\ pending' = Tail(pending)
    /\ IF subs THEN Takes(Head(pending)) ELSE UNCHANGED <<shown, shownRoster>>
    /\ UNCHANGED <<asked, lines, tasks, out, open, lagged, backend, answered>>

-----------------------------------------------------------------------------
(* The tasks, one for each request.                                        *)

Holding == {i \in Ids : task[i] \in {"running", "replaying", "finished"}}

Start(i) ==
    /\ task[i] = "waiting"
    /\ Cardinality(Holding) < Permits
    /\ task' = [task EXCEPT ![i] = "running"]
    /\ UNCHANGED <<asked, lines, found, subs, out, open, bus, backend, window>>

\* subscribe: the last-known roster is read, and then replayed.
Subscribe(i) ==
    /\ task[i] = "running"
    /\ asked[i].method = "subscribe"
    /\ subs' = TRUE
    /\ found' = [found EXCEPT ![i].roster = roster]
    /\ task' = [task EXCEPT ![i] = IF roster = 0 THEN "finished" ELSE "replaying"]
    /\ UNCHANGED <<asked, lines, out, open, bus, backend, window>>

Replay(i) ==
    /\ task[i] = "replaying"
    /\ task' = [task EXCEPT ![i] = "finished"]
    /\ IF open THEN Emit([kind |-> "presenceChange", of |-> found[i].roster])
       ELSE UNCHANGED bus
    /\ UNCHANGED <<asked, lines, found, subs, out, open, backend, window>>

Unsubscribe(i) ==
    /\ task[i] = "running"
    /\ asked[i].method = "unsubscribe"
    /\ subs' = FALSE
    /\ task' = [task EXCEPT ![i] = "finished"]
    /\ UNCHANGED <<asked, lines, found, out, open, bus, backend, window>>

GetBacklog(i) ==
    /\ task[i] = "running"
    /\ asked[i].method = "getBacklog"
    /\ found' = [found EXCEPT ![i].messages = stored]
    /\ task' = [task EXCEPT ![i] = "finished"]
    /\ UNCHANGED <<asked, lines, subs, out, open, bus, backend, window>>

\* The end of the task.  Nobody there to read the answer, it is dropped.
Answers(i, response) ==
    /\ task' = [task EXCEPT ![i] = IF response.id = 0 THEN "panicked" ELSE "done"]
    /\ found' = [found EXCEPT ![i] = Nothing]
    /\ out' = IF open THEN Append(out, response) ELSE out
    /\ UNCHANGED <<asked, lines, subs, open, bus, backend, window>>

\* As Respond, in the name of the request read last.
RespondToLast(i) ==
    /\ task[i] = "finished"
    /\ Answers(i, [id |-> Len(asked) - Len(lines), page |-> found[i].messages])

Respond(i) ==
    /\ task[i] = "finished"
    /\ Answers(i, [id |-> i, page |-> found[i].messages])

\* A panic is answered with the id Null, 0 here.
Panics(i) ==
    /\ task[i] \in {"running", "replaying"}
    /\ asked[i].method \in MayPanic
    /\ Answers(i, [id |-> 0, page |-> {}])

-----------------------------------------------------------------------------
Next ==
    \/ Record \/ Delete \/ SetPresence \/ Say
    \/ Close \/ ReadLine \/ WriteAnswer \/ ForwardEvent
    \/ \E method \in Methods : Ask(method)
    \/ \E i \in Ids : \/ Start(i) \/ Subscribe(i) \/ Replay(i) \/ Unsubscribe(i)
                      \/ GetBacklog(i) \/ Respond(i) \/ Panics(i)

Spec == Init /\ [][Next]_vars

\* select! picks among what is ready at random, and every call returns.
Fairness ==
    /\ WF_vars(ReadLine)
    /\ WF_vars(WriteAnswer)
    /\ \A i \in Ids : WF_vars(\/ Start(i) \/ Subscribe(i) \/ Replay(i)
                              \/ Unsubscribe(i) \/ GetBacklog(i) \/ Respond(i))

FairSpec == Spec /\ Fairness

-----------------------------------------------------------------------------
(* Properties.                                                             *)

Events == [kind : {"message", "messageDeleted"}, of : 1..MaxMessage]
          \cup [kind : {"presenceChange"}, of : 1..MaxRoster]

RequestsOK ==
    /\ asked \in Seq([method : Methods, knew : SUBSET (0..MaxRequest)])
    /\ Len(asked) <= MaxRequest
    /\ lines \in Seq(Ids)
    /\ out \in Seq([id : 0..MaxRequest, page : SUBSET (1..MaxMessage)])

TasksOK ==
    /\ task \in [Ids -> {"none", "waiting", "running", "replaying",
                         "finished", "done", "panicked"}]
    /\ found \in [Ids -> [messages : SUBSET (1..MaxMessage),
                          roster : 0..MaxRoster]]
    /\ subs \in BOOLEAN

BusOK ==
    /\ open \in BOOLEAN
    /\ lagged \in BOOLEAN
    /\ pending \in Seq(Events)
    /\ Len(pending) <= Capacity

BackendOK ==
    /\ sent \in 0..MaxMessage
    /\ stored \subseteq 1..sent
    /\ roster \in 0..MaxRoster
    /\ unsaid \subseteq Events

WindowOK ==
    /\ answered \subseteq 0..MaxRequest
    /\ shown \subseteq 1..MaxMessage
    /\ shownRoster \in 0..MaxRoster

\* Every variable keeps its type, no more is asked than the window may, and
\* the bus holds no more than it can.
TypeOK == RequestsOK /\ TasksOK /\ BusOK /\ BackendOK /\ WindowOK

AskedFor(method) == {i \in DOMAIN asked : asked[i].method = method}

\* Every write has been said, and every answer and event has arrived.
Settled ==
    /\ open /\ ~lagged
    /\ pending = <<>> /\ out = <<>> /\ unsaid = {}
    /\ Holding = {}

\* The window asked for the backlog knowing that it was subscribed.
Watching ==
    /\ AskedFor("unsubscribe") = {}
    /\ \E b \in AskedFor("getBacklog") \cap answered :
          AskedFor("subscribe") \cap asked[b].knew # {}

\* Subscribe, then read the backlog: whatever is said meanwhile, and however
\* answers and events overtake each other, no message is missed, unless the
\* window fell behind the bus.
NothingMissed == Watching /\ Settled => stored \subseteq shown

\* A window that is still there gets the answer to what it asked, one that
\* names no request if answering it panicked.
EveryRequestAnswered ==
    \A i \in Ids :
        (i \in DOMAIN asked) ~>
            \/ i \in answered
            \/ task[i] = "panicked" /\ 0 \in answered
            \/ ~open

=============================================================================
