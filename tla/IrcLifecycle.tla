---------------------------- MODULE IrcLifecycle ----------------------------
(***************************************************************************)
(* The life of one IRC account's connection: the requests that switch it   *)
(* on, off, remove it and add it back (rpc/methods.rs), the shared records *)
(* they keep in Runtime (runtime.rs), the retry loop that each spawn()     *)
(* starts (backend/irc/connect.rs) and the separate task in which each     *)
(* attempt of that loop is established.                                    *)
(*                                                                         *)
(* The daemon runs on tokio's multi-threaded scheduler, so a handler, a    *)
(* loop and an attempt run in parallel and meet only at the mutexes of     *)
(* Runtime.  One action is one critical section (or one await).  An abort  *)
(* takes a task only where it awaits, and a task that is dropped while it  *)
(* waits for another leaves the other running: both are tokio's rules and  *)
(* both are modelled.                                                      *)
(***************************************************************************)
EXTENDS Naturals, FiniteSets

CONSTANTS
    Req,          \* handlers that may run at the same time
    Loop,         \* slots for retry loops, one taken by each spawn()
    Attempt,      \* slots for connection attempts, one taken by each run()
    None,         \* "no handle recorded"
    MaxGen,       \* bound: spawns between two removals of the account
    MayRemove     \* whether the client removes and re-adds the account

ASSUME NoneAssumption == None \notin Loop \cup Attempt
ASSUME MaxGenAssumption == MaxGen \in Nat \ {0}

VARIABLES
    account,      \* AccountStore holds the account
    connState,    \* Runtime.conn_states, "none" when absent
    ircHandle,    \* Runtime.irc_handles: the attempt whose Sender is there
    taskHandle,   \* Runtime.task_handles: the loop it aborts
    curGen,       \* Runtime.connect_generation, 0 when absent
    wants,        \* Runtime.wants_connected
    buffer,       \* Runtime.buffers holds a buffer of the account
    transport,    \* Runtime.irc_transports holds a route for it
    pc,           \* pc[r]: where handler r is
    removing,     \* removing[r]: r answers removeAccount
    claimed,      \* claimed[r]: the generation its spawn() took
    born,         \* born[r]: the loop its spawn() started
    at,           \* at[l]: where loop l is
    gen,          \* gen[l]: the generation loop l was given
    aborted,      \* aborted[l]: abort() was called on loop l
    runs,         \* runs[l]: the attempt loop l waits for or serves
    est,          \* est[a]: where attempt a is
    cancelled,    \* attempts the safety-net timeout has aborted
    quit          \* attempts on whose Sender QUIT was queued

runtimeVars == <<account, connState, ircHandle, taskHandle, curGen, wants,
                 buffer, transport>>
reqVars     == <<pc, removing, claimed, born>>
loopVars    == <<at, gen, aborted, runs>>
attemptVars == <<est, cancelled, quit>>
vars        == <<runtimeVars, reqVars, loopVars, attemptVars>>

-----------------------------------------------------------------------------
(* States of the three kinds of task.                                      *)

ConnState == {"none", "connecting", "connected", "disconnected"}

SpawnPc   == {"reset_irc", "reset_task", "claim", "want", "start",
              "register"}
StopPc    == {"unwant", "farewell", "take", "stopped"}
ForgetPc  == {"drop_buffers", "forget", "delete"}
Pc        == {"idle"} \cup SpawnPc \cup StopPc \cup ForgetPc

\* Where a loop awaits, so that an abort can take it.
AwaitAt   == {"pacing", "waiting", "serving", "sleeping"}
LoopAt    == AwaitAt \cup {"gone", "ended", "finish", "stamp",
                           "drop_irc", "drop_task", "owner", "dead_sender",
                           "restamp"}

\* "opening": DNS to welcome.  "welcomed": the handle is recorded.
\* "told": Connected is recorded.  "open": the loop reads the stream.
AttemptAt == {"dead", "opening", "welcomed", "told", "open"}

Live(l)      == at[l] # "gone"
InFlight     == {r \in Req : pc[r] # "idle"}
Quiet        == InFlight = {}
\* What the loop is doing when it may still connect or stay connected.
Leaving      == {"finish", "stamp", "drop_irc", "drop_task"}
Running(l)   == Live(l) /\ ~aborted[l] /\ at[l] \notin Leaving
Owner(a)     == {l \in Loop : runs[l] = a}

\* Slots free for reuse: nothing records or runs them any more.
FreeLoop(l)    == ~Live(l) /\ taskHandle # l /\ \A r \in Req : born[r] # l
FreeAttempt(a) == est[a] = "dead" /\ ircHandle # a /\ Owner(a) = {}

-----------------------------------------------------------------------------
Init ==
    /\ account = TRUE          \* loaded from accounts.toml
    /\ connState = "none"
    /\ ircHandle = None
    /\ taskHandle = None
    /\ curGen = 0
    /\ wants = FALSE
    /\ buffer = TRUE           \* restore_layout, before any spawn
    /\ transport = FALSE
    /\ pc = [r \in Req |-> "idle"]
    /\ removing = [r \in Req |-> FALSE]
    /\ claimed = [r \in Req |-> 0]
    /\ born = [r \in Req |-> None]
    /\ at = [l \in Loop |-> "gone"]
    /\ gen = [l \in Loop |-> 0]
    /\ aborted = [l \in Loop |-> FALSE]
    /\ runs = [l \in Loop |-> None]
    /\ est = [a \in Attempt |-> "dead"]
    /\ cancelled = {}
    /\ quit = {}

-----------------------------------------------------------------------------
(* Requests arrive.                                                        *)

Begin(r, first) ==
    /\ pc[r] = "idle"
    /\ pc' = [pc EXCEPT ![r] = first]
    /\ UNCHANGED <<claimed, born, loopVars, attemptVars>>

\* setAccountConnected with connected = true, on any known account,
\* whether or not it is connected already.
AskConnect(r) ==
    /\ account
    /\ curGen < MaxGen
    /\ Begin(r, "reset_irc")
    /\ UNCHANGED removing
    /\ UNCHANGED runtimeVars

\* addAccount: stored, then spawned.
AskAdd(r) ==
    /\ ~account
    /\ account' = TRUE
    /\ Begin(r, "reset_irc")
    /\ UNCHANGED removing
    /\ UNCHANGED <<connState, ircHandle, taskHandle, curGen, wants, buffer,
                   transport>>

\* setAccountConnected with connected = false.
AskDisconnect(r) ==
    /\ account
    /\ Begin(r, "unwant")
    /\ UNCHANGED removing
    /\ UNCHANGED runtimeVars

AskRemove(r) ==
    /\ MayRemove
    /\ account
    /\ Begin(r, "unwant")
    /\ removing' = [removing EXCEPT ![r] = TRUE]
    /\ UNCHANGED runtimeVars

-----------------------------------------------------------------------------
(* irc::spawn, one critical section at a time.                             *)

Goto(r, from, to) ==
    /\ pc[r] = from
    /\ pc' = [pc EXCEPT ![r] = to]

\* send_quit on the recorded Sender; nothing happens when its stream is gone.
SendQuit == quit' = quit \cup {a \in Attempt : a = ircHandle /\ est[a] # "dead"}

\* The Sender in the map is told to QUIT and forgotten.
ResetIrc(r) ==
    /\ Goto(r, "reset_irc", "reset_task")
    /\ SendQuit
    /\ ircHandle' = None
    /\ UNCHANGED <<account, connState, taskHandle, curGen, wants, buffer,
                   transport, removing, claimed, born, loopVars, est,
                   cancelled>>

\* The loop in the map is aborted and forgotten.
ResetTask(r) ==
    /\ Goto(r, "reset_task", "claim")
    /\ aborted' = IF taskHandle = None THEN aborted
                  ELSE [aborted EXCEPT ![taskHandle] = TRUE]
    /\ taskHandle' = None
    /\ UNCHANGED <<account, connState, ircHandle, curGen, wants, buffer,
                   transport, removing, claimed, born, at, gen, runs,
                   attemptVars>>

NextGeneration(r) ==
    /\ Goto(r, "claim", "want")
    /\ curGen' = curGen + 1
    /\ claimed' = [claimed EXCEPT ![r] = curGen + 1]
    /\ UNCHANGED <<account, connState, ircHandle, taskHandle, wants, buffer,
                   transport, removing, born, loopVars, attemptVars>>

SetWants(r) ==
    /\ Goto(r, "want", "start")
    /\ wants' = TRUE
    /\ UNCHANGED <<account, connState, ircHandle, taskHandle, curGen, buffer,
                   transport, removing, claimed, born, loopVars, attemptVars>>

\* set_conn_state(Connecting), then tokio::spawn: the loop runs from here on,
\* before anybody can abort it.
StartLoop(r, l) ==
    /\ Goto(r, "start", "register")
    /\ FreeLoop(l)
    /\ connState' = "connecting"
    /\ born' = [born EXCEPT ![r] = l]
    /\ at' = [at EXCEPT ![l] = "pacing"]
    /\ gen' = [gen EXCEPT ![l] = claimed[r]]
    /\ aborted' = [aborted EXCEPT ![l] = FALSE]
    /\ UNCHANGED <<account, ircHandle, taskHandle, curGen, wants, buffer,
                   transport, removing, claimed, runs, attemptVars>>

\* Mutant: the map holds the generation instead of the loop.
InsertGenerationAsHandle(r) ==
    /\ Goto(r, "register", "idle")
    /\ taskHandle' = claimed[r]
    /\ born' = [born EXCEPT ![r] = None]
    /\ claimed' = [claimed EXCEPT ![r] = 0]
    /\ UNCHANGED <<account, connState, ircHandle, curGen, wants, buffer,
                   transport, removing, loopVars, attemptVars>>

InsertTaskHandle(r) ==
    /\ Goto(r, "register", "idle")
    /\ taskHandle' = born[r]
    /\ born' = [born EXCEPT ![r] = None]
    /\ claimed' = [claimed EXCEPT ![r] = 0]
    /\ UNCHANGED <<account, connState, ircHandle, curGen, wants, buffer,
                   transport, removing, loopVars, attemptVars>>

-----------------------------------------------------------------------------
(* Runtime::disconnect, and the rest of removeAccount.                     *)

AfterStop(r) == IF removing[r] THEN "drop_buffers" ELSE "idle"

\* Mutant: disconnect forgets that the ending was asked for.
KeepWants(r) ==
    /\ Goto(r, "unwant", "farewell")
    /\ UNCHANGED <<runtimeVars, removing, claimed, born, loopVars, attemptVars>>

ClearWants(r) ==
    /\ Goto(r, "unwant", "farewell")
    /\ wants' = FALSE
    /\ UNCHANGED <<account, connState, ircHandle, taskHandle, curGen, buffer,
                   transport, removing, claimed, born, loopVars, attemptVars>>

\* A Sender in the map: QUIT and return, leaving the loop to wind down.
QuitGracefully(r) ==
    /\ ircHandle # None
    /\ Goto(r, "farewell", AfterStop(r))
    /\ SendQuit
    /\ UNCHANGED <<runtimeVars, removing, claimed, born, loopVars, est,
                   cancelled>>

NothingToQuit(r) ==
    /\ ircHandle = None
    /\ Goto(r, "farewell", "take")
    /\ UNCHANGED <<runtimeVars, removing, claimed, born, loopVars, attemptVars>>

TakeTask(r) ==
    /\ taskHandle # None
    /\ Goto(r, "take", "stopped")
    /\ aborted' = [aborted EXCEPT ![taskHandle] = TRUE]
    /\ taskHandle' = None
    /\ UNCHANGED <<account, connState, ircHandle, curGen, wants, buffer,
                   transport, removing, claimed, born, at, gen, runs,
                   attemptVars>>

NothingToStop(r) ==
    /\ taskHandle = None
    /\ Goto(r, "take", AfterStop(r))
    /\ UNCHANGED <<runtimeVars, removing, claimed, born, loopVars, attemptVars>>

StampStopped(r) ==
    /\ Goto(r, "stopped", AfterStop(r))
    /\ connState' = "disconnected"
    /\ UNCHANGED <<account, ircHandle, taskHandle, curGen, wants, buffer,
                   transport, removing, claimed, born, loopVars, attemptVars>>

RemoveBuffers(r) ==
    /\ Goto(r, "drop_buffers", "forget")
    /\ buffer' = FALSE
    /\ UNCHANGED <<account, connState, ircHandle, taskHandle, curGen, wants,
                   transport, removing, claimed, born, loopVars, attemptVars>>

\* forget_account sweeps every map.  The maps are swept one lock at a time;
\* the model sweeps those of this module together.
\* Mutant: a map left out of the sweep.
ForgetAllButTaskHandle(r) ==
    /\ Goto(r, "forget", "delete")
    /\ connState' = "none"
    /\ ircHandle' = None
    /\ curGen' = 0
    /\ wants' = FALSE
    /\ buffer' = FALSE
    /\ transport' = FALSE
    /\ UNCHANGED <<account, taskHandle, removing, claimed, born, loopVars,
                   attemptVars>>

ForgetAccount(r) ==
    /\ Goto(r, "forget", "delete")
    /\ connState' = "none"
    /\ ircHandle' = None
    /\ taskHandle' = None
    /\ curGen' = 0
    /\ wants' = FALSE
    /\ buffer' = FALSE
    /\ transport' = FALSE
    /\ UNCHANGED <<account, removing, claimed, born, loopVars, attemptVars>>

DeleteAccount(r) ==
    /\ Goto(r, "delete", "idle")
    /\ account' = FALSE
    /\ removing' = [removing EXCEPT ![r] = FALSE]
    /\ UNCHANGED <<connState, ircHandle, taskHandle, curGen, wants, buffer,
                   transport, claimed, born, loopVars, attemptVars>>

Handler(r) ==
    \/ ResetIrc(r) \/ ResetTask(r) \/ NextGeneration(r) \/ SetWants(r)
    \/ (\E l \in Loop : StartLoop(r, l))
    \/ InsertTaskHandle(r)
    \/ ClearWants(r) \/ QuitGracefully(r) \/ NothingToQuit(r) \/ TakeTask(r)
    \/ NothingToStop(r) \/ StampStopped(r)
    \/ RemoveBuffers(r) \/ ForgetAccount(r) \/ DeleteAccount(r)

-----------------------------------------------------------------------------
(* The retry loop of spawn(), and run().                                   *)

\* These attempts end: their streams are dropped.
End(dying) ==
    /\ est' = [a \in Attempt |-> IF a \in dying THEN "dead" ELSE est[a]]
    /\ cancelled' = cancelled \ dying
    /\ quit' = quit \ dying

Step(l, from, to) ==
    /\ at[l] = from
    /\ from \in AwaitAt => ~aborted[l]
    /\ at' = [at EXCEPT ![l] = to]
    /\ UNCHANGED <<reqVars, gen, aborted>>

\* Dropping the loop drops the stream it was reading, but an attempt it was
\* only waiting for goes on: the JoinHandle is dropped, the task is not.
AbortLands(l) ==
    /\ aborted[l]
    /\ at[l] \in AwaitAt
    /\ at' = [at EXCEPT ![l] = "gone"]
    /\ runs' = [runs EXCEPT ![l] = None]
    /\ End(IF at[l] = "serving" THEN {runs[l]} ELSE {})
    /\ UNCHANGED <<runtimeVars, reqVars, gen, aborted>>

\* The pacing of throttle_connect_attempt is over, or the backoff and the
\* pacing after it; neither re-reads wants.  run() spawns establish() as a
\* task of its own and waits for it.
StartAttempt(l, a) ==
    /\ \E from \in {"pacing", "sleeping"} : Step(l, from, "waiting")
    /\ FreeAttempt(a)
    /\ runs' = [runs EXCEPT ![l] = a]
    /\ est' = [est EXCEPT ![a] = "opening"]
    /\ UNCHANGED <<runtimeVars, cancelled, quit>>

\* OVERALL_ESTABLISH_TIMEOUT: the attempt is aborted and waited for no more.
SafetyNet(l) ==
    /\ Step(l, "waiting", "ended")
    /\ cancelled' = cancelled \cup {runs[l]}
    /\ runs' = [runs EXCEPT ![l] = None]
    /\ UNCHANGED <<runtimeVars, est, quit>>

\* The session is over: read error, ERROR, end of stream, or our QUIT.
SessionEnds(l) ==
    /\ Step(l, "serving", "ended")
    /\ End({runs[l]})
    /\ runs' = [runs EXCEPT ![l] = None]
    /\ transport' = FALSE
    /\ UNCHANGED <<account, connState, ircHandle, taskHandle, curGen, wants,
                   buffer>>

\* Anything said on the session makes its buffer (record_message).
HandleMessage(l) ==
    /\ at[l] = "serving"
    /\ ~aborted[l]
    /\ buffer' = TRUE
    /\ UNCHANGED <<account, connState, ircHandle, taskHandle, curGen, wants,
                   transport, reqVars, loopVars, attemptVars>>

\* Mutant: the loop as it used to be, stopping when a session ends.
NeverRetry(l) ==
    /\ Step(l, "ended", "finish")
    /\ UNCHANGED <<runtimeVars, runs, attemptVars>>

ReadWants(l) ==
    /\ Step(l, "ended", IF wants THEN "owner" ELSE "finish")
    /\ UNCHANGED <<runtimeVars, runs, attemptVars>>

\* finish_connection: the generation is compared under one lock, and each
\* of the three cleanups takes its own.
FinishOrNot(l) ==
    /\ Step(l, "finish", IF curGen = gen[l] THEN "stamp" ELSE "gone")
    /\ UNCHANGED <<runtimeVars, runs, attemptVars>>

FinishStamp(l) ==
    /\ Step(l, "stamp", "drop_irc")
    /\ connState' = "disconnected"
    /\ UNCHANGED <<account, ircHandle, taskHandle, curGen, wants, buffer,
                   transport, runs, attemptVars>>

FinishDropIrc(l) ==
    /\ Step(l, "drop_irc", "drop_task")
    /\ ircHandle' = None
    /\ UNCHANGED <<account, connState, taskHandle, curGen, wants, buffer,
                   transport, runs, attemptVars>>

FinishDropTask(l) ==
    /\ Step(l, "drop_task", "gone")
    /\ taskHandle' = None
    /\ UNCHANGED <<account, connState, ircHandle, curGen, wants, buffer,
                   transport, runs, attemptVars>>

\* is_current_generation: a superseded loop stands down.
StandDownOrNot(l) ==
    /\ Step(l, "owner", IF curGen = gen[l] THEN "dead_sender" ELSE "gone")
    /\ UNCHANGED <<runtimeVars, runs, attemptVars>>

DropDeadSender(l) ==
    /\ Step(l, "dead_sender", "restamp")
    /\ ircHandle' = None
    /\ UNCHANGED <<account, connState, taskHandle, curGen, wants, buffer,
                   transport, runs, attemptVars>>

StampRetry(l) ==
    /\ Step(l, "restamp", "sleeping")
    /\ connState' = "connecting"
    /\ UNCHANGED <<account, ircHandle, taskHandle, curGen, wants, buffer,
                   transport, runs, attemptVars>>

LoopStep(l) ==
    \/ AbortLands(l) \/ (\E a \in Attempt : StartAttempt(l, a))
    \/ ReadWants(l) \/ FinishOrNot(l) \/ FinishStamp(l) \/ FinishDropIrc(l)
    \/ FinishDropTask(l) \/ StandDownOrNot(l) \/ DropDeadSender(l)
    \/ StampRetry(l)

-----------------------------------------------------------------------------
(* establish(), in its own task.                                           *)

\* Whoever waits for the attempt gets its error.
WaiterMovesOn(a, to) ==
    /\ at' = [l \in Loop |-> IF runs[l] = a THEN to ELSE at[l]]
    /\ UNCHANGED <<reqVars, gen, aborted>>

\* A waiter that was aborted will not take the result: the abort lands first.
WaiterListens(a) == \A l \in Owner(a) : ~aborted[l]

EstablishFails(a) ==
    /\ est[a] = "opening"
    /\ WaiterListens(a)
    /\ End({a})
    /\ runs' = [l \in Loop |-> IF runs[l] = a THEN None ELSE runs[l]]
    /\ WaiterMovesOn(a, "ended")
    /\ UNCHANGED runtimeVars

\* The safety net's abort lands while the attempt awaits.
CancelLands(a) ==
    /\ est[a] = "opening"
    /\ a \in cancelled
    /\ End({a})
    /\ UNCHANGED <<runtimeVars, reqVars, loopVars>>

\* Registered and welcomed: from here to its end establish() never awaits.
Welcomed(a) ==
    /\ est[a] = "opening"
    /\ a \notin cancelled
    /\ est' = [est EXCEPT ![a] = "welcomed"]
    /\ ircHandle' = a
    /\ UNCHANGED <<account, connState, taskHandle, curGen, wants, buffer,
                   transport, reqVars, loopVars, cancelled, quit>>

TellConnected(a) ==
    /\ est[a] = "welcomed"
    /\ est' = [est EXCEPT ![a] = "told"]
    /\ connState' = "connected"
    /\ UNCHANGED <<account, ircHandle, taskHandle, curGen, wants, buffer,
                   transport, reqVars, loopVars, cancelled, quit>>

\* The server buffer, the joins, and the return.  With nobody waiting the
\* result is dropped, and the stream with it.
Established(a) ==
    /\ est[a] = "told"
    /\ WaiterListens(a)
    /\ buffer' = TRUE
    /\ IF Owner(a) = {}
         THEN End({a}) /\ UNCHANGED transport
         ELSE /\ est' = [est EXCEPT ![a] = "open"]
              /\ transport' = TRUE
              /\ UNCHANGED <<cancelled, quit>>
    /\ WaiterMovesOn(a, "serving")
    /\ UNCHANGED <<account, connState, ircHandle, taskHandle, curGen, wants,
                   runs>>

AttemptStep(a) ==
    \/ CancelLands(a) \/ TellConnected(a) \/ Established(a)

-----------------------------------------------------------------------------
Ask(r) == AskConnect(r) \/ AskAdd(r) \/ AskDisconnect(r) \/ AskRemove(r)

Next ==
    \/ \E r \in Req : Ask(r) \/ Handler(r)
    \/ \E l \in Loop : LoopStep(l) \/ SafetyNet(l) \/ SessionEnds(l)
                       \/ HandleMessage(l)
    \/ \E a \in Attempt : AttemptStep(a) \/ EstablishFails(a) \/ Welcomed(a)

Spec == Init /\ [][Next]_vars

(* Handlers, loops and attempts are scheduled; a session told to QUIT is   *)
(* closed by the server; an attempt comes to an end (every step of         *)
(* establish() is bounded by a timeout), and a network that is tried again *)
(* and again lets us in at some time.                                      *)
Fairness ==
    /\ \A r \in Req : WF_vars(Handler(r))
    /\ \A l \in Loop : WF_vars(LoopStep(l))
    /\ \A l \in Loop : WF_vars(SessionEnds(l) /\ runs[l] \in quit)
    /\ \A a \in Attempt : WF_vars(AttemptStep(a) \/ EstablishFails(a)
                                   \/ Welcomed(a))
    /\ SF_vars(\E a \in Attempt : Welcomed(a))
    /\ SF_vars(\E a \in Attempt : TellConnected(a) /\ Owner(a) # {})
    /\ SF_vars(\E a \in Attempt : Established(a) /\ Owner(a) # {})

FairSpec == Spec /\ Fairness

-----------------------------------------------------------------------------
(* Properties.                                                             *)

TypeOK ==
    /\ account \in BOOLEAN
    /\ connState \in ConnState
    /\ ircHandle \in Attempt \cup {None}
    /\ taskHandle \in Loop \cup {None}
    /\ curGen \in Nat
    /\ wants \in BOOLEAN
    /\ buffer \in BOOLEAN
    /\ transport \in BOOLEAN
    /\ pc \in [Req -> Pc]
    /\ removing \in [Req -> BOOLEAN]
    /\ claimed \in [Req -> Nat]
    /\ born \in [Req -> Loop \cup {None}]
    /\ at \in [Loop -> LoopAt]
    /\ gen \in [Loop -> Nat]
    /\ aborted \in [Loop -> BOOLEAN]
    /\ runs \in [Loop -> Attempt \cup {None}]
    /\ est \in [Attempt -> AttemptAt]
    /\ cancelled \subseteq Attempt
    /\ quit \subseteq Attempt

\* An account that should be connected is being worked on: once requests
\* have been answered, wants_connected without a loop of the current
\* generation that will go on trying would be an account that never comes
\* back.  (connect.rs spawn against Runtime::disconnect and finish_connection.)
WantedHasLoop ==
    Quiet /\ wants => \E l \in Loop : Running(l) /\ gen[l] = curGen

\* The handle a disconnect would abort belongs to the newest spawn, never to
\* one that a later spawn superseded (the wrong branch that reset_connection
\* was written to end).
HandleIsCurrent ==
    Quiet /\ taskHandle # None => gen[taskHandle] = curGen

\* No two loops own the account: at most one that has not been aborted passes
\* the generation check (next_connect_generation, is_current_generation).  A
\* removal forgets the counter, so this is said of accounts that stay.
OneOwner ==
    \A l, m \in Loop :
        Running(l) /\ Running(m) /\ gen[l] = curGen /\ gen[m] = curGen => l = m

\* An account that stays wanted gets a session, whatever attempts failed,
\* timed out or were superseded on the way.
WantedGetsConnected ==
    wants ~> (~wants \/ \E a \in Attempt : est[a] = "open")

=============================================================================
