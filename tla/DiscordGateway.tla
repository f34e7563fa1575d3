--------------------------- MODULE DiscordGateway ---------------------------
(***************************************************************************)
(* One Discord account's gateway connection: the supervisor loop           *)
(* (run_gateway_with_retry), the session it carries from one connection to *)
(* the next and over a restart (GatewaySession, session_store.rs), the     *)
(* heartbeat task beside the read loop, and the budget of fresh logins     *)
(* (identify_budget.rs).                                                   *)
(*                                                                         *)
(* A session is a numbered stream of dispatches: 1 is READY, Guilds are    *)
(* the numbers of GUILD_CREATEs, every other number is a message.  A       *)
(* resume asks for the stream from where it was left; a fresh login starts *)
(* a new one.  Session ids are reused once nothing refers to them, so runs *)
(* of any length stay finite.                                              *)
(***************************************************************************)
EXTENDS Naturals, Sequences, FiniteSets

CONSTANTS
    Session,         \* session ids
    NoSession,       \* "no session"
    MaxLen,          \* bound: dispatches Discord sends in one session
    Guilds,          \* which of them are GUILD_CREATEs
    PerHour,         \* identify_budget::PER_HOUR
    MayFailToWrite,  \* whether writing a session file can fail
    MayRemove,       \* whether the account is removed and added back
    MayPanic         \* whether the handler of a dispatch can panic

ASSUME NoSessionAssumption == NoSession \notin Session
ASSUME MaxLenAssumption    == MaxLen \in Nat \ {0}
ASSUME GuildsAssumption    == Guilds \subseteq 2..MaxLen
ASSUME PerHourAssumption   == PerHour \in Nat \ {0}

VARIABLES
    server,    \* Discord: its newest session, whether it can still be
               \* resumed, how many dispatches it has
    disk,      \* the position file and the state file of the account
    history,   \* discord-logins.json: one entry for each login counted in
               \* the last hour, TRUE once an IDENTIFY was sent for it
    entry,     \* identify_budget's map of held accounts has this one
    permit,    \* the Notify in that entry holds a permit
    account,   \* AccountStore holds the account
    halted,    \* Discord refused the token (http::Safety)
    pc,        \* where the supervisor is
    doomed,    \* abort() was called on its task
    resume,    \* GatewaySession.resume: [s, n]
    saved,     \* GatewaySession.pending: saved dispatches yet to be handled
    maps,      \* channel_map and guild_context: [s, guilds]
    mem,       \* SessionFile in memory: [s, guilds, dirty]
    conn,      \* the socket: [at, next]
    cur,       \* number of the dispatch being handled, 0 for none
    beat,      \* ack_pending, stale_notify, what the socket holds of them
    handled    \* <<session, number>> of the dispatches handled to the end

clientVars == <<pc, doomed, resume, saved, maps, mem, conn, cur, beat>>
budgetVars == <<history, entry, permit>>
vars       == <<server, disk, budgetVars, account, halted, clientVars,
                handled>>

-----------------------------------------------------------------------------
NoPlace  == [s |-> NoSession, n |-> 0]
NoMaps   == [s |-> NoSession, guilds |-> {}]
NoFile   == [s |-> NoSession, guilds |-> {}, dirty |-> FALSE]
NoFiles  == [pos |-> NoPlace, ours |-> FALSE, st |-> NoMaps]
NoConn   == [at |-> "none", next |-> 0]
NoBeat   == [waiting |-> FALSE, stale |-> FALSE, wire |-> "none"]

\* Sessions something still refers to.
Known == {server.sess, disk.pos.s, disk.st.s, resume.s, maps.s, mem.s}

Init ==
    /\ server = [sess |-> NoSession, held |-> FALSE, len |-> 0]
    /\ disk = NoFiles
    /\ history = <<>>
    /\ entry = FALSE
    /\ permit = FALSE
    /\ account = TRUE
    /\ halted = FALSE
    /\ pc = "off"
    /\ doomed = FALSE
    /\ resume = NoPlace
    /\ saved = {}
    /\ maps = NoMaps
    /\ mem = NoFile
    /\ conn = NoConn
    /\ cur = 0
    /\ beat = NoBeat
    /\ handled = {}

-----------------------------------------------------------------------------
(* Discord.                                                                *)

\* Something happens on the account: one more dispatch of the session.
DiscordSends ==
    /\ server.held
    /\ server.len < MaxLen
    /\ server' = [server EXCEPT !.len = @ + 1]
    /\ UNCHANGED <<disk, budgetVars, account, halted, clientVars, handled>>

\* A session is kept for a few minutes only, or ended by Discord.
DiscordForgets ==
    /\ server.held
    /\ server' = [server EXCEPT !.held = FALSE]
    /\ UNCHANGED <<disk, budgetVars, account, halted, clientVars, handled>>

DiscordAcks ==
    /\ beat.wire = "beat"
    /\ beat' = [beat EXCEPT !.wire = "ack"]
    /\ UNCHANGED <<server, disk, budgetVars, account, halted, pc, doomed, resume,
                   saved, maps, mem, conn, cur, handled>>

-----------------------------------------------------------------------------
(* The session on disk.                                                    *)

\* SessionFile::load: nothing unless the position is fresh, of this token,
\* and of the session whose state is kept.
Loadable == /\ disk.pos.s # NoSession
            /\ disk.ours
            /\ disk.st.s = disk.pos.s

\* SessionFile::write, after acked() moved the position to n: the state
\* first if it changed, then the position, each allowed to fail alone.
Write(n) ==
    \E stOk, posOk \in IF MayFailToWrite THEN BOOLEAN ELSE {TRUE} :
        /\ mem' = [mem EXCEPT !.dirty = @ /\ ~stOk]
        /\ disk' = [disk EXCEPT
             !.st = IF mem.dirty /\ stOk
                    THEN [s |-> mem.s, guilds |-> mem.guilds] ELSE @,
             !.pos = IF posOk THEN [s |-> mem.s, n |-> n] ELSE @,
             !.ours = IF posOk THEN TRUE ELSE @]

\* A state past MAX_STATE_BYTES: the position goes, nothing is kept.
TooBig ==
    /\ mem' = NoFile
    /\ disk' = [disk EXCEPT !.pos = NoPlace]

-----------------------------------------------------------------------------
(* The supervisor.                                                         *)

\* spawn() and the head of run_gateway_with_retry.  What is kept may be
\* too old by now, whatever else it is.
Spawn ==
    /\ pc = "off"
    /\ account
    /\ doomed' = FALSE
    /\ maps' = NoMaps
    /\ \/ /\ Loadable
          /\ resume' = disk.pos
          /\ saved' = {1} \cup disk.st.guilds
          /\ mem' = [s |-> disk.st.s, guilds |-> disk.st.guilds,
                     dirty |-> FALSE]
       \/ /\ resume' = NoPlace
          /\ saved' = {}
          /\ mem' = NoFile
    /\ ~halted               \* else it says AuthFailed and returns
    /\ pc' = "ask"
    /\ UNCHANGED <<server, disk, budgetVars, account, halted, conn, cur, beat,
                   handled>>

\* Top of the loop.  A resume costs nothing; a fresh login is counted
\* before it is tried, or held.
AskToResume ==
    /\ pc = "ask" /\ ~doomed
    /\ resume # NoPlace
    /\ pc' = "dial"
    /\ UNCHANGED <<server, disk, budgetVars, account, halted, doomed, resume, saved,
                   maps, mem, conn, cur, beat, handled>>

AskToLogin ==
    /\ pc = "ask" /\ ~doomed
    /\ resume = NoPlace
    /\ Len(history) < PerHour
    /\ history' = Append(history, FALSE)
    /\ pc' = "dial"
    /\ UNCHANGED <<server, disk, entry, permit, account, halted, doomed, resume,
                   saved, maps, mem, conn, cur, beat, handled>>

HoldLogin ==
    /\ pc = "ask" /\ ~doomed
    /\ resume = NoPlace
    /\ Len(history) >= PerHour
    /\ entry' = TRUE
    /\ pc' = "held"
    /\ UNCHANGED <<server, disk, history, permit, account, halted, doomed, resume,
                   saved, maps, mem, conn, cur, beat, handled>>

\* The clock ends the hold, and the budget is asked again.
HoldTimesOut ==
    /\ pc = "held" /\ ~doomed
    /\ entry' = FALSE
    /\ permit' = FALSE
    /\ pc' = "ask"
    /\ UNCHANGED <<server, disk, history, account, halted, doomed, resume, saved,
                   maps, mem, conn, cur, beat, handled>>

\* The person ended it: counted without asking.
HoldLetThrough ==
    /\ pc = "held" /\ ~doomed
    /\ permit
    /\ entry' = FALSE
    /\ permit' = FALSE
    /\ history' = Append(history, FALSE)
    /\ pc' = "dial"
    /\ UNCHANGED <<server, disk, account, halted, doomed, resume, saved, maps, mem,
                   conn, cur, beat, handled>>

ConnectAnyway ==
    /\ entry
    /\ Len(history) <= PerHour       \* bound on logins let through
    /\ permit' = TRUE
    /\ UNCHANGED <<server, disk, history, entry, account, halted, clientVars,
                   handled>>

LoginAgesOut ==
    /\ history # <<>>
    /\ history' = Tail(history)
    /\ UNCHANGED <<server, disk, entry, permit, account, halted, clientVars, handled>>

\* The connection is over; `to' is "wait" (a backoff) or "ask" (at once).
ConnectionOver(to) ==
    /\ pc' = to
    /\ conn' = NoConn
    /\ cur' = 0
    /\ beat' = NoBeat

DialFails ==
    /\ pc = "dial" /\ ~doomed
    /\ pc' = "wait"
    /\ UNCHANGED <<server, disk, budgetVars, account, halted, doomed, resume, saved,
                   maps, mem, conn, cur, beat, handled>>

WaitOver ==
    /\ pc = "wait" /\ ~doomed
    /\ pc' = "ask"
    /\ UNCHANGED <<server, disk, budgetVars, account, halted, doomed, resume, saved,
                   maps, mem, conn, cur, beat, handled>>

\* Connected, greeted, and op 6 sent: Discord goes on from the place named,
\* or will answer op 9.
DialResumes ==
    /\ pc = "dial" /\ ~doomed
    /\ resume # NoPlace
    /\ pc' = "read"
    /\ conn' = IF server.held /\ server.sess = resume.s
               THEN [at |-> "live", next |-> resume.n + 1]
               ELSE [at |-> "refused", next |-> 0]
    /\ UNCHANGED <<server, disk, budgetVars, account, halted, doomed, resume, saved,
                   maps, mem, cur, beat, handled>>

\* Connected, greeted, and op 2 sent: Discord starts a new session.
DialLogsIn ==
    /\ pc = "dial" /\ ~doomed
    /\ resume = NoPlace
    /\ \E s \in Session \ Known :
          /\ server' = [sess |-> s, held |-> TRUE, len |-> 1]
          /\ handled' = {h \in handled : h[1] # s}
    /\ history' = IF history = <<>> THEN history
                  ELSE [history EXCEPT ![Len(history)] = TRUE]
    /\ pc' = "read"
    /\ conn' = [at |-> "live", next |-> 1]
    /\ UNCHANGED <<disk, entry, permit, account, halted, doomed, resume, saved, maps,
                   mem, cur, beat>>

-----------------------------------------------------------------------------
(* The read loop of run_gateway.  It handles one message at a time, and a  *)
(* handler may wait for requests of its own: nothing is read meanwhile.    *)

Reading == pc = "read" /\ ~doomed

\* What a resume does not send comes first: READY, then the servers.  The
\* servers go through the handler that keeps them, the READY does not.
ReadSaved ==
    /\ Reading
    /\ \E n \in saved :
          /\ n = 1 \/ 1 \notin saved
          /\ saved' = saved \ {n}
          /\ maps' = IF n = 1 THEN [maps EXCEPT !.s = resume.s]
                     ELSE [maps EXCEPT !.guilds = @ \cup {n}]
    /\ UNCHANGED <<server, disk, budgetVars, account, halted, pc, doomed,
                   resume, mem, conn, cur, beat, handled>>

\* The place in the stream is noted before the dispatch is handled.
ReadDispatch ==
    /\ Reading
    /\ saved = {}
    /\ conn.at = "live"
    /\ conn.next <= server.len
    /\ cur' = conn.next
    /\ conn' = [conn EXCEPT !.next = @ + 1]
    /\ resume' = IF resume = NoPlace THEN resume
                 ELSE [resume EXCEPT !.n = conn.next]
    /\ pc' = "handle"
    /\ UNCHANGED <<server, disk, budgetVars, account, halted, doomed, saved,
                   maps, mem, beat, handled>>

HandleReady ==
    /\ resume' = [s |-> server.sess, n |-> 1]
    /\ mem' = [s |-> server.sess, guilds |-> {}, dirty |-> TRUE]
    /\ maps' = [maps EXCEPT !.s = server.sess]

\* As HandleGuild, the state on disk not marked as out of date.
HandleGuildUnmarked ==
    /\ mem' = IF mem.s = NoSession THEN mem
              ELSE [mem EXCEPT !.guilds = @ \cup {cur}]
    /\ maps' = [maps EXCEPT !.guilds = @ \cup {cur}]
    /\ UNCHANGED resume

HandleGuild ==
    /\ mem' = IF mem.s = NoSession THEN mem
              ELSE [mem EXCEPT !.guilds = @ \cup {cur}, !.dirty = TRUE]
    /\ maps' = [maps EXCEPT !.guilds = @ \cup {cur}]
    /\ UNCHANGED resume

HandleMessage == UNCHANGED <<resume, mem, maps>>

Handled ==
    /\ pc = "handle" /\ ~doomed
    /\ \/ cur = 1 /\ HandleReady
       \/ cur \in Guilds /\ HandleGuild
       \/ cur \notin Guilds \cup {1} /\ HandleMessage
    /\ handled' = handled \cup {<<server.sess, cur>>}
    /\ cur' = 0
    /\ pc' = "read"
    /\ UNCHANGED <<server, disk, budgetVars, account, halted, doomed, saved,
                   conn, beat>>

\* catch_unwind: a panic ends the connection, not the supervisor, and the
\* place in the stream is already past the dispatch.
HandlerPanics ==
    /\ MayPanic
    /\ pc = "handle" /\ ~doomed
    /\ ConnectionOver("wait")
    /\ UNCHANGED <<server, disk, budgetVars, account, halted, doomed, resume,
                   saved, maps, mem, handled>>

\* As ReadAck, with the number of the next dispatch saved.
AckSavesNext ==
    /\ pc = "read"
    /\ saved = {}
    /\ beat.wire = "ack"
    /\ beat' = [beat EXCEPT !.waiting = FALSE, !.wire = "none"]
    /\ IF resume = NoPlace \/ mem.s = NoSession
       THEN UNCHANGED <<mem, disk>>
       ELSE Write(resume.n + 1)
    /\ UNCHANGED <<server, budgetVars, account, halted, pc, doomed, resume,
                   saved, maps, conn, cur, handled>>

\* op 11, which an abort does not interrupt: the branch awaits nothing.
ReadAck ==
    /\ pc = "read"
    /\ saved = {}
    /\ beat.wire = "ack"
    /\ beat' = [beat EXCEPT !.waiting = FALSE, !.wire = "none"]
    /\ IF resume = NoPlace \/ mem.s = NoSession
       THEN UNCHANGED <<mem, disk>>
       ELSE Write(resume.n) \/ (mem.dirty /\ TooBig)
    /\ UNCHANGED <<server, budgetVars, account, halted, pc, doomed, resume,
                   saved, maps, conn, cur, handled>>

\* As ReadInvalid, the session to resume kept.
InvalidKeepsResume ==
    /\ Reading
    /\ saved = {}
    /\ conn.at = "refused" \/ ~server.held
    /\ mem' = NoFile
    /\ disk' = NoFiles
    /\ ConnectionOver("wait")
    /\ UNCHANGED <<server, budgetVars, account, halted, doomed, handled,
                   resume, saved, maps>>

\* As ReadInvalid, a new session asked for at once.
InvalidLogsIn ==
    /\ Reading
    /\ saved = {}
    /\ conn.at = "refused" \/ ~server.held
    /\ resume' = NoPlace
    /\ saved' = {}
    /\ maps' = NoMaps
    /\ mem' = NoFile
    /\ disk' = NoFiles
    /\ ConnectionOver("dial")
    /\ UNCHANGED <<server, budgetVars, account, halted, doomed, handled>>

\* op 9, or a close code that ends the session.
ReadInvalid ==
    /\ Reading
    /\ saved = {}
    /\ conn.at = "refused" \/ ~server.held
    /\ resume' = NoPlace
    /\ saved' = {}
    /\ maps' = NoMaps
    /\ mem' = NoFile
    /\ disk' = NoFiles
    /\ ConnectionOver("wait")
    /\ UNCHANGED <<server, budgetVars, account, halted, doomed, handled>>

\* op 7: at once when there is a session to pick up and it was a working
\* one (the delay is still the first).
ReadReconnect ==
    /\ Reading
    /\ saved = {}
    /\ \/ ConnectionOver("wait")
       \/ resume # NoPlace /\ ConnectionOver("ask")
    /\ UNCHANGED <<server, disk, budgetVars, account, halted, doomed, resume,
                   saved, maps, mem, handled>>

SocketLost ==
    /\ Reading
    /\ saved = {}
    /\ ConnectionOver("wait")
    /\ UNCHANGED <<server, disk, budgetVars, account, halted, doomed, resume,
                   saved, maps, mem, handled>>

\* Close code 4004: the token is dead, the task ends.
AuthFailed ==
    /\ Reading
    /\ saved = {}
    /\ halted' = TRUE
    /\ resume' = NoPlace
    /\ maps' = NoMaps
    /\ mem' = NoFile
    /\ ConnectionOver("off")
    /\ UNCHANGED <<server, disk, budgetVars, account, doomed, saved, handled>>

-----------------------------------------------------------------------------
(* The heartbeat task, which runs beside the read loop.                    *)

\* An interval (41 seconds or so) has gone by.  A loop that is reading has
\* read what came in that time; one whose handler waits has not.
Tick ==
    /\ pc \in {"read", "handle"}
    /\ ~beat.stale
    /\ pc = "handle" \/ beat.wire # "ack"
    /\ beat' = IF beat.waiting THEN [beat EXCEPT !.stale = TRUE]
               ELSE [beat EXCEPT !.waiting = TRUE, !.wire = "beat"]
    /\ UNCHANGED <<server, disk, budgetVars, account, halted, pc, doomed,
                   resume, saved, maps, mem, conn, cur, handled>>

Zombied ==
    /\ Reading
    /\ saved = {}
    /\ beat.stale
    /\ ConnectionOver("wait")
    /\ UNCHANGED <<server, disk, budgetVars, account, halted, doomed, resume,
                   saved, maps, mem, handled>>

-----------------------------------------------------------------------------
(* From outside.                                                           *)

\* As Stopped, the socket left open.
StoppedLeavesSocket ==
    /\ resume' = NoPlace
    /\ saved' = {}
    /\ maps' = NoMaps
    /\ mem' = NoFile
    /\ pc' = "off"
    /\ cur' = 0
    /\ beat' = NoBeat
    /\ UNCHANGED conn

\* The supervisor's memory goes with its task; an entry in the map of held
\* accounts does not.
Stopped ==
    /\ resume' = NoPlace
    /\ saved' = {}
    /\ maps' = NoMaps
    /\ mem' = NoFile
    /\ ConnectionOver("off")

Disconnect ==
    /\ pc # "off" /\ ~doomed
    /\ doomed' = TRUE
    /\ UNCHANGED <<server, disk, budgetVars, account, halted, pc, resume,
                   saved, maps, mem, conn, cur, beat, handled>>

AbortLands ==
    /\ doomed /\ pc # "off"
    /\ Stopped
    /\ UNCHANGED <<server, disk, budgetVars, account, halted, doomed,
                   handled>>

\* removeAccount: disconnect(), then session_store::forget().
Remove ==
    /\ MayRemove
    /\ account
    /\ account' = FALSE
    /\ doomed' = (pc # "off")
    /\ disk' = NoFiles
    /\ UNCHANGED <<server, budgetVars, halted, pc, resume, saved, maps, mem,
                   conn, cur, beat, handled>>

\* A fresh sign-in: a new token, which no kept position is of.
SignIn ==
    /\ pc = "off"
    /\ halted \/ ~account
    /\ account' = TRUE
    /\ halted' = FALSE
    /\ disk' = [disk EXCEPT !.ours = FALSE]
    /\ UNCHANGED <<server, budgetVars, clientVars, handled>>

\* The daemon is stopped, however: nothing of the session is written then.
Restart ==
    /\ Stopped
    /\ doomed' = FALSE
    /\ entry' = FALSE
    /\ permit' = FALSE
    /\ halted' = FALSE
    /\ UNCHANGED <<server, disk, history, account, handled>>

-----------------------------------------------------------------------------
Discord == DiscordSends \/ DiscordForgets \/ DiscordAcks

Supervise ==
    \/ Spawn \/ AskToResume \/ AskToLogin \/ HoldLogin
    \/ HoldTimesOut \/ HoldLetThrough \/ WaitOver
    \/ DialFails \/ DialResumes \/ DialLogsIn

Read ==
    \/ ReadSaved \/ ReadDispatch \/ Handled \/ HandlerPanics \/ ReadAck
    \/ ReadInvalid \/ ReadReconnect \/ SocketLost \/ AuthFailed \/ Zombied

Outside ==
    \/ ConnectAnyway \/ LoginAgesOut \/ Tick
    \/ Disconnect \/ AbortLands \/ Remove \/ SignIn \/ Restart

Next == Discord \/ Supervise \/ Read \/ Outside

Spec == Init /\ [][Next]_vars

\* tokio runs what can run and the clock moves on.  The network lets a
\* connection be made, and what is on it be read, and a handler gets to its
\* end without a panic, some of the times they are tried.  Nothing is asked of Discord or of the person.
Fairness ==
    /\ WF_vars(\/ AskToResume \/ AskToLogin \/ HoldLogin \/ HoldTimesOut
               \/ WaitOver)
    /\ WF_vars(LoginAgesOut)
    /\ WF_vars(AbortLands)
    /\ SF_vars(DialResumes \/ DialLogsIn)
    /\ SF_vars(ReadDispatch)
    /\ SF_vars(Handled)
    /\ SF_vars(ReadSaved \/ ReadInvalid)

FairSpec == Spec /\ Fairness

-----------------------------------------------------------------------------
(* Properties.                                                             *)

MaybeSession == Session \cup {NoSession}
Place        == [s : MaybeSession, n : 0..MaxLen]
Maps         == [s : MaybeSession, guilds : SUBSET Guilds]

OutsideOK ==
    /\ server \in [sess : MaybeSession, held : BOOLEAN, len : 0..MaxLen]
    /\ disk \in [pos : Place, ours : BOOLEAN, st : Maps]
    /\ handled \subseteq Session \X (1..MaxLen)

BudgetOK ==
    /\ history \in Seq(BOOLEAN)
    /\ entry \in BOOLEAN
    /\ permit \in BOOLEAN
    /\ account \in BOOLEAN
    /\ halted \in BOOLEAN
    /\ doomed \in BOOLEAN

SessionOK ==
    /\ resume \in Place
    /\ saved \subseteq {1} \cup Guilds
    /\ maps \in Maps
    /\ mem \in [s : MaybeSession, guilds : SUBSET Guilds, dirty : BOOLEAN]

SocketOK ==
    /\ pc \in {"off", "ask", "held", "dial", "wait", "read", "handle"}
    /\ conn \in [at : {"none", "live", "refused"}, next : 0..(MaxLen + 1)]
    /\ cur \in 0..MaxLen
    /\ beat \in [waiting : BOOLEAN, stale : BOOLEAN,
                 wire : {"none", "beat", "ack"}]
    /\ (conn.at # "none") <=> (pc \in {"read", "handle"})
    /\ (cur # 0) <=> (pc = "handle")

\* Every variable keeps its type, there is a socket exactly while something
\* is read or handled, and a number exactly while it is handled.
TypeOK == OutsideOK /\ BudgetOK /\ SessionOK /\ SocketOK

\* Nothing of a session is passed over by a resume, after a drop or after a
\* restart: every dispatch up to the place it starts from was handled to
\* the end, or is being handled.  (A handler that panics is not made up
\* for: the property is of runs in which none does.)
HandledUpTo(place) ==
    \A n \in 1..place.n : <<place.s, n>> \in handled \/ n = cur

NothingPassedOver ==
    /\ resume # NoPlace => HandledUpTo(resume)
    /\ disk.pos # NoPlace => HandledUpTo(disk.pos)

\* What makes NothingPassedOver inductive: a live socket goes on where the
\* place in the stream is, and what is kept is of the session resumed.
InStep ==
    /\ resume.s = NoSession <=> resume.n = 0
    /\ disk.pos.s = NoSession <=> disk.pos.n = 0
    /\ conn.at = "live" => server.sess # NoSession
    /\ conn.at = "live" =>
          IF resume = NoPlace
          THEN conn.next = 1 + cur /\ cur \in {0, 1}
          ELSE resume.s = server.sess /\ conn.next = resume.n + 1
    /\ cur # 0 => conn.at = "live" /\ conn.next = cur + 1
    /\ mem.s # NoSession => mem.s = resume.s
    /\ ~MayPanic /\ disk.pos.s # NoSession =>
          \A n \in 1..disk.pos.n : <<disk.pos.s, n>> \in handled

\* A dispatch past READY is only ever handled with the channels and servers
\* that READY and the GUILD_CREATEs before it announced: a connection that
\* lacks them drops messages for channels it has never heard of.
MapsAreComplete ==
    cur > 1 => /\ maps.s = server.sess
               /\ \A g \in Guilds : g < cur => g \in maps.guilds

\* Every fresh login is one the budget counts: when Discord starts a session,
\* the last login on record is one nothing was started for yet (or all there
\* were are older than what is counted).  Sessions that end, refused
\* resumes and restarts are no way round the budget.
LoginsAreCounted ==
    [][server'.sess # server.sess =>
          history = <<>> \/ ~history[Len(history)]]_vars

\* An account that is switched on and whose token is good has a session it
\* reads from again and again, whatever drops, refused resumes and holds
\* come between.
HasSession == /\ resume # NoPlace
              /\ pc = "read" /\ saved = {}
              /\ conn.at = "live"
ComesBack == pc # "off" ~> (pc = "off" \/ HasSession)

=============================================================================
