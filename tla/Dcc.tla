-------------------------------- MODULE Dcc --------------------------------
(***************************************************************************)
(* Files offered over one IRC account (irc/dcc.rs): the list of transfers  *)
(* the windows show (runtime.rs), the rows that outlive the daemon         *)
(* (store.rs), the tasks that move bytes, and the download folder.         *)
(*                                                                         *)
(* One sender offers files that all claim the same name, which is where    *)
(* transfers meet: a name is chosen in one step and its part file created  *)
(* in a later one, a transfer that stopped short leaves its part for the   *)
(* next, and the next asks the sender to carry on from where it ends.      *)
(*                                                                         *)
(* update_dcc and the announce after it are one step; no await is between  *)
(* them.  Progress, rates and sizes in messages are left out.  A file is   *)
(* a number of blocks and the file they are all taken from, if it is one.  *)
(***************************************************************************)
EXTENDS Naturals, FiniteSets

CONSTANTS
    Transfer,         \* transfers the list has room for
    Task,             \* tasks that may run at the same time
    File, Size,       \* files on offer under the one name, Size[f] blocks
    None,
    MaxName,          \* names unique_path tries before it takes one untried
    Incoming,         \* how senders offer: "direct", "passive"
    MaxTransfers,     \* DccPrefs.max_transfers
    MaxPending,       \* DCC_PENDING_PER_NICK
    MaxAsk,           \* MAX_AUTO_RESUMES
    Rude,             \* what senders do: "rewinds", "mixes", "doubles", "lags"
    MayRace,          \* two tasks may hold one name before either creates it
    MaxRequest, MaxCancel, MaxDown,  \* bounds
    MaxTwice          \* bound: times an offer is accepted once more while it runs

Untried == MaxName + 1
Name  == 1..Untried
Part  == {"part"} \X Name
Whole == {"whole"} \X Name
Kind  == {"direct", "passive", "outgoing"}
State == {"none", "offered", "receiving", "sending", "done", "declined", "failed"}
Mixed == "mixed"
Content == [len : Nat, of : File \cup {None, Mixed}]
MaxSize == CHOOSE n \in {Size[f] : f \in File} : \A f \in File : Size[f] <= n

ASSUME FileAssumption == Size \in [File -> Nat \ {0}] /\ None \notin File /\ Mixed \notin File
ASSUME SlotAssumption == None \notin Transfer \cup Task
ASSUME FolderAssumption == None \notin Part \cup Whole /\ None \notin Content
ASSUME BoundsAssumption == MaxName \in Nat /\ MaxAsk \in Nat /\ MayRace \in BOOLEAN
ASSUME IncomingAssumption == Incoming \subseteq {"direct", "passive"}

VARIABLES
    state, kind, file, stop, offer, place,   \* the list: DccTransfer
    row,              \* row[t]: the state the transfers table holds
    declining,        \* cancels that found the transfer unanswered
    of, at, name, from, got, open,           \* the tasks
    disk,             \* the download folder
    attempts, best,   \* RESUME_ATTEMPTS of the first name
    remembered,       \* LAST_REQUEST holds what was typed to the sender
    due,              \* requests the sender has yet to answer
    up,               \* the connection: its sender and its route
    requests, cancels, downs, twice

listVars  == <<state, kind, file, stop, offer, place, row>>
taskVars  == <<of, at, name, from, got, open>>
chaseVars == <<attempts, best>>
askVars   == <<remembered, due, requests>>
mishaps   == <<cancels, downs, twice>>
vars == <<listVars, declining, taskVars, disk, chaseVars, askVars, up, mishaps>>

Active == {"offered", "receiving", "sending"}

NoFile == [len |-> 0, of |-> None]
Exists(p) == disk[p] # None
First == <<"part", 1>>

Init ==
    /\ state = [t \in Transfer |-> "none"]
    /\ kind = [t \in Transfer |-> "direct"]
    /\ file = [t \in Transfer |-> None]
    /\ stop = [t \in Transfer |-> FALSE]
    /\ offer = [t \in Transfer |-> FALSE]
    /\ place = [t \in Transfer |-> 0]
    /\ row = state
    /\ declining = {}
    /\ of = [k \in Task |-> None]
    /\ at = [k \in Task |-> "idle"]
    /\ name = [k \in Task |-> 0]
    /\ from = [k \in Task |-> 0]
    /\ got = [k \in Task |-> 0]
    /\ open = [k \in Task |-> None]
    /\ disk = [p \in Part \cup Whole |-> None]
    /\ attempts = 0 /\ best = 0
    /\ remembered = FALSE
    /\ due = 0
    /\ up = TRUE
    /\ requests = 0 /\ cancels = 0 /\ downs = 0 /\ twice = 0

\* update_dcc and announce: the list and the row.
Becomes(t, s) ==
    /\ state' = [state EXCEPT ![t] = s]
    /\ row' = [row EXCEPT ![t] = s]

Taken(t) == \E k \in Task : of[k] = t

\* A new id, and a new task: any that is not in use.
Fresh(t) == t = CHOOSE u \in Transfer : state[u] = "none" /\ ~Taken(u)
Spare(k) == k = CHOOSE j \in Task : at[j] = "idle"
SomeFresh == \E u \in Transfer : state[u] = "none" /\ ~Taken(u)
SomeSpare == \E j \in Task : at[j] = "idle"

Goes(k, where) == at' = [at EXCEPT ![k] = where]

\* The task is over.
Ends(k) ==
    /\ at' = [at EXCEPT ![k] = "idle"]
    /\ of' = [of EXCEPT ![k] = None]
    /\ name' = [name EXCEPT ![k] = 0]
    /\ from' = [from EXCEPT ![k] = 0]
    /\ got' = [got EXCEPT ![k] = 0]
    /\ open' = [open EXCEPT ![k] = None]

-----------------------------------------------------------------------------
(* Offers.                                                                 *)

\* Somebody types "xdcc send #n"; remember_request keeps it.
Request ==
    /\ up
    /\ requests < MaxRequest
    /\ requests' = requests + 1
    /\ remembered' = TRUE
    /\ due' = due + 1
    /\ UNCHANGED <<listVars, declining, taskVars, disk, chaseVars, up, mishaps>>

Pending == Cardinality({t \in Transfer : state[t] = "offered"})
Running == Cardinality({t \in Transfer : state[t] \in Active})

\* add_dcc_offer, with the row announce writes.
Add(t, how, f) ==
    /\ Becomes(t, "offered")
    /\ kind' = [kind EXCEPT ![t] = how]
    /\ file' = [file EXCEPT ![t] = f]
    /\ stop' = [stop EXCEPT ![t] = FALSE]
    /\ offer' = [offer EXCEPT ![t] = how # "outgoing"]
    /\ place' = [place EXCEPT ![t] = 0]

\* The sender answers a request with an offer: incoming.
Offered(t, how, f) ==
    /\ up /\ due > 0
    /\ SomeFresh /\ Fresh(t)
    /\ due' = due - 1
    /\ IF Running < MaxTransfers /\ Pending < MaxPending
       THEN Add(t, how, f)
       ELSE UNCHANGED listVars
    /\ UNCHANGED <<declining, taskVars, disk, chaseVars, remembered, requests,
                   up, mishaps>>

\* accept, where it starts the task that receives.  Until that task has run
\* the transfer still says offered, and a second accept starts another.
Accept(t, k) ==
    /\ state[t] = "offered" /\ offer[t] /\ up
    /\ twice' = IF Taken(t) THEN twice + 1 ELSE twice
    /\ twice' <= MaxTwice
    /\ SomeSpare /\ Spare(k)
    /\ Goes(k, "begin")
    /\ of' = [of EXCEPT ![k] = t]
    /\ UNCHANGED <<listVars, declining, name, from, got, open, disk, chaseVars,
                   askVars, up, cancels, downs>>

\* accept, where there is nothing to connect to or nothing to connect over.
AcceptTooLate(t) ==
    /\ state[t] = "offered"
    /\ ~offer[t] \/ ~up
    /\ Becomes(t, "failed")
    /\ UNCHANGED <<kind, file, stop, offer, place, declining, taskVars, disk,
                   chaseVars, askVars, up, mishaps>>

\* cancel reads the transfer and sets its flag ...
Cancel(t) ==
    /\ state[t] # "none"
    /\ cancels < MaxCancel
    /\ cancels' = cancels + 1
    /\ stop' = [stop EXCEPT ![t] = TRUE]
    /\ declining' = IF state[t] = "offered" THEN declining \cup {t} ELSE declining
    /\ UNCHANGED <<state, kind, file, offer, place, row, taskVars, disk, chaseVars,
                   askVars, up, downs, twice>>

\* ... and closes the offer it saw unanswered, whatever became of it since.
Decline(t) ==
    /\ t \in declining
    /\ declining' = declining \ {t}
    /\ Becomes(t, "declined")
    /\ offer' = [offer EXCEPT ![t] = FALSE]
    /\ UNCHANGED <<kind, file, stop, place, taskVars, disk, chaseVars, askVars, up,
                   mishaps>>

\* DCC_KEEP newer transfers have pushed it off the list and out of the table.
Forget(t) ==
    /\ state[t] \in {"done", "declined", "failed"}
    /\ ~Taken(t) /\ t \notin declining
    /\ Becomes(t, "none")
    /\ kind' = [kind EXCEPT ![t] = "direct"]
    /\ file' = [file EXCEPT ![t] = None]
    /\ stop' = [stop EXCEPT ![t] = FALSE]
    /\ place' = [place EXCEPT ![t] = 0]
    /\ UNCHANGED <<offer, declining, taskVars, disk,
                   chaseVars, askVars, up, mishaps>>

-----------------------------------------------------------------------------
(* Where to begin: accept's task, negotiate_resume.                        *)

\* Every passive offer is on port 0, and a port has one waiter.
Displaced(k) == {j \in Task \ {k} : at[j] = "parked" /\ kind[of[j]] = "passive"
                                                     /\ kind[of[k]] = "passive"}

Resumable(k) ==
    /\ Exists(First)
    /\ disk[First].len > 0 /\ disk[First].len < Size[file[of[k]]]
    /\ up

\* The list says receiving, whatever it said before; then DCC RESUME is sent
\* and park_for_accept waits, if there is something to carry on.
BeginReceiving(k) ==
    /\ at[k] = "begin"
    /\ Becomes(of[k], "receiving")
    /\ IF Resumable(k)
       THEN /\ at' = [j \in Task |-> IF j = k THEN "parked"
                                     ELSE IF j \in Displaced(k) THEN "pick" ELSE at[j]]
            /\ from' = [j \in Task |-> IF j = k THEN disk[First].len
                                       ELSE IF j \in Displaced(k) THEN 0 ELSE from[j]]
       ELSE Goes(k, "pick") /\ UNCHANGED from
    /\ UNCHANGED <<kind, file, stop, offer, place, declining, of, name, got, open,
                   disk, chaseVars, askVars, up, mishaps>>

\* Where a task may have a part of its name in use, or be about to.
Holding == {"dial", "read", "whole", "short"}

\* What a sender may answer.  One that is not rude carries on where the part
\* ends or begins again, before another transfer has added to it, and resumes
\* only what it is not already sending and what the part is a part of.
MayAnswer(k, position) ==
    /\ position \in 1..(from[k] - 1) => "rewinds" \in Rude
    /\ position \in 1..from[k] /\ Exists(First) =>
          "lags" \in Rude \/ disk[First].len = from[k]
    /\ "mixes" \in Rude \/ (Exists(First) /\ disk[First].of = file[of[k]])
    /\ "doubles" \in Rude \/ \A j \in Task \ {k} : name[j] = 1 => at[j] \notin Holding

\* DCC ACCEPT: deliver_accept, and the answer judged.
Answered(k, position) ==
    /\ at[k] = "parked" /\ up
    /\ MayAnswer(k, position)
    /\ IF position <= from[k]
       THEN /\ from' = [from EXCEPT ![k] = position]
            /\ name' = [name EXCEPT ![k] = 1]
            /\ Goes(k, "dial")
       ELSE /\ from' = [from EXCEPT ![k] = 0]
            /\ Goes(k, "pick") /\ UNCHANGED name
    /\ UNCHANGED <<listVars, declining, of, got, open, disk, chaseVars, askVars, up,
                   mishaps>>

\* ACCEPT_WAIT is over; stop_waiting.
Unanswered(k) ==
    /\ at[k] = "parked"
    /\ Goes(k, "pick")
    /\ from' = [from EXCEPT ![k] = 0]
    /\ UNCHANGED <<listVars, declining, of, name, got, open, disk, chaseVars, askVars,
                   up, mishaps>>

\* Mutant of FreeName: a name is free when no part has it.
FreeNameOfParts(n) == ~Exists(<<"part", n>>)

FreeName(n) == ~Exists(<<"whole", n>>) /\ ~Exists(<<"part", n>>)

\* unique_path: the first name that nothing has, or the one with the pid.
UniquePath(n) ==
    /\ n # Untried => FreeName(n)
    /\ \A m \in 1..(n - 1) : ~FreeName(m)

Pick(k, n) ==
    /\ at[k] = "pick"
    /\ UniquePath(n)
    /\ MayRace \/ \A j \in Task : ~(name[j] = n /\ at[j] \in Holding)
    /\ name' = [name EXCEPT ![k] = n]
    /\ Goes(k, "dial")
    /\ UNCHANGED <<listVars, declining, of, from, got, open, disk, chaseVars, askVars, up,
                   mishaps>>

-----------------------------------------------------------------------------
(* The bytes: receive, receive_passive, stream_socket, finish.             *)

PartOf(k) == <<"part", name[k]>>

\* The loop looks at the cancel flag before each read.
GoOn(k) == IF stop[of[k]] THEN "short" ELSE "read"

\* The socket is there; the part is opened to append, or created.
OpenPart(k) ==
    /\ at[k] = "dial"
    /\ IF from[k] > 0 <=> Exists(PartOf(k))
       THEN /\ Goes(k, GoOn(k))
            /\ open' = [open EXCEPT ![k] = PartOf(k)]
            /\ got' = [got EXCEPT ![k] = from[k]]
            /\ from' = [from EXCEPT ![k] = 0]
            /\ disk' = IF from[k] = 0 THEN [disk EXCEPT ![PartOf(k)] = NoFile] ELSE disk
       ELSE Goes(k, "short") /\ UNCHANGED <<open, got, from, disk>>
    /\ UNCHANGED <<listVars, declining, of, name, chaseVars, askVars, up,
                   mishaps>>

\* receive has returned: the task has no file and no name any more.
LetsGo(k) ==
    /\ name' = [name EXCEPT ![k] = 0]
    /\ from' = [from EXCEPT ![k] = 0]
    /\ got' = [got EXCEPT ![k] = 0]
    /\ open' = [j \in Task |-> IF j = k THEN None
                               ELSE IF open[j] # None /\ disk'[open[j]] = None THEN None
                               ELSE open[j]]

\* How accept's task ends what it could not receive.
Fails(k) == Becomes(of[k], "failed") /\ Goes(k, "again") /\ LetsGo(k)

\* No socket.  A task that dialled tidies up; one that listened does not.
NoSocket(k) ==
    /\ at[k] = "dial"
    /\ disk' = disk
    /\ IF kind[of[k]] = "passive" THEN Fails(k)
       ELSE Goes(k, "short") /\ UNCHANGED <<state, row, name, from, got, open>>
    /\ UNCHANGED <<kind, file, stop, offer, place, declining, of, chaseVars, askVars,
                   up, mishaps>>

\* A block written to the end of the file k has open, if it still has a name.
Appended(k) ==
    LET held == disk[open[k]]
        f    == file[of[k]]
        fits == held.len = got[k] /\ held.of \in {f, None}
    IN  [len |-> held.len + 1, of |-> IF fits THEN f ELSE Mixed]

\* Mutant of ReadBlock: waits for the sender to close.
ReadBlockToTheClose(k) ==
    /\ at[k] = "read"
    /\ disk' = IF open[k] = None THEN disk ELSE [disk EXCEPT ![open[k]] = Appended(k)]
    /\ got' = [got EXCEPT ![k] = @ + 1]
    /\ Goes(k, GoOn(k))
    /\ UNCHANGED <<listVars, declining, of, name, from, open, chaseVars, askVars, up,
                   mishaps>>

ReadBlock(k) ==
    /\ at[k] = "read"
    /\ got[k] < Size[file[of[k]]]
    /\ disk' = IF open[k] = None THEN disk ELSE [disk EXCEPT ![open[k]] = Appended(k)]
    /\ got' = [got EXCEPT ![k] = @ + 1]
    /\ Goes(k, IF got[k] + 1 = Size[file[of[k]]] THEN "whole" ELSE GoOn(k))
    /\ UNCHANGED <<listVars, declining, of, name, from, open, chaseVars, askVars, up,
                   mishaps>>

\* Mutant of ReadFails: the end of the stream is taken for the end of the file.
ReadFailsUnseen(k) ==
    /\ at[k] = "read"
    /\ Goes(k, "whole")
    /\ UNCHANGED <<listVars, declining, of, name, from, got, open, disk, chaseVars,
                   askVars, up, mishaps>>

\* The sender hangs up, resets, or sends more than it offered; a write fails.
ReadFails(k) ==
    /\ at[k] = "read"
    /\ Goes(k, "short")
    /\ UNCHANGED <<listVars, declining, of, name, from, got, open, disk, chaseVars,
                   askVars, up, mishaps>>

\* finish, all of it here: the part takes the file's name.  Whoever has the
\* part open too keeps writing to it under its new name.
Rename(k) ==
    LET part  == PartOf(k)
        whole == <<"whole", name[k]>>
    IN  /\ at[k] = "whole"
        /\ IF Exists(part)
           THEN /\ disk' = [disk EXCEPT ![whole] = disk[part], ![part] = None]
                /\ open' = [j \in Task |-> IF j = k \/ open[j] = whole THEN None
                                           ELSE IF open[j] = part THEN whole ELSE open[j]]
                /\ Goes(k, "kept") /\ UNCHANGED <<state, row, name, from, got>>
           ELSE disk' = disk /\ Fails(k)
        /\ UNCHANGED <<kind, file, stop, offer, place, declining, of, chaseVars, askVars,
                       up, mishaps>>

\* finish, not all of it here: an empty part and a cancelled one are removed.
Scrap(k) ==
    LET part == PartOf(k)
    IN  /\ at[k] = "short"
        /\ disk' = IF Exists(part) /\ (stop[of[k]] \/ disk[part].len = 0)
                   THEN [disk EXCEPT ![part] = None] ELSE disk
        /\ Fails(k)
        /\ UNCHANGED <<kind, file, stop, offer, place, declining, of, chaseVars, askVars,
                       up, mishaps>>

-----------------------------------------------------------------------------
(* How it ended, and whether to ask for the rest: accept, ask_again.       *)

\* stop_chasing, should_ask_again's refusal.
StopChasing == attempts' = 0 /\ best' = 0

Succeed(k) ==
    /\ at[k] = "kept"
    /\ Becomes(of[k], "done")
    /\ place' = [place EXCEPT ![of[k]] = name[k]]
    /\ offer' = [offer EXCEPT ![of[k]] = FALSE]
    /\ IF name[k] = 1 THEN StopChasing ELSE UNCHANGED chaseVars
    /\ Ends(k)
    /\ UNCHANGED <<kind, file, stop, declining, disk, askVars, up, mishaps>>

\* Something was kept, and it is not the whole file.
WorthAsking(k) ==
    /\ Exists(First)
    /\ disk[First].len > 0 /\ disk[First].len < Size[file[of[k]]]

\* should_ask_again: each attempt must have brought more than the last.
Progress == attempts < MaxAsk /\ disk[First].len > best

\* Mutant of AskAgain: how far it got is not written down.
AskAgainAlways(k) ==
    /\ at[k] = "again"
    /\ WorthAsking(k) /\ remembered /\ Progress
    /\ Goes(k, "pause")
    /\ UNCHANGED <<listVars, declining, of, name, from, got, open, disk, chaseVars,
                   askVars, up, mishaps>>

AskAgain(k) ==
    /\ at[k] = "again"
    /\ WorthAsking(k) /\ remembered /\ Progress
    /\ attempts' = attempts + 1
    /\ best' = disk[First].len
    /\ Goes(k, "pause")
    /\ UNCHANGED <<listVars, declining, of, name, from, got, open, disk, askVars, up,
                   mishaps>>

LeaveIt(k) ==
    /\ at[k] = "again"
    /\ ~(WorthAsking(k) /\ remembered /\ Progress)
    /\ IF Exists(First) /\ (WorthAsking(k) => remembered)
       THEN StopChasing ELSE UNCHANGED chaseVars
    /\ offer' = [offer EXCEPT ![of[k]] = FALSE]
    /\ Ends(k)
    /\ UNCHANGED <<state, kind, file, stop, place, row, declining, disk, askVars, up,
                   mishaps>>

\* After RETRY_AFTER, if there is a connection to ask over.
Repeat(k) ==
    /\ at[k] = "pause"
    /\ due' = IF up THEN due + 1 ELSE due
    /\ offer' = [offer EXCEPT ![of[k]] = FALSE]
    /\ Ends(k)
    /\ UNCHANGED <<state, kind, file, stop, place, row, declining, disk, chaseVars,
                   remembered, requests, up, mishaps>>

-----------------------------------------------------------------------------
(* Sending: offer_file, serve_file.                                        *)

\* offer_file as far as the port: the connection is read here ...
SendFile(t, k) ==
    /\ up
    /\ SomeFresh /\ Fresh(t) /\ SomeSpare /\ Spare(k)
    /\ requests < MaxRequest
    /\ requests' = requests + 1
    /\ of' = [of EXCEPT ![k] = t]
    /\ Goes(k, "bind")
    /\ UNCHANGED <<listVars, declining, name, from, got, open, disk, chaseVars,
                   remembered, due, up, mishaps>>

\* ... and used in the next step, after the address was found.  Too many
\* waiting, or no address to publish, and there is no transfer.
AddOutgoing(k) ==
    /\ at[k] = "bind"
    /\ \/ /\ Pending < MaxPending
          /\ \E f \in File : Add(of[k], "outgoing", f)
          /\ Goes(k, "tell")
          /\ UNCHANGED <<of, name, from, got, open>>
       \/ Ends(k) /\ UNCHANGED listVars
    /\ UNCHANGED <<declining, disk, chaseVars, askVars, up, mishaps>>

\* The offer is said over the connection read before, or nothing is waiting.
TellThem(k) ==
    /\ at[k] = "tell"
    /\ \/ up /\ Goes(k, "listen") /\ UNCHANGED <<of, name, from, got, open>>
       \/ ~up /\ Ends(k)
    /\ UNCHANGED <<listVars, declining, disk, chaseVars, askVars, up, mishaps>>

\* wait_for_taker: somebody connected, and the flag is looked at once more.
TheyConnect(k) ==
    /\ at[k] = "listen"
    /\ ~stop[of[k]]
    /\ Becomes(of[k], "sending")
    /\ Goes(k, "send")
    /\ UNCHANGED <<kind, file, stop, offer, place, declining, of, name, from, got,
                   open, disk, chaseVars, askVars, up, mishaps>>

SentAll(k) ==
    /\ at[k] = "send"
    /\ Becomes(of[k], "done")
    /\ Ends(k)
    /\ UNCHANGED <<kind, file, stop, offer, place, declining, disk, chaseVars, askVars,
                   up, mishaps>>

\* OFFER_TIMEOUT, the flag, or the socket.
FailSending(k) ==
    /\ at[k] \in {"listen", "send"}
    /\ Becomes(of[k], "failed")
    /\ Ends(k)
    /\ UNCHANGED <<kind, file, stop, offer, place, declining, disk, chaseVars, askVars,
                   up, mishaps>>

-----------------------------------------------------------------------------
(* The connection and the daemon.                                          *)

\* cancel_dcc_for_account at the end of the connection: not announced.
Disconnect ==
    /\ up
    /\ downs < MaxDown
    /\ downs' = downs + 1
    /\ up' = FALSE
    /\ stop' = [t \in Transfer |-> stop[t] \/ state[t] \in Active]
    /\ state' = [t \in Transfer |-> IF state[t] = "offered" THEN "declined" ELSE state[t]]
    /\ UNCHANGED <<kind, file, offer, place, row, declining, taskVars, disk, chaseVars,
                   askVars, cancels, twice>>

Connect ==
    /\ ~up
    /\ up' = TRUE
    /\ UNCHANGED <<listVars, declining, taskVars, disk, chaseVars, askVars, mishaps>>

\* Mutant of Restored: the state is read back as it was written.
RestoredAsItWas(t) == row[t]

\* What the table said when the daemon stopped.
Restored(t) == IF row[t] \in Active THEN "failed" ELSE row[t]

\* The daemon stops and starts: restore_transfers.
Restart ==
    /\ downs < MaxDown
    /\ downs' = downs + 1
    /\ state' = [t \in Transfer |-> Restored(t)]
    /\ stop' = [t \in Transfer |-> TRUE]
    /\ offer' = [t \in Transfer |-> FALSE]
    /\ declining' = {}
    /\ of' = [k \in Task |-> None]
    /\ at' = [k \in Task |-> "idle"]
    /\ name' = [k \in Task |-> 0]
    /\ from' = [k \in Task |-> 0]
    /\ got' = [k \in Task |-> 0]
    /\ open' = [k \in Task |-> None]
    /\ attempts' = 0 /\ best' = 0
    /\ remembered' = FALSE
    /\ up' = FALSE
    /\ UNCHANGED <<kind, file, place, row, disk, due, requests, cancels, twice>>

-----------------------------------------------------------------------------

\* Steps the program takes by itself, given processor time and its timeouts.
Own(k) ==
    \/ BeginReceiving(k) \/ Unanswered(k)
    \/ \E n \in Name : Pick(k, n)
    \/ NoSocket(k) \/ Rename(k) \/ Scrap(k)
    \/ Succeed(k) \/ AskAgain(k) \/ LeaveIt(k) \/ Repeat(k)
    \/ AddOutgoing(k) \/ TellThem(k)
    \/ at[k] = "listen" /\ FailSending(k)

\* Steps a socket takes when the far end sends, reads or hangs up.
Socket(k) ==
    \/ ReadBlock(k) \/ ReadFails(k)
    \/ SentAll(k)
    \/ at[k] = "send" /\ FailSending(k)

\* Steps the far end need never make possible.
Theirs(k) ==
    \/ \E position \in 0..MaxSize : Answered(k, position)
    \/ OpenPart(k) \/ TheyConnect(k)

Next ==
    \/ Request
    \/ \E t \in Transfer, how \in Incoming, f \in File : Offered(t, how, f)
    \/ \E t \in Transfer, k \in Task : Accept(t, k) \/ SendFile(t, k)
    \/ \E t \in Transfer : AcceptTooLate(t) \/ Cancel(t) \/ Decline(t) \/ Forget(t)
    \/ \E k \in Task : Own(k) \/ Socket(k) \/ Theirs(k)
    \/ Disconnect \/ Connect \/ Restart

Spec == Init /\ [][Next]_vars

\* Tasks are run, timeouts fire, and a sender sends or hangs up in the end.
FairSpec ==
    /\ Spec
    /\ \A k \in Task : WF_vars(Own(k) \/ Socket(k))

\* The same without the last: a sender may keep a socket open and be silent.
OwnFairSpec == Spec /\ \A k \in Task : WF_vars(Own(k))

-----------------------------------------------------------------------------

Stages == {"idle", "begin", "parked", "pick", "dial", "read", "whole", "short",
           "kept", "again", "pause", "bind", "tell", "listen", "send"}

\* The values the list, the rows, the tasks and the folder may have: a task
\* belongs to a transfer exactly while it runs, and what it has read is never
\* more than was offered.
TypeOK ==
    /\ state \in [Transfer -> State] /\ row \in [Transfer -> State]
    /\ kind \in [Transfer -> Kind]
    /\ file \in [Transfer -> File \cup {None}]
    /\ stop \in [Transfer -> BOOLEAN] /\ offer \in [Transfer -> BOOLEAN]
    /\ place \in [Transfer -> 0..Untried]
    /\ declining \subseteq Transfer
    /\ of \in [Task -> Transfer \cup {None}] /\ at \in [Task -> Stages]
    /\ \A k \in Task : at[k] = "idle" <=> of[k] = None
    /\ name \in [Task -> 0..Untried] /\ from \in [Task -> Nat] /\ got \in [Task -> Nat]
    /\ \A k \in Task : at[k] = "read" => got[k] < Size[file[of[k]]]
    /\ open \in [Task -> Part \cup Whole \cup {None}]
    /\ disk \in [Part \cup Whole -> Content \cup {None}]
    /\ attempts \in 0..MaxAsk /\ best \in Nat
    /\ remembered \in BOOLEAN /\ due \in Nat /\ up \in BOOLEAN

\* A transfer shown as moving has a task that moves it: after cancels, lost
\* connections, restarts and two accepts of one offer, none is left that shows
\* a fraction for ever (accept, offer_file, restore_transfers).
RunningHasTask == \A t \in Transfer : state[t] \in {"receiving", "sending"} => Taken(t)

IsWhole(p) == /\ disk[p].of \in File
              /\ disk[p].len = Size[disk[p].of]

\* Whatever stands in the folder under its own name is one file, all of it and
\* in order, and a transfer that is done left the file it was offered there,
\* as long as unique_path has names left to try (finish, negotiate_resume,
\* stream_socket).
ReceivedIsWhole ==
    /\ \A p \in Whole : Exists(p) => IsWhole(p)
    /\ \A t \in Transfer : state[t] = "done" /\ kind[t] # "outgoing" =>
           /\ Exists(<<"whole", place[t]>>)
           /\ place[t] # Untried => disk[<<"whole", place[t]>>].of = file[t]

\* A file that was received is not replaced, changed or removed by a later
\* transfer, as long as unique_path has names left to try (unique_path,
\* create_new, finish).
NeverReplaced ==
    [][\A n \in 1..MaxName : Exists(<<"whole", n>>) =>
           /\ disk'[<<"whole", n>>] = disk[<<"whole", n>>]
           /\ ~\E k \in Task : at[k] = "whole" /\ name[k] = n /\ at'[k] = "kept"]_vars

\* When the person asks for nothing more, every transfer comes to its end and
\* the sender is asked again only so often: no task waits for ever, whatever
\* was cancelled, displaced or disconnected, and one that never gets further
\* is left alone (accept's task, serve_file, should_ask_again).
AllComesToRest == <>[](\A k \in Task : at[k] = "idle")
=============================================================================
