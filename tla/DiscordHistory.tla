--------------------------- MODULE DiscordHistory ---------------------------
(***************************************************************************)
(* The scrollback of one Discord conversation, and everything that writes  *)
(* to it: the gateway's dispatches, the reads of older and of missed       *)
(* messages (backend/discord/history.rs), deletions, the pruning, and the  *)
(* removal of the account.                                                 *)
(*                                                                         *)
(* Messages are numbered in the order they were sent, as snowflakes are.   *)
(* A read waits for Discord between choosing where to read from and        *)
(* storing what it answers, and any number of reads may be waiting.        *)
(***************************************************************************)
EXTENDS Naturals, FiniteSets

CONSTANTS
    MaxId,      \* bound: messages ever sent in the conversation
    Blank,      \* the ones with nothing a client can show
    First,      \* FIRST_PAGE, messages of a first read
    Page,       \* messages of every other read
    Keep,       \* SCROLLBACK_KEEP_PER_BUFFER
    Reader,     \* tasks that may be reading at one time
    MayDelete,  \* whether messages are deleted
    MayPrune,   \* whether the housekeeping prunes
    MayRemove   \* whether the account is removed and added back

ASSUME MaxIdAssumption == MaxId \in Nat \ {0}
ASSUME BlankAssumption == Blank \subseteq 1..MaxId
ASSUME PagesAssumption == /\ First \in 1..Page
                          /\ Page \in Nat \ {0}
                          /\ Keep \in Nat \ {0}

VARIABLES
    top,        \* Discord: the newest message
    gone,       \* Discord: the deleted ones
    dels,       \* MESSAGE_DELETEs this session has yet to hand over
    base, pos,  \* the session's dispatches: it began at base, is at pos
    stored,     \* the store's rows
    told,       \* how often record_message announced each (2 for more)
    caughtUp,   \* Asked.caught_up names the conversation
    exhausted,  \* Asked.exhausted names it
    failed,     \* Asked.failed names it, less than FAILED_WAIT ago
    fetching,   \* discord_history_inflight names it
    newestIn,   \* what READY said is newest, 0 once it was acted on
    read        \* what each task reads: [kind, from, page, at]

discord == <<top, gone>>
session == <<dels, base, pos, newestIn>>
kept    == <<stored, told>>
asked   == <<caughtUp, exhausted, failed>>
reads   == <<fetching, read>>
vars    == <<discord, session, kept, asked, reads>>

Ids  == 1..MaxId
Idle == [kind |-> "none", from |-> 0, page |-> {}, at |-> "idle"]

Init ==
    /\ top = 0 /\ gone = {} /\ dels = {}
    /\ base = 0 /\ pos = 0
    /\ stored = {} /\ told = [i \in Ids |-> 0]
    /\ caughtUp = FALSE /\ exhausted = FALSE /\ failed = FALSE
    /\ fetching = FALSE /\ newestIn = 0
    /\ read = [r \in Reader |-> Idle]

-----------------------------------------------------------------------------
(* Discord.                                                                *)

Live == (1..top) \ gone

Newest(S, n) == {i \in S : Cardinality({j \in S : j > i}) < n}
Oldest(S, n) == {i \in S : Cardinality({j \in S : j < i}) < n}

DiscordSends ==
    /\ top < MaxId
    /\ top' = top + 1
    /\ UNCHANGED <<gone, session, kept, asked, reads>>

DiscordDeletes ==
    /\ MayDelete
    /\ \E i \in Live :
          /\ gone' = gone \cup {i}
          /\ dels' = dels \cup {i}
    /\ UNCHANGED <<top, base, pos, newestIn, kept, asked, reads>>

\* What each request asks for.
Asks(kind, from) ==
    CASE kind = "first"  -> Newest(Live, First)
      [] kind = "refill" -> Newest(Live, Page)
      [] kind = "before" -> Newest({i \in Live : i < from}, Page)
      [] kind \in {"after", "newer"} -> Oldest({i \in Live : i > from}, Page)
      [] kind = "around" ->
            Newest({i \in Live : i < from}, Page \div 2)
            \cup Oldest({i \in Live : i >= from}, Page - Page \div 2)

-----------------------------------------------------------------------------
(* The gateway.                                                            *)

\* As RecordMessage, whether the row was new not looked at.
RecordUnseen(i) ==
    /\ stored' = stored \cup {i}
    /\ told' = IF told[i] = 2 THEN told ELSE [told EXCEPT ![i] = @ + 1]

\* append_message: a repeat is left alone (OR IGNORE); whether it was new is
\* what record_message announces it on: its event, the conversation's place
\* in the list, the notification.
RecordMessage(i) ==
    /\ stored' = stored \cup {i}
    /\ told' = IF i \in stored \/ told[i] = 2 THEN told
               ELSE [told EXCEPT ![i] = @ + 1]

MessageCreate ==
    /\ pos < top
    /\ pos' = pos + 1
    /\ IF pos' \in Blank THEN UNCHANGED kept ELSE RecordMessage(pos')
    /\ UNCHANGED <<discord, dels, base, newestIn, asked, reads>>

MessageDelete ==
    /\ \E i \in dels :
          /\ i <= pos
          /\ dels' = dels \ {i}
          /\ stored' = stored \ {i}
    /\ UNCHANGED <<discord, base, pos, newestIn, told, asked, reads>>

\* As FreshLogin, the place in the old session kept.
FreshLoginKeepsPlace ==
    /\ dels' = {}
    /\ base' = top
    /\ newestIn' = top
    /\ caughtUp' = FALSE
    /\ failed' = FALSE
    /\ UNCHANGED <<discord, pos, kept, exhausted, reads>>

\* READY of a fresh login: what was sent in between is not handed over.
\* Whatever was asked, bar the start having been reached, is asked afresh.
FreshLogin ==
    /\ dels' = {}
    /\ base' = top
    /\ pos' = top
    /\ newestIn' = top
    /\ caughtUp' = FALSE
    /\ failed' = FALSE
    /\ UNCHANGED <<discord, kept, exhausted, reads>>

\* The daemon is stopped and started, and resumes from where the session
\* was saved last.
Restart ==
    /\ \E p \in base..pos :
          /\ pos' = p
          /\ dels' = dels \cup {i \in gone : i > p}
    /\ newestIn' = 0
    /\ caughtUp' = FALSE /\ exhausted' = FALSE /\ failed' = FALSE
    /\ fetching' = FALSE
    /\ read' = [r \in Reader |-> Idle]
    /\ UNCHANGED <<discord, base, kept>>

-----------------------------------------------------------------------------
(* Reads: from the choice of where to read to the request.                 *)

Request(r, kind, from) ==
    read' = [read EXCEPT ![r] = [kind |-> kind, from |-> from, page |-> {},
                                 at |-> "asked"]]

\* catch_up_channel, when it is due and no other read holds the place.  With
\* nothing stored it ends at once, and counts as done.
CatchUp(r) ==
    /\ ~caughtUp /\ ~fetching
    /\ caughtUp' = TRUE
    /\ IF stored = {} THEN UNCHANGED reads
       ELSE /\ fetching' = TRUE
            /\ \E i \in Newest(stored, 1) : Request(r, "after", i)
    /\ UNCHANGED <<exhausted, failed>>

\* getBacklog of a conversation being opened.
Open(r) ==
    /\ read[r] = Idle
    /\ IF stored = {}
       THEN Request(r, "first", 0) /\ UNCHANGED <<fetching, asked>>
       ELSE CatchUp(r)
    /\ UNCHANGED <<discord, session, kept>>

\* spawn_dm_catch_up after READY; a read that holds the place makes the
\* catch-up not due, as a conversation with nothing newer does.
CatchUpAfterReady(r) ==
    /\ read[r] = Idle
    /\ newestIn # 0
    /\ newestIn' = 0
    /\ IF (\A i \in stored : newestIn > i) /\ ~caughtUp /\ ~fetching
       THEN CatchUp(r)
       ELSE UNCHANGED <<asked, reads>>
    /\ UNCHANGED <<discord, dels, base, pos, kept>>

\* As Scroll, from the newest message kept.
ScrollFromNewest(r) ==
    /\ read[r] = Idle
    /\ ~exhausted /\ ~failed /\ ~fetching
    /\ fetching' = TRUE
    /\ \E i \in Newest(stored, 1) : Request(r, "before", i)
    /\ UNCHANGED <<discord, session, kept, asked>>

\* extend_history: the reader scrolled to the top.
Scroll(r) ==
    /\ read[r] = Idle
    /\ ~exhausted /\ ~failed /\ ~fetching
    /\ fetching' = TRUE
    /\ \E i \in Oldest(stored, 1) : Request(r, "before", i)
    /\ UNCHANGED <<discord, session, kept, asked>>

\* load_context, load_newer and refill_history hold no place.
Jump(r) ==
    /\ read[r] = Idle
    /\ \/ \E i \in Live : Request(r, "around", i)
       \/ \E i \in Live : Request(r, "newer", i)
       \/ Request(r, "refill", 0)
    /\ UNCHANGED <<discord, session, kept, asked, fetching>>

-----------------------------------------------------------------------------
(* Reads: the answer.                                                      *)

Answer(r) ==
    /\ read[r].at = "asked"
    /\ read' = [read EXCEPT ![r].at = "answered",
                            ![r].page = Asks(read[r].kind, read[r].from)]
    /\ UNCHANGED <<discord, session, kept, asked, fetching>>

Guarded(r) == read[r].kind \in {"after", "before"}

\* The end of a read, however it ends: HistoryFetch is dropped.
Ends(r) ==
    /\ read' = [read EXCEPT ![r] = Idle]
    /\ fetching' = (fetching /\ ~Guarded(r))

\* A refusal, an answer that does not parse, no answer.
FailKeepsPlace(r) ==
    /\ read[r].at = "asked"
    /\ caughtUp' = (caughtUp /\ read[r].kind # "after")
    /\ failed' = (failed \/ read[r].kind = "before")
    /\ read' = [read EXCEPT ![r] = Idle]
    /\ UNCHANGED <<discord, session, kept, exhausted, fetching>>

Fail(r) ==
    /\ read[r].at = "asked"
    /\ caughtUp' = (caughtUp /\ read[r].kind # "after")
    /\ failed' = (failed \/ read[r].kind = "before")
    /\ Ends(r)
    /\ UNCHANGED <<discord, session, kept, exhausted>>

\* older_answered: fewer than asked for is the start of the conversation.
ShortOrFullPage(page) == Cardinality(page) <= Page
ShortPage(page) == Cardinality(page) < Page

\* store_history_messages.  Nothing is announced as new is; what a catch-up
\* found is only shown, by windows that draw a message once.
Store(r) ==
    /\ read[r].at = "answered"
    /\ stored' = stored \cup (read[r].page \ Blank)
    /\ IF read[r].kind = "before"
       THEN /\ exhausted' = (exhausted \/ ShortPage(read[r].page))
            /\ failed' = FALSE
       ELSE UNCHANGED <<exhausted, failed>>
    /\ Ends(r)
    /\ UNCHANGED <<discord, session, told, caughtUp>>

-----------------------------------------------------------------------------
(* Time, and housekeeping.                                                 *)

CatchUpAges ==
    /\ caughtUp
    /\ caughtUp' = FALSE
    /\ UNCHANGED <<discord, session, kept, exhausted, failed, reads>>

FailureAges ==
    /\ failed
    /\ failed' = FALSE
    /\ UNCHANGED <<discord, session, kept, caughtUp, exhausted, reads>>

\* prune_old_messages
Prune ==
    /\ MayPrune
    /\ stored' = Newest(stored, Keep)
    /\ UNCHANGED <<discord, session, told, asked, reads>>

\* removeAccount, and the account added back: the rows go, what was asked
\* about them does not.
RemoveAndAdd ==
    /\ MayRemove
    /\ stored' = {}
    /\ dels' = {} /\ base' = top /\ pos' = top /\ newestIn' = 0
    /\ UNCHANGED <<discord, told, asked, reads>>

-----------------------------------------------------------------------------
Next ==
    \/ DiscordSends \/ DiscordDeletes
    \/ MessageCreate \/ MessageDelete \/ FreshLogin \/ Restart
    \/ CatchUpAges \/ FailureAges \/ Prune \/ RemoveAndAdd
    \/ \E r \in Reader :
          \/ Open(r) \/ CatchUpAfterReady(r) \/ Scroll(r) \/ Jump(r)
          \/ Answer(r) \/ Fail(r) \/ Store(r)

Spec == Init /\ [][Next]_vars

\* A reader who keeps scrolling up, a Discord that answers some of the times
\* it is asked, a runtime that runs what can run.
Fairness ==
    /\ WF_vars(FailureAges)
    /\ \A r \in Reader : /\ SF_vars(Scroll(r))
                         /\ SF_vars(Answer(r) /\ read[r].kind = "before")
                         /\ SF_vars(Store(r) /\ read[r].kind = "before")
                         /\ WF_vars(Answer(r) \/ Store(r))

FairSpec == Spec /\ Fairness

-----------------------------------------------------------------------------
(* Properties.                                                             *)

TypeOK ==
    /\ top \in 0..MaxId
    /\ gone \subseteq Ids
    /\ dels \subseteq gone
    /\ base \in 0..MaxId
    /\ pos \in base..top
    /\ stored \subseteq Ids
    /\ told \in [Ids -> 0..2]
    /\ caughtUp \in BOOLEAN
    /\ exhausted \in BOOLEAN
    /\ failed \in BOOLEAN
    /\ fetching \in BOOLEAN
    /\ newestIn \in 0..MaxId
    /\ read \in [Reader ->
                   [kind : {"none", "first", "refill", "before", "after",
                            "newer", "around"},
                    from : 0..MaxId,
                    page : SUBSET Ids,
                    at   : {"idle", "asked", "answered"}]]
    /\ \A r \in Reader : read[r].kind = "none" <=> read[r].at = "idle"

\* A conversation's place in the queue of reads is held exactly while one
\* catch-up or one read of older messages is under way: a place left held
\* would answer every later one at once, having done nothing.
PlaceIsHeld ==
    /\ fetching <=> \E r \in Reader : Guarded(r)
    /\ \A r, s \in Reader : Guarded(r) /\ Guarded(s) => r = s

\* However the gateway repeats itself after an outage, and whatever reads of
\* history overlap with it, a message is announced as new once.
AnnouncedOnce == \A i \in Ids : told[i] < 2

\* Older messages stop being asked for only once everything before the
\* oldest kept one is kept, deleted or blank.
ExhaustedIsTheStart ==
    exhausted /\ stored # {} =>
        \A i \in Live \ Blank : \E s \in stored : s <= i

\* Scrolling up goes on to the start of the conversation, unless the
\* housekeeping takes older messages away again and again.
ScrollReachesStart ==
    <>[][~Prune]_vars => (stored # {} ~> (exhausted \/ stored = {}))

=============================================================================
