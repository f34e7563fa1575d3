----------------------------- MODULE SendGuard -----------------------------
(* What the Discord backend lets an account say in one server              *)
(* (backend/discord/send_guard.rs, send.rs, gateway.rs, guilds.rs).         *)
(*                                                                          *)
(* An account that begins to speak in a server from a client that is not   *)
(* Discord's own gets flagged, so this client does not say the first word: *)
(* a server is locked until there is a message of the account's in it that *)
(* was sent from elsewhere since the account joined.  Whether there is one *)
(* is heard from the gateway, read from what is stored here, or asked of   *)
(* Discord's search by a task that waits for its turn.  The lock is asked  *)
(* before each send; why a conversation is closed is shown through its     *)
(* read_only, which is set by whoever changes the lock.                     *)
(*                                                                          *)
(* Modelled: one account, one server, one channel of it, and the account's *)
(* own messages there.  Left out: the reasons that come before the lock    *)
(* (permissions, the rules a server has for its members), slowmode, and    *)
(* the conversations between people, which have a lock of their own.       *)
EXTENDS Naturals, Sequences, Functions

CONSTANTS
    Check,      \* slots for the tasks of spawn_check
    Send,       \* slots for the tasks of send_message
    MaxEpoch,   \* bound: how often the account joins the server
    MaxWord,    \* bound: messages of the account in the server
    MayHurry,   \* TRUE: it leaves, or is back, while something is under way
    MayMiss,    \* TRUE: a fresh login may pass over what was not handled yet
    MayCross    \* TRUE: read_only may be set later than it was worked out

ASSUME SendGuardAssumption ==
    /\ MaxEpoch \in Nat \ {0}
    /\ MaxWord \in Nat \ {0}
    /\ {MayHurry, MayMiss, MayCross} \subseteq BOOLEAN

VARIABLES
    \* Discord's side
    member,      \* the account is in the server
    epoch,       \* which of its memberships this is, or was
    said,        \* its messages: of which membership, and sent from here?
    inbox,       \* dispatches the gateway has not handled yet
    \* the daemon's
    registered,  \* the channel is in channel_map
    joined,      \* Guard.joined, as a membership; 0 is not known
    spoken,      \* Guard.spoken and the file
    checking,    \* Guard.checking
    checked,     \* Guard.checked
    held,        \* Guard.captcha, not lapsed
    sent,        \* Guard.sent and the file: messages sent from here
    nonces,      \* Guard.nonces: the messages they were given to
    stored,      \* the account's messages in the store
    shown,       \* the buffer's read_only, "gone" without a buffer
    late,        \* reasons worked out and not set yet (MayCross)
    check,       \* the check tasks
    send         \* the send tasks

discord == <<member, epoch, said>>
guard   == <<joined, spoken, checking, checked, held, sent, nonces>>
window  == <<shown, late>>
vars == <<discord, inbox, registered, guard, stored, window, check, send>>

Reason == {"open", "first", "checking", "captcha"}

NoCheck == [pc |-> "idle", since |-> 0, found |-> FALSE]
NoSend  == [pc |-> "idle", id |-> 0]

Ids == 1..Len(said)

Message == [epoch : 1..MaxEpoch, here : BOOLEAN]

Dispatch ==
    [kind : {"create", "delete"}, of : 1..MaxEpoch]
        \union [kind : {"message"}, of : 1..MaxWord]

TypeOK ==
    /\ member \in BOOLEAN /\ epoch \in 1..MaxEpoch
    /\ said \in Seq(Message) /\ Len(said) <= MaxWord
    /\ inbox \in Seq(Dispatch)
    /\ registered \in BOOLEAN /\ joined \in 0..MaxEpoch
    /\ {spoken, checking, checked, held} \subseteq BOOLEAN
    /\ \A s \in {sent, nonces, stored} : s \subseteq Ids
    /\ \A i \in sent \union nonces : said[i].here
    /\ shown \in Reason \union {"gone"} /\ late \subseteq Reason
    /\ check \in [Check -> [pc : {"idle", "asleep", "queued", "turn",
                                  "told", "apart"},
                            since : 0..MaxEpoch, found : BOOLEAN]]
    /\ send \in [Send -> [pc : {"idle", "waits", "turn", "answered"},
                          id : 0..MaxWord]]
    /\ ~(spoken /\ checking)
    /\ registered <=> shown # "gone"

\* The account may have spoken in the server before this client was ever
\* started; either way its first READY names the server.
Init ==
    /\ member = TRUE /\ epoch = 1
    /\ said \in {<<>>, <<[epoch |-> 1, here |-> FALSE]>>}
    /\ inbox = <<[kind |-> "create", of |-> 1]>>
    /\ registered = FALSE /\ joined = 0
    /\ spoken = FALSE /\ checking = FALSE /\ checked = FALSE /\ held = FALSE
    /\ sent = {} /\ nonces = {} /\ stored = {}
    /\ shown = "gone" /\ late = {}
    /\ check = [c \in Check |-> NoCheck]
    /\ send = [s \in Send |-> NoSend]

-----------------------------------------------------------------------------
(* What is shown.                                                           *)

\* Guard::lock_of for a server.
LockOf(spoke, looking, captcha) ==
    CASE captcha -> "captcha"
      [] ~captcha /\ spoke -> "open"
      [] ~captcha /\ ~spoke /\ looking -> "checking"
      [] OTHER -> "first"

\* reapply_guild, set_permission: the reason is worked out under the guard's
\* lock and set under that of the buffers.
Show(reason) ==
    \/ shown' = reason /\ UNCHANGED late
    \/ MayCross /\ late' = late \union {reason} /\ UNCHANGED shown

Reapply(spoke, looking, captcha) ==
    IF shown = "gone" THEN UNCHANGED window
    ELSE Show(LockOf(spoke, looking, captcha))

\* set_buffer_read_only, of a reason worked out before, or of note_member: a
\* change of the account's membership is a reason to look again.
SetReadOnly ==
    /\ shown # "gone"
    /\ \E reason \in late \union {LockOf(spoken, checking, held)} :
          shown' = reason /\ late' = late \ {reason}
    /\ UNCHANGED <<discord, inbox, registered, guard, stored, check, send>>

-----------------------------------------------------------------------------
(* Discord and the account's other clients.                                 *)

\* No server is joined or left in the middle of something (~MayHurry).
Looking == (\E c \in Check : check[c].pc # "idle")
              \/ \E d \in Range(inbox) : d.kind = "create"
Quiet == ~Looking /\ inbox = <<>> /\ \A s \in Send : send[s].pc = "idle"

Leave ==
    /\ member
    /\ MayHurry \/ ~Looking
    /\ member' = FALSE
    /\ inbox' = Append(inbox, [kind |-> "delete", of |-> epoch])
    /\ UNCHANGED <<epoch, said, registered, guard, stored, window, check, send>>

Join ==
    /\ ~member /\ epoch < MaxEpoch
    /\ MayHurry \/ Quiet
    /\ member' = TRUE /\ epoch' = epoch + 1
    /\ inbox' = Append(inbox, [kind |-> "create", of |-> epoch + 1])
    /\ UNCHANGED <<said, registered, guard, stored, window, check, send>>

\* A message reaches the server, and the dispatch about it sets out.
Say(here) ==
    /\ Len(said) < MaxWord
    /\ said' = Append(said, [epoch |-> epoch, here |-> here])
    /\ inbox' = Append(inbox, [kind |-> "message", of |-> Len(said) + 1])

SayElsewhere ==
    /\ member
    /\ Say(FALSE)
    /\ UNCHANGED <<member, epoch, registered, guard, stored, window,
                   check, send>>

-----------------------------------------------------------------------------
(* The gateway's handlers.                                                  *)

\* open_guild, before the channels are registered: the lock's search begins,
\* unless the answer is known or was looked for in this run.
StartsCheck == ~spoken /\ ~checking /\ ~checked

OpenGuild(e) ==
    /\ joined' = e
    /\ checking' = (checking \/ StartsCheck)
    /\ check' = IF StartsCheck
                THEN LET c == CHOOSE c \in Check : check[c].pc = "idle"
                     IN  [check EXCEPT ![c].pc = "asleep"]
                ELSE check
    /\ UNCHANGED <<spoken, checked, held, sent, nonces>>

\* register_guild_channels, of READY, GUILD_CREATE, and what is replayed.
GuildCreate ==
    /\ inbox # <<>> /\ Head(inbox).kind = "create"
    /\ StartsCheck => \E c \in Check : check[c].pc = "idle"
    /\ inbox' = Tail(inbox)
    /\ OpenGuild(Head(inbox).of)
    /\ registered' = TRUE
    /\ IF shown = "gone"
       THEN shown' = LockOf(spoken, checking \/ StartsCheck, held)
            /\ UNCHANGED late
       ELSE Show(LockOf(spoken, checking \/ StartsCheck, held))
    /\ UNCHANGED <<discord, stored, send>>

ForgetGuild ==
    /\ spoken' = FALSE /\ checking' = FALSE /\ checked' = FALSE
    /\ joined' = 0
    /\ UNCHANGED <<held, sent, nonces>>

GuildDelete ==
    /\ inbox # <<>> /\ Head(inbox).kind = "delete"
    /\ inbox' = Tail(inbox)
    /\ ForgetGuild
    /\ registered' = FALSE /\ shown' = "gone"
    /\ UNCHANGED <<discord, stored, late, check, send>>

\* Mutant of SpokeInGuild: the search that was under way is still said to be.
SpokeWhileChecking(captcha) ==
    /\ spoken' = TRUE /\ UNCHANGED checking
    /\ IF ~spoken THEN Reapply(TRUE, checking, captcha) ELSE UNCHANGED window

\* spoke_in_guild, given what is left of a captcha.
SpokeInGuild(captcha) ==
    /\ spoken' = TRUE /\ checking' = FALSE
    /\ IF ~spoken \/ checking THEN Reapply(TRUE, FALSE, captcha)
       ELSE UNCHANGED window

\* MESSAGE_CREATE for a message of the account's own: heard, then kept.  The
\* echo of a message sent from here is told by the nonce it carries.
Heard(i) ==
    IF i \in nonces THEN UNCHANGED <<spoken, checking, held, window>>
    ELSE held' = FALSE /\ SpokeInGuild(FALSE)

MessageCreate ==
    /\ inbox # <<>> /\ Head(inbox).kind = "message"
    /\ inbox' = Tail(inbox)
    /\ IF registered
       THEN Heard(Head(inbox).of) /\ stored' = stored \union {Head(inbox).of}
       ELSE UNCHANGED <<spoken, checking, held, window, stored>>
    /\ UNCHANGED <<discord, registered, joined, checked, sent, nonces,
                   check, send>>

-----------------------------------------------------------------------------
(* spawn_check: whether the account has spoken in the server.               *)

\* Mutant of FirstWords: whenever it was said.
FirstWordsEver(ids, since) == {i \in ids : i \notin sent}

\* What is kept here, or found there, that would be a first word.
FirstWords(ids, since) ==
    {i \in ids : said[i].epoch >= since /\ i \notin sent}

\* After a moment: the answer may be in what is kept here.
LookHere(c) ==
    /\ check[c].pc = "asleep"
    /\ IF FirstWords(stored, joined) # {}
       THEN /\ SpokeInGuild(held)
            /\ check' = [check EXCEPT ![c] = NoCheck]
       ELSE /\ check' = [check EXCEPT ![c] = [@ EXCEPT !.pc = "queued",
                                                       !.since = joined]]
            /\ UNCHANGED <<spoken, checking, window>>
    /\ UNCHANGED <<discord, inbox, registered, joined, checked, held, sent,
                   nonces, stored, send>>

TakeSearchTurn(c) ==
    /\ check[c].pc = "queued"
    /\ \A d \in Check : check[d].pc \notin {"turn", "told", "apart"}
    /\ check' = [check EXCEPT ![c].pc = "turn"]
    /\ UNCHANGED <<discord, inbox, registered, guard, stored, window, send>>

\* Discord's search answers, or every try failed or was told to wait.
Search(c) ==
    /\ check[c].pc = "turn"
    /\ \E found \in {FALSE, member /\ FirstWords(Ids, check[c].since) # {}} :
          check' = [check EXCEPT ![c] = [@ EXCEPT !.pc = "told",
                                                  !.found = found]]
    /\ UNCHANGED <<discord, inbox, registered, guard, stored, window, send>>

\* Mutant of NotFound: the conversations are not told.
NotFoundUntold ==
    checking' = FALSE /\ checked' = TRUE /\ UNCHANGED <<spoken, window>>

\* Mutant of NotFound: only what was looked into is noted.
NotFoundStillChecking ==
    checked' = TRUE /\ UNCHANGED <<spoken, checking, window>>

\* It did not find one, or could not: locked, until there is a word.
NotFound ==
    /\ checking' = FALSE /\ checked' = TRUE
    /\ Reapply(spoken, FALSE, held)
    /\ UNCHANGED spoken

Conclude(c) ==
    /\ check[c].pc = "told"
    /\ check' = [check EXCEPT ![c].pc = "apart"]
    /\ IF check[c].found THEN SpokeInGuild(held) /\ UNCHANGED checked
       ELSE NotFound
    /\ UNCHANGED <<discord, inbox, registered, joined, held, sent, nonces,
                   stored, send>>

\* The searches are a little apart.
GiveTurn(c) ==
    /\ check[c].pc = "apart"
    /\ check' = [check EXCEPT ![c] = NoCheck]
    /\ UNCHANGED <<discord, inbox, registered, guard, stored, window, send>>

-----------------------------------------------------------------------------
(* send_message.                                                            *)

\* ensure_may_speak, and the nonce is stamped on the message.
Ask(s) ==
    /\ send[s].pc = "idle"
    /\ shown # "gone"
    /\ LockOf(spoken, checking, held) = "open"
    /\ send' = [send EXCEPT ![s].pc = "waits"]
    /\ UNCHANGED <<discord, inbox, registered, guard, stored, window, check>>

\* channel_turn and take_turn: one at a time to a channel.
TakeTurn(s) ==
    /\ send[s].pc = "waits"
    /\ \A t \in Send : send[t].pc \notin {"turn", "answered"}
    /\ send' = [send EXCEPT ![s].pc = "turn"]
    /\ UNCHANGED <<discord, inbox, registered, guard, stored, window, check>>

\* Discord takes the message.  Its dispatch may overtake the answer.
Accepted(s) ==
    /\ send[s].pc = "turn" /\ member
    /\ Say(TRUE)
    /\ nonces' = nonces \union {Len(said) + 1}
    /\ send' = [send EXCEPT ![s] = [pc |-> "answered", id |-> Len(said) + 1]]
    /\ UNCHANGED <<member, epoch, registered, joined, spoken, checking,
                   checked, held, sent, stored, window, check>>

\* It asks for a captcha: hold_captcha closes the place.
AskedForCaptcha(s) ==
    /\ send[s].pc = "turn" /\ member
    /\ held' = TRUE
    /\ Reapply(spoken, checking, TRUE)
    /\ send' = [send EXCEPT ![s] = NoSend]
    /\ UNCHANGED <<discord, inbox, registered, joined, spoken, checking,
                   checked, sent, nonces, stored, check>>

\* It refuses, or does not answer.
Refused(s) ==
    /\ send[s].pc = "turn"
    /\ send' = [send EXCEPT ![s] = NoSend]
    /\ UNCHANGED <<discord, inbox, registered, guard, stored, window, check>>

\* note_sent: the message is remembered as sent from here.
NoteSent(s) ==
    /\ send[s].pc = "answered"
    /\ sent' = sent \union {send[s].id}
    /\ send' = [send EXCEPT ![s] = NoSend]
    /\ UNCHANGED <<discord, inbox, registered, joined, spoken, checking,
                   checked, held, nonces, stored, window, check>>

\* CAPTCHA_HOLD is over.  captcha_held looks at the clock: nothing happens.
CaptchaLapses ==
    /\ held
    /\ held' = FALSE
    /\ UNCHANGED <<discord, inbox, registered, joined, spoken, checking,
                   checked, sent, nonces, stored, window, check, send>>

-----------------------------------------------------------------------------
(* A fresh login, and a restart.                                            *)

\* READY names the servers the account is in now.
Identify ==
    /\ MayMiss \/ inbox = <<>>
    /\ inbox' = IF member THEN <<[kind |-> "create", of |-> epoch]>> ELSE <<>>
    /\ UNCHANGED <<discord, registered, guard, stored, window, check, send>>

\* What is in memory goes, tasks included.  discord-spoken.json may have been
\* torn by a write that was under way, and then counts as empty.  The session
\* is resumed: the server is registered from its saved dispatch, and what was
\* handled since the place was saved, the newest message here, comes again.
Newest ==
    LET own == {i \in stored : registered /\ said[i].epoch = joined}
    IN  {i \in own : /\ \A j \in own : j <= i
                     /\ [kind |-> "message", of |-> i] \notin Range(inbox)}

Restart ==
    /\ MayHurry \/ ~\E d \in Range(inbox) : d.kind = "delete"
    /\ \E torn \in BOOLEAN :
          spoken' = (spoken /\ ~torn) /\ sent' = IF torn THEN {} ELSE sent
    /\ \E again \in {<<>>} \union {<<[kind |-> "message", of |-> i]>> : i \in Newest} :
          inbox' = IF registered
                   THEN <<[kind |-> "create", of |-> joined]>> \o again \o inbox
                   ELSE inbox
    /\ registered' = FALSE /\ shown' = "gone" /\ late' = {}
    /\ joined' = 0 /\ nonces' = {}
    /\ checking' = FALSE /\ checked' = FALSE /\ held' = FALSE
    /\ check' = [c \in Check |-> NoCheck]
    /\ send' = [s \in Send |-> NoSend]
    /\ UNCHANGED <<discord, stored>>

-----------------------------------------------------------------------------
Gateway == GuildCreate \/ GuildDelete \/ MessageCreate

CheckStep(c) ==
    \/ LookHere(c)
    \/ TakeSearchTurn(c)
    \/ Search(c)
    \/ Conclude(c)
    \/ GiveTurn(c)

SendStep(s) ==
    \/ TakeTurn(s)
    \/ Accepted(s)
    \/ AskedForCaptcha(s)
    \/ Refused(s)
    \/ NoteSent(s)

Next ==
    \/ Leave \/ Join \/ SayElsewhere
    \/ Gateway \/ SetReadOnly
    \/ \E c \in Check : CheckStep(c)
    \/ \E s \in Send : Ask(s) \/ SendStep(s)
    \/ CaptchaLapses
    \/ Identify \/ Restart

Spec == Init /\ [][Next]_vars

FairSpec ==
    /\ Spec
    /\ WF_vars(Gateway)
    /\ \A c \in Check : WF_vars(CheckStep(c))
    /\ \A s \in Send : WF_vars(SendStep(s))
    /\ WF_vars(CaptchaLapses)

-----------------------------------------------------------------------------
(* Properties.                                                              *)

\* "So this client does not say the first word": whatever this client sent,
\* the account had said something in the server from elsewhere before, since
\* it joined.
FirstWordIsElsewhere ==
    \A i \in Ids : said[i].here =>
        \E j \in 1..(i - 1) :
            ~said[j].here /\ said[j].epoch = said[i].epoch

\* A conversation says what its lock is: a change of the lock, by whichever
\* task, reaches read_only.  A captcha that ended is not a change anybody
\* tells of (CaptchaOpensAgain).
ShownIsTrue ==
    registered /\ late = {} =>
        \/ shown = LockOf(spoken, checking, held)
        \/ shown = "captcha" /\ ~held

\* "Checking whether you have spoken here before..." is not said for ever:
\* searches fail, wait for each other and are overtaken by what is heard.
CheckingEnds == shown = "checking" ~> shown # "checking"

=============================================================================
