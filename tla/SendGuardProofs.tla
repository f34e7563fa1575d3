-------------------------- MODULE SendGuardProofs --------------------------
(***************************************************************************)
(* Proofs about SendGuard for any number of tasks, memberships and         *)
(* messages: its types, and that this client never says the first word in  *)
(* a server while nobody leaves it, or is back, in the middle of something.*)
(***************************************************************************)
EXTENDS SendGuard, SequenceTheorems, TLAPS

USE SendGuardAssumption

-----------------------------------------------------------------------------
(* Dispatches that wait.                                                    *)

\* What is handled is the first of what waits, and the rest stays.
LEMMA RangeOfTail ==
    ASSUME NEW S, NEW s \in Seq(S), s # <<>>
    PROVE  /\ Tail(s) \in Seq(S) /\ Head(s) \in S
           /\ Head(s) \in Range(s) /\ Range(Tail(s)) \subseteq Range(s)
           /\ \A x \in Range(s) : x = Head(s) \/ x \in Range(Tail(s))
<1>1. /\ Head(s) \in S /\ Tail(s) \in Seq(S) /\ Len(Tail(s)) = Len(s) - 1
      /\ \A i \in 1..Len(Tail(s)) : Tail(s)[i] = s[i + 1]
  BY HeadTailProperties
<1>2. Len(s) \in Nat \ {0} /\ DOMAIN s = 1..Len(s) /\ Head(s) = s[1]
      /\ DOMAIN Tail(s) = 1..(Len(s) - 1)
  BY <1>1, EmptySeq, LenProperties
<1>3. Head(s) \in Range(s)
  BY <1>2 DEF Range
<1>4. Range(Tail(s)) \subseteq Range(s)
  <2> SUFFICES ASSUME NEW i \in 1..(Len(s) - 1) PROVE Tail(s)[i] \in Range(s)
    BY <1>2 DEF Range
  <2> i + 1 \in 1..Len(s) /\ Tail(s)[i] = s[i + 1]
    BY <1>1, <1>2
  <2> QED
    BY <1>2 DEF Range
<1>5. ASSUME NEW x \in Range(s), x # Head(s) PROVE x \in Range(Tail(s))
  <2>1. PICK i \in 1..Len(s) : x = s[i]
    BY <1>2 DEF Range
  <2>2. i - 1 \in 1..(Len(s) - 1) /\ x = Tail(s)[i - 1]
    BY <2>1, <1>1, <1>2, <1>5
  <2>3. QED
    BY <2>2, <1>2 DEF Range
<1>6. QED
  BY <1>1, <1>3, <1>4, <1>5

\* What arrives is added to what waits.
LEMMA RangeOfAppend ==
    ASSUME NEW S, NEW s \in Seq(S), NEW e \in S
    PROVE  /\ Append(s, e) \in Seq(S)
           /\ Range(Append(s, e)) = Range(s) \union {e}
<1>1. /\ Append(s, e) \in Seq(S) /\ Len(Append(s, e)) = Len(s) + 1
      /\ \A i \in 1..Len(s) : Append(s, e)[i] = s[i]
      /\ Append(s, e)[Len(s) + 1] = e
  BY AppendProperties
<1>2. DOMAIN s = 1..Len(s) /\ DOMAIN Append(s, e) = 1..(Len(s) + 1)
      /\ Len(s) \in Nat
  BY <1>1, LenProperties
<1>3. 1..(Len(s) + 1) = 1..Len(s) \union {Len(s) + 1}
  BY <1>2
<1>4. QED
  BY <1>1, <1>2, <1>3 DEF Range

\* One dispatch, and none.
LEMMA RangeOfOne ==
    ASSUME NEW S, NEW e \in S
    PROVE  /\ <<e>> \in Seq(S) /\ Range(<<e>>) = {e}
           /\ <<>> \in Seq(S) /\ Range(<<>>) = {}
<1>1. <<e>> \in Seq(S) /\ DOMAIN <<e>> = {1} /\ <<e>>[1] = e
  OBVIOUS
<1>2. <<>> \in Seq(S) /\ DOMAIN <<>> = {}
  OBVIOUS
<1>3. QED
  BY <1>1, <1>2 DEF Range

\* What is replayed comes before what waits.
LEMMA RangeOfConcat ==
    ASSUME NEW S, NEW s \in Seq(S), NEW t \in Seq(S)
    PROVE  /\ s \o t \in Seq(S)
           /\ Range(s \o t) = Range(s) \union Range(t)
<1>1. /\ s \o t \in Seq(S) /\ Len(s \o t) = Len(s) + Len(t)
      /\ \A i \in 1..(Len(s) + Len(t)) :
            (s \o t)[i] = IF i <= Len(s) THEN s[i] ELSE t[i - Len(s)]
  BY ConcatProperties
<1>2. /\ DOMAIN s = 1..Len(s) /\ DOMAIN t = 1..Len(t)
      /\ DOMAIN (s \o t) = 1..(Len(s) + Len(t))
      /\ Len(s) \in Nat /\ Len(t) \in Nat
  BY <1>1, LenProperties
<1>3. Range(s \o t) \subseteq Range(s) \union Range(t)
  <2> SUFFICES ASSUME NEW i \in 1..(Len(s) + Len(t))
               PROVE  (s \o t)[i] \in Range(s) \union Range(t)
    BY <1>2 DEF Range
  <2>1. CASE i <= Len(s)
    BY <2>1, <1>1, <1>2 DEF Range
  <2>2. CASE i > Len(s)
    <3>1. i - Len(s) \in 1..Len(t) /\ (s \o t)[i] = t[i - Len(s)]
      BY <2>2, <1>1, <1>2
    <3>2. QED
      BY <3>1, <1>2 DEF Range
  <2>3. QED
    BY <2>1, <2>2, <1>2
<1>4. Range(s) \subseteq Range(s \o t)
  <2> SUFFICES ASSUME NEW i \in 1..Len(s) PROVE s[i] \in Range(s \o t)
    BY <1>2 DEF Range
  <2> i \in 1..(Len(s) + Len(t)) /\ (s \o t)[i] = s[i]
    BY <1>1, <1>2
  <2> QED
    BY <1>2 DEF Range
<1>5. Range(t) \subseteq Range(s \o t)
  <2> SUFFICES ASSUME NEW i \in 1..Len(t) PROVE t[i] \in Range(s \o t)
    BY <1>2 DEF Range
  <2> Len(s) + i \in 1..(Len(s) + Len(t)) /\ (s \o t)[Len(s) + i] = t[i]
    BY <1>1, <1>2
  <2> QED
    BY <1>2 DEF Range
<1>6. QED
  BY <1>1, <1>3, <1>4, <1>5

\* A dispatch and others before what waits.
LEMMA RangeOfReplay ==
    ASSUME NEW S, NEW e \in S, NEW t \in Seq(S), NEW u \in Seq(S)
    PROVE  /\ <<e>> \o t \o u \in Seq(S)
           /\ Range(<<e>> \o t \o u) = {e} \union Range(t) \union Range(u)
<1> DEFINE s == <<e>>
<1>1. s \in Seq(S) /\ Range(s) = {e}
  BY RangeOfOne
<1> HIDE DEF s
<1>2. s \o t \in Seq(S) /\ Range(s \o t) = Range(s) \union Range(t)
  BY <1>1, RangeOfConcat
<1> DEFINE st == s \o t
<1> HIDE DEF st
<1>3. st \in Seq(S) /\ Range(st) = {e} \union Range(t)
  BY <1>1, <1>2 DEF st
<1>4. st \o u \in Seq(S) /\ Range(st \o u) = Range(st) \union Range(u)
  BY <1>3, RangeOfConcat
<1>5. QED
  BY <1>3, <1>4 DEF st, s

-----------------------------------------------------------------------------
(* Types.                                                                   *)

\* Discord's side.
DiscordOK ==
    /\ member \in BOOLEAN
    /\ epoch \in 1..MaxEpoch
    /\ said \in Seq(Message)
    /\ Len(said) <= MaxWord

\* What waits, and that messages are announced once they are said.
InboxOK ==
    /\ inbox \in Seq(Dispatch)
    /\ \A d \in Range(inbox) : d.kind = "message" => d.of \in Ids

\* What the guard knows.
GuardOK ==
    /\ joined \in 0..MaxEpoch
    /\ spoken \in BOOLEAN
    /\ checking \in BOOLEAN
    /\ checked \in BOOLEAN
    /\ held \in BOOLEAN
    /\ ~(spoken /\ checking)
    /\ registered => joined # 0

\* Messages that are known.
KnownOK ==
    /\ sent \subseteq Ids
    /\ nonces \subseteq Ids
    /\ stored \subseteq Ids
    /\ \A i \in sent \union nonces : said[i].here

\* The window's conversation.
WindowOK ==
    /\ registered \in BOOLEAN
    /\ shown \in Reason \union {"gone"}
    /\ late \subseteq Reason
    /\ registered <=> shown # "gone"

\* The tasks of spawn_check.
CheckOK ==
    check \in [Check -> [pc : {"idle", "asleep", "queued", "turn", "told",
                               "apart"},
                         since : 0..MaxEpoch, found : BOOLEAN]]

\* The tasks of send_message, which know the message that was answered.
SendOK ==
    /\ send \in [Send -> [pc : {"idle", "waits", "turn", "answered"},
                          id : 0..MaxWord]]
    /\ \A s \in Send : send[s].pc = "answered" =>
          send[s].id \in Ids /\ said[send[s].id].here

Types == /\ DiscordOK /\ InboxOK /\ GuardOK /\ KnownOK /\ WindowOK
         /\ CheckOK /\ SendOK

\* They include the type invariant.
LEMMA TypesSuffice == Types => TypeOK
BY DEF Types, DiscordOK, InboxOK, GuardOK, KnownOK, WindowOK, CheckOK, SendOK,
       TypeOK

\* A dispatch that is handled is one, and what it leaves waiting is in order.
LEMMA HandleOK ==
    ASSUME InboxOK, inbox # <<>>, inbox' = Tail(inbox), said' = said
    PROVE  /\ InboxOK'
           /\ Head(inbox) \in Dispatch
           /\ Head(inbox).kind = "message" => Head(inbox).of \in Ids
           /\ Head(inbox).kind = "create" => Head(inbox).of \in 1..MaxEpoch
<1>1. /\ Tail(inbox) \in Seq(Dispatch) /\ Head(inbox) \in Dispatch
      /\ Head(inbox) \in Range(inbox) /\ Range(Tail(inbox)) \subseteq Range(inbox)
  BY RangeOfTail DEF InboxOK
<1>2. Head(inbox).kind = "create" => Head(inbox).of \in 1..MaxEpoch
  BY <1>1 DEF Dispatch
<1>3. QED
  BY <1>1, <1>2 DEF InboxOK, Ids

\* Something is said.
LEMMA SayOK ==
    ASSUME DiscordOK, InboxOK, NEW here \in BOOLEAN, Say(here), epoch' = epoch,
           member' = member
    PROVE  /\ DiscordOK' /\ InboxOK'
           /\ Len(said) \in Nat
           /\ Ids' = Ids \union {Len(said) + 1} /\ Len(said) + 1 \notin Ids
           /\ \A i \in Ids : said'[i] = said[i]
           /\ said'[Len(said) + 1] = [epoch |-> epoch, here |-> here]
           /\ Range(inbox') = Range(inbox)
                 \union {[kind |-> "message", of |-> Len(said) + 1]}
<1> DEFINE word == [epoch |-> epoch, here |-> here]
           news == [kind |-> "message", of |-> Len(said) + 1]
<1>1. word \in Message
  BY DEF DiscordOK, Message
<1>2. Len(said) \in Nat
  BY LenProperties DEF DiscordOK
<1>3. /\ Append(said, word) \in Seq(Message)
      /\ Len(Append(said, word)) = Len(said) + 1
      /\ \A i \in 1..Len(said) : Append(said, word)[i] = said[i]
      /\ Append(said, word)[Len(said) + 1] = word
  BY <1>1, AppendProperties DEF DiscordOK
<1>4. said' = Append(said, word) /\ inbox' = Append(inbox, news)
      /\ Len(said) < MaxWord
  BY DEF Say
<1> HIDE DEF word, news
<1>5. Ids' = Ids \union {Len(said) + 1} /\ Len(said) + 1 \notin Ids
  BY <1>2, <1>3, <1>4 DEF Ids
<1>6. news \in Dispatch
  BY <1>2, <1>4 DEF Dispatch, news
<1>7. inbox' \in Seq(Dispatch) /\ Range(inbox') = Range(inbox) \union {news}
  BY <1>4, <1>6, RangeOfAppend DEF InboxOK
<1>8. InboxOK'
  BY <1>5, <1>7 DEF InboxOK, news
<1>9. DiscordOK'
  BY <1>2, <1>3, <1>4 DEF DiscordOK
<1>10. QED
  BY <1>2, <1>3, <1>4, <1>5, <1>7, <1>8, <1>9 DEF word, news, Ids

\* A restart puts what is replayed before what waits.
LEMMA RestartOK ==
    ASSUME InboxOK, GuardOK, KnownOK, DiscordOK, Restart, registered
    PROVE  /\ InboxOK'
           /\ \A d \in Range(inbox') :
                 \/ d \in Range(inbox)
                 \/ d = [kind |-> "create", of |-> joined]
                 \/ d.kind = "message" /\ d.of \in Newest
<1> DEFINE news(i) == [kind |-> "message", of |-> i]
           new == [kind |-> "create", of |-> joined]
<1>1. new \in Dispatch
  BY DEF Dispatch, GuardOK
<1>2. PICK again \in {<<>>} \union {<<news(i)>> : i \in Newest} :
         inbox' = <<new>> \o again \o inbox
  BY DEF Restart
<1>3. Newest \subseteq Ids
  BY DEF Newest, KnownOK
<1>4. again \in Seq(Dispatch) /\ Range(again) \subseteq {news(i) : i \in Newest}
  <2>1. CASE again = <<>>
    BY <1>1, <2>1, RangeOfOne
  <2>2. ASSUME NEW i \in Newest, again = <<news(i)>>
        PROVE  again \in Seq(Dispatch) /\ Range(again) = {news(i)}
    <3>1. news(i) \in Dispatch
      <4>1. i \in 1..MaxWord
        BY <1>3, LenProperties DEF Ids, DiscordOK
      <4>2. QED
        BY <4>1 DEF Dispatch
    <3> HIDE DEF news
    <3>2. QED
      BY <2>2, <3>1, RangeOfOne
  <2> HIDE DEF news
  <2>3. QED
    BY <1>2, <2>1, <2>2
<1> HIDE DEF new, news
<1>7. inbox' \in Seq(Dispatch)
      /\ Range(inbox') = {new} \union Range(again) \union Range(inbox)
  <2>1. inbox \in Seq(Dispatch)
    BY DEF InboxOK
  <2>2. QED
    BY <1>1, <1>2, <1>4, <2>1, RangeOfReplay
<1>8. \A d \in Range(inbox') :
         \/ d \in Range(inbox)
         \/ d = new
         \/ d.kind = "message" /\ d.of \in Newest
  BY <1>4, <1>7 DEF news
<1>9. InboxOK'
  <2>1. Ids' = Ids
    BY DEF Restart, discord, Ids
  <2>2. new.kind = "create"
    BY DEF new
  <2>3. QED
    BY <1>3, <1>7, <1>8, <2>1, <2>2 DEF InboxOK
<1>10. QED
  BY <1>8, <1>9 DEF new

\* What a lock is called.
LEMMA LockIsReason ==
    ASSUME NEW a, NEW b, NEW c PROVE LockOf(a, b, c) \in Reason
BY DEF LockOf, Reason

\* Looking again keeps the window in order.
LEMMA ReapplyOK ==
    ASSUME WindowOK, NEW a, NEW b, NEW c, Reapply(a, b, c),
           registered' = registered
    PROVE  WindowOK'
<1>1. LockOf(a, b, c) \in Reason /\ "gone" \notin Reason
  BY LockIsReason DEF Reason
<1>2. CASE shown = "gone"
  BY <1>2 DEF Reapply, WindowOK, window
<1>3. CASE shown # "gone" /\ shown' = LockOf(a, b, c) /\ late' = late
  BY <1>1, <1>3 DEF WindowOK
<1>4. CASE shown # "gone" /\ late' = late \union {LockOf(a, b, c)} /\ shown' = shown
  BY <1>1, <1>4 DEF WindowOK
<1>5. QED
  BY <1>2, <1>3, <1>4 DEF Reapply, Show

\* So does having spoken.
LEMMA SpokeOK ==
    ASSUME GuardOK, WindowOK, NEW captcha, SpokeInGuild(captcha),
           registered' = registered, joined' = joined, checked' = checked,
           held' \in BOOLEAN
    PROVE  GuardOK' /\ WindowOK'
<1>1. GuardOK'
  BY DEF SpokeInGuild, GuardOK
<1>2. CASE ~spoken \/ checking
  BY <1>1, <1>2, ReapplyOK DEF SpokeInGuild
<1>3. CASE spoken /\ ~checking
  BY <1>1, <1>3 DEF SpokeInGuild, WindowOK, window, GuardOK
<1>4. QED
  BY <1>1, <1>2, <1>3

\* The initial state.
LEMMA TypesInit == Init => Types
<1> SUFFICES ASSUME Init PROVE Types
  OBVIOUS
<1> DEFINE first == [kind |-> "create", of |-> 1]
           word == [epoch |-> 1, here |-> FALSE]
<1>1. first \in Dispatch /\ word \in Message
  BY DEF Dispatch, Message
<1>2. said \in Seq(Message) /\ Len(said) <= MaxWord
  <2>1. CASE said = <<>>
    BY <2>1
  <2>2. CASE said = <<word>>
    <3> HIDE DEF word
    <3> QED
      BY <1>1, <2>2
  <2>3. QED
    BY <2>1, <2>2 DEF Init
<1>3. InboxOK
  <2>1. inbox = <<first>>
    BY DEF Init
  <2>2. inbox \in Seq(Dispatch) /\ Range(inbox) = {first}
    BY <1>1, <2>1, RangeOfOne
  <2>3. QED
    BY <2>2 DEF InboxOK
<1>4. DiscordOK /\ GuardOK /\ KnownOK /\ WindowOK
  <2>1. DiscordOK
    BY <1>2 DEF Init, DiscordOK
  <2>2. GuardOK
    <3>1. 0 \in 0..MaxEpoch
      OBVIOUS
    <3>2. QED
      BY <3>1, Zenon DEF Init, GuardOK
  <2>3. KnownOK
    BY DEF Init, KnownOK
  <2>4. WindowOK
    BY DEF Init, WindowOK
  <2>5. QED
    BY <2>1, <2>2, <2>3, <2>4
<1>5. CheckOK
  BY DEF Init, CheckOK, NoCheck
<1>6. SendOK
  BY DEF Init, SendOK, NoSend
<1>7. QED
  BY <1>3, <1>4, <1>5, <1>6 DEF Types

\* Every step keeps the types.
LEMMA TypesStep == Types /\ [Next]_vars => Types'
<1> SUFFICES ASSUME Types, [Next]_vars PROVE Types'
  OBVIOUS
<1> USE DEF Types
<1>1. CASE Leave
  <2>1. DiscordOK'
    BY <1>1 DEF Leave, DiscordOK
  <2>2. InboxOK'
    <3> DEFINE gone == [kind |-> "delete", of |-> epoch]
    <3>1. gone \in Dispatch
      BY DEF Dispatch, DiscordOK
    <3>2. inbox' \in Seq(Dispatch) /\ Range(inbox') = Range(inbox) \union {gone}
      BY <1>1, <3>1, RangeOfAppend DEF Leave, InboxOK
    <3>3. QED
      BY <1>1, <3>2 DEF Leave, InboxOK, Ids
  <2>3. GuardOK' /\ KnownOK' /\ WindowOK' /\ CheckOK' /\ SendOK'
    BY <1>1 DEF Leave, GuardOK, KnownOK, WindowOK, CheckOK, SendOK, guard,
                window, Ids
  <2>4. QED
    BY <2>1, <2>2, <2>3
<1>2. CASE Join
  <2>1. DiscordOK'
    BY <1>2 DEF Join, DiscordOK
  <2>2. InboxOK'
    <3> DEFINE new == [kind |-> "create", of |-> epoch + 1]
    <3>1. new \in Dispatch
      BY <1>2 DEF Join, Dispatch, DiscordOK
    <3>2. inbox' \in Seq(Dispatch) /\ Range(inbox') = Range(inbox) \union {new}
      BY <1>2, <3>1, RangeOfAppend DEF Join, InboxOK
    <3>3. QED
      BY <1>2, <3>2 DEF Join, InboxOK, Ids
  <2>3. GuardOK' /\ KnownOK' /\ WindowOK' /\ CheckOK' /\ SendOK'
    BY <1>2 DEF Join, GuardOK, KnownOK, WindowOK, CheckOK, SendOK, guard,
                window, Ids
  <2>4. QED
    BY <2>1, <2>2, <2>3
<1>3. CASE SayElsewhere
  <2>1. DiscordOK' /\ InboxOK' /\ Ids \subseteq Ids'
        /\ \A i \in Ids : said'[i] = said[i]
    BY <1>3, SayOK DEF SayElsewhere
  <2>2. GuardOK' /\ WindowOK' /\ CheckOK'
    BY <1>3 DEF SayElsewhere, GuardOK, WindowOK, CheckOK, guard, window
  <2>3. KnownOK'
    BY <1>3, <2>1 DEF SayElsewhere, KnownOK, guard
  <2>4. SendOK'
    BY <1>3, <2>1 DEF SayElsewhere, SendOK
  <2>5. QED
    BY <2>1, <2>2, <2>3, <2>4
<1>4. CASE GuildCreate
  <2>1. /\ InboxOK' /\ Head(inbox).of \in 1..MaxEpoch /\ DiscordOK'
    BY <1>4, HandleOK DEF GuildCreate, discord, DiscordOK
  <2>2. CheckOK'
    <3>1. CASE StartsCheck
      <4>1. PICK c \in Check : check' = [check EXCEPT ![c].pc = "asleep"]
        <5> DEFINE c == CHOOSE c \in Check : check[c].pc = "idle"
        <5>1. c \in Check
          BY <1>4, <3>1 DEF GuildCreate
        <5>2. check' = [check EXCEPT ![c].pc = "asleep"]
          BY <1>4, <3>1 DEF GuildCreate, OpenGuild
        <5>3. QED
          BY <5>1, <5>2
      <4>2. QED
        BY <4>1 DEF CheckOK
    <3>2. CASE ~StartsCheck
      BY <1>4, <3>2 DEF GuildCreate, OpenGuild, CheckOK
    <3>3. QED
      BY <3>1, <3>2
  <2>3. GuardOK'
    <3>1. joined' \in 0..MaxEpoch /\ joined' # 0
      BY <1>4, <2>1 DEF GuildCreate, OpenGuild
    <3>2. QED
      BY <1>4, <3>1, Zenon DEF GuildCreate, OpenGuild, GuardOK, StartsCheck
  <2>4. KnownOK' /\ SendOK'
    BY <1>4 DEF GuildCreate, OpenGuild, discord, KnownOK, SendOK, Ids
  <2>5. WindowOK'
    <3> DEFINE reason == LockOf(spoken, checking \/ StartsCheck, held)
    <3>1. reason \in Reason /\ "gone" \notin Reason
      BY LockIsReason DEF Reason
    <3> HIDE DEF reason
    <3>2. registered' = TRUE
          /\ \/ shown' = reason /\ late' = late
             \/ shown # "gone" /\ late' = late \union {reason} /\ shown' = shown
      BY <1>4 DEF GuildCreate, Show, reason
    <3>3. QED
      BY <3>1, <3>2 DEF WindowOK
  <2>6. QED
    BY <2>1, <2>2, <2>3, <2>4, <2>5
<1>5. CASE GuildDelete
  <2>1. InboxOK' /\ DiscordOK'
    BY <1>5, HandleOK DEF GuildDelete, discord, DiscordOK
  <2>2. GuardOK'
    <3>1. 0 \in 0..MaxEpoch
      OBVIOUS
    <3>2. QED
      BY <1>5, <3>1, Zenon DEF GuildDelete, ForgetGuild, GuardOK
  <2>3. KnownOK' /\ SendOK' /\ CheckOK'
    BY <1>5 DEF GuildDelete, ForgetGuild, discord, KnownOK, SendOK, CheckOK, Ids
  <2>4. WindowOK'
    BY <1>5 DEF GuildDelete, WindowOK
  <2>5. QED
    BY <2>1, <2>2, <2>3, <2>4
<1>6. CASE MessageCreate
  <2>1. /\ InboxOK' /\ Head(inbox).of \in Ids /\ DiscordOK' /\ Ids' = Ids
        /\ said' = said
    BY <1>6, HandleOK DEF MessageCreate, discord, DiscordOK, Ids
  <2>2. GuardOK' /\ WindowOK'
    <3>1. CASE UNCHANGED <<spoken, checking, held, window>>
      BY <1>6, <3>1 DEF MessageCreate, GuardOK, WindowOK, window
    <3>2. CASE held' = FALSE /\ SpokeInGuild(FALSE)
      BY <1>6, <3>2, SpokeOK DEF MessageCreate
    <3>3. QED
      BY <1>6, <3>1, <3>2 DEF MessageCreate, Heard
  <2>3. KnownOK'
    BY <1>6, <2>1 DEF MessageCreate, KnownOK
  <2>4. SendOK' /\ CheckOK'
    BY <1>6, <2>1 DEF MessageCreate, SendOK, CheckOK
  <2>5. QED
    BY <2>1, <2>2, <2>3, <2>4
<1>7. CASE SetReadOnly
  <2>1. WindowOK'
    BY <1>7, LockIsReason DEF SetReadOnly, WindowOK, Reason
  <2>2. QED
    BY <1>7, <2>1 DEF SetReadOnly, discord, guard, DiscordOK, InboxOK, GuardOK,
                      KnownOK, CheckOK, SendOK, Ids
<1>8. ASSUME NEW c \in Check, LookHere(c) PROVE Types'
  <2>1. DiscordOK' /\ InboxOK' /\ KnownOK' /\ SendOK'
    BY <1>8 DEF LookHere, discord, DiscordOK, InboxOK, KnownOK, SendOK, Ids
  <2>2. CheckOK'
    <3>1. joined \in 0..MaxEpoch
      BY DEF GuardOK
    <3>2. CASE check' = [check EXCEPT ![c] = NoCheck]
      BY <3>2 DEF CheckOK, NoCheck
    <3>3. CASE check' = [check EXCEPT ![c] = [@ EXCEPT !.pc = "queued",
                                                       !.since = joined]]
      BY <3>1, <3>3 DEF CheckOK
    <3>4. QED
      BY <1>8, <3>2, <3>3 DEF LookHere
  <2>3. GuardOK' /\ WindowOK'
    <3>1. CASE SpokeInGuild(held)
      BY <1>8, <3>1, SpokeOK DEF LookHere, GuardOK
    <3>2. CASE UNCHANGED <<spoken, checking, window>>
      BY <1>8, <3>2 DEF LookHere, GuardOK, WindowOK, window
    <3>3. QED
      BY <1>8, <3>1, <3>2 DEF LookHere
  <2>4. QED
    BY <2>1, <2>2, <2>3
<1>9. ASSUME NEW c \in Check, TakeSearchTurn(c) \/ Search(c) \/ GiveTurn(c)
      PROVE  Types'
  <2>1. UNCHANGED <<discord, inbox, registered, guard, stored, window, send>>
    BY <1>9 DEF TakeSearchTurn, Search, GiveTurn
  <2>2. CheckOK'
    <3>1. CASE TakeSearchTurn(c)
      BY <3>1 DEF TakeSearchTurn, CheckOK
    <3>2. CASE Search(c)
      <4>1. PICK found \in {FALSE, member /\ FirstWords(Ids, check[c].since) # {}} :
               check' = [check EXCEPT ![c] = [@ EXCEPT !.pc = "told",
                                                       !.found = found]]
        BY <3>2 DEF Search
      <4>2. found \in BOOLEAN
        OBVIOUS
      <4>3. QED
        BY <4>1, <4>2 DEF CheckOK
    <3>3. CASE GiveTurn(c)
      BY <3>3 DEF GiveTurn, CheckOK, NoCheck
    <3>4. QED
      BY <1>9, <3>1, <3>2, <3>3
  <2>3. QED
    BY <2>1, <2>2 DEF discord, guard, window, DiscordOK, InboxOK, GuardOK,
                      KnownOK, WindowOK, SendOK, Ids
<1>10. ASSUME NEW c \in Check, Conclude(c) PROVE Types'
  <2>1. DiscordOK' /\ InboxOK' /\ KnownOK' /\ SendOK'
    BY <1>10 DEF Conclude, discord, DiscordOK, InboxOK, KnownOK, SendOK, Ids
  <2>2. CheckOK'
    BY <1>10 DEF Conclude, CheckOK
  <2>3. GuardOK' /\ WindowOK'
    <3>1. CASE SpokeInGuild(held) /\ UNCHANGED checked
      BY <1>10, <3>1, SpokeOK DEF Conclude, GuardOK
    <3>2. CASE NotFound
      <4>1. GuardOK'
        BY <1>10, <3>2, Zenon DEF Conclude, NotFound, GuardOK
      <4>2. WindowOK'
        BY <1>10, <3>2, ReapplyOK DEF Conclude, NotFound
      <4>3. QED
        BY <4>1, <4>2
    <3>3. QED
      BY <1>10, <3>1, <3>2 DEF Conclude
  <2>4. QED
    BY <2>1, <2>2, <2>3
<1>11. ASSUME NEW s \in Send, Ask(s) \/ TakeTurn(s) \/ Refused(s) PROVE Types'
  <2>1. UNCHANGED <<discord, inbox, registered, guard, stored, window, check>>
    BY <1>11 DEF Ask, TakeTurn, Refused
  <2>2. SendOK'
    BY <1>11, <2>1 DEF Ask, TakeTurn, Refused, SendOK, NoSend, discord, Ids
  <2>3. QED
    BY <2>1, <2>2 DEF discord, guard, window, DiscordOK, InboxOK, GuardOK,
                      KnownOK, WindowOK, CheckOK, Ids
<1>12. ASSUME NEW s \in Send, Accepted(s) PROVE Types'
  <2>1. /\ DiscordOK' /\ InboxOK' /\ Len(said) \in Nat
        /\ Ids' = Ids \union {Len(said) + 1}
        /\ \A i \in Ids : said'[i] = said[i]
        /\ said'[Len(said) + 1] = [epoch |-> epoch, here |-> TRUE]
    BY <1>12, SayOK DEF Accepted
  <2>2. GuardOK' /\ WindowOK' /\ CheckOK'
    BY <1>12 DEF Accepted, GuardOK, WindowOK, CheckOK, window
  <2>3. KnownOK'
    <3>1. sent' = sent /\ stored' = stored
          /\ nonces' = nonces \union {Len(said) + 1}
      BY <1>12 DEF Accepted
    <3>2. said'[Len(said) + 1].here
      BY <2>1
    <3>3. QED
      BY <2>1, <3>1, <3>2 DEF KnownOK
  <2>4. SendOK'
    <3>1. Len(said) + 1 \in 0..MaxWord /\ Len(said) + 1 \in Ids'
          /\ said'[Len(said) + 1].here
      BY <1>12, <2>1 DEF Accepted, Say
    <3> DEFINE n == Len(said) + 1
    <3>2. send' = [send EXCEPT ![s] = [pc |-> "answered", id |-> n]]
      BY <1>12 DEF Accepted
    <3>3. Ids \subseteq Ids'
      BY <2>1
    <3> HIDE DEF n
    <3>4. n \in 0..MaxWord /\ n \in Ids' /\ said'[n].here
      BY <3>1 DEF n
    <3>5. QED
      BY <2>1, <3>2, <3>3, <3>4 DEF SendOK
  <2>5. QED
    BY <2>1, <2>2, <2>3, <2>4
<1>13. ASSUME NEW s \in Send, AskedForCaptcha(s) PROVE Types'
  <2>1. DiscordOK' /\ InboxOK' /\ KnownOK' /\ CheckOK'
    BY <1>13 DEF AskedForCaptcha, discord, DiscordOK, InboxOK, KnownOK, CheckOK,
                 Ids
  <2>2. GuardOK' /\ WindowOK'
    BY <1>13, ReapplyOK DEF AskedForCaptcha, GuardOK
  <2>3. SendOK'
    BY <1>13 DEF AskedForCaptcha, SendOK, NoSend, discord, Ids
  <2>4. QED
    BY <2>1, <2>2, <2>3
<1>14. ASSUME NEW s \in Send, NoteSent(s) PROVE Types'
  <2>1. DiscordOK' /\ InboxOK' /\ GuardOK' /\ WindowOK' /\ CheckOK'
    BY <1>14 DEF NoteSent, discord, window, DiscordOK, InboxOK, GuardOK,
                 WindowOK, CheckOK, Ids
  <2>2. SendOK'
    BY <1>14 DEF NoteSent, SendOK, NoSend, discord, Ids
  <2>3. KnownOK'
    BY <1>14 DEF NoteSent, KnownOK, SendOK, discord, Ids
  <2>4. QED
    BY <2>1, <2>2, <2>3
<1>15. CASE CaptchaLapses
  BY <1>15 DEF CaptchaLapses, discord, window, DiscordOK, InboxOK, GuardOK,
               KnownOK, WindowOK, CheckOK, SendOK, Ids
<1>16. CASE Identify
  <2>1. InboxOK'
    <3> DEFINE new == [kind |-> "create", of |-> epoch]
    <3>1. new \in Dispatch
      BY DEF Dispatch, DiscordOK
    <3>2. inbox' = <<new>> \/ inbox' = <<>>
      BY <1>16 DEF Identify
    <3>4. new.kind # "message"
      OBVIOUS
    <3> HIDE DEF new
    <3>3. inbox' \in Seq(Dispatch) /\ Range(inbox') \subseteq {new}
      <4>1. CASE inbox' = <<new>>
        BY <3>1, <4>1, RangeOfOne
      <4>2. CASE inbox' = <<>>
        BY <3>1, <4>2, RangeOfOne
      <4>3. QED
        BY <3>2, <4>1, <4>2
    <3>5. QED
      BY <3>3, <3>4 DEF InboxOK
  <2>2. QED
    BY <1>16, <2>1 DEF Identify, discord, guard, window, DiscordOK, GuardOK,
                       KnownOK, WindowOK, CheckOK, SendOK, Ids
<1>17. CASE Restart
  <2>1. InboxOK' /\ DiscordOK'
    <3>1. discord' = discord
      BY <1>17 DEF Restart
    <3>2. CASE ~registered
      BY <1>17, <3>1, <3>2 DEF Restart, InboxOK, DiscordOK, discord, Ids
    <3>3. CASE registered
      BY <3>1, <3>3, <1>17, RestartOK DEF DiscordOK, discord, InboxOK
    <3>4. QED
      BY <3>2, <3>3 DEF WindowOK
  <2>2. GuardOK'
    <3>1. 0 \in 0..MaxEpoch
      OBVIOUS
    <3>2. QED
      BY <1>17, <3>1, Zenon DEF Restart, GuardOK
  <2>3. KnownOK'
    BY <1>17 DEF Restart, KnownOK, discord, Ids
  <2>4. WindowOK'
    BY <1>17 DEF Restart, WindowOK
  <2>5. CheckOK'
    BY <1>17 DEF Restart, CheckOK, NoCheck
  <2>6. SendOK'
    BY <1>17 DEF Restart, SendOK, NoSend
  <2>7. QED
    BY <2>1, <2>2, <2>3, <2>4, <2>5, <2>6
<1>18. CASE UNCHANGED vars
  BY <1>18 DEF vars, discord, guard, window, DiscordOK, InboxOK, GuardOK,
               KnownOK, WindowOK, CheckOK, SendOK, Ids
<1>19. QED
  BY <1>1, <1>2, <1>3, <1>4, <1>5, <1>6, <1>7, <1>8, <1>9, <1>10, <1>11, <1>12,
     <1>13, <1>14, <1>15, <1>16, <1>17, <1>18
     DEF Next, Gateway, CheckStep, SendStep

\* The types of the model hold in every state, whatever the bounds.
THEOREM TypeCorrect == Spec => []TypeOK
<1>1. Init => Types
  BY TypesInit
<1>2. Types /\ [Next]_vars => Types'
  BY TypesStep
<1>3. Types => TypeOK
  BY TypesSuffice
<1>4. QED
  BY <1>1, <1>2, <1>3, PTL DEF Spec

-----------------------------------------------------------------------------
(* The first word is said elsewhere.  While nobody hurries, everything the  *)
(* daemon knows or is about to learn is of the membership the account has  *)
(* or had last, and each thing that opens the lock rests on a word of it.  *)

\* There is a word from elsewhere since the account joined.
Spoke == \E j \in Ids : ~said[j].here /\ said[j].epoch = epoch

\* What opens the lock, and whoever passed it.
SpokeBefore ==
    /\ spoken => Spoke
    /\ \A s \in Send : send[s].pc # "idle" => Spoke

\* What waits is of this membership.
Announced(d) ==
    /\ d.kind = "create" => member /\ d.of = epoch
    /\ d.kind = "delete" => ~member
    /\ d.kind = "message" => said[d.of].epoch = epoch

\* So is what the tasks look for.
Sought(c) ==
    /\ check[c].pc # "idle" => member /\ joined = epoch
    /\ check[c].pc \in {"queued", "turn", "told"} => check[c].since = epoch
    /\ check[c].pc = "told" /\ check[c].found => Spoke

\* Once it left, what was known goes, or the dispatch that takes it waits.
Forgotten ==
    member \/ (\E d \in Range(inbox) : d.kind = "delete")
           \/ (~spoken /\ ~registered)

FirstWordInv ==
    /\ \A i \in Ids : said[i].epoch <= epoch
    /\ FirstWordIsElsewhere
    /\ SpokeBefore
    /\ \A d \in Range(inbox) : Announced(d)
    /\ registered => joined = epoch
    /\ \A c \in Check : Sought(c)
    /\ Forgotten

\* A word of this membership, sent from here or not, shows that there is one
\* from elsewhere.
LEMMA OwnWordShows ==
    ASSUME DiscordOK, FirstWordIsElsewhere, NEW i \in Ids,
           said[i].epoch = epoch
    PROVE  Spoke
<1>1. Len(said) \in Nat
  BY LenProperties DEF DiscordOK
<1>2. CASE said[i].here
  <2>1. PICK j \in 1..(i - 1) : ~said[j].here /\ said[j].epoch = said[i].epoch
    BY <1>2 DEF FirstWordIsElsewhere
  <2>2. j \in Ids
    BY <1>1, <2>1 DEF Ids
  <2>3. QED
    BY <2>1, <2>2 DEF Spoke
<1>3. QED
  BY <1>2 DEF Spoke

\* Nothing changes at Discord.
LEMMA NothingSaid ==
    ASSUME FirstWordInv, UNCHANGED discord
    PROVE  /\ (\A i \in Ids : said[i].epoch <= epoch)'
           /\ FirstWordIsElsewhere'
           /\ Spoke' = Spoke
BY DEF FirstWordInv, discord, Ids, FirstWordIsElsewhere, Spoke

\* Something is said, from here only after it was from elsewhere.
LEMMA SomethingSaid ==
    ASSUME DiscordOK, InboxOK, FirstWordInv, NEW here \in BOOLEAN, Say(here),
           epoch' = epoch, member' = member, here => Spoke
    PROVE  /\ (\A i \in Ids : said[i].epoch <= epoch)'
           /\ FirstWordIsElsewhere'
           /\ Spoke => Spoke'
           /\ (\A d \in Range(inbox) : Announced(d))'
           /\ Range(inbox) \subseteq Range(inbox')
<1> DEFINE n == Len(said) + 1
<1>1. /\ Len(said) \in Nat /\ Ids' = Ids \union {n} /\ n \notin Ids
      /\ \A i \in Ids : said'[i] = said[i]
      /\ said'[n] = [epoch |-> epoch, here |-> here]
      /\ Range(inbox') = Range(inbox) \union {[kind |-> "message", of |-> n]}
  BY SayOK
<1>2. Ids = 1..(n - 1) /\ n \in Nat
  BY <1>1 DEF Ids
<1> HIDE DEF n
<1>3. (\A i \in Ids : said[i].epoch <= epoch)'
  <2>1. epoch \in Int
    BY DEF DiscordOK
  <2>2. QED
    BY <1>1, <2>1 DEF FirstWordInv
<1>4. FirstWordIsElsewhere'
  <2> SUFFICES ASSUME NEW i \in Ids', said'[i].here
               PROVE  \E j \in 1..(i - 1) : /\ ~said'[j].here
                                            /\ said'[j].epoch = said'[i].epoch
    BY DEF FirstWordIsElsewhere
  <2>1. CASE i \in Ids
    <3>1. PICK j \in 1..(i - 1) : ~said[j].here /\ said[j].epoch = said[i].epoch
      BY <1>1, <2>1 DEF FirstWordInv, FirstWordIsElsewhere
    <3>2. j \in Ids
      BY <1>2, <2>1, <3>1
    <3>3. QED
      BY <1>1, <2>1, <3>1, <3>2
  <2>2. CASE i = n
    <3>1. PICK j \in Ids : ~said[j].here /\ said[j].epoch = epoch
      BY <1>1, <2>2 DEF Spoke
    <3>2. QED
      BY <1>1, <1>2, <2>2, <3>1
  <2>3. QED
    BY <1>1, <2>1, <2>2
<1>5. Spoke => Spoke'
  BY <1>1 DEF Spoke
<1>6. (\A d \in Range(inbox) : Announced(d))'
  <2> SUFFICES ASSUME NEW d \in Range(inbox') PROVE Announced(d)'
    OBVIOUS
  <2>1. CASE d \in Range(inbox)
    <3>1. d.kind = "message" => d.of \in Ids
      BY <2>1 DEF InboxOK
    <3>2. QED
      BY <1>1, <2>1, <3>1 DEF FirstWordInv, Announced
  <2>2. CASE d = [kind |-> "message", of |-> n]
    BY <1>1, <2>2 DEF Announced
  <2>3. QED
    BY <1>1, <2>1, <2>2
<1>7. QED
  BY <1>1, <1>3, <1>4, <1>5, <1>6

\* At first nothing was sent from here.
LEMMA FirstWordInit == Init => FirstWordInv
<1> SUFFICES ASSUME Init PROVE FirstWordInv
  OBVIOUS
<1>1. \A i \in Ids : said[i].epoch = 1 /\ ~said[i].here
  BY DEF Init, Ids
<1>2. epoch = 1 /\ member /\ ~spoken /\ ~registered
  BY DEF Init
<1>3. (\A c \in Check : check[c].pc = "idle")
      /\ \A s \in Send : send[s].pc = "idle"
  BY DEF Init, NoCheck, NoSend
<1>4. \A d \in Range(inbox) : Announced(d)
  <2> DEFINE first == [kind |-> "create", of |-> 1]
  <2>1. first \in Dispatch /\ inbox = <<first>>
    BY DEF Init, Dispatch
  <2> HIDE DEF first
  <2>2. Range(inbox) = {first}
    BY <2>1, RangeOfOne
  <2>3. Announced(first)
    BY <1>2 DEF first, Announced
  <2>4. QED
    BY <2>2, <2>3
<1>5. QED
  BY <1>1, <1>2, <1>3, <1>4
     DEF FirstWordInv, FirstWordIsElsewhere, SpokeBefore, Sought, Forgotten

\* A dispatch that is handled, and what it leaves waiting.
LEMMA Handled ==
    ASSUME InboxOK, FirstWordInv, inbox # <<>>, inbox' = Tail(inbox),
           UNCHANGED discord
    PROVE  /\ Announced(Head(inbox))
           /\ (\A d \in Range(inbox) : Announced(d))'
           /\ Head(inbox).kind # "delete" /\ (\E d \in Range(inbox) : d.kind = "delete")
                 => (\E d \in Range(inbox) : d.kind = "delete")'
<1>1. /\ Head(inbox) \in Range(inbox) /\ Range(Tail(inbox)) \subseteq Range(inbox)
      /\ \A d \in Range(inbox) : d = Head(inbox) \/ d \in Range(Tail(inbox))
  BY RangeOfTail DEF InboxOK
<1>2. QED
  BY <1>1 DEF FirstWordInv, Announced, discord

\* What does not touch words, dispatches, memberships and searches keeps the
\* invariant if it opens the lock only on a word.
LEMMA Untouched ==
    ASSUME FirstWordInv, UNCHANGED <<discord, inbox, joined, registered>>,
           spoken' = spoken \/ (Spoke /\ member),
           \A s \in Send : send'[s].pc # "idle" => Spoke,
           (\A c \in Check : Sought(c))'
    PROVE  FirstWordInv'
<1>1. /\ (\A i \in Ids : said[i].epoch <= epoch)' /\ FirstWordIsElsewhere'
      /\ Spoke' = Spoke
  BY NothingSaid
<1>2. SpokeBefore'
  BY <1>1 DEF FirstWordInv, SpokeBefore
<1>3. (\A d \in Range(inbox) : Announced(d))'
  BY DEF FirstWordInv, Announced, discord
<1>4. Forgotten'
  BY DEF FirstWordInv, Forgotten, discord
<1>5. (registered => joined = epoch)'
  BY DEF FirstWordInv, discord
<1>6. QED
  BY <1>1, <1>2, <1>3, <1>4, <1>5 DEF FirstWordInv

\* The search's part of the invariant, where no task takes a step.
LEMMA SoughtStays ==
    ASSUME FirstWordInv, UNCHANGED <<discord, joined, check>>
    PROVE  (\A c \in Check : Sought(c))'
<1>1. Spoke' = Spoke
  BY NothingSaid
<1>2. QED
  BY <1>1 DEF FirstWordInv, Sought, discord

\* A step of the account, at Discord.
LEMMA FirstWordDiscord ==
    ASSUME Types, FirstWordInv, ~MayHurry, Leave \/ Join \/ SayElsewhere
    PROVE  FirstWordInv'
<1>1. CASE Leave
  <2> DEFINE gone == [kind |-> "delete", of |-> epoch]
  <2>1. gone \in Dispatch
    BY DEF Dispatch, Types, DiscordOK
  <2>2. Range(inbox') = Range(inbox) \union {gone}
    BY <1>1, <2>1, RangeOfAppend DEF Leave, Types, InboxOK
  <2>3. /\ UNCHANGED <<epoch, said, registered, joined, spoken, check, send>>
        /\ ~member' /\ ~Looking /\ Ids' = Ids
    BY <1>1 DEF Leave, guard, Ids
  <2>4. FirstWordIsElsewhere' /\ Spoke' = Spoke
    BY <2>3 DEF FirstWordInv, FirstWordIsElsewhere, Spoke
  <2>5. (\A d \in Range(inbox) : Announced(d))'
    BY <2>2, <2>3 DEF FirstWordInv, Announced, Looking
  <2>6. (\A c \in Check : Sought(c))'
    BY <2>3 DEF Looking, Sought
  <2>7. Forgotten'
    <3>1. gone \in Range(inbox') /\ gone.kind = "delete"
      BY <2>2
    <3>2. QED
      BY <3>1 DEF Forgotten
  <2>8. QED
    BY <2>3, <2>4, <2>5, <2>6, <2>7 DEF FirstWordInv, SpokeBefore
<1>2. CASE Join
  <2> DEFINE new == [kind |-> "create", of |-> epoch + 1]
  <2>1. new \in Dispatch
    BY <1>2 DEF Join, Dispatch, Types, DiscordOK
  <2>2. Range(inbox') = Range(inbox) \union {new}
    BY <1>2, <2>1, RangeOfAppend DEF Join, Types, InboxOK
  <2>3. /\ UNCHANGED <<said, registered, joined, spoken, check, send>>
        /\ ~member /\ member' /\ epoch' = epoch + 1 /\ Quiet /\ Ids' = Ids
    BY <1>2 DEF Join, guard, Ids
  <2>4. Range(inbox) = {}
    BY <2>3, RangeOfOne DEF Quiet
  <2>5. ~spoken /\ ~registered
    BY <2>3, <2>4 DEF FirstWordInv, Forgotten
  <2>6. FirstWordIsElsewhere'
    BY <2>3 DEF FirstWordInv, FirstWordIsElsewhere
  <2>7. (\A i \in Ids : said[i].epoch <= epoch)'
    <3>1. epoch \in Int
      BY DEF Types, DiscordOK
    <3>2. \A i \in Ids : said[i].epoch \in Int
      <4>1. \A i \in Ids : said[i] \in Message
        BY DEF Types, DiscordOK, Ids
      <4>2. QED
        BY <4>1 DEF Message
    <3>3. QED
      BY <2>3, <3>1, <3>2 DEF FirstWordInv
  <2>8. (\A d \in Range(inbox) : Announced(d))'
    BY <2>2, <2>3, <2>4 DEF Announced
  <2>9. (\A c \in Check : Sought(c))' /\ SpokeBefore' /\ Forgotten'
    BY <2>3, <2>5 DEF Quiet, Looking, Sought, SpokeBefore, Forgotten
  <2>10. QED
    BY <2>3, <2>5, <2>6, <2>7, <2>8, <2>9 DEF FirstWordInv
<1>3. CASE SayElsewhere
  <2>1. /\ (\A i \in Ids : said[i].epoch <= epoch)' /\ FirstWordIsElsewhere'
        /\ Spoke => Spoke'
        /\ (\A d \in Range(inbox) : Announced(d))'
    BY <1>3, SomethingSaid DEF SayElsewhere, Types
  <2>2. /\ UNCHANGED <<member, epoch, registered, joined, spoken, check, send>>
        /\ member
    BY <1>3 DEF SayElsewhere, guard
  <2>3. SpokeBefore' /\ (\A c \in Check : Sought(c))' /\ Forgotten'
    BY <2>1, <2>2 DEF FirstWordInv, SpokeBefore, Sought, Forgotten
  <2>4. (registered => joined = epoch)'
    BY <2>2 DEF FirstWordInv
  <2>5. QED
    BY <2>1, <2>3, <2>4 DEF FirstWordInv
<1>4. QED
  BY <1>1, <1>2, <1>3

\* A dispatch is handled.
LEMMA FirstWordGateway ==
    ASSUME Types, FirstWordInv, Gateway
    PROVE  FirstWordInv'
<1>1. CASE GuildCreate
  <2>1. /\ inbox # <<>> /\ inbox' = Tail(inbox) /\ UNCHANGED <<discord, send>>
        /\ Head(inbox).kind = "create" /\ registered'
        /\ joined' = Head(inbox).of /\ spoken' = spoken
    BY <1>1 DEF GuildCreate, OpenGuild
  <2>2. /\ (\A i \in Ids : said[i].epoch <= epoch)' /\ FirstWordIsElsewhere'
        /\ Spoke' = Spoke /\ (\A d \in Range(inbox) : Announced(d))'
        /\ member /\ joined' = epoch
    BY <2>1, NothingSaid, Handled DEF Types, Announced
  <2>3. (\A c \in Check : Sought(c))'
    <3> SUFFICES ASSUME NEW c \in Check PROVE Sought(c)'
      OBVIOUS
    <3>1. check'[c] = check[c] \/ check'[c].pc = "asleep"
      BY <1>1 DEF GuildCreate, OpenGuild, Types, CheckOK
    <3>2. QED
      BY <2>1, <2>2, <3>1 DEF FirstWordInv, Sought, discord
  <2>4. SpokeBefore' /\ Forgotten' /\ (registered => joined = epoch)'
    BY <2>1, <2>2 DEF FirstWordInv, SpokeBefore, Forgotten, discord
  <2>5. QED
    BY <2>2, <2>3, <2>4 DEF FirstWordInv
<1>2. CASE GuildDelete
  <2>1. /\ inbox # <<>> /\ inbox' = Tail(inbox) /\ UNCHANGED <<discord, check, send>>
        /\ Head(inbox).kind = "delete" /\ ~registered' /\ ~spoken'
    BY <1>2 DEF GuildDelete, ForgetGuild
  <2>2. /\ (\A i \in Ids : said[i].epoch <= epoch)' /\ FirstWordIsElsewhere'
        /\ Spoke' = Spoke /\ (\A d \in Range(inbox) : Announced(d))'
        /\ ~member
    BY <2>1, NothingSaid, Handled DEF Types, Announced
  <2>3. (\A c \in Check : Sought(c))'
    BY <2>1, <2>2 DEF FirstWordInv, Sought
  <2>4. SpokeBefore' /\ Forgotten' /\ (registered => joined = epoch)'
    BY <2>1, <2>2 DEF FirstWordInv, SpokeBefore, Forgotten
  <2>5. QED
    BY <2>2, <2>3, <2>4 DEF FirstWordInv
<1>3. CASE MessageCreate
  <2>1. /\ inbox # <<>> /\ inbox' = Tail(inbox)
        /\ UNCHANGED <<discord, registered, joined, check, send>>
        /\ Head(inbox).kind = "message"
        /\ spoken' = spoken \/ registered
    BY <1>3 DEF MessageCreate
  <2>2. /\ (\A i \in Ids : said[i].epoch <= epoch)' /\ FirstWordIsElsewhere'
        /\ Spoke' = Spoke /\ (\A d \in Range(inbox) : Announced(d))'
        /\ said[Head(inbox).of].epoch = epoch
        /\ (\E d \in Range(inbox) : d.kind = "delete")
              => (\E d \in Range(inbox) : d.kind = "delete")'
    BY <2>1, NothingSaid, Handled DEF Types, Announced
  <2>3. (\A c \in Check : Sought(c))'
    BY <2>1, SoughtStays
  <2>4. SpokeBefore'
    <3>1. Head(inbox).of \in Ids
      BY <2>1, HandleOK DEF Types, discord
    <3>2. Spoke
      BY <2>2, <3>1, OwnWordShows DEF Types, FirstWordInv
    <3>3. QED
      BY <2>1, <2>2, <3>2 DEF FirstWordInv, SpokeBefore
  <2>5. Forgotten'
    BY <2>1, <2>2 DEF FirstWordInv, Forgotten, discord
  <2>6. (registered => joined = epoch)'
    BY <2>1 DEF FirstWordInv, discord
  <2>7. QED
    BY <2>2, <2>3, <2>4, <2>5, <2>6 DEF FirstWordInv
<1>4. QED
  BY <1>1, <1>2, <1>3 DEF Gateway

\* A task looks whether the account has spoken.
LEMMA FirstWordCheck ==
    ASSUME Types, FirstWordInv, NEW c \in Check, CheckStep(c)
    PROVE  FirstWordInv'
<1>1. /\ UNCHANGED <<discord, inbox, joined, registered, send>>
      /\ Spoke' = Spoke
      /\ \A s \in Send : send'[s].pc # "idle" => Spoke
  <2>1. UNCHANGED <<discord, inbox, joined, registered, send>>
    BY DEF CheckStep, LookHere, TakeSearchTurn, Search, Conclude, GiveTurn, guard
  <2>2. QED
    BY <2>1, NothingSaid DEF FirstWordInv, SpokeBefore
<1>2. ASSUME NEW d \in Check, check'[d] = check[d] PROVE Sought(d)'
  BY <1>1, <1>2 DEF FirstWordInv, Sought, discord
<1>3. ASSUME NEW ids \in SUBSET Ids, FirstWords(ids, epoch) # {} PROVE Spoke
  <2>1. PICK i \in Ids : said[i].epoch >= epoch
    BY <1>3 DEF FirstWords
  <2>2. said[i].epoch = epoch
    <3>1. said[i].epoch <= epoch /\ epoch \in Int /\ said[i] \in Message
      BY DEF FirstWordInv, Types, DiscordOK, Ids
    <3>2. said[i].epoch \in Int
      BY <3>1 DEF Message
    <3>3. QED
      BY <2>1, <3>1, <3>2
  <2>3. QED
    BY <2>2, OwnWordShows DEF Types, FirstWordInv
<1>4. check \in [Check -> [pc : {"idle", "asleep", "queued", "turn", "told",
                                "apart"},
                          since : 0..MaxEpoch, found : BOOLEAN]]
  BY DEF Types, CheckOK
<1>5. Sought(c)
  BY DEF FirstWordInv
<1>6. CASE LookHere(c)
  <2>1. check[c].pc = "asleep" /\ member /\ joined = epoch
    BY <1>5, <1>6 DEF LookHere, Sought
  <2>2. spoken' = spoken \/ (Spoke /\ member)
    BY <1>3, <1>6, <2>1 DEF LookHere, Types, KnownOK
  <2>3. (\A d \in Check : Sought(d))'
    <3>1. /\ \A d \in Check \ {c} : check'[d] = check[d]
          /\ \/ check'[c].pc = "idle"
             \/ check'[c].pc = "queued" /\ check'[c].since = joined
      <4>1. CASE check' = [check EXCEPT ![c] = NoCheck]
        BY <1>4, <4>1 DEF NoCheck
      <4>2. CASE check' = [check EXCEPT ![c] = [@ EXCEPT !.pc = "queued",
                                                         !.since = joined]]
        BY <1>4, <4>2
      <4>3. QED
        BY <1>6, <4>1, <4>2 DEF LookHere
    <3>2. Sought(c)'
      BY <1>1, <2>1, <3>1 DEF Sought, discord
    <3>3. QED
      BY <1>2, <3>1, <3>2
  <2>4. QED
    BY <1>1, <2>2, <2>3, Untouched
<1>7. CASE TakeSearchTurn(c)
  <2>1. /\ \A d \in Check \ {c} : check'[d] = check[d]
        /\ check'[c].pc = "turn" /\ check'[c].since = check[c].since
        /\ check[c].pc = "queued" /\ spoken' = spoken
    BY <1>4, <1>7 DEF TakeSearchTurn, guard
  <2>2. Sought(c)'
    BY <1>1, <1>5, <2>1 DEF Sought, discord
  <2>3. (\A d \in Check : Sought(d))'
    BY <1>2, <2>1, <2>2
  <2>4. QED
    BY <1>1, <2>1, <2>3, Untouched
<1>8. CASE Search(c)
  <2>1. PICK found \in {FALSE, member /\ FirstWords(Ids, check[c].since) # {}} :
           check' = [check EXCEPT ![c] = [@ EXCEPT !.pc = "told",
                                                   !.found = found]]
    BY <1>8 DEF Search
  <2>2. /\ \A d \in Check \ {c} : check'[d] = check[d]
        /\ check'[c].pc = "told" /\ check'[c].since = check[c].since
        /\ check'[c].found = found
        /\ check[c].pc = "turn" /\ spoken' = spoken
    BY <1>4, <1>8, <2>1 DEF Search, guard
  <2>3. check[c].since = epoch /\ joined = epoch /\ member
    BY <1>5, <2>2 DEF Sought
  <2>4. found => Spoke
    BY <1>3, <2>1, <2>3
  <2>5. Sought(c)'
    BY <1>1, <2>2, <2>3, <2>4 DEF Sought, discord
  <2>6. (\A d \in Check : Sought(d))'
    BY <1>2, <2>2, <2>5
  <2>7. QED
    BY <1>1, <2>2, <2>6, Untouched
<1>9. CASE Conclude(c)
  <2>1. /\ \A d \in Check \ {c} : check'[d] = check[d]
        /\ check'[c].pc = "apart" /\ check[c].pc = "told"
    BY <1>4, <1>9 DEF Conclude
  <2>2. spoken' = spoken \/ (Spoke /\ member)
    BY <1>5, <1>9 DEF Conclude, NotFound, Sought
  <2>3. Sought(c)'
    BY <1>1, <1>5, <2>1 DEF Sought, discord
  <2>4. (\A d \in Check : Sought(d))'
    BY <1>2, <2>1, <2>3
  <2>5. QED
    BY <1>1, <2>2, <2>4, Untouched
<1>10. CASE GiveTurn(c)
  <2>1. /\ \A d \in Check \ {c} : check'[d] = check[d]
        /\ check'[c].pc = "idle" /\ spoken' = spoken
    BY <1>4, <1>10 DEF GiveTurn, NoCheck, guard
  <2>2. Sought(c)'
    BY <2>1 DEF Sought
  <2>3. (\A d \in Check : Sought(d))'
    BY <1>2, <2>1, <2>2
  <2>4. QED
    BY <1>1, <2>1, <2>3, Untouched
<1>11. QED
  BY <1>6, <1>7, <1>8, <1>9, <1>10 DEF CheckStep

\* The lock is asked, and a message goes out or does not.
LEMMA FirstWordSend ==
    ASSUME Types, FirstWordInv, NEW s \in Send, Ask(s) \/ SendStep(s)
    PROVE  FirstWordInv'
<1>1. send \in [Send -> [pc : {"idle", "waits", "turn", "answered"},
                        id : 0..MaxWord]]
  BY DEF Types, SendOK
<1>2. \A t \in Send : send[t].pc # "idle" => Spoke
  BY DEF FirstWordInv, SpokeBefore
<1>3. CASE Ask(s)
  <2>1. UNCHANGED <<discord, inbox, joined, registered, spoken, check>>
    BY <1>3 DEF Ask, guard
  <2>2. Spoke
    <3>1. spoken
      BY <1>3, Zenon DEF Ask, LockOf, Types, GuardOK
    <3>2. QED
      BY <3>1 DEF FirstWordInv, SpokeBefore
  <2>3. QED
    BY <2>1, <2>2, SoughtStays, Untouched
<1>4. CASE Accepted(s)
  <2>1. /\ Spoke /\ member
        /\ UNCHANGED <<member, epoch, registered, joined, spoken, check>>
    BY <1>2, <1>4 DEF Accepted
  <2>2. /\ (\A i \in Ids : said[i].epoch <= epoch)' /\ FirstWordIsElsewhere'
        /\ Spoke => Spoke'
        /\ (\A d \in Range(inbox) : Announced(d))'
    BY <1>4, <2>1, SomethingSaid DEF Accepted, Types
  <2>3. SpokeBefore' /\ (\A c \in Check : Sought(c))' /\ Forgotten'
    BY <2>1, <2>2 DEF FirstWordInv, SpokeBefore, Sought, Forgotten
  <2>4. (registered => joined = epoch)'
    BY <2>1 DEF FirstWordInv
  <2>5. QED
    BY <2>2, <2>3, <2>4 DEF FirstWordInv
<1>5. CASE TakeTurn(s) \/ AskedForCaptcha(s) \/ Refused(s) \/ NoteSent(s)
  <2>1. UNCHANGED <<discord, inbox, joined, registered, spoken, check>>
    BY <1>5 DEF TakeTurn, AskedForCaptcha, Refused, NoteSent, guard
  <2>2. \A t \in Send : send'[t].pc # "idle" => send[t].pc # "idle"
    BY <1>1, <1>5 DEF TakeTurn, AskedForCaptcha, Refused, NoteSent, NoSend
  <2>3. QED
    BY <1>2, <2>1, <2>2, SoughtStays, Untouched
<1>6. QED
  BY <1>3, <1>4, <1>5 DEF SendStep

\* The daemon starts again while no dispatch about a departure waits.
LEMMA FirstWordRestart ==
    ASSUME Types, FirstWordInv, ~MayHurry, Restart
    PROVE  FirstWordInv'
<1>1. /\ UNCHANGED discord
      /\ ~\E d \in Range(inbox) : d.kind = "delete"
      /\ ~registered'
      /\ spoken' => spoken
  BY DEF Restart
<1>2. /\ (\A i \in Ids : said[i].epoch <= epoch)' /\ FirstWordIsElsewhere'
      /\ Spoke' = Spoke
  BY <1>1, NothingSaid
<1>3. (\A c \in Check : Sought(c))' /\ SpokeBefore'
  <2>1. (\A c \in Check : check'[c].pc = "idle")
        /\ \A s \in Send : send'[s].pc = "idle"
    BY DEF Restart, NoCheck, NoSend
  <2>2. QED
    BY <1>1, <1>2, <2>1 DEF FirstWordInv, SpokeBefore, Sought
<1>4. (\A d \in Range(inbox) : Announced(d))'
  <2>1. CASE ~registered
    BY <1>1, <2>1 DEF Restart, FirstWordInv, Announced, discord
  <2>2. CASE registered
    <3>1. joined = epoch /\ member
      BY <1>1, <2>2 DEF FirstWordInv, Forgotten
    <3>2. \A d \in Range(inbox') :
             \/ d \in Range(inbox)
             \/ d = [kind |-> "create", of |-> joined]
             \/ d.kind = "message" /\ d.of \in Newest
      BY <2>2, RestartOK DEF Types
    <3>3. \A i \in Newest : said[i].epoch = epoch
      BY <3>1 DEF Newest
    <3> SUFFICES ASSUME NEW d \in Range(inbox') PROVE Announced(d)'
      OBVIOUS
    <3>4. CASE d \in Range(inbox)
      BY <1>1, <3>4 DEF FirstWordInv, Announced, discord
    <3>5. CASE d = [kind |-> "create", of |-> joined]
      BY <1>1, <3>1, <3>5 DEF Announced, discord
    <3>6. CASE d.kind = "message" /\ d.of \in Newest
      BY <1>1, <3>3, <3>6 DEF Announced, discord
    <3>7. QED
      BY <3>2, <3>4, <3>5, <3>6
  <2>3. QED
    BY <2>1, <2>2
<1>5. Forgotten'
  BY <1>1 DEF FirstWordInv, Forgotten, discord
<1>6. (registered => joined = epoch)'
  BY <1>1
<1>7. QED
  BY <1>2, <1>3, <1>4, <1>5, <1>6 DEF FirstWordInv

\* Every step keeps the invariant.
LEMMA FirstWordStep ==
    ASSUME ~MayHurry, ~MayMiss
    PROVE  Types /\ FirstWordInv /\ [Next]_vars => FirstWordInv'
<1> SUFFICES ASSUME Types, FirstWordInv, [Next]_vars PROVE FirstWordInv'
  OBVIOUS
<1>1. CASE SetReadOnly \/ CaptchaLapses \/ UNCHANGED vars
  <2>1. UNCHANGED <<discord, inbox, joined, registered, spoken, check, send>>
    BY <1>1 DEF SetReadOnly, CaptchaLapses, vars, guard
  <2>2. QED
    BY <2>1, SoughtStays, Untouched DEF FirstWordInv, SpokeBefore
<1>2. CASE Identify
  <2>1. /\ UNCHANGED <<discord, joined, registered, spoken, check, send>>
        /\ inbox = <<>>
    BY <1>2 DEF Identify, guard
  <2>2. ~member => ~spoken /\ ~registered
    BY <2>1, RangeOfOne DEF FirstWordInv, Forgotten
  <2>3. /\ (\A i \in Ids : said[i].epoch <= epoch)' /\ FirstWordIsElsewhere'
        /\ Spoke' = Spoke
    BY <2>1, NothingSaid
  <2>4. (\A d \in Range(inbox) : Announced(d))'
    <3> DEFINE new == [kind |-> "create", of |-> epoch]
    <3>1. new \in Dispatch
      BY DEF Dispatch, Types, DiscordOK
    <3>2. inbox' = IF member THEN <<new>> ELSE <<>>
      BY <1>2 DEF Identify
    <3>3. new.kind = "create" /\ new.of = epoch
      OBVIOUS
    <3> HIDE DEF new
    <3>4. Range(inbox') = IF member THEN {new} ELSE {}
      BY <3>1, <3>2, RangeOfOne
    <3>5. QED
      BY <2>1, <3>3, <3>4 DEF Announced, discord
  <2>5. (\A c \in Check : Sought(c))'
    BY <2>1, SoughtStays
  <2>6. SpokeBefore' /\ Forgotten' /\ (registered => joined = epoch)'
    BY <2>1, <2>2, <2>3 DEF FirstWordInv, SpokeBefore, Forgotten, discord
  <2>7. QED
    BY <2>3, <2>4, <2>5, <2>6 DEF FirstWordInv
<1>3. QED
  BY <1>1, <1>2, FirstWordDiscord, FirstWordGateway, FirstWordCheck,
     FirstWordSend, FirstWordRestart DEF Next

\* This client never says the first word: whatever it sent to the server, the
\* account had said something there from elsewhere since it joined, provided
\* that no server is left or joined in the middle of something, and that what
\* waits is handled before a fresh login.
THEOREM FirstWord ==
    ASSUME ~MayHurry, ~MayMiss
    PROVE  Spec => []FirstWordIsElsewhere
<1>1. Init => Types /\ FirstWordInv
  BY TypesInit, FirstWordInit
<1>2. (Types /\ FirstWordInv) /\ [Next]_vars => (Types /\ FirstWordInv)'
  BY TypesStep, FirstWordStep
<1>3. FirstWordInv => FirstWordIsElsewhere
  BY DEF FirstWordInv
<1>4. QED
  BY <1>1, <1>2, <1>3, PTL DEF Spec

-----------------------------------------------------------------------------
(* What is shown, where the reason is set as soon as it is worked out.      *)

ShownInv == late = {} /\ ShownIsTrue

\* Looking again shows the lock there is.
LEMMA ReapplyShows ==
    ASSUME ~MayCross, WindowOK, ShownInv, NEW a, NEW b, NEW c, Reapply(a, b, c),
           registered' = registered
    PROVE  late' = {} /\ (registered' => shown' = LockOf(a, b, c))
BY DEF Reapply, Show, window, WindowOK, ShownInv

\* Nothing that is shown changes.
LEMMA LockStays ==
    ASSUME ShownInv, UNCHANGED <<window, registered, spoken, checking, held>>
    PROVE  ShownInv'
BY DEF ShownInv, ShownIsTrue, window, LockOf

\* The account turns out to have spoken, whatever is left of a captcha.
LEMMA SpokeShows ==
    ASSUME ~MayCross, Types, ShownInv, SpokeInGuild(held'),
           held' = held \/ ~held', registered' = registered
    PROVE  ShownInv'
<1> DEFINE now == held'
<1>1. SpokeInGuild(now) /\ (held' <=> now)
  OBVIOUS
<1> HIDE DEF now
<1>2. CASE ~spoken \/ checking
  <2>1. late' = {} /\ (registered' => shown' = LockOf(TRUE, FALSE, now))
    BY <1>1, <1>2, ReapplyShows DEF SpokeInGuild, Types
  <2>2. spoken' = TRUE /\ checking' = FALSE
    BY <1>1 DEF SpokeInGuild
  <2>3. LockOf(TRUE, FALSE, now) = LockOf(spoken', checking', held')
    BY <1>1, <2>2, Zenon DEF LockOf
  <2>4. QED
    BY <2>1, <2>3 DEF ShownInv, ShownIsTrue
<1>3. CASE spoken /\ ~checking
  <2>1. UNCHANGED <<shown, late>> /\ spoken' = TRUE /\ checking' = FALSE
    BY <1>1, <1>3 DEF SpokeInGuild, window
  <2>2. LockOf(spoken, checking, held) = IF held THEN "captcha" ELSE "open"
    BY <1>3, Zenon DEF LockOf
  <2>3. LockOf(spoken', checking', held') = IF held' THEN "captcha" ELSE "open"
    BY <2>1, Zenon DEF LockOf
  <2>4. QED
    BY <2>1, <2>2, <2>3 DEF ShownInv, ShownIsTrue
<1>4. QED
  BY <1>2, <1>3 DEF Types, GuardOK

\* Every step keeps it.
LEMMA ShownStep ==
    ASSUME ~MayCross
    PROVE  Types /\ ShownInv /\ [Next]_vars => ShownInv'
<1> SUFFICES ASSUME Types, ShownInv, [Next]_vars PROVE ShownInv'
  OBVIOUS
<1>1. CASE Leave \/ Join \/ SayElsewhere \/ Identify \/ UNCHANGED vars
  BY <1>1, LockStays DEF Leave, Join, SayElsewhere, Identify, vars, guard
<1>2. CASE GuildCreate
  <2> DEFINE look == checking \/ StartsCheck
  <2>1. /\ spoken' = spoken /\ held' = held /\ checking' = look
        /\ late' = {} /\ shown' = LockOf(spoken, look, held)
    BY <1>2 DEF GuildCreate, OpenGuild, Show, ShownInv
  <2> HIDE DEF look
  <2>2. QED
    BY <2>1 DEF ShownInv, ShownIsTrue, LockOf
<1>3. CASE GuildDelete
  BY <1>3 DEF GuildDelete, ShownInv, ShownIsTrue
<1>4. CASE MessageCreate
  <2>1. registered' = registered
    BY <1>4 DEF MessageCreate
  <2>2. CASE UNCHANGED <<spoken, checking, held, window>>
    BY <2>1, <2>2, LockStays
  <2>3. CASE held' = FALSE /\ SpokeInGuild(FALSE)
    BY <2>1, <2>3, SpokeShows
  <2>4. QED
    BY <1>4, <2>2, <2>3 DEF MessageCreate, Heard
<1>5. CASE SetReadOnly
  BY <1>5 DEF SetReadOnly, guard, ShownInv, ShownIsTrue, LockOf
<1>6. ASSUME NEW c \in Check, CheckStep(c) PROVE ShownInv'
  <2>1. registered' = registered /\ held' = held
    BY <1>6 DEF CheckStep, LookHere, TakeSearchTurn, Search, Conclude, GiveTurn,
                guard
  <2>2. CASE UNCHANGED <<spoken, checking, window>>
    BY <2>1, <2>2, LockStays
  <2>3. CASE SpokeInGuild(held)
    BY <2>1, <2>3, SpokeShows
  <2>4. CASE NotFound
    <3>1. late' = {} /\ (registered' => shown' = LockOf(spoken, FALSE, held))
      BY <2>1, <2>4, ReapplyShows DEF NotFound, Types
    <3>2. QED
      BY <2>1, <2>4, <3>1 DEF NotFound, ShownInv, ShownIsTrue, LockOf
  <2>5. QED
    BY <1>6, <2>2, <2>3, <2>4
       DEF CheckStep, LookHere, TakeSearchTurn, Search, Conclude, GiveTurn, guard
<1>7. ASSUME NEW s \in Send, Ask(s) \/ SendStep(s) PROVE ShownInv'
  <2>1. CASE AskedForCaptcha(s)
    <3>1. late' = {} /\ (registered' => shown' = LockOf(spoken, checking, TRUE))
      BY <2>1, ReapplyShows DEF AskedForCaptcha, Types
    <3>2. spoken' = spoken /\ checking' = checking /\ held' = TRUE
      BY <2>1 DEF AskedForCaptcha
    <3>3. QED
      BY <3>1, <3>2 DEF ShownInv, ShownIsTrue
  <2>2. CASE Ask(s) \/ TakeTurn(s) \/ Accepted(s) \/ Refused(s) \/ NoteSent(s)
    BY <2>2, LockStays DEF Ask, TakeTurn, Accepted, Refused, NoteSent, guard
  <2>3. QED
    BY <1>7, <2>1, <2>2 DEF SendStep
<1>8. CASE CaptchaLapses
  <2>1. UNCHANGED <<window, registered, spoken, checking>> /\ held /\ ~held'
    BY <1>8 DEF CaptchaLapses
  <2>2. LockOf(spoken, checking, held) = "captcha"
    BY <2>1, Zenon DEF LockOf
  <2>3. QED
    BY <2>1, <2>2 DEF window, ShownInv, ShownIsTrue
<1>9. CASE Restart
  BY <1>9 DEF Restart, ShownInv, ShownIsTrue
<1>10. QED
  BY <1>1, <1>2, <1>3, <1>4, <1>5, <1>6, <1>7, <1>8, <1>9 DEF Next, Gateway

\* A conversation says what its lock is, or of a captcha that it is there when
\* it has ended, whichever task changed the lock last.
THEOREM WhatIsShown ==
    ASSUME ~MayCross
    PROVE  Spec => []ShownIsTrue
<1>1. Init => Types /\ ShownInv
  BY TypesInit DEF Init, ShownInv, ShownIsTrue
<1>2. (Types /\ ShownInv) /\ [Next]_vars => (Types /\ ShownInv)'
  BY TypesStep, ShownStep
<1>3. ShownInv => ShownIsTrue
  BY DEF ShownInv
<1>4. QED
  BY <1>1, <1>2, <1>3, PTL DEF Spec

=============================================================================
