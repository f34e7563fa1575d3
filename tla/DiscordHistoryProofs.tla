------------------------ MODULE DiscordHistoryProofs ------------------------
(***************************************************************************)
(* Proofs about DiscordHistory for any number of messages, page sizes and  *)
(* tasks: its types, that a conversation's place is held exactly while a   *)
(* read that takes it runs, that a message is announced as new once, and   *)
(* that older ones stop being asked for only at the conversation's start.  *)
(***************************************************************************)
EXTENDS DiscordHistory, FiniteSetTheorems, TLAPS

USE MaxIdAssumption, BlankAssumption, PagesAssumption

\* What Discord and the session are at.
StreamOK ==
    /\ top \in 0..MaxId
    /\ gone \subseteq 1..MaxId
    /\ dels \subseteq gone
    /\ base \in 0..MaxId
    /\ pos \in base..top

\* What is kept and announced.
KeptOK ==
    /\ stored \subseteq Ids
    /\ told \in [Ids -> 0..2]

\* What was asked about, and the place in the queue of reads.
AskedOK ==
    /\ caughtUp \in BOOLEAN
    /\ exhausted \in BOOLEAN
    /\ failed \in BOOLEAN
    /\ fetching \in BOOLEAN
    /\ newestIn \in 0..MaxId

\* What the tasks read.
Kinds == {"none", "first", "refill", "before", "after", "newer", "around"}
Reads == [kind : Kinds, from : 0..MaxId, page : SUBSET Ids,
          at : {"idle", "asked", "answered"}]
ReadOK ==
    /\ read \in [Reader -> Reads]
    /\ \A r \in Reader : read[r].kind = "none" <=> read[r].at = "idle"

\* The type invariant in its parts.
LEMMA TypeParts == TypeOK <=> StreamOK /\ KeptOK /\ AskedOK /\ ReadOK
BY DEF TypeOK, StreamOK, KeptOK, AskedOK, ReadOK, Kinds, Reads, Ids

\* The messages a request asks for are messages of the conversation.
LEMMA AsksMessages ==
    ASSUME StreamOK, NEW r \in Reader, ReadOK, read[r].at = "asked"
    PROVE  Asks(read[r].kind, read[r].from) \subseteq Ids
<1>1. Live \subseteq Ids
  BY DEF Live, StreamOK, Ids
<1>2. read[r].kind \in Kinds \ {"none"}
  BY DEF ReadOK, Reads
<1>3. QED
  BY <1>1, <1>2 DEF Asks, Newest, Oldest, Kinds

\* A request is a read.
LEMMA RequestOK ==
    ASSUME ReadOK, NEW r \in Reader, NEW kind \in Kinds \ {"none"},
           NEW from \in 0..MaxId, Request(r, kind, from)
    PROVE  ReadOK'
BY DEF ReadOK, Reads, Request, Kinds

\* So is a catch-up.
LEMMA CatchUpOK ==
    ASSUME ReadOK, KeptOK, NEW r \in Reader, CatchUp(r)
    PROVE  ReadOK'
<1>1. CASE stored = {}
  BY <1>1 DEF CatchUp, ReadOK, reads
<1>2. CASE stored # {}
  <2>1. PICK i \in Newest(stored, 1) : Request(r, "after", i)
    BY <1>2 DEF CatchUp
  <2>2. i \in 0..MaxId
    BY <2>1 DEF Newest, KeptOK, Ids
  <2>3. QED
    BY <2>1, <2>2, RequestOK DEF Kinds
<1>3. QED
  BY <1>1, <1>2

\* The session never runs ahead of Discord.
LEMMA StreamStep ==
    ASSUME StreamOK, [Next]_vars
    PROVE  StreamOK'
<1> USE DEF discord, session, kept, asked, reads, StreamOK
<1>1. CASE DiscordSends
  BY <1>1 DEF DiscordSends
<1>2. CASE DiscordDeletes
  BY <1>2 DEF DiscordDeletes, Live
<1>3. CASE MessageCreate
  BY <1>3 DEF MessageCreate, RecordMessage
<1>4. CASE MessageDelete
  BY <1>4 DEF MessageDelete
<1>5. CASE FreshLogin
  BY <1>5 DEF FreshLogin
<1>6. CASE Restart
  <2>1. PICK p \in base..pos :
           /\ pos' = p
           /\ dels' = dels \cup {i \in gone : i > p}
    BY <1>6 DEF Restart
  <2>2. UNCHANGED <<top, gone, base>>
    BY <1>6 DEF Restart
  <2>3. dels' \subseteq gone'
    <3>1. dels \cup {i \in gone : i > p} \subseteq gone
      OBVIOUS
    <3>2. QED
      BY <2>1, <2>2, <3>1
  <2>4. pos' \in base'..top'
    <3>1. p \in base..top
      BY <2>1
    <3>2. QED
      BY <2>1, <2>2, <3>1
  <2>5. QED
    BY <2>2, <2>3, <2>4
<1>7. CASE CatchUpAges
  BY <1>7 DEF CatchUpAges
<1>8. CASE FailureAges
  BY <1>8 DEF FailureAges
<1>9. CASE Prune
  BY <1>9 DEF Prune, Newest
<1>10. CASE RemoveAndAdd
  BY <1>10 DEF RemoveAndAdd
<1>11. ASSUME NEW r \in Reader, Open(r)
      PROVE  StreamOK'
  BY <1>11 DEF Open, CatchUp, Request, Newest
<1>12. ASSUME NEW r \in Reader, CatchUpAfterReady(r)
      PROVE  StreamOK'
  BY <1>12 DEF CatchUpAfterReady, CatchUp, Request, Newest
<1>13. ASSUME NEW r \in Reader, Scroll(r)
      PROVE  StreamOK'
  BY <1>13 DEF Scroll, Request, Oldest
<1>14. ASSUME NEW r \in Reader, Jump(r)
      PROVE  StreamOK'
  BY <1>14 DEF Jump, Request, Live
<1>15. ASSUME NEW r \in Reader, Answer(r)
      PROVE  StreamOK'
  BY <1>15 DEF Answer
<1>16. ASSUME NEW r \in Reader, Fail(r)
      PROVE  StreamOK'
  BY <1>16 DEF Fail, Ends, Guarded
<1>17. ASSUME NEW r \in Reader, Store(r)
      PROVE  StreamOK'
  BY <1>17 DEF Store, Ends, Guarded, ShortPage
<1>18. CASE UNCHANGED vars
  BY <1>18 DEF vars
<1>19. QED
  BY <1>1, <1>2, <1>3, <1>4, <1>5, <1>6, <1>7, <1>8, <1>9,
     <1>10, <1>11, <1>12, <1>13, <1>14, <1>15, <1>16, <1>17, <1>18
     DEF Next

\* Rows are messages, announced at most twice as counted.
LEMMA KeptStep ==
    ASSUME StreamOK, KeptOK, ReadOK, [Next]_vars
    PROVE  KeptOK'
<1> USE DEF discord, session, kept, asked, reads, StreamOK, KeptOK, Ids
<1>1. CASE DiscordSends
  BY <1>1 DEF DiscordSends
<1>2. CASE DiscordDeletes
  BY <1>2 DEF DiscordDeletes, Live
<1>3. CASE MessageCreate
  <2>1. pos + 1 \in Ids
    BY <1>3 DEF MessageCreate
  <2>2. CASE pos' \in Blank
    BY <1>3, <2>2 DEF MessageCreate
  <2>3. CASE pos' \notin Blank
    <3>1. RecordMessage(pos') /\ pos' = pos + 1
      BY <1>3, <2>3 DEF MessageCreate
    <3>2. stored' \subseteq Ids
      BY <2>1, <3>1 DEF RecordMessage
    <3>3. told' \in [Ids -> 0..2]
      BY <2>1, <3>1 DEF RecordMessage
    <3>4. QED
      BY <3>2, <3>3
  <2>4. QED
    BY <2>2, <2>3
<1>4. CASE MessageDelete
  BY <1>4 DEF MessageDelete
<1>5. CASE FreshLogin
  BY <1>5 DEF FreshLogin
<1>6. CASE Restart
  BY <1>6 DEF Restart
<1>7. CASE CatchUpAges
  BY <1>7 DEF CatchUpAges
<1>8. CASE FailureAges
  BY <1>8 DEF FailureAges
<1>9. CASE Prune
  BY <1>9 DEF Prune, Newest
<1>10. CASE RemoveAndAdd
  BY <1>10 DEF RemoveAndAdd
<1>11. ASSUME NEW r \in Reader, Open(r)
      PROVE  KeptOK'
  BY <1>11 DEF Open, CatchUp, Request, Newest
<1>12. ASSUME NEW r \in Reader, CatchUpAfterReady(r)
      PROVE  KeptOK'
  BY <1>12 DEF CatchUpAfterReady, CatchUp, Request, Newest
<1>13. ASSUME NEW r \in Reader, Scroll(r)
      PROVE  KeptOK'
  BY <1>13 DEF Scroll, Request, Oldest
<1>14. ASSUME NEW r \in Reader, Jump(r)
      PROVE  KeptOK'
  BY <1>14 DEF Jump, Request, Live
<1>15. ASSUME NEW r \in Reader, Answer(r)
      PROVE  KeptOK'
  BY <1>15 DEF Answer
<1>16. ASSUME NEW r \in Reader, Fail(r)
      PROVE  KeptOK'
  BY <1>16 DEF Fail, Ends, Guarded
<1>17. ASSUME NEW r \in Reader, Store(r)
      PROVE  KeptOK'
  <2>1. read[r].page \subseteq Ids
    BY DEF ReadOK, Reads
  <2>2. QED
    BY <1>17, <2>1 DEF Store, Ends
<1>18. CASE UNCHANGED vars
  BY <1>18 DEF vars
<1>19. QED
  BY <1>1, <1>2, <1>3, <1>4, <1>5, <1>6, <1>7, <1>8, <1>9,
     <1>10, <1>11, <1>12, <1>13, <1>14, <1>15, <1>16, <1>17, <1>18
     DEF Next

\* The flags keep their types.
LEMMA AskedStep ==
    ASSUME StreamOK, AskedOK, [Next]_vars
    PROVE  AskedOK'
<1> USE DEF discord, session, kept, asked, reads, StreamOK, AskedOK
<1>1. CASE DiscordSends
  BY <1>1 DEF DiscordSends
<1>2. CASE DiscordDeletes
  BY <1>2 DEF DiscordDeletes, Live
<1>3. CASE MessageCreate
  BY <1>3 DEF MessageCreate, RecordMessage
<1>4. CASE MessageDelete
  BY <1>4 DEF MessageDelete
<1>5. CASE FreshLogin
  BY <1>5 DEF FreshLogin
<1>6. CASE Restart
  <2>1. /\ newestIn' = 0 /\ caughtUp' = FALSE /\ exhausted' = FALSE
        /\ failed' = FALSE /\ fetching' = FALSE
    BY <1>6 DEF Restart
  <2>2. newestIn' \in 0..MaxId
    BY <2>1
  <2>3. QED
    BY <2>1, <2>2, Zenon DEF AskedOK
<1>7. CASE CatchUpAges
  BY <1>7 DEF CatchUpAges
<1>8. CASE FailureAges
  BY <1>8 DEF FailureAges
<1>9. CASE Prune
  BY <1>9 DEF Prune, Newest
<1>10. CASE RemoveAndAdd
  BY <1>10 DEF RemoveAndAdd
<1>11. ASSUME NEW r \in Reader, Open(r)
      PROVE  AskedOK'
  BY <1>11 DEF Open, CatchUp, Request, Newest
<1>12. ASSUME NEW r \in Reader, CatchUpAfterReady(r)
      PROVE  AskedOK'
  <2>1. newestIn' = 0
    BY <1>12 DEF CatchUpAfterReady
  <2>2. CASE CatchUp(r)
    <3>1. caughtUp' = TRUE /\ UNCHANGED <<exhausted, failed>>
      BY <2>2 DEF CatchUp
    <3>2. fetching' \in BOOLEAN
      BY <2>2 DEF CatchUp
    <3>3. QED
      BY <2>1, <3>1, <3>2
  <2>3. CASE UNCHANGED <<caughtUp, exhausted, failed, fetching, read>>
    BY <2>1, <2>3
  <2>4. QED
    BY <1>12, <2>2, <2>3 DEF CatchUpAfterReady, reads
<1>13. ASSUME NEW r \in Reader, Scroll(r)
      PROVE  AskedOK'
  BY <1>13 DEF Scroll, Request, Oldest
<1>14. ASSUME NEW r \in Reader, Jump(r)
      PROVE  AskedOK'
  BY <1>14 DEF Jump, Request, Live
<1>15. ASSUME NEW r \in Reader, Answer(r)
      PROVE  AskedOK'
  BY <1>15 DEF Answer
<1>16. ASSUME NEW r \in Reader, Fail(r)
      PROVE  AskedOK'
  BY <1>16 DEF Fail, Ends, Guarded
<1>17. ASSUME NEW r \in Reader, Store(r)
      PROVE  AskedOK'
  BY <1>17 DEF Store, Ends, Guarded, ShortPage
<1>18. CASE UNCHANGED vars
  BY <1>18 DEF vars
<1>19. QED
  BY <1>1, <1>2, <1>3, <1>4, <1>5, <1>6, <1>7, <1>8, <1>9,
     <1>10, <1>11, <1>12, <1>13, <1>14, <1>15, <1>16, <1>17, <1>18
     DEF Next

\* A task's read is a read.
LEMMA ReadStep ==
    ASSUME StreamOK, KeptOK, ReadOK, [Next]_vars
    PROVE  ReadOK'
<1> USE DEF discord, session, kept, asked, reads
<1>1. CASE DiscordSends
  BY <1>1 DEF DiscordSends, ReadOK
<1>2. CASE DiscordDeletes
  BY <1>2 DEF DiscordDeletes, ReadOK
<1>3. CASE MessageCreate
  BY <1>3 DEF MessageCreate, ReadOK
<1>4. CASE MessageDelete
  BY <1>4 DEF MessageDelete, ReadOK
<1>5. CASE FreshLogin
  BY <1>5 DEF FreshLogin, ReadOK
<1>6. CASE Restart
  BY <1>6 DEF Restart, ReadOK, Reads, Kinds, Idle
<1>7. CASE CatchUpAges
  BY <1>7 DEF CatchUpAges, ReadOK
<1>8. CASE FailureAges
  BY <1>8 DEF FailureAges, ReadOK
<1>9. CASE Prune
  BY <1>9 DEF Prune, ReadOK
<1>10. CASE RemoveAndAdd
  BY <1>10 DEF RemoveAndAdd, ReadOK
<1>11. ASSUME NEW r \in Reader, Open(r)
      PROVE  ReadOK'
  <2>1. CASE stored = {}
    BY <1>11, <2>1, RequestOK DEF Open, Kinds
  <2>2. CASE stored # {}
    BY <1>11, <2>2, CatchUpOK DEF Open
  <2>3. QED
    BY <2>1, <2>2
<1>12. ASSUME NEW r \in Reader, CatchUpAfterReady(r)
      PROVE  ReadOK'
  <2>1. CASE CatchUp(r)
    BY <2>1, CatchUpOK
  <2>2. CASE UNCHANGED read
    BY <2>2 DEF ReadOK
  <2>3. QED
    BY <1>12, <2>1, <2>2 DEF CatchUpAfterReady
<1>13. ASSUME NEW r \in Reader, Scroll(r)
      PROVE  ReadOK'
  <2>1. PICK i \in Oldest(stored, 1) : Request(r, "before", i)
    BY <1>13 DEF Scroll
  <2>2. i \in 0..MaxId
    BY <2>1 DEF Oldest, KeptOK, Ids
  <2>3. QED
    BY <2>1, <2>2, RequestOK DEF Kinds
<1>14. ASSUME NEW r \in Reader, Jump(r)
      PROVE  ReadOK'
  <2>1. Live \subseteq 0..MaxId
    BY DEF Live, StreamOK
  <2>2. \E kind \in Kinds \ {"none"}, from \in 0..MaxId :
           Request(r, kind, from)
    BY <1>14, <2>1 DEF Jump, Kinds
  <2>3. QED
    BY <2>2, RequestOK
<1>15. ASSUME NEW r \in Reader, Answer(r)
      PROVE  ReadOK'
  <2>1. Asks(read[r].kind, read[r].from) \subseteq Ids
    BY <1>15, AsksMessages DEF Answer
  <2>2. QED
    BY <1>15, <2>1 DEF Answer, ReadOK, Reads
<1>16. ASSUME NEW r \in Reader, Fail(r)
      PROVE  ReadOK'
  BY <1>16 DEF Fail, Ends, ReadOK, Reads, Kinds, Idle
<1>17. ASSUME NEW r \in Reader, Store(r)
      PROVE  ReadOK'
  BY <1>17 DEF Store, Ends, ReadOK, Reads, Kinds, Idle
<1>18. CASE UNCHANGED vars
  BY <1>18 DEF vars, ReadOK
<1>19. QED
  BY <1>1, <1>2, <1>3, <1>4, <1>5, <1>6, <1>7, <1>8, <1>9,
     <1>10, <1>11, <1>12, <1>13, <1>14, <1>15, <1>16, <1>17, <1>18
     DEF Next

\* The place is taken and given up with the read that takes it.
LEMMA PlaceStep ==
    ASSUME StreamOK, AskedOK, ReadOK, PlaceIsHeld, [Next]_vars
    PROVE  PlaceIsHeld'
<1> USE DEF discord, session, kept, asked, reads, PlaceIsHeld, Guarded
<1>1. CASE DiscordSends
  BY <1>1 DEF DiscordSends
<1>2. CASE DiscordDeletes
  BY <1>2 DEF DiscordDeletes
<1>3. CASE MessageCreate
  BY <1>3 DEF MessageCreate
<1>4. CASE MessageDelete
  BY <1>4 DEF MessageDelete
<1>5. CASE FreshLogin
  BY <1>5 DEF FreshLogin
<1>6. CASE Restart
  BY <1>6 DEF Restart, Idle
<1>7. CASE CatchUpAges
  BY <1>7 DEF CatchUpAges
<1>8. CASE FailureAges
  BY <1>8 DEF FailureAges
<1>9. CASE Prune
  BY <1>9 DEF Prune
<1>10. CASE RemoveAndAdd
  BY <1>10 DEF RemoveAndAdd
<1>11. ASSUME NEW r \in Reader, Open(r)
      PROVE  PlaceIsHeld'
  <2>1. read[r].kind = "none" /\ ~Guarded(r)
    BY <1>11 DEF Open, Idle
  <2>2. CASE CatchUp(r) /\ stored # {}
    <3>1. PICK i \in Newest(stored, 1) : Request(r, "after", i)
      BY <2>2 DEF CatchUp
    <3>2. ~fetching /\ fetching'
      BY <2>2 DEF CatchUp
    <3>3. QED
      BY <3>1, <3>2 DEF Request, ReadOK
  <2>3. CASE CatchUp(r) /\ stored = {}
    BY <2>3 DEF CatchUp
  <2>4. CASE stored = {} /\ Request(r, "first", 0) /\ UNCHANGED fetching
    BY <2>1, <2>4 DEF Request, ReadOK
  <2>5. QED
    BY <1>11, <2>2, <2>3, <2>4 DEF Open
<1>12. ASSUME NEW r \in Reader, CatchUpAfterReady(r)
      PROVE  PlaceIsHeld'
  <2>1. read[r].kind = "none" /\ ~Guarded(r)
    BY <1>12 DEF CatchUpAfterReady, Idle
  <2>2. CASE CatchUp(r) /\ stored # {}
    <3>1. PICK i \in Newest(stored, 1) : Request(r, "after", i)
      BY <2>2 DEF CatchUp
    <3>2. ~fetching /\ fetching'
      BY <2>2 DEF CatchUp
    <3>3. QED
      BY <3>1, <3>2 DEF Request, ReadOK
  <2>3. CASE CatchUp(r) /\ stored = {}
    BY <2>3 DEF CatchUp
  <2>4. CASE UNCHANGED <<fetching, read>>
    BY <2>4
  <2>5. QED
    BY <1>12, <2>2, <2>3, <2>4 DEF CatchUpAfterReady
<1>13. ASSUME NEW r \in Reader, Scroll(r)
      PROVE  PlaceIsHeld'
  <2>1. PICK i \in Oldest(stored, 1) : Request(r, "before", i)
    BY <1>13 DEF Scroll
  <2>2. ~fetching /\ fetching'
    BY <1>13 DEF Scroll
  <2>3. QED
    BY <2>1, <2>2 DEF Request, ReadOK
<1>14. ASSUME NEW r \in Reader, Jump(r)
      PROVE  PlaceIsHeld'
  <2>1. read[r].kind = "none" /\ ~Guarded(r)
    BY <1>14 DEF Jump, Idle
  <2>2. PICK kind \in {"around", "newer", "refill"}, from \in Nat :
           Request(r, kind, from)
    BY <1>14 DEF Jump, Live
  <2>3. UNCHANGED fetching
    BY <1>14 DEF Jump
  <2>4. QED
    BY <2>1, <2>2, <2>3 DEF Request, ReadOK
<1>15. ASSUME NEW r \in Reader, Answer(r)
      PROVE  PlaceIsHeld'
  BY <1>15 DEF Answer, ReadOK, Reads
<1>16. ASSUME NEW r \in Reader, Fail(r)
      PROVE  PlaceIsHeld'
  BY <1>16 DEF Fail, Ends, Idle, ReadOK
<1>17. ASSUME NEW r \in Reader, Store(r)
      PROVE  PlaceIsHeld'
  BY <1>17 DEF Store, Ends, Idle, ReadOK
<1>18. CASE UNCHANGED vars
  BY <1>18 DEF vars
<1>19. QED
  BY <1>1, <1>2, <1>3, <1>4, <1>5, <1>6, <1>7, <1>8, <1>9,
     <1>10, <1>11, <1>12, <1>13, <1>14, <1>15, <1>16, <1>17, <1>18
     DEF Next

-----------------------------------------------------------------------------
\* The parts that hold together, whatever is deleted, pruned or removed.
HistoryInv == StreamOK /\ KeptOK /\ AskedOK /\ ReadOK /\ PlaceIsHeld

\* At the start nothing is stored, asked for or read.
LEMMA HistoryInit == Init => HistoryInv
<1> SUFFICES ASSUME Init PROVE HistoryInv
  OBVIOUS
<1>1. StreamOK
  BY DEF Init, StreamOK
<1>2. KeptOK
  BY DEF Init, KeptOK
<1>3. AskedOK
  <2>1. newestIn \in 0..MaxId
    BY DEF Init
  <2>2. QED
    BY <2>1, Zenon DEF Init, AskedOK
<1>4. ReadOK
  BY DEF Init, ReadOK, Reads, Kinds, Idle
<1>5. PlaceIsHeld
  BY DEF Init, PlaceIsHeld, Guarded, Idle
<1>6. QED
  BY <1>1, <1>2, <1>3, <1>4, <1>5 DEF HistoryInv

\* Every step keeps the invariant.
LEMMA HistoryStep == HistoryInv /\ [Next]_vars => HistoryInv'
BY StreamStep, KeptStep, AskedStep, ReadStep, PlaceStep DEF HistoryInv

\* The inductive invariant holds of every behaviour.
LEMMA Invariant == Spec => []HistoryInv
BY HistoryInit, HistoryStep, PTL DEF Spec

\* The types of a conversation's scrollback, of what was asked about it and
\* of every task's read.
THEOREM TypeCorrect == Spec => []TypeOK
<1>1. HistoryInv => TypeOK
  BY TypeParts DEF HistoryInv
<1>2. QED
  BY <1>1, Invariant, PTL

\* However many tasks read, and however their reads end, the conversation's
\* place (discord_history_inflight) is held exactly while one guarded read
\* is under way.
THEOREM OneFetchAtATime == Spec => []PlaceIsHeld
<1>1. HistoryInv => PlaceIsHeld
  BY DEF HistoryInv
<1>2. QED
  BY <1>1, Invariant, PTL

-----------------------------------------------------------------------------
\* Where rows are only ever added, a message that was announced is kept, so
\* that no repeat of it is new.
Once ==
    /\ gone = {}
    /\ \A i \in Ids : told[i] = 0 \/ (told[i] = 1 /\ i \in stored)

\* A row that is kept is not announced again.
LEMMA OnceStep ==
    ASSUME ~MayDelete, ~MayPrune, ~MayRemove, HistoryInv, Once, [Next]_vars
    PROVE  Once'
<1> USE DEF discord, session, kept, asked, reads, Once
<1>1. CASE MessageCreate
  <2>1. CASE pos' \in Blank
    BY <1>1, <2>1 DEF MessageCreate
  <2>2. CASE pos' \notin Blank
    <3>1. RecordMessage(pos + 1) /\ UNCHANGED gone
      BY <1>1, <2>2 DEF MessageCreate
    <3>2. told \in [Ids -> 0..2]
      BY DEF HistoryInv, KeptOK
    <3>3. QED
      BY <3>1, <3>2 DEF RecordMessage
  <2>3. QED
    BY <2>1, <2>2
<1>2. CASE MessageDelete
  BY <1>2 DEF MessageDelete, HistoryInv, StreamOK
<1>3. CASE \/ DiscordSends \/ DiscordDeletes \/ FreshLogin \/ Restart
           \/ CatchUpAges \/ FailureAges \/ Prune \/ RemoveAndAdd
  BY <1>3 DEF DiscordSends, DiscordDeletes, FreshLogin, Restart,
              CatchUpAges, FailureAges, Prune, RemoveAndAdd
<1>4. ASSUME NEW r \in Reader,
             Open(r) \/ CatchUpAfterReady(r) \/ Scroll(r) \/ Jump(r)
      PROVE  Once'
  BY <1>4 DEF Open, CatchUpAfterReady, CatchUp, Scroll, Jump
<1>5. ASSUME NEW r \in Reader, Answer(r) \/ Fail(r)
      PROVE  Once'
  BY <1>5 DEF Answer, Fail
<1>6. ASSUME NEW r \in Reader, Store(r)
      PROVE  Once'
  BY <1>6 DEF Store
<1>7. CASE UNCHANGED vars
  BY <1>7 DEF vars
<1>8. QED
  BY <1>1, <1>2, <1>3, <1>4, <1>5, <1>6, <1>7 DEF Next

\* record_message announces a message once, whatever the gateway repeats
\* after a resume and whichever reads of history run into it, as long as no
\* row is taken away.
THEOREM AnnouncesOnce ==
    ASSUME ~MayDelete, ~MayPrune, ~MayRemove
    PROVE  Spec => []AnnouncedOnce
<1>1. Init => Once
  BY DEF Init, Once
<1>2. HistoryInv /\ Once /\ [Next]_vars => Once'
  BY OnceStep
<1>3. Once => AnnouncedOnce
  BY DEF Once, AnnouncedOnce
<1>4. QED
  BY <1>1, <1>2, <1>3, Invariant, PTL DEF Spec

-----------------------------------------------------------------------------
\* A finite set of numbers has a greatest one: the sets of what is above
\* each of its members are well-founded under strict inclusion.
LEMMA GreatestNumber ==
    ASSUME NEW S, S \subseteq Nat, IsFiniteSet(S), S # {}
    PROVE  \E m \in S : \A k \in S : k <= m
<1> DEFINE Above(i) == {j \in S : j > i}
           T == {Above(i) : i \in S}
<1>1. IsWellFoundedOn(StrictSubsetOrdering(S), FiniteSubsetsOf(S))
  BY FS_StrictSubsetOrderingWellFounded
<1>2. T \subseteq FiniteSubsetsOf(S)
  <2>1. \A i \in S : Above(i) \in SUBSET S
    OBVIOUS
  <2>2. \A i \in S : IsFiniteSet(Above(i))
    BY <2>1, FS_Subset
  <2>3. QED
    BY <2>1, <2>2 DEF FiniteSubsetsOf
<1>3. T # {}
  OBVIOUS
<1>4. \E x \in T : \A y \in T : ~(<<y, x>> \in StrictSubsetOrdering(S))
  <2> HIDE DEF T
  <2>1. QED
    BY <1>1, <1>2, <1>3, WFMin
<1>5. PICK m \in S : \A k \in S :
         ~(<<Above(k), Above(m)>> \in StrictSubsetOrdering(S))
  BY <1>4
<1>6. ASSUME NEW k \in S, k > m
      PROVE  FALSE
  <2>1. Above(k) \subseteq Above(m)
    <3>1. \A j \in S : j \in Nat
      OBVIOUS
    <3>2. \A j \in S : j > k => j > m
      BY <1>6, <3>1
    <3>3. QED
      BY <3>2
  <2>2. k \in Above(m) /\ k \notin Above(k)
    BY <1>6
  <2>3. Above(k) \in SUBSET S /\ Above(m) \in SUBSET S
    OBVIOUS
  <2> HIDE DEF Above
  <2>4. <<Above(k), Above(m)>> \in StrictSubsetOrdering(S)
    BY <2>1, <2>2, <2>3 DEF StrictSubsetOrdering
  <2>5. QED
    BY <1>5, <1>6, <2>4
<1>7. QED
  BY <1>6

\* A page of fewer messages than were asked for has all there are: the
\* newest one left out would have too few newer ones to be left out.
LEMMA ShortIsAll ==
    ASSUME NEW S, S \subseteq Nat, IsFiniteSet(S), NEW n \in Nat,
           Cardinality(Newest(S, n)) < n
    PROVE  S \subseteq Newest(S, n)
<1> DEFINE Out == S \ Newest(S, n)
<1>1. SUFFICES ASSUME Out # {}
               PROVE  FALSE
  OBVIOUS
<1>2. Newest(S, n) \in SUBSET S /\ Out \in SUBSET S
  BY DEF Newest
<1>3. IsFiniteSet(Newest(S, n)) /\ IsFiniteSet(Out)
  BY <1>2, FS_Subset
<1>4. PICK m \in Out : \A k \in Out : k <= m
  <2> HIDE DEF Out
  <2>1. QED
    BY <1>1, <1>2, <1>3, GreatestNumber
<1> DEFINE Newer == {j \in S : j > m}
<1>5. Newer \in SUBSET Newest(S, n)
  <2>1. ASSUME NEW j \in S, j > m, j \notin Newest(S, n)
        PROVE  FALSE
    <3>1. j <= m
      BY <1>4, <2>1
    <3>2. j \in Nat /\ m \in Nat
      OBVIOUS
    <3>3. QED
      BY <2>1, <3>1, <3>2
  <2>2. QED
    BY <2>1
<1>6. Cardinality(Newer) <= Cardinality(Newest(S, n))
  <2> HIDE DEF Newer
  <2>1. QED
    BY <1>3, <1>5, FS_Subset
<1>7. Cardinality(Newer) \in Nat /\ Cardinality(Newest(S, n)) \in Nat
  <2> HIDE DEF Newer
  <2>1. QED
    BY <1>3, <1>5, FS_Subset, FS_CardinalityType
<1>8. Cardinality(Newer) < n
  <2> HIDE DEF Newer
  <2>1. QED
    BY <1>6, <1>7
<1>9. m \in Newest(S, n)
  BY <1>8 DEF Newest
<1>10. QED
  BY <1>9

\* What a read of older messages starts from is kept, a short answer has
\* everything before it, and once the start was reached something is kept
\* that nothing the conversation has to show comes before.
ReadsFromKept(r) == read[r].kind = "before" => read[r].from \in stored
ShortHasAll(r) ==
    read[r].kind = "before" /\ read[r].at = "answered"
      /\ ShortPage(read[r].page) =>
        \A i \in 1..top : i < read[r].from => i \in read[r].page
StartReached ==
    /\ stored # {}
    /\ \A i \in (1..top) \ Blank : \E s \in stored : s <= i

StartInv ==
    /\ gone = {}
    /\ stored \subseteq 1..top
    /\ \A r \in Reader : /\ read[r].page \subseteq 1..top
                         /\ ReadsFromKept(r)
                         /\ ShortHasAll(r)
    /\ exhausted => StartReached

\* A read that is left as it is, begun from what is kept, or ended.
SameRead(r)  == read'[r] = read[r]
BegunRead(r) == /\ read'[r].page = {}
                /\ read'[r].at # "answered"
                /\ read'[r].kind = "before" => read'[r].from \in stored

\* Where rows are only added, a step that stores no answer keeps what the
\* reads rest on: what was sent since is newer than anything asked about.
LEMMA StartKept ==
    ASSUME StreamOK, StreamOK', StartInv,
           gone' = gone, top <= top',
           stored \subseteq stored', stored' \subseteq 1..top',
           \A r \in Reader : SameRead(r) \/ BegunRead(r),
           exhausted' => exhausted
    PROVE  StartInv'
<1> USE DEF StreamOK, StartInv
<1>1. ASSUME NEW r \in Reader
      PROVE  (/\ read[r].page \subseteq 1..top
              /\ ReadsFromKept(r)
              /\ ShortHasAll(r))'
  <2>1. CASE SameRead(r)
    <3>1. read'[r].page \subseteq 1..top'
      BY <2>1 DEF SameRead
    <3>2. ReadsFromKept(r)'
      BY <2>1 DEF SameRead, ReadsFromKept
    <3>3. ShortHasAll(r)'
      <4>1. SUFFICES ASSUME read[r].kind = "before", read[r].at = "answered",
                            ShortPage(read[r].page),
                            NEW i \in 1..top', i < read[r].from
                     PROVE  i \in read[r].page
        BY <2>1 DEF SameRead, ShortHasAll, ShortPage
      <4>2. read[r].from \in 1..top
        BY <4>1 DEF ReadsFromKept
      <4>3. i \in 1..top
        BY <4>1, <4>2
      <4>4. QED
        BY <4>1, <4>3 DEF ShortHasAll
    <3>4. QED
      BY <3>1, <3>2, <3>3
  <2>2. CASE BegunRead(r)
    BY <2>2 DEF BegunRead, ReadsFromKept, ShortHasAll
  <2>3. QED
    BY <2>1, <2>2
<1>2. ASSUME exhausted'
      PROVE  StartReached'
  <2>1. StartReached
    BY <1>2
  <2>2. ASSUME NEW i \in (1..top') \ Blank
        PROVE  \E s \in stored' : s <= i
    <3>1. CASE i \in 1..top
      BY <2>1, <3>1 DEF StartReached
    <3>2. CASE i \notin 1..top
      <4>1. PICK s \in stored : s \in 1..top
        BY <2>1 DEF StartReached
      <4>2. QED
        BY <3>2, <4>1
    <3>3. QED
      BY <3>1, <3>2
  <2>3. QED
    BY <2>1, <2>2 DEF StartReached
<1>3. QED
  BY <1>1, <1>2

\* Answered is what Discord has; short of a page, all it has before.
LEMMA StartAnswer ==
    ASSUME StreamOK, ReadOK, StartInv, NEW r \in Reader, Answer(r)
    PROVE  StartInv'
<1> USE DEF StreamOK, StartInv, discord, session, kept, asked
<1> DEFINE page == Asks(read[r].kind, read[r].from)
<1>1. read \in [Reader -> Reads] /\ read[r] \in Reads
  BY DEF ReadOK
<1>0. read' = [read EXCEPT ![r].at = "answered", ![r].page = page]
  BY DEF Answer
<1>2. /\ UNCHANGED <<top, gone, stored, exhausted>>
      /\ read[r].at = "asked"
  BY DEF Answer
<1>3. Live = 1..top
  BY DEF Live
<1>4. page \subseteq 1..top
  <2>1. read[r].kind \in Kinds \ {"none"}
    BY <1>1, <1>2 DEF ReadOK, Reads
  <2>2. QED
    BY <1>3, <2>1 DEF Asks, Newest, Oldest, Kinds
<1>5. /\ read'[r].page = page
      /\ read'[r].kind = read[r].kind
      /\ read'[r].from = read[r].from
  <2> HIDE DEF page
  <2>1. QED
    BY <1>0, <1>1 DEF Reads
<1>6. ASSUME NEW q \in Reader, q # r
      PROVE  read'[q] = read[q]
  <2> HIDE DEF page
  <2>1. QED
    BY <1>0, <1>1, <1>6
<1>7. read[r].kind = "before" /\ ShortPage(page) =>
         \A i \in 1..top : i < read[r].from => i \in page
  <2>1. SUFFICES ASSUME read[r].kind = "before", ShortPage(page)
                 PROVE  \A i \in 1..top : i < read[r].from => i \in page
    OBVIOUS
  <2> DEFINE S == {i \in 1..top : i < read[r].from}
  <2>2. page = Newest(S, Page)
    BY <1>3, <2>1 DEF Asks
  <2>3. S \in SUBSET (1..top) /\ IsFiniteSet(1..top)
    BY FS_Interval
  <2>4. S \subseteq Nat /\ IsFiniteSet(S)
    <3>1. S \subseteq Nat
      OBVIOUS
    <3>2. IsFiniteSet(S)
      <4> HIDE DEF S
      <4>1. QED
        BY <2>3, FS_Subset
    <3>3. QED
      BY <3>1, <3>2
  <2>5. Cardinality(Newest(S, Page)) < Page
    BY <2>1, <2>2 DEF ShortPage
  <2>6. S \subseteq Newest(S, Page)
    <3> HIDE DEF S, page
    <3>1. QED
      BY <2>4, <2>5, ShortIsAll
  <2>7. QED
    BY <2>2, <2>6
<1> HIDE DEF page
<1>8. ASSUME NEW q \in Reader
      PROVE  (/\ read[q].page \subseteq 1..top
              /\ ReadsFromKept(q)
              /\ ShortHasAll(q))'
  <2>1. CASE q = r
    <3>1. read'[r].page \subseteq 1..top'
      BY <1>2, <1>4, <1>5
    <3>2. ReadsFromKept(r)'
      BY <1>2, <1>5 DEF ReadsFromKept
    <3>3. ShortPage(read'[r].page) <=> ShortPage(page)
      BY <1>5
    <3>4. ShortHasAll(r)'
      <4>1. ShortPage(read[r].page)' <=> ShortPage(page)
        BY <3>3 DEF ShortPage
      <4>2. (\A i \in 1..top : i < read[r].from => i \in read[r].page)'
              <=> \A i \in 1..top : i < read[r].from => i \in page
        BY <1>2, <1>5
      <4>3. QED
        BY <1>5, <1>7, <4>1, <4>2 DEF ShortHasAll
    <3>5. QED
      BY <2>1, <3>1, <3>2, <3>4
  <2>2. CASE q # r
    <3>1. read'[q] = read[q]
      BY <1>6, <2>2
    <3>2. (/\ read[q].page \subseteq 1..top
           /\ ReadsFromKept(q)
           /\ ShortHasAll(q))
      OBVIOUS
    <3>3. read'[q].page \subseteq 1..top'
      BY <1>2, <3>1, <3>2
    <3>4. ReadsFromKept(q)'
      BY <1>2, <3>1, <3>2 DEF ReadsFromKept
    <3>5. ShortHasAll(q)'
      BY <1>2, <3>1, <3>2, Zenon DEF ShortHasAll, ShortPage
    <3>6. QED
      BY <3>3, <3>4, <3>5
  <2>3. QED
    BY <2>1, <2>2
<1>9. QED
  BY <1>2, <1>8 DEF StartReached

\* A short answer that is stored reaches the start; the message asked from
\* is kept, and shows nothing is missing before it that can be shown.
LEMMA StartStore ==
    ASSUME StreamOK, ReadOK, StartInv, NEW r \in Reader, Store(r)
    PROVE  StartInv'
<1> USE DEF StreamOK, StartInv, discord, session
<1>1. read \in [Reader -> Reads] /\ read[r] \in Reads
  BY DEF ReadOK
<1>2. /\ read[r].at = "answered"
      /\ stored' = stored \cup (read[r].page \ Blank)
      /\ read' = [read EXCEPT ![r] = Idle]
      /\ UNCHANGED <<top, gone>>
  BY DEF Store, Ends
<1>3. ASSUME NEW q \in Reader
      PROVE  (/\ read[q].page \subseteq 1..top
              /\ ReadsFromKept(q)
              /\ ShortHasAll(q))'
  <2>1. CASE q = r
    BY <1>1, <1>2, <2>1 DEF Idle, ReadsFromKept, ShortHasAll
  <2>2. CASE q # r
    BY <1>1, <1>2, <2>2 DEF ReadsFromKept, ShortHasAll, ShortPage
  <2>3. QED
    BY <2>1, <2>2
<1>4. stored' \subseteq 1..top'
  BY <1>2
<1>5. ASSUME exhausted'
      PROVE  StartReached'
  <2>1. CASE exhausted
    BY <1>2, <2>1 DEF StartReached
  <2>2. CASE ~exhausted
    <3>1. read[r].kind = "before" /\ ShortPage(read[r].page)
      BY <1>5, <2>2 DEF Store
    <3>2. read[r].from \in stored
      BY <3>1 DEF ReadsFromKept
    <3>3. \A i \in 1..top : i < read[r].from => i \in read[r].page
      BY <1>2, <3>1 DEF ShortHasAll
    <3>4. ASSUME NEW i \in (1..top) \ Blank
          PROVE  \E s \in stored' : s <= i
      <4>1. CASE i < read[r].from
        <5>1. i \in stored'
          BY <1>2, <3>3, <4>1
        <5>2. QED
          BY <5>1
      <4>2. CASE ~(i < read[r].from)
        <5>1. read[r].from \in 1..top
          BY <3>2
        <5>2. read[r].from <= i
          BY <4>2, <5>1
        <5>3. QED
          BY <1>2, <3>2, <5>2
      <4>3. QED
        BY <4>1, <4>2
    <3>5. QED
      BY <1>2, <3>2, <3>4 DEF StartReached
  <2>3. QED
    BY <2>1, <2>2
<1>6. QED
  BY <1>2, <1>3, <1>4, <1>5

\* Every step keeps it, where no row is taken away.
LEMMA StartStep ==
    ASSUME ~MayDelete, ~MayPrune, ~MayRemove, HistoryInv, HistoryInv',
           StartInv, [Next]_vars
    PROVE  StartInv'
<1> USE DEF discord, session, kept, asked, reads
<1>1. StreamOK /\ StreamOK' /\ KeptOK /\ ReadOK
  BY DEF HistoryInv
<1>2. read \in [Reader -> Reads]
  BY <1>1 DEF ReadOK
<1>3. gone = {} /\ stored \subseteq 1..top
  BY DEF StartInv
<1>4. top \in Nat /\ top' \in Nat
  BY <1>1 DEF StreamOK
<1>5. CASE DiscordSends
  <2>1. /\ top' = top + 1
        /\ UNCHANGED <<gone, stored, read, exhausted>>
    BY <1>5 DEF DiscordSends
  <2>2. QED
    BY <1>1, <1>3, <1>4, <2>1, StartKept DEF SameRead
<1>6. CASE MessageCreate
  <2>1. UNCHANGED <<top, gone, read, exhausted>> /\ pos < top
    BY <1>6 DEF MessageCreate
  <2>2. stored \subseteq stored' /\ stored' \subseteq stored \cup {pos + 1}
    BY <1>6 DEF MessageCreate, RecordMessage
  <2>3. pos + 1 \in 1..top
    BY <1>1, <2>1 DEF StreamOK
  <2>4. QED
    BY <1>1, <1>3, <1>4, <2>1, <2>2, <2>3, StartKept DEF SameRead
<1>7. CASE MessageDelete
  BY <1>1, <1>3, <1>7 DEF MessageDelete, StreamOK
<1>8. CASE Restart
  <2>1. /\ UNCHANGED <<top, gone, stored>>
        /\ read' = [q \in Reader |-> Idle]
        /\ exhausted' = FALSE
    BY <1>8 DEF Restart
  <2>2. \A q \in Reader : BegunRead(q)
    BY <2>1 DEF BegunRead, Idle
  <2>3. QED
    BY <1>1, <1>3, <1>4, <2>1, <2>2, StartKept
<1>9. CASE FreshLogin \/ CatchUpAges \/ FailureAges \/ UNCHANGED vars
  <2>1. UNCHANGED <<top, gone, stored, read, exhausted>>
    BY <1>9 DEF FreshLogin, CatchUpAges, FailureAges, vars
  <2>2. QED
    BY <1>1, <1>3, <1>4, <2>1, StartKept DEF SameRead
<1>10. CASE DiscordDeletes \/ Prune \/ RemoveAndAdd
  BY <1>10 DEF DiscordDeletes, Prune, RemoveAndAdd
<1>11. ASSUME NEW r \in Reader,
              Open(r) \/ CatchUpAfterReady(r) \/ Scroll(r) \/ Jump(r)
       PROVE  StartInv'
  <2>1. UNCHANGED <<top, gone, stored, exhausted>>
    BY <1>11 DEF Open, CatchUpAfterReady, CatchUp, Scroll, Jump
  <2>2. \/ UNCHANGED read
        \/ \E kind \in Kinds, from \in Nat :
              /\ Request(r, kind, from)
              /\ kind = "before" => from \in stored
    <3>0. 1..top \subseteq Nat
      OBVIOUS
    <3>1. Newest(stored, 1) \subseteq stored /\ Oldest(stored, 1) \subseteq stored
      BY DEF Newest, Oldest
    <3>2. /\ Newest(stored, 1) \subseteq Nat
          /\ Oldest(stored, 1) \subseteq Nat
          /\ Live \subseteq Nat
      BY <1>3, <3>0, <3>1 DEF Live
    <3>3. CASE Open(r)
      BY <3>2, <3>3 DEF Open, CatchUp, Kinds
    <3>4. CASE CatchUpAfterReady(r)
      BY <3>2, <3>4 DEF CatchUpAfterReady, CatchUp, Kinds
    <3>5. CASE Scroll(r)
      BY <3>1, <3>2, <3>5 DEF Scroll, Kinds
    <3>6. CASE Jump(r)
      BY <3>2, <3>6 DEF Jump, Kinds
    <3>7. QED
      BY <1>11, <3>3, <3>4, <3>5, <3>6
  <2>3. \A q \in Reader : SameRead(q) \/ BegunRead(q)
    BY <1>2, <2>2 DEF Request, SameRead, BegunRead
  <2>4. QED
    BY <1>1, <1>3, <1>4, <2>1, <2>3, StartKept
<1>12. ASSUME NEW r \in Reader, Answer(r)
       PROVE  StartInv'
  BY <1>1, <1>12, StartAnswer
<1>13. ASSUME NEW r \in Reader, Fail(r)
       PROVE  StartInv'
  <2>1. /\ UNCHANGED <<top, gone, stored, exhausted>>
        /\ read' = [read EXCEPT ![r] = Idle]
    BY <1>13 DEF Fail, Ends
  <2>2. \A q \in Reader : SameRead(q) \/ BegunRead(q)
    BY <1>2, <2>1 DEF SameRead, BegunRead, Idle
  <2>3. QED
    BY <1>1, <1>3, <1>4, <2>1, <2>2, StartKept
<1>14. ASSUME NEW r \in Reader, Store(r)
       PROVE  StartInv'
  BY <1>1, <1>14, StartStore
<1>15. QED
  BY <1>5, <1>6, <1>7, <1>8, <1>9, <1>10, <1>11, <1>12, <1>13, <1>14 DEF Next

\* Asked.exhausted is set only once everything a conversation has to show
\* before its oldest kept message is kept, whichever reads overlap and
\* however they end, as long as no row is taken away.
THEOREM StopsAtTheStart ==
    ASSUME ~MayDelete, ~MayPrune, ~MayRemove
    PROVE  Spec => []ExhaustedIsTheStart
<1>1. Init => StartInv
  BY DEF Init, StartInv, Idle, ReadsFromKept, ShortHasAll
<1>2. HistoryInv /\ HistoryInv' /\ StartInv /\ [Next]_vars => StartInv'
  BY StartStep
<1>3. StartInv => ExhaustedIsTheStart
  BY DEF StartInv, StartReached, ExhaustedIsTheStart, Live
<1>4. QED
  BY <1>1, <1>2, <1>3, Invariant, PTL DEF Spec

=============================================================================
