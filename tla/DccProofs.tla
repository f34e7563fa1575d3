----------------------------- MODULE DccProofs -----------------------------
(***************************************************************************)
(* Proofs about Dcc for any number of transfers, tasks, files, blocks and  *)
(* names: its types, that what is shown as moving has a task that moves    *)
(* it, that what was received is not replaced, and that it is whole.       *)
(***************************************************************************)
EXTENDS Dcc, TLAPS

USE FileAssumption, SlotAssumption, FolderAssumption, BoundsAssumption,
    IncomingAssumption

\* Where the tasks of accept are, and those of offer_file once the transfer
\* they serve is in the list.
Receiving == {"begin", "parked", "pick", "dial", "read", "whole", "short",
              "kept", "again", "pause"}
Serving   == {"tell", "listen", "send"}

\* The list and the table: what is not there is in neither, and what is there
\* is of a file.
ListOK ==
    /\ state \in [Transfer -> State] /\ row \in [Transfer -> State]
    /\ kind \in [Transfer -> Kind]
    /\ file \in [Transfer -> File \cup {None}]
    /\ stop \in [Transfer -> BOOLEAN] /\ offer \in [Transfer -> BOOLEAN]
    /\ place \in [Transfer -> 0..Untried]
    /\ declining \subseteq Transfer
    /\ \A t \in Transfer :
          /\ state[t] = "none" <=> row[t] = "none"
          /\ state[t] = "done" <=> row[t] = "done"
          /\ state[t] # "none" => file[t] \in File
          /\ t \in declining => state[t] # "none"
          /\ offer[t] => kind[t] # "outgoing"

\* The tasks: one that has or wants a part has a name, one that begins has
\* nothing to carry on.
TaskOK ==
    /\ of \in [Task -> Transfer \cup {None}] /\ at \in [Task -> Stages]
    /\ name \in [Task -> 0..Untried] /\ from \in [Task -> Nat] /\ got \in [Task -> Nat]
    /\ \A k \in Task :
          /\ at[k] = "idle" <=> of[k] = None
          /\ at[k] \in Holding \cup {"kept"} => name[k] # 0
          /\ at[k] \in {"idle", "begin", "pick"} => from[k] = 0

\* What a task and the transfer it is of know of each other: a file that is
\* about to be offered is its task's alone.
BondOK ==
    \A k \in Task :
        /\ at[k] = "bind" => /\ state[of[k]] = "none"
                             /\ \A j \in Task \ {k} : of[j] # of[k]
        /\ at[k] \in Receiving => /\ state[of[k]] # "none"
                                  /\ kind[of[k]] # "outgoing"
        /\ at[k] \in Serving => /\ state[of[k]] # "none"
                                /\ kind[of[k]] = "outgoing"

\* Less is held than was offered.
SizeOK ==
    \A k \in Task :
        /\ at[k] \in {"parked", "dial"} => from[k] < Size[file[of[k]]]
        /\ at[k] = "read" => got[k] < Size[file[of[k]]]

\* The folder, and what of it is open.
DiskOK ==
    /\ open \in [Task -> Part \cup Whole \cup {None}]
    /\ disk \in [Part \cup Whole -> Content \cup {None}]
    /\ \A k \in Task : open[k] # None => Exists(open[k])

\* How often the sender is asked.
ChaseOK ==
    /\ attempts \in 0..MaxAsk /\ best \in Nat
    /\ remembered \in BOOLEAN /\ due \in Nat /\ up \in BOOLEAN

Types == ListOK /\ TaskOK /\ BondOK /\ SizeOK /\ DiskOK /\ ChaseOK

\* What is shown as moving is moved by a task that has yet to say how it went.
Moving == {"parked", "kept", "pick"} \cup Holding

MovingOK ==
    \A t \in Transfer :
        /\ state[t] = "receiving" => \E k \in Task : of[k] = t /\ at[k] \in Moving
        /\ state[t] = "sending" => \E k \in Task : of[k] = t /\ at[k] = "send"

\* One task holds a name, and none the name of a file that was received.
NamesOK ==
    /\ \A j, k \in Task :
          at[j] \in Holding /\ at[k] \in Holding /\ name[j] = name[k] => j = k
    /\ \A n \in 1..MaxName : Exists(<<"whole", n>>) =>
          /\ ~Exists(<<"part", n>>)
          /\ \A k \in Task : at[k] \in Holding => name[k] # n

\* What a task has open is the part of its name, and it has it open as long
\* as it reads.
OpenOK ==
    \A k \in Task :
        /\ open[k] # None => at[k] \in {"read", "whole", "short"} /\ open[k] = PartOf(k)
        /\ at[k] \in {"read", "whole"} => open[k] = PartOf(k)

\* A part a task reads into is what it has read of the file it was offered,
\* and one it is to carry on is what it said it has.
PartOK ==
    \A k \in Task :
        /\ at[k] = "dial" /\ from[k] > 0 =>
              /\ Exists(PartOf(k))
              /\ disk[PartOf(k)].len = from[k] /\ disk[PartOf(k)].of = file[of[k]]
        /\ at[k] \in {"read", "whole"} =>
              /\ disk[PartOf(k)].len = got[k]
              /\ disk[PartOf(k)].of \in {file[of[k]], None}
              /\ got[k] > 0 => disk[PartOf(k)].of = file[of[k]]
        /\ at[k] = "whole" => got[k] = Size[file[of[k]]]

\* A whole file is the one it was offered as, and stays where it was put.
WholeOK ==
    /\ \A p \in Whole : Exists(p) => IsWhole(p)
    /\ \A k \in Task : at[k] = "kept" =>
           /\ Exists(<<"whole", name[k]>>)
           /\ name[k] # Untried => disk[<<"whole", name[k]>>].of = file[of[k]]
    /\ \A t \in Transfer : state[t] = "done" /\ kind[t] # "outgoing" =>
           /\ place[t] # 0
           /\ Exists(<<"whole", place[t]>>)
           /\ place[t] # Untried => disk[<<"whole", place[t]>>].of = file[t]

Polite == NamesOK /\ OpenOK /\ PartOK /\ WholeOK
-----------------------------------------------------------------------------
\* A new id is of no transfer and no task.
LEMMA FreshIs ==
    ASSUME NEW t \in Transfer, SomeFresh, Fresh(t)
    PROVE  state[t] = "none" /\ ~Taken(t)
BY DEF SomeFresh, Fresh

\* A new task is one that is not in use.
LEMMA SpareIs ==
    ASSUME NEW k \in Task, SomeSpare, Spare(k)
    PROVE  at[k] = "idle"
BY DEF SomeSpare, Spare

\* A task that runs is of a transfer.
LEMMA RunsFor ==
    ASSUME TaskOK, NEW k \in Task, at[k] # "idle"
    PROVE  of[k] \in Transfer
BY DEF TaskOK

\* One that receives is of one that was offered to be received.
LEMMA ReceivesFor ==
    ASSUME TaskOK, BondOK, ListOK, NEW k \in Task, at[k] \in Receiving
    PROVE  /\ of[k] \in Transfer
           /\ state[of[k]] # "none" /\ kind[of[k]] # "outgoing"
           /\ file[of[k]] \in File /\ Size[file[of[k]]] \in Nat \ {0}
<1>1. of[k] \in Transfer
  BY RunsFor DEF Receiving
<1>2. state[of[k]] # "none" /\ kind[of[k]] # "outgoing"
  BY DEF BondOK
<1>3. file[of[k]] \in File
  BY <1>1, <1>2 DEF ListOK
<1>4. QED
  BY <1>1, <1>2, <1>3

\* What a task has a name for is in the folder, or could be.
LEMMA PartIs ==
    ASSUME TaskOK, NEW k \in Task, name[k] # 0
    PROVE  /\ name[k] \in Name
           /\ PartOf(k) \in Part /\ <<"whole", name[k]>> \in Whole
BY DEF TaskOK, Part, Whole, Name, PartOf

\* The name the sender's file has is tried first.
LEMMA FirstIs == First \in Part /\ 1 \in Name
BY DEF First, Part, Name, Untried

\* A part and a whole file are two.
LEMMA PartIsNotWhole == ASSUME NEW p \in Part, NEW w \in Whole PROVE p # w
BY DEF Part, Whole

-----------------------------------------------------------------------------
(* The list.                                                               *)

\* A transfer that is in the list changes its state there and in the table.
LEMMA BecomesList ==
    ASSUME ListOK, NEW t \in Transfer, state[t] # "none",
           NEW s \in State \ {"none"}, Becomes(t, s),
           UNCHANGED <<kind, file, stop>>, place' \in [Transfer -> 0..Untried],
           declining' \subseteq declining,
           offer' = offer \/ offer' = [offer EXCEPT ![t] = FALSE]
    PROVE  ListOK'
<1> USE DEF ListOK, Becomes
<1>1. state' \in [Transfer -> State] /\ row' \in [Transfer -> State]
  OBVIOUS
<1>2. offer' \in [Transfer -> BOOLEAN]
  OBVIOUS
<1>3. ASSUME NEW u \in Transfer
      PROVE  /\ state'[u] = "none" <=> row'[u] = "none"
             /\ state'[u] = "done" <=> row'[u] = "done"
             /\ state'[u] # "none" => file'[u] \in File
             /\ u \in declining' => state'[u] # "none"
  BY <1>1
<1>4. ASSUME NEW u \in Transfer
      PROVE  offer'[u] => kind'[u] # "outgoing"
  OBVIOUS
<1>5. QED
  BY <1>1, <1>2, <1>3, <1>4

\* A transfer is added under an id that is not in use.
LEMMA AddList ==
    ASSUME ListOK, NEW t \in Transfer, NEW how \in Kind, NEW f \in File,
           state[t] = "none", Add(t, how, f), UNCHANGED declining
    PROVE  ListOK'
<1> USE DEF ListOK, Becomes, Add
<1>1. state' \in [Transfer -> State] /\ row' \in [Transfer -> State]
  BY DEF State
<1>2. /\ kind' \in [Transfer -> Kind] /\ file' \in [Transfer -> File \cup {None}]
      /\ stop' \in [Transfer -> BOOLEAN]
  OBVIOUS
<1>3. offer' \in [Transfer -> BOOLEAN]
  OBVIOUS
<1>4. place' \in [Transfer -> 0..Untried]
  BY DEF Untried
<1>5. ASSUME NEW u \in Transfer
      PROVE  /\ state'[u] = "none" <=> row'[u] = "none"
             /\ state'[u] = "done" <=> row'[u] = "done"
             /\ state'[u] # "none" => file'[u] \in File
             /\ u \in declining' => state'[u] # "none"
  BY <1>1
<1>6. ASSUME NEW u \in Transfer
      PROVE  offer'[u] => kind'[u] # "outgoing"
  OBVIOUS
<1>7. QED
  BY <1>1, <1>2, <1>3, <1>4, <1>5, <1>6

\* A step that leaves the list alone, but for offers that are taken back.
LEMMA SameList ==
    ASSUME ListOK, UNCHANGED <<state, row, kind, file, place, declining>>,
           stop' \in [Transfer -> BOOLEAN],
           offer' = offer \/ \E t \in Transfer : offer' = [offer EXCEPT ![t] = FALSE]
    PROVE  ListOK'
<1> USE DEF ListOK
<1>1. offer' \in [Transfer -> BOOLEAN]
  OBVIOUS
<1>2. ASSUME NEW u \in Transfer
      PROVE  offer'[u] => kind'[u] # "outgoing"
  OBVIOUS
<1>3. QED
  BY <1>1, <1>2

\* The list and the table keep in step, whatever task or window acts.
LEMMA ListStep == ASSUME Types, [Next]_vars PROVE ListOK'
<1> USE DEF Types, listVars, taskVars
<1>1. place \in [Transfer -> 0..Untried] /\ stop \in [Transfer -> BOOLEAN]
  BY DEF ListOK
<1>2. CASE UNCHANGED <<listVars, declining>>
  BY <1>1, <1>2, SameList
<1>3. ASSUME NEW t \in Transfer, NEW how \in Incoming, NEW f \in File,
             Offered(t, how, f)
      PROVE  ListOK'
  <2>1. state[t] = "none" /\ how \in Kind
    BY <1>3, FreshIs DEF Offered, Kind
  <2>2. QED
    BY <1>2, <1>3, <2>1, AddList DEF Offered
<1>4. ASSUME NEW t \in Transfer, AcceptTooLate(t)
      PROVE  ListOK'
  BY <1>1, <1>4, BecomesList DEF AcceptTooLate, State
<1>5. ASSUME NEW t \in Transfer, Cancel(t)
      PROVE  ListOK'
  <2>1. /\ UNCHANGED <<state, row, kind, file, place, offer>>
        /\ stop' \in [Transfer -> BOOLEAN]
        /\ state[t] # "none" /\ declining' \subseteq declining \cup {t}
    BY <1>1, <1>5 DEF Cancel
  <2>2. QED
    BY <2>1 DEF ListOK
<1>6. ASSUME NEW t \in Transfer, Decline(t)
      PROVE  ListOK'
  <2>1. state[t] # "none"
    BY <1>6 DEF Decline, ListOK
  <2>2. QED
    BY <1>1, <1>6, <2>1, BecomesList DEF Decline, State
<1>7. ASSUME NEW t \in Transfer, Forget(t)
      PROVE  ListOK'
  <2> USE <1>7 DEF Forget, ListOK, Becomes
  <2>1. state' \in [Transfer -> State] /\ row' \in [Transfer -> State]
    BY DEF State
  <2>2. /\ kind' \in [Transfer -> Kind] /\ file' \in [Transfer -> File \cup {None}]
        /\ stop' \in [Transfer -> BOOLEAN]
    BY DEF Kind
  <2>3. place' \in [Transfer -> 0..Untried]
    BY DEF Untried
  <2>4. ASSUME NEW u \in Transfer
        PROVE  /\ state'[u] = "none" <=> row'[u] = "none"
               /\ state'[u] = "done" <=> row'[u] = "done"
               /\ state'[u] # "none" => file'[u] \in File
               /\ u \in declining' => state'[u] # "none"
    BY <2>1
  <2>5. ASSUME NEW u \in Transfer
        PROVE  offer'[u] => kind'[u] # "outgoing"
    OBVIOUS
  <2>6. QED
    BY <2>1, <2>2, <2>3, <2>4, <2>5
<1>8. ASSUME NEW k \in Task, BeginReceiving(k) \/ NoSocket(k) \/ Rename(k) \/ Scrap(k)
      PROVE  ListOK'
  <2>1. at[k] \in Receiving
    BY <1>8 DEF BeginReceiving, NoSocket, Rename, Scrap, Receiving
  <2>2. of[k] \in Transfer /\ state[of[k]] # "none"
    BY <2>1, ReceivesFor
  <2>3. UNCHANGED <<kind, file, stop, offer, place, declining>>
    BY <1>8 DEF BeginReceiving, NoSocket, Rename, Scrap
  <2>4. \/ Becomes(of[k], "receiving") \/ Becomes(of[k], "failed")
        \/ UNCHANGED <<state, row>>
    BY <1>8 DEF BeginReceiving, NoSocket, Rename, Scrap, Fails
  <2>5. QED
    BY <1>1, <1>2, <2>2, <2>3, <2>4, BecomesList DEF State
<1>9. ASSUME NEW k \in Task, Succeed(k)
      PROVE  ListOK'
  <2>1. at[k] = "kept" /\ at[k] \in Receiving
    BY <1>9 DEF Succeed, Receiving
  <2>2. of[k] \in Transfer /\ state[of[k]] # "none"
    BY <2>1, ReceivesFor
  <2>3. place' \in [Transfer -> 0..Untried]
    <3>1. name[k] \in 0..Untried
      BY DEF TaskOK
    <3>2. QED
      BY <1>1, <1>9, <3>1 DEF Succeed
  <2>4. QED
    BY <1>9, <2>2, <2>3, BecomesList DEF Succeed, State
<1>10. ASSUME NEW k \in Task, LeaveIt(k) \/ Repeat(k)
      PROVE  ListOK'
  <2>1. of[k] \in Transfer
    BY <1>10, RunsFor DEF LeaveIt, Repeat
  <2>2. QED
    BY <1>1, <1>10, <2>1, SameList DEF LeaveIt, Repeat
<1>11. ASSUME NEW k \in Task, AddOutgoing(k)
      PROVE  ListOK'
  <2>1. of[k] \in Transfer /\ state[of[k]] = "none"
    BY <1>11, RunsFor DEF AddOutgoing, BondOK
  <2>2. QED
    BY <1>2, <1>11, <2>1, AddList DEF AddOutgoing, Kind
<1>12. ASSUME NEW k \in Task, TheyConnect(k) \/ SentAll(k) \/ FailSending(k)
      PROVE  ListOK'
  <2>1. at[k] \in Serving /\ at[k] # "idle"
    BY <1>12 DEF TheyConnect, SentAll, FailSending, Serving
  <2>2. of[k] \in Transfer /\ state[of[k]] # "none"
    BY <2>1, RunsFor DEF BondOK
  <2>3. UNCHANGED <<kind, file, stop, offer, place, declining>>
    BY <1>12 DEF TheyConnect, SentAll, FailSending
  <2>4. \/ Becomes(of[k], "sending") \/ Becomes(of[k], "done")
        \/ Becomes(of[k], "failed")
    BY <1>12 DEF TheyConnect, SentAll, FailSending
  <2>5. QED
    BY <1>1, <2>2, <2>3, <2>4, BecomesList DEF State
<1>13. CASE Disconnect
  <2> USE <1>13 DEF Disconnect, ListOK
  <2>1. state' \in [Transfer -> State] /\ stop' \in [Transfer -> BOOLEAN]
    BY DEF State
  <2>2. ASSUME NEW u \in Transfer
        PROVE  /\ state'[u] = "none" <=> state[u] = "none"
               /\ state'[u] = "done" <=> state[u] = "done"
    OBVIOUS
  <2>3. QED
    BY <2>1, <2>2
<1>14. CASE Restart
  <2> USE <1>14 DEF Restart, ListOK
  <2>1. state' \in [Transfer -> State]
    BY DEF Restored, State, Active
  <2>2. ASSUME NEW u \in Transfer
        PROVE  /\ state'[u] = "none" <=> row[u] = "none"
               /\ state'[u] = "done" <=> row[u] = "done"
    BY DEF Restored, Active
  <2>3. QED
    BY <2>1, <2>2
<1>15. CASE Request \/ Connect
  BY <1>2, <1>15 DEF Request, Connect
<1>16. ASSUME NEW t \in Transfer, NEW k \in Task, Accept(t, k) \/ SendFile(t, k)
      PROVE  ListOK'
  BY <1>2, <1>16 DEF Accept, SendFile
<1>17. ASSUME NEW k \in Task,
             \/ Unanswered(k) \/ (\E n \in Name : Pick(k, n)) \/ AskAgain(k)
             \/ TellThem(k) \/ ReadBlock(k) \/ ReadFails(k) \/ OpenPart(k)
             \/ \E position \in 0..MaxSize : Answered(k, position)
      PROVE  ListOK'
  BY <1>2, <1>17 DEF Unanswered, Pick, AskAgain, TellThem, ReadBlock,
                     ReadFails, OpenPart, Answered
<1>18. CASE UNCHANGED vars
  BY <1>2, <1>18 DEF vars
<1>19. QED
  BY <1>3, <1>4, <1>5, <1>6, <1>7, <1>8, <1>9, <1>10, <1>11, <1>12, <1>13,
     <1>14, <1>15, <1>16, <1>17, <1>18 DEF Next, Own, Socket, Theirs

-----------------------------------------------------------------------------
(* The tasks.                                                              *)

\* A task that is over is as one that never began.
LEMMA EndsTask ==
    ASSUME TaskOK, NEW k \in Task, Ends(k)
    PROVE  TaskOK'
<1> USE DEF TaskOK, Ends, Holding
<1>1. /\ of' \in [Task -> Transfer \cup {None}] /\ at' \in [Task -> Stages]
      /\ name' \in [Task -> 0..Untried] /\ from' \in [Task -> Nat] /\ got' \in [Task -> Nat]
  BY DEF Stages, Untried
<1>2. QED
  BY <1>1

\* One that could not receive has no name left, and its transfer still.
LEMMA LetsGoTask ==
    ASSUME TaskOK, NEW k \in Task, at[k] # "idle", UNCHANGED of, LetsGo(k), Goes(k, "again")
    PROVE  TaskOK'
<1> USE DEF TaskOK, LetsGo, Goes, Holding
<1>1. /\ at' \in [Task -> Stages]
      /\ name' \in [Task -> 0..Untried] /\ from' \in [Task -> Nat] /\ got' \in [Task -> Nat]
  BY DEF Stages, Untried
<1>2. QED
  BY <1>1

\* One that goes on to another stage has what it needs there.
LEMMA GoesTask ==
    ASSUME TaskOK, NEW k \in Task, NEW s \in Stages \ {"idle"}, at[k] # "idle",
           Goes(k, s), UNCHANGED <<of, got>>,
           name' \in [Task -> 0..Untried], from' \in [Task -> Nat],
           \A j \in Task \ {k} : name'[j] = name[j] /\ from'[j] = from[j],
           s \in Holding \cup {"kept"} => name'[k] # 0,
           s \in {"begin", "pick"} => from'[k] = 0
    PROVE  TaskOK'
<1> USE DEF TaskOK, Goes
<1>1. at' \in [Task -> Stages]
  OBVIOUS
<1>2. ASSUME NEW j \in Task
      PROVE  /\ at'[j] = "idle" <=> of'[j] = None
             /\ at'[j] \in Holding \cup {"kept"} => name'[j] # 0
             /\ at'[j] \in {"idle", "begin", "pick"} => from'[j] = 0
  <2>1. CASE j = k
    BY <2>1
  <2>2. CASE j # k
    BY <2>2
  <2>3. QED
    BY <2>1, <2>2
<1>3. QED
  BY <1>1, <1>2

\* The tasks keep a name while they need one and a place to carry on only
\* where they have asked for it.
LEMMA TaskStep == ASSUME Types, [Next]_vars PROVE TaskOK'
<1> USE DEF Types, taskVars
<1>1. CASE UNCHANGED taskVars
  BY <1>1 DEF TaskOK
<1>2. CASE Restart
  BY <1>2 DEF Restart, TaskOK, Stages, Holding, Untried
<1>3. ASSUME NEW t \in Transfer, NEW k \in Task, Accept(t, k) \/ SendFile(t, k)
      PROVE  TaskOK'
  <2>1. at[k] = "idle"
    BY <1>3, SpareIs DEF Accept, SendFile
  <2>2. /\ of' = [of EXCEPT ![k] = t] /\ UNCHANGED <<name, from, got>>
        /\ Goes(k, "begin") \/ Goes(k, "bind")
    BY <1>3 DEF Accept, SendFile
  <2>3. of' \in [Task -> Transfer \cup {None}] /\ at' \in [Task -> Stages]
    BY <2>2 DEF TaskOK, Goes, Stages
  <2>4. QED
    BY <2>1, <2>2, <2>3 DEF TaskOK, Goes, Holding
<1>4. ASSUME NEW k \in Task, BeginReceiving(k)
      PROVE  TaskOK'
  <2>1. CASE Resumable(k)
    <3> USE <1>4, <2>1 DEF BeginReceiving, TaskOK
    <3>1. disk[First].len \in Nat
      BY FirstIs DEF Resumable, DiskOK, Exists, Content
    <3>2. at' = [j \in Task |-> IF j = k THEN "parked"
                                ELSE IF j \in Displaced(k) THEN "pick" ELSE at[j]]
      OBVIOUS
    <3>3. from' = [j \in Task |-> IF j = k THEN disk[First].len
                                  ELSE IF j \in Displaced(k) THEN 0 ELSE from[j]]
      OBVIOUS
    <3>4. at' \in [Task -> Stages] /\ from' \in [Task -> Nat]
      BY <3>1, <3>2, <3>3 DEF Stages
    <3>5. \A j \in Displaced(k) : j \in Task /\ at[j] = "parked"
      BY DEF Displaced
    <3>6. QED
      BY <3>2, <3>3, <3>4, <3>5 DEF Holding
  <2>2. CASE ~Resumable(k)
    BY <1>4, <2>2, GoesTask DEF BeginReceiving, TaskOK, Stages, Holding
  <2>3. QED
    BY <2>1, <2>2
<1>5. ASSUME NEW k \in Task, NEW position \in 0..MaxSize, Answered(k, position)
      PROVE  TaskOK'
  <2>1. CASE position <= from[k]
    <3>1. from' = [from EXCEPT ![k] = position] /\ name' = [name EXCEPT ![k] = 1]
      BY <1>5, <2>1 DEF Answered
    <3>2. position \in Nat /\ 1 \in 0..Untried
      BY DEF MaxSize, Untried
    <3>3. from' \in [Task -> Nat] /\ name' \in [Task -> 0..Untried]
      BY <3>1, <3>2 DEF TaskOK
    <3>4. QED
      BY <1>5, <2>1, <3>1, <3>3, GoesTask DEF Answered, TaskOK, Stages, Holding
  <2>2. CASE ~(position <= from[k])
    BY <1>5, <2>2, GoesTask DEF Answered, TaskOK, Stages, Holding
  <2>3. QED
    BY <2>1, <2>2
<1>6. ASSUME NEW k \in Task, Unanswered(k)
      PROVE  TaskOK'
  BY <1>6, GoesTask DEF Unanswered, TaskOK, Stages, Holding
<1>7. ASSUME NEW k \in Task, NEW n \in Name, Pick(k, n)
      PROVE  TaskOK'
  <2>1. n \in 0..Untried /\ n # 0
    BY DEF Name, Untried
  <2>2. QED
    BY <1>7, <2>1, GoesTask DEF Pick, TaskOK, Stages, Holding
<1>8. ASSUME NEW k \in Task, OpenPart(k)
      PROVE  TaskOK'
  <2>1. GoOn(k) \in {"read", "short"}
    BY DEF GoOn
  <2>2. /\ Goes(k, "read") \/ Goes(k, "short")
        /\ at[k] = "dial" /\ UNCHANGED <<of, name>>
    BY <1>8, <2>1 DEF OpenPart
  <2>3. /\ got' \in [Task -> Nat] /\ from' \in [Task -> Nat]
        /\ \A j \in Task \ {k} : from'[j] = from[j]
    BY <1>8 DEF OpenPart, TaskOK
  <2>4. at' \in [Task -> Stages] /\ at'[k] \in {"read", "short"}
    BY <2>2 DEF Goes, TaskOK, Stages
  <2>5. \A j \in Task \ {k} : at'[j] = at[j]
    BY <2>2 DEF Goes, TaskOK
  <2>6. QED
    BY <2>2, <2>3, <2>4, <2>5 DEF TaskOK, Holding
<1>9. ASSUME NEW k \in Task, NoSocket(k) \/ Rename(k) \/ Scrap(k)
      PROVE  TaskOK'
  <2>1. at[k] \in Holding /\ at[k] # "idle" /\ UNCHANGED of
    BY <1>9 DEF NoSocket, Rename, Scrap, Holding
  <2>2. \/ Fails(k)
        \/ (Goes(k, "short") \/ Goes(k, "kept")) /\ UNCHANGED <<name, from, got>>
    BY <1>9 DEF NoSocket, Rename, Scrap
  <2>3. QED
    BY <2>1, <2>2, LetsGoTask, GoesTask DEF Fails, TaskOK, Stages
<1>10. ASSUME NEW k \in Task, ReadBlock(k)
      PROVE  TaskOK'
  <2>1. GoOn(k) \in {"read", "short"}
    BY DEF GoOn
  <2>2. /\ Goes(k, "read") \/ Goes(k, "short") \/ Goes(k, "whole")
        /\ at[k] = "read" /\ UNCHANGED <<of, name, from>>
    BY <1>10, <2>1 DEF ReadBlock
  <2>3. got' \in [Task -> Nat]
    BY <1>10 DEF ReadBlock, TaskOK
  <2>4. at' \in [Task -> Stages] /\ at'[k] \in {"read", "short", "whole"}
    BY <2>2 DEF Goes, TaskOK, Stages
  <2>5. \A j \in Task \ {k} : at'[j] = at[j]
    BY <2>2 DEF Goes, TaskOK
  <2>6. QED
    BY <2>2, <2>3, <2>4, <2>5 DEF TaskOK, Holding
<1>11. ASSUME NEW k \in Task, ReadFails(k) \/ AskAgain(k)
      PROVE  TaskOK'
  BY <1>11, GoesTask DEF ReadFails, AskAgain, TaskOK, Stages, Holding
<1>12. ASSUME NEW k \in Task,
              Succeed(k) \/ LeaveIt(k) \/ Repeat(k) \/ SentAll(k) \/ FailSending(k)
      PROVE  TaskOK'
  BY <1>12, EndsTask DEF Succeed, LeaveIt, Repeat, SentAll, FailSending
<1>13. ASSUME NEW k \in Task, AddOutgoing(k) \/ TellThem(k) \/ TheyConnect(k)
      PROVE  TaskOK'
  <2>1. /\ at[k] # "idle"
        /\ \/ Ends(k)
           \/ /\ Goes(k, "tell") \/ Goes(k, "listen") \/ Goes(k, "send")
              /\ UNCHANGED <<of, name, from, got>>
    BY <1>13 DEF AddOutgoing, TellThem, TheyConnect
  <2>2. QED
    BY <2>1, EndsTask, GoesTask DEF TaskOK, Stages, Holding
<1>14. CASE \/ Request \/ Disconnect \/ Connect
            \/ \E t \in Transfer, how \in Incoming, f \in File : Offered(t, how, f)
            \/ \E t \in Transfer : AcceptTooLate(t) \/ Cancel(t) \/ Decline(t) \/ Forget(t)
  BY <1>1, <1>14 DEF Request, Disconnect, Connect, Offered, AcceptTooLate, Cancel,
                     Decline, Forget
<1>15. CASE UNCHANGED vars
  BY <1>1, <1>15 DEF vars
<1>16. QED
  BY <1>2, <1>3, <1>4, <1>5, <1>6, <1>7, <1>8, <1>9, <1>10, <1>11, <1>12, <1>13,
     <1>14, <1>15 DEF Next, Own, Socket, Theirs

-----------------------------------------------------------------------------
(* The tasks and the list.                                                 *)

\* A step that takes no transfer from a task that has one, and moves tasks
\* only along their way, leaves them bound as they were.
LEMMA BondKept ==
    ASSUME TaskOK, BondOK,
           \A t \in Transfer : Taken(t) =>
               (state'[t] = "none" <=> state[t] = "none") /\ kind'[t] = kind[t],
           \A k \in Task :
               \/ at'[k] = "idle" /\ of'[k] = None
               \/ /\ of'[k] = of[k]
                  /\ \/ at'[k] = at[k]
                     \/ at[k] \in Receiving /\ at'[k] \in Receiving
                     \/ at[k] \in Serving /\ at'[k] \in Serving
    PROVE  BondOK'
<1> SUFFICES ASSUME NEW k \in Task
             PROVE  /\ at'[k] = "bind" => /\ state'[of'[k]] = "none"
                                          /\ \A j \in Task \ {k} : of'[j] # of'[k]
                    /\ at'[k] \in Receiving => /\ state'[of'[k]] # "none"
                                               /\ kind'[of'[k]] # "outgoing"
                    /\ at'[k] \in Serving => /\ state'[of'[k]] # "none"
                                             /\ kind'[of'[k]] = "outgoing"
  BY DEF BondOK
<1>1. CASE at'[k] = "idle"
  BY <1>1 DEF Receiving, Serving
<1>2. CASE at'[k] # "idle"
  <2>1. at[k] # "idle" /\ of'[k] = of[k]
    BY <1>2 DEF Receiving, Serving
  <2>2. of[k] \in Transfer /\ Taken(of[k])
    BY <2>1, RunsFor DEF Taken
  <2>3. /\ state'[of[k]] = "none" <=> state[of[k]] = "none"
        /\ kind'[of[k]] = kind[of[k]]
    BY <2>2
  <2>4. ASSUME at'[k] = "bind"
        PROVE  state'[of'[k]] = "none" /\ \A j \in Task \ {k} : of'[j] # of'[k]
    <3>1. at[k] = "bind"
      BY <1>2, <2>4 DEF Receiving, Serving
    <3>2. \A j \in Task \ {k} : of'[j] = None \/ of'[j] = of[j]
      OBVIOUS
    <3>3. QED
      BY <2>1, <2>2, <2>3, <3>1, <3>2 DEF BondOK
  <2>5. at'[k] \in Receiving => at[k] \in Receiving
    BY <2>1, <1>2 DEF Receiving, Serving
  <2>6. at'[k] \in Serving => at[k] \in Serving
    BY <2>1, <1>2 DEF Receiving, Serving
  <2>7. QED
    BY <2>1, <2>3, <2>4, <2>5, <2>6 DEF BondOK
<1>3. QED
  BY <1>1, <1>2

\* The tasks stay bound to the transfers they serve.
LEMMA BondStep == ASSUME Types, [Next]_vars PROVE BondOK'
<1> USE DEF Types, taskVars, listVars
<1>1. CASE UNCHANGED <<of, at, state, kind>>
  BY <1>1, BondKept
<1>2. CASE Restart
  BY <1>2 DEF Restart, BondOK, Receiving, Serving
<1>3. ASSUME NEW t \in Transfer, NEW k \in Task, Accept(t, k)
      PROVE  BondOK'
  <2>1. /\ at[k] = "idle" /\ of' = [of EXCEPT ![k] = t] /\ Goes(k, "begin")
        /\ UNCHANGED <<state, kind>>
    BY <1>3, SpareIs DEF Accept
  <2>2. state[t] # "none" /\ kind[t] # "outgoing"
    BY <1>3 DEF Accept, ListOK
  <2>3. of'[k] = t /\ at'[k] = "begin"
    BY <2>1 DEF TaskOK, Goes
  <2>4. \A j \in Task \ {k} : of'[j] = of[j] /\ at'[j] = at[j]
    BY <2>1 DEF TaskOK, Goes
  <2>5. ASSUME NEW j \in Task, at'[j] = "bind"
        PROVE  state'[of'[j]] = "none" /\ \A i \in Task \ {j} : of'[i] # of'[j]
    <3>1. j # k /\ at[j] = "bind" /\ of'[j] = of[j]
      BY <2>3, <2>4, <2>5
    <3>2. state[of[j]] = "none" /\ of[j] # t
      BY <2>2, <3>1 DEF BondOK
    <3>3. QED
      BY <2>1, <2>3, <2>4, <3>1, <3>2 DEF BondOK
  <2>6. ASSUME NEW j \in Task
        PROVE  /\ at'[j] \in Receiving => /\ state'[of'[j]] # "none"
                                          /\ kind'[of'[j]] # "outgoing"
               /\ at'[j] \in Serving => /\ state'[of'[j]] # "none"
                                        /\ kind'[of'[j]] = "outgoing"
    <3>1. CASE j = k
      BY <2>1, <2>2, <2>3, <3>1 DEF Serving
    <3>2. CASE j # k
      BY <2>1, <2>4, <3>2 DEF BondOK
    <3>3. QED
      BY <3>1, <3>2
  <2>7. QED
    BY <2>5, <2>6 DEF BondOK
<1>4. ASSUME NEW t \in Transfer, NEW k \in Task, SendFile(t, k)
      PROVE  BondOK'
  <2>1. /\ at[k] = "idle" /\ of' = [of EXCEPT ![k] = t] /\ Goes(k, "bind")
        /\ UNCHANGED <<state, kind>>
    BY <1>4, SpareIs DEF SendFile
  <2>2. state[t] = "none" /\ \A j \in Task : of[j] # t
    BY <1>4, FreshIs DEF SendFile, Taken
  <2>3. of'[k] = t /\ at'[k] = "bind"
    BY <2>1 DEF TaskOK, Goes
  <2>4. \A j \in Task \ {k} : of'[j] = of[j] /\ at'[j] = at[j]
    BY <2>1 DEF TaskOK, Goes
  <2>5. ASSUME NEW j \in Task, at'[j] = "bind"
        PROVE  state'[of'[j]] = "none" /\ \A i \in Task \ {j} : of'[i] # of'[j]
    <3>1. CASE j = k
      BY <2>1, <2>2, <2>3, <2>4, <3>1
    <3>2. CASE j # k
      BY <2>1, <2>2, <2>3, <2>4, <2>5, <3>2 DEF BondOK
    <3>3. QED
      BY <3>1, <3>2
  <2>6. ASSUME NEW j \in Task
        PROVE  /\ at'[j] \in Receiving => /\ state'[of'[j]] # "none"
                                          /\ kind'[of'[j]] # "outgoing"
               /\ at'[j] \in Serving => /\ state'[of'[j]] # "none"
                                        /\ kind'[of'[j]] = "outgoing"
    <3>1. CASE j = k
      BY <2>3, <3>1 DEF Receiving, Serving
    <3>2. CASE j # k
      BY <2>1, <2>4, <3>2 DEF BondOK
    <3>3. QED
      BY <3>1, <3>2
  <2>7. QED
    BY <2>5, <2>6 DEF BondOK
<1>5. ASSUME NEW k \in Task, AddOutgoing(k)
      PROVE  BondOK'
  <2>1. CASE Ends(k) /\ UNCHANGED listVars
    BY <2>1, BondKept DEF Ends, TaskOK
  <2>2. ASSUME NEW f \in File, Add(of[k], "outgoing", f), Goes(k, "tell"), UNCHANGED of
        PROVE  BondOK'
    <3>1. /\ at[k] = "bind" /\ of[k] \in Transfer
          /\ \A j \in Task \ {k} : of[j] # of[k]
      BY <1>5, RunsFor DEF AddOutgoing, BondOK
    <3>2. /\ state' = [state EXCEPT ![of[k]] = "offered"]
          /\ kind' = [kind EXCEPT ![of[k]] = "outgoing"]
          /\ at' = [at EXCEPT ![k] = "tell"] /\ of' = of
      BY <2>2 DEF Add, Becomes, Goes
    <3>3. state'[of[k]] = "offered" /\ kind'[of[k]] = "outgoing" /\ at'[k] = "tell"
      BY <3>1, <3>2 DEF ListOK, TaskOK
    <3>4. \A j \in Task \ {k} : /\ at'[j] = at[j]
                                /\ state'[of[j]] = state[of[j]] /\ kind'[of[j]] = kind[of[j]]
      BY <3>1, <3>2 DEF ListOK, TaskOK
    <3>5. ASSUME NEW j \in Task
          PROVE  /\ at'[j] = "bind" => /\ state'[of'[j]] = "none"
                                       /\ \A i \in Task \ {j} : of'[i] # of'[j]
                 /\ at'[j] \in Receiving => /\ state'[of'[j]] # "none"
                                            /\ kind'[of'[j]] # "outgoing"
                 /\ at'[j] \in Serving => /\ state'[of'[j]] # "none"
                                          /\ kind'[of'[j]] = "outgoing"
      <4>1. CASE j = k
        BY <3>2, <3>3, <4>1 DEF Receiving
      <4>2. CASE j # k
        BY <3>2, <3>4, <4>2 DEF BondOK
      <4>3. QED
        BY <4>1, <4>2
    <3>6. QED
      BY <3>5 DEF BondOK
  <2>3. QED
    BY <1>5, <2>1, <2>2 DEF AddOutgoing
<1>6. ASSUME NEW t \in Transfer, NEW how \in Incoming, NEW f \in File, Offered(t, how, f)
      PROVE  BondOK'
  <2>1. ~Taken(t) /\ UNCHANGED <<of, at>>
    BY <1>6, FreshIs DEF Offered
  <2>2. \/ UNCHANGED <<state, kind>>
        \/ /\ state' = [state EXCEPT ![t] = "offered"]
           /\ kind' = [kind EXCEPT ![t] = how]
    BY <1>6 DEF Offered, Add, Becomes
  <2>3. \A u \in Transfer : u # t => state'[u] = state[u] /\ kind'[u] = kind[u]
    BY <2>2 DEF ListOK
  <2>4. QED
    BY <2>1, <2>3, BondKept
<1>7. ASSUME NEW t \in Transfer, AcceptTooLate(t) \/ Cancel(t) \/ Decline(t) \/ Forget(t)
      PROVE  BondOK'
  <2>1. /\ UNCHANGED <<of, at>>
        /\ \A u \in Transfer : u # t => state'[u] = state[u] /\ kind'[u] = kind[u]
    BY <1>7 DEF AcceptTooLate, Cancel, Decline, Forget, Becomes, ListOK
  <2>2. \/ ~Taken(t)
        \/ state[t] # "none" /\ state'[t] # "none" /\ kind'[t] = kind[t]
    BY <1>7 DEF AcceptTooLate, Cancel, Decline, Forget, Becomes, ListOK
  <2>3. QED
    BY <2>1, <2>2, BondKept
<1>8. CASE Disconnect
  <2>1. /\ UNCHANGED <<of, at, kind>>
        /\ \A u \in Transfer : state'[u] = "none" <=> state[u] = "none"
    BY <1>8 DEF Disconnect
  <2>2. QED
    BY <2>1, BondKept
<1>9. ASSUME NEW k \in Task,
             \/ BeginReceiving(k) \/ Unanswered(k) \/ (\E n \in Name : Pick(k, n))
             \/ NoSocket(k) \/ Rename(k) \/ Scrap(k) \/ AskAgain(k)
             \/ ReadBlock(k) \/ ReadFails(k) \/ OpenPart(k)
             \/ \E position \in 0..MaxSize : Answered(k, position)
      PROVE  BondOK'
  <2>1. at[k] \in Receiving /\ UNCHANGED <<of, kind>>
    BY <1>9 DEF BeginReceiving, Unanswered, Pick, NoSocket, Rename, Scrap, AskAgain,
                ReadBlock, ReadFails, OpenPart, Answered, Receiving
  <2>2. of[k] \in Transfer /\ state[of[k]] # "none"
    BY <2>1, ReceivesFor
  <2>3. \/ UNCHANGED state \/ Becomes(of[k], "receiving") \/ Becomes(of[k], "failed")
    BY <1>9 DEF BeginReceiving, Unanswered, Pick, NoSocket, Rename, Scrap, AskAgain,
                ReadBlock, ReadFails, OpenPart, Answered, Fails
  <2>4. \A t \in Transfer : state'[t] = "none" <=> state[t] = "none"
    BY <2>2, <2>3 DEF Becomes, ListOK
  <2>5. ASSUME NEW j \in Task
        PROVE  at'[j] = at[j] \/ (at[j] \in Receiving /\ at'[j] \in Receiving)
    <3>1. CASE BeginReceiving(k) /\ Resumable(k)
      BY <2>1, <3>1 DEF BeginReceiving, Displaced, Receiving
    <3>2. CASE ~(BeginReceiving(k) /\ Resumable(k))
      <4>1. \E s \in Receiving : Goes(k, s)
        BY <1>9, <3>2 DEF BeginReceiving, Unanswered, Pick, NoSocket, Rename, Scrap,
             AskAgain, ReadBlock, ReadFails, OpenPart, Answered, Fails, GoOn, Receiving
      <4>2. QED
        BY <2>1, <4>1 DEF Goes, TaskOK
    <3>3. QED
      BY <3>1, <3>2
  <2>6. QED
    BY <2>1, <2>4, <2>5, BondKept
<1>10. ASSUME NEW k \in Task,
              \/ Succeed(k) \/ LeaveIt(k) \/ Repeat(k)
              \/ TellThem(k) \/ TheyConnect(k) \/ SentAll(k) \/ FailSending(k)
       PROVE  BondOK'
  <2>1. /\ at[k] \in Receiving \cup Serving /\ UNCHANGED kind
        /\ at[k] # "idle"
    BY <1>10 DEF Succeed, LeaveIt, Repeat, TellThem, TheyConnect, SentAll, FailSending,
                 Receiving, Serving
  <2>2. of[k] \in Transfer /\ state[of[k]] # "none"
    BY <2>1, RunsFor DEF BondOK
  <2>3. \/ UNCHANGED state \/ Becomes(of[k], "done") \/ Becomes(of[k], "failed")
        \/ Becomes(of[k], "sending")
    BY <1>10 DEF Succeed, LeaveIt, Repeat, TellThem, TheyConnect, SentAll, FailSending
  <2>4. \A t \in Transfer : state'[t] = "none" <=> state[t] = "none"
    BY <2>2, <2>3 DEF Becomes, ListOK
  <2>5. \/ Ends(k)
        \/ /\ at[k] \in Serving /\ UNCHANGED of
           /\ Goes(k, "listen") \/ Goes(k, "send")
    BY <1>10 DEF Succeed, LeaveIt, Repeat, TellThem, TheyConnect, SentAll, FailSending,
                 Serving
  <2>6. \A j \in Task : \/ at'[j] = "idle" /\ of'[j] = None
                        \/ of'[j] = of[j] /\ at'[j] = at[j]
                        \/ /\ of'[j] = of[j]
                           /\ at[j] \in Serving /\ at'[j] \in Serving
    BY <2>5 DEF Ends, Goes, TaskOK, Serving
  <2>7. QED
    BY <2>1, <2>4, <2>6, BondKept
<1>11. CASE Request \/ Connect \/ UNCHANGED vars
  BY <1>1, <1>11 DEF Request, Connect, vars
<1>12. QED
  BY <1>2, <1>3, <1>4, <1>5, <1>6, <1>7, <1>8, <1>9, <1>10, <1>11
     DEF Next, Own, Socket, Theirs

-----------------------------------------------------------------------------
(* What one task's step does to the others, and how much is held.          *)

\* A task's step leaves the others where they are, except that it takes the
\* port of one that waits to be answered.
LEMMA OthersStay ==
    ASSUME Types, NEW k \in Task, Own(k) \/ Socket(k) \/ Theirs(k),
           NEW j \in Task \ {k}
    PROVE  /\ of'[j] = of[j] /\ name'[j] = name[j] /\ got'[j] = got[j]
           /\ \/ at'[j] = at[j] /\ from'[j] = from[j]
              \/ at[j] = "parked" /\ at'[j] = "pick" /\ from'[j] = 0
<1> USE DEF Types, TaskOK, Goes
<1>1. CASE BeginReceiving(k)
  BY <1>1 DEF BeginReceiving, Displaced
<1>2. ASSUME Ends(k)
      PROVE  /\ of'[j] = of[j] /\ name'[j] = name[j] /\ got'[j] = got[j]
             /\ at'[j] = at[j] /\ from'[j] = from[j]
  BY <1>2 DEF Ends
<1>3. ASSUME LetsGo(k), UNCHANGED of, Goes(k, "again")
      PROVE  /\ of'[j] = of[j] /\ name'[j] = name[j] /\ got'[j] = got[j]
             /\ at'[j] = at[j] /\ from'[j] = from[j]
  BY <1>3 DEF LetsGo
<1>4. CASE Succeed(k) \/ LeaveIt(k) \/ Repeat(k) \/ SentAll(k) \/ FailSending(k)
           \/ AddOutgoing(k) \/ TellThem(k)
  BY <1>2, <1>4 DEF Succeed, LeaveIt, Repeat, SentAll, FailSending, AddOutgoing, TellThem
<1>5. CASE NoSocket(k) \/ Rename(k) \/ Scrap(k)
  BY <1>3, <1>5 DEF NoSocket, Rename, Scrap, Fails
<1>6. CASE \/ Unanswered(k) \/ (\E n \in Name : Pick(k, n)) \/ AskAgain(k)
           \/ ReadBlock(k) \/ ReadFails(k) \/ TheyConnect(k)
  BY <1>6 DEF Unanswered, Pick, AskAgain, ReadBlock, ReadFails, TheyConnect
<1>7. CASE OpenPart(k) \/ \E position \in 0..MaxSize : Answered(k, position)
  BY <1>7 DEF OpenPart, Answered
<1>8. QED
  BY <1>1, <1>4, <1>5, <1>6, <1>7 DEF Own, Socket, Theirs

\* The transfer of a task that receives stays of the file it was offered as.
LEMMA FileKept ==
    ASSUME Types, [Next]_vars, NEW k \in Task, at[k] \in Receiving
    PROVE  file'[of[k]] = file[of[k]] /\ kind'[of[k]] = kind[of[k]]
<1> USE DEF Types, listVars
<1>1. of[k] \in Transfer /\ state[of[k]] # "none" /\ Taken(of[k])
  BY ReceivesFor DEF Taken
<1>2. CASE UNCHANGED <<file, kind>>
  BY <1>2
<1>3. ASSUME NEW t \in Transfer, t # of[k],
             \/ \E how \in Kind, f \in File : Add(t, how, f)
             \/ Forget(t)
      PROVE  file'[of[k]] = file[of[k]] /\ kind'[of[k]] = kind[of[k]]
  BY <1>1, <1>3 DEF Add, Forget, ListOK
<1>4. ASSUME NEW t \in Transfer, NEW how \in Incoming, NEW f \in File, Offered(t, how, f)
      PROVE  file'[of[k]] = file[of[k]] /\ kind'[of[k]] = kind[of[k]]
  <2>1. t # of[k] /\ how \in Kind
    BY <1>1, <1>4, FreshIs DEF Offered, Kind
  <2>2. QED
    BY <1>2, <1>3, <1>4, <2>1 DEF Offered
<1>5. ASSUME NEW t \in Transfer, Forget(t)
      PROVE  file'[of[k]] = file[of[k]] /\ kind'[of[k]] = kind[of[k]]
  BY <1>1, <1>3, <1>5 DEF Forget
<1>6. ASSUME NEW j \in Task, AddOutgoing(j)
      PROVE  file'[of[k]] = file[of[k]] /\ kind'[of[k]] = kind[of[k]]
  <2>1. of[j] \in Transfer /\ of[j] # of[k]
    BY <1>1, <1>6, RunsFor DEF AddOutgoing, BondOK
  <2>2. QED
    BY <1>2, <1>3, <1>6, <2>1 DEF AddOutgoing, Kind
<1>7. ASSUME NEW j \in Task, Own(j) \/ Socket(j) \/ Theirs(j), ~AddOutgoing(j)
      PROVE  UNCHANGED <<file, kind>>
  BY <1>7 DEF Own, Socket, Theirs, BeginReceiving, Unanswered, Pick, NoSocket, Rename,
     Scrap, Succeed, AskAgain, LeaveIt, Repeat, TellThem, FailSending, ReadBlock,
     ReadFails, SentAll, Answered, OpenPart, TheyConnect
<1>8. ASSUME NEW t \in Transfer, NEW j \in Task, Accept(t, j) \/ SendFile(t, j)
      PROVE  UNCHANGED <<file, kind>>
  BY <1>8 DEF Accept, SendFile
<1>9. ASSUME NEW t \in Transfer, AcceptTooLate(t) \/ Cancel(t) \/ Decline(t)
      PROVE  UNCHANGED <<file, kind>>
  BY <1>9 DEF AcceptTooLate, Cancel, Decline
<1>10. CASE Request \/ Connect \/ Disconnect \/ Restart \/ UNCHANGED vars
  BY <1>2, <1>10 DEF Request, Connect, Disconnect, Restart, vars
<1>11. QED
  BY <1>2, <1>4, <1>5, <1>6, <1>7, <1>8, <1>9, <1>10 DEF Next

\* No task has more than it was offered, or a place to carry on beyond it.
LEMMA SizeStep == ASSUME Types, [Next]_vars PROVE SizeOK'
<1> USE DEF Types, taskVars, Goes, Receiving
<1> DEFINE Less(k) == /\ at[k] \in {"parked", "dial"} => from[k] < Size[file[of[k]]]
                      /\ at[k] = "read" => got[k] < Size[file[of[k]]]
<1>1. ASSUME NEW j \in Task, of'[j] = of[j], at'[j] = at[j], from'[j] = from[j],
             got'[j] = got[j]
      PROVE  Less(j)'
  <2>1. at[j] \in Receiving => file'[of[j]] = file[of[j]]
    BY FileKept
  <2>2. QED
    BY <1>1, <2>1 DEF SizeOK
<1>2. ASSUME NEW j \in Task, at'[j] \notin {"parked", "dial", "read"}
      PROVE  Less(j)'
  BY <1>2
<1> HIDE DEF Less
<1>3. CASE UNCHANGED taskVars
  BY <1>1, <1>3 DEF SizeOK, Less
<1>4. CASE Restart
  BY <1>4 DEF Restart, SizeOK
<1>5. ASSUME NEW t \in Transfer, NEW k \in Task, Accept(t, k) \/ SendFile(t, k)
      PROVE  SizeOK'
  <2>1. at'[k] \notin {"parked", "dial", "read"}
    BY <1>5 DEF Accept, SendFile, TaskOK
  <2>2. \A j \in Task \ {k} : /\ of'[j] = of[j] /\ at'[j] = at[j]
                              /\ from'[j] = from[j] /\ got'[j] = got[j]
    BY <1>5 DEF Accept, SendFile, TaskOK
  <2>3. \A j \in Task : Less(j)'
    BY <1>1, <1>2, <2>1, <2>2
  <2>4. QED
    BY <2>3 DEF SizeOK, Less
<1>6. ASSUME NEW k \in Task, Own(k) \/ Socket(k) \/ Theirs(k), Less(k)'
      PROVE  SizeOK'
  <2>1. ASSUME NEW j \in Task PROVE Less(j)'
    <3>1. CASE j = k
      BY <1>6, <3>1
    <3>2. CASE j # k
      BY <1>1, <1>2, <1>6, <3>2, OthersStay
    <3>3. QED
      BY <3>1, <3>2
  <2>2. QED
    BY <2>1 DEF SizeOK, Less
<1>7. ASSUME NEW k \in Task, Own(k) \/ Socket(k) \/ Theirs(k)
      PROVE  Less(k)'
  <2>1. CASE BeginReceiving(k) /\ Resumable(k)
    <3>1. at'[k] = "parked" /\ from'[k] = disk[First].len /\ of'[k] = of[k]
      BY <2>1 DEF BeginReceiving, TaskOK
    <3>2. at[k] \in Receiving /\ disk[First].len < Size[file[of[k]]]
      BY <2>1 DEF BeginReceiving, Resumable
    <3>3. file'[of[k]] = file[of[k]]
      BY <3>2, FileKept
    <3>4. QED
      BY <3>1, <3>2, <3>3 DEF Less
  <2>2. ASSUME NEW position \in 0..MaxSize, Answered(k, position), position <= from[k]
        PROVE  Less(k)'
    <3>1. at'[k] = "dial" /\ from'[k] = position /\ of'[k] = of[k]
      BY <2>2 DEF Answered, TaskOK
    <3>2. at[k] \in Receiving /\ from[k] < Size[file[of[k]]]
      BY <2>2 DEF Answered, SizeOK
    <3>3. file'[of[k]] = file[of[k]]
      BY <3>2, FileKept
    <3>4. from[k] \in Nat /\ position \in Nat /\ Size[file[of[k]]] \in Nat
      BY <3>2, ReceivesFor DEF TaskOK, MaxSize
    <3>5. position < Size[file[of[k]]]
      BY <2>2, <3>2, <3>4
    <3>6. QED
      BY <3>1, <3>3, <3>5 DEF Less
  <2>3. ASSUME NEW n \in Name, Pick(k, n)
        PROVE  Less(k)'
    <3>1. at'[k] = "dial" /\ from'[k] = 0 /\ of'[k] = of[k]
      BY <2>3 DEF Pick, TaskOK
    <3>2. at[k] \in Receiving
      BY <2>3 DEF Pick
    <3>3. file'[of[k]] = file[of[k]] /\ Size[file[of[k]]] \in Nat \ {0}
      BY <3>2, FileKept, ReceivesFor
    <3>4. QED
      BY <3>1, <3>3 DEF Less
  <2>4. CASE OpenPart(k)
    <3>1. at'[k] \in {"read", "short"} /\ of'[k] = of[k]
      BY <2>4 DEF OpenPart, GoOn, TaskOK
    <3>2. at[k] \in Receiving /\ from[k] < Size[file[of[k]]]
      BY <2>4 DEF OpenPart, SizeOK
    <3>3. file'[of[k]] = file[of[k]]
      BY <3>2, FileKept
    <3>4. at'[k] = "read" => got'[k] = from[k]
      BY <2>4 DEF OpenPart, TaskOK
    <3>5. QED
      BY <3>1, <3>2, <3>3, <3>4 DEF Less
  <2>5. CASE ReadBlock(k)
    <3>1. at[k] \in Receiving /\ of'[k] = of[k] /\ got[k] \in Nat /\ got'[k] = got[k] + 1
      BY <2>5 DEF ReadBlock, TaskOK
    <3>2. file'[of[k]] = file[of[k]] /\ Size[file[of[k]]] \in Nat
      BY <3>1, FileKept, ReceivesFor
    <3>3. at'[k] = "read" => got[k] + 1 # Size[file[of[k]]]
      BY <2>5 DEF ReadBlock, GoOn, TaskOK
    <3>4. got[k] < Size[file[of[k]]] /\ at'[k] \in {"read", "short", "whole"}
      BY <2>5 DEF ReadBlock, GoOn, TaskOK
    <3>5. at'[k] = "read" => got'[k] < Size[file'[of'[k]]]
      BY <3>1, <3>2, <3>3, <3>4
    <3>6. QED
      BY <3>4, <3>5 DEF Less
  <2>6. CASE /\ ~(BeginReceiving(k) /\ Resumable(k)) /\ ~OpenPart(k) /\ ~ReadBlock(k)
             /\ ~\E n \in Name : Pick(k, n)
             /\ ~\E position \in 0..MaxSize : Answered(k, position) /\ position <= from[k]
    <3>1. at'[k] \notin {"parked", "dial", "read"}
      BY <1>7, <2>6 DEF Own, Socket, Theirs, BeginReceiving, Unanswered, NoSocket, Rename,
         Scrap, Succeed, AskAgain, LeaveIt, Repeat, AddOutgoing, TellThem, FailSending,
         ReadFails, SentAll, Answered, TheyConnect, Ends, Fails, TaskOK
    <3>2. QED
      BY <1>2, <3>1
  <2>7. QED
    BY <1>7, <2>1, <2>2, <2>3, <2>4, <2>5, <2>6
<1>8. CASE \/ Request \/ Disconnect \/ Connect
           \/ \E t \in Transfer, how \in Incoming, f \in File : Offered(t, how, f)
           \/ \E t \in Transfer : AcceptTooLate(t) \/ Cancel(t) \/ Decline(t) \/ Forget(t)
  BY <1>3, <1>8 DEF Request, Disconnect, Connect, Offered, AcceptTooLate, Cancel,
                    Decline, Forget
<1>9. CASE UNCHANGED vars
  BY <1>3, <1>9 DEF vars
<1>10. QED
  BY <1>4, <1>5, <1>6, <1>7, <1>8, <1>9 DEF Next

-----------------------------------------------------------------------------
(* The folder, and how often the sender is asked.                          *)

\* A task that lets go of its file has none open, and no task has one open
\* that is gone.
LEMMA LetsGoDisk ==
    ASSUME DiskOK, NEW k \in Task, LetsGo(k),
           disk' \in [Part \cup Whole -> Content \cup {None}]
    PROVE  DiskOK'
<1>1. open' = [j \in Task |-> IF j = k THEN None
                              ELSE IF open[j] # None /\ disk'[open[j]] = None THEN None
                              ELSE open[j]]
  BY DEF LetsGo
<1>2. open' \in [Task -> Part \cup Whole \cup {None}]
  BY <1>1 DEF DiskOK
<1>3. \A j \in Task : open'[j] # None => disk'[open'[j]] # None
  BY <1>1
<1>4. QED
  BY <1>2, <1>3 DEF DiskOK, Exists

\* A task that is over has nothing open.
LEMMA EndsDisk ==
    ASSUME DiskOK, NEW k \in Task, Ends(k), UNCHANGED disk
    PROVE  DiskOK'
BY DEF DiskOK, Ends, Exists

\* What a task has open is there.
LEMMA DiskStep == ASSUME Types, [Next]_vars PROVE DiskOK'
<1> USE DEF Types, taskVars
<1>1. CASE UNCHANGED <<open, disk>>
  BY <1>1 DEF DiskOK, Exists
<1>2. CASE Restart
  BY <1>2 DEF Restart, DiskOK
<1>3. ASSUME NEW k \in Task, OpenPart(k)
      PROVE  DiskOK'
  <2>1. PartOf(k) \in Part
    BY <1>3, PartIs DEF OpenPart, TaskOK, Holding
  <2>2. CASE from[k] > 0 <=> Exists(PartOf(k))
    <3>1. open' = [open EXCEPT ![k] = PartOf(k)]
      BY <1>3, <2>2 DEF OpenPart
    <3>2. disk' = IF from[k] = 0 THEN [disk EXCEPT ![PartOf(k)] = NoFile] ELSE disk
      BY <1>3, <2>2 DEF OpenPart
    <3>3. NoFile \in Content
      BY DEF NoFile, Content
    <3>4. open' \in [Task -> Part \cup Whole \cup {None}]
      BY <2>1, <3>1 DEF DiskOK
    <3>5. disk' \in [Part \cup Whole -> Content \cup {None}]
      BY <3>2, <3>3 DEF DiskOK
    <3>6. from[k] # 0 => Exists(PartOf(k))
      <4>1. from[k] # 0 => from[k] > 0
        BY DEF TaskOK
      <4>2. QED
        BY <2>2, <4>1
    <3>7. disk'[PartOf(k)] # None
      BY <2>1, <3>2, <3>3, <3>6 DEF DiskOK, Exists
    <3>8. \A p \in Part \cup Whole : p # PartOf(k) => disk'[p] = disk[p]
      BY <3>2 DEF DiskOK
    <3>9. \A j \in Task : open'[j] = PartOf(k) \/ open'[j] = open[j]
      BY <3>1 DEF DiskOK
    <3>10. QED
      BY <3>4, <3>5, <3>7, <3>8, <3>9 DEF DiskOK, Exists
  <2>3. CASE ~(from[k] > 0 <=> Exists(PartOf(k)))
    BY <1>1, <1>3, <2>3 DEF OpenPart
  <2>4. QED
    BY <2>2, <2>3
<1>4. ASSUME NEW k \in Task, ReadBlock(k)
      PROVE  DiskOK'
  <2>1. CASE open[k] # None
    <3>1. disk' = [disk EXCEPT ![open[k]] = Appended(k)] /\ UNCHANGED open
      BY <1>4, <2>1 DEF ReadBlock
    <3>2. disk[open[k]] \in Content /\ open[k] \in Part \cup Whole
      BY <2>1 DEF DiskOK, Exists
    <3>3. at[k] \in Receiving
      BY <1>4 DEF ReadBlock, Receiving
    <3>4. Appended(k) \in Content
      <4>1. file[of[k]] \in File
        BY <3>3, ReceivesFor
      <4>2. disk[open[k]].len \in Nat
        BY <3>2 DEF Content
      <4>3. QED
        BY <4>1, <4>2 DEF Appended, Content
    <3>5. disk' \in [Part \cup Whole -> Content \cup {None}]
      BY <3>1, <3>4 DEF DiskOK
    <3>6. \A p \in Part \cup Whole : Exists(p) => disk'[p] # None
      BY <3>1, <3>4 DEF DiskOK, Exists
    <3>7. QED
      BY <3>1, <3>5, <3>6 DEF DiskOK, Exists
  <2>2. CASE open[k] = None
    BY <1>1, <1>4, <2>2 DEF ReadBlock
  <2>3. QED
    BY <2>1, <2>2
<1>5. ASSUME NEW k \in Task, Rename(k)
      PROVE  DiskOK'
  <2> DEFINE part  == PartOf(k)
             whole == <<"whole", name[k]>>
  <2>1. part \in Part /\ whole \in Whole /\ part # whole
    BY <1>5, PartIs, PartIsNotWhole DEF Rename, TaskOK, Holding
  <2>2. CASE Exists(part)
    <3>1. /\ disk' = [disk EXCEPT ![whole] = disk[part], ![part] = None]
          /\ open' = [j \in Task |-> IF j = k \/ open[j] = whole THEN None
                                     ELSE IF open[j] = part THEN whole ELSE open[j]]
      BY <1>5, <2>2 DEF Rename
    <3> HIDE DEF part, whole
    <3>2. disk[part] \in Content
      BY <2>1, <2>2 DEF DiskOK, Exists
    <3>3. disk' \in [Part \cup Whole -> Content \cup {None}]
      BY <3>1, <3>2 DEF DiskOK
    <3>4. open' \in [Task -> Part \cup Whole \cup {None}]
      BY <2>1, <3>1 DEF DiskOK
    <3>5. disk'[whole] # None
      BY <2>1, <3>1, <3>2 DEF DiskOK
    <3>6. \A p \in Part \cup Whole : p # part /\ p # whole => disk'[p] = disk[p]
      BY <3>1 DEF DiskOK
    <3>7. ASSUME NEW j \in Task, open'[j] # None
          PROVE  disk'[open'[j]] # None
      <4>1. CASE open'[j] = whole
        BY <3>5, <4>1
      <4>2. CASE open'[j] # whole
        <5>1. open'[j] = open[j] /\ open[j] # part /\ open[j] # None
          BY <3>1, <3>7, <4>2
        <5>2. QED
          BY <3>6, <4>2, <5>1 DEF DiskOK, Exists
      <4>3. QED
        BY <4>1, <4>2
    <3>8. QED
      BY <3>3, <3>4, <3>7 DEF DiskOK, Exists
  <2>3. CASE ~Exists(part)
    BY <1>5, <2>3, LetsGoDisk DEF Rename, Fails, DiskOK
  <2>4. QED
    BY <2>2, <2>3
<1>6. ASSUME NEW k \in Task, NoSocket(k) \/ Scrap(k)
      PROVE  DiskOK'
  <2>1. disk' \in [Part \cup Whole -> Content \cup {None}]
    BY <1>6 DEF NoSocket, Scrap, DiskOK
  <2>2. LetsGo(k) \/ UNCHANGED <<open, disk>>
    BY <1>6 DEF NoSocket, Scrap, Fails
  <2>3. QED
    BY <1>1, <2>1, <2>2, LetsGoDisk
<1>7. ASSUME NEW k \in Task,
             \/ Succeed(k) \/ LeaveIt(k) \/ Repeat(k) \/ SentAll(k) \/ FailSending(k)
             \/ AddOutgoing(k) \/ TellThem(k)
      PROVE  DiskOK'
  BY <1>1, <1>7, EndsDisk DEF Succeed, LeaveIt, Repeat, SentAll, FailSending, AddOutgoing,
                              TellThem
<1>8. ASSUME NEW k \in Task,
             \/ BeginReceiving(k) \/ Unanswered(k) \/ (\E n \in Name : Pick(k, n))
             \/ AskAgain(k) \/ ReadFails(k) \/ TheyConnect(k)
             \/ \E position \in 0..MaxSize : Answered(k, position)
      PROVE  UNCHANGED <<open, disk>>
  BY <1>8 DEF BeginReceiving, Unanswered, Pick, AskAgain, ReadFails, TheyConnect, Answered
<1>9. ASSUME NEW t \in Transfer, NEW k \in Task, Accept(t, k) \/ SendFile(t, k)
      PROVE  UNCHANGED <<open, disk>>
  BY <1>9 DEF Accept, SendFile
<1>10. CASE \/ Request \/ Disconnect \/ Connect
            \/ \E t \in Transfer, how \in Incoming, f \in File : Offered(t, how, f)
            \/ \E t \in Transfer : AcceptTooLate(t) \/ Cancel(t) \/ Decline(t) \/ Forget(t)
  BY <1>1, <1>10 DEF Request, Disconnect, Connect, Offered, AcceptTooLate, Cancel,
                     Decline, Forget
<1>11. CASE UNCHANGED vars
  BY <1>1, <1>11 DEF vars
<1>12. QED
  BY <1>1, <1>2, <1>3, <1>4, <1>5, <1>6, <1>7, <1>8, <1>9, <1>10, <1>11
     DEF Next, Own, Socket, Theirs

\* The sender is asked MAX_AUTO_RESUMES times at most.
LEMMA ChaseStep == ASSUME Types, [Next]_vars PROVE ChaseOK'
<1> USE DEF Types, ChaseOK, chaseVars, askVars
<1>1. ASSUME NEW k \in Task, AskAgain(k)
      PROVE  ChaseOK'
  <2>1. disk[First].len \in Nat
    BY <1>1, FirstIs DEF AskAgain, WorthAsking, DiskOK, Exists, Content
  <2>2. attempts < MaxAsk
    BY <1>1 DEF AskAgain, Progress
  <2>3. QED
    BY <1>1, <2>1, <2>2 DEF AskAgain
<1>2. ASSUME NEW k \in Task, Succeed(k) \/ LeaveIt(k) \/ Repeat(k)
      PROVE  ChaseOK'
  BY <1>2 DEF Succeed, LeaveIt, Repeat, StopChasing
<1>3. ASSUME UNCHANGED <<attempts, best>>, due' \in Nat,
             remembered' = remembered \/ remembered' = TRUE,
             up' = up \/ up' = TRUE
      PROVE  ChaseOK'
  <2>1. attempts' \in 0..MaxAsk /\ best' \in Nat
    BY <1>3
  <2>2. remembered' \in BOOLEAN /\ up' \in BOOLEAN
    BY <1>3, Zenon
  <2>3. QED
    BY <1>3, <2>1, <2>2
<1>4. CASE Request \/ Connect
  <2>1. due' \in Nat
    BY <1>4 DEF Request, Connect
  <2>2. /\ UNCHANGED <<attempts, best>>
        /\ remembered' = remembered \/ remembered' = TRUE
        /\ up' = up \/ up' = TRUE
    BY <1>4, Zenon DEF Request, Connect
  <2>3. QED
    BY <1>3, <2>1, <2>2
<1>5. ASSUME NEW t \in Transfer, NEW how \in Incoming, NEW f \in File, Offered(t, how, f)
      PROVE  ChaseOK'
  <2>1. due' \in Nat /\ UNCHANGED <<attempts, best, remembered, up>>
    BY <1>5 DEF Offered
  <2>2. QED
    BY <1>3, <2>1
<1>6. CASE Disconnect \/ Restart
  <2>1. attempts' \in 0..MaxAsk /\ best' \in Nat /\ due' \in Nat
    BY <1>6 DEF Disconnect, Restart
  <2>2. remembered' \in BOOLEAN /\ up' \in BOOLEAN
    BY <1>6, Zenon DEF Disconnect, Restart
  <2>3. QED
    BY <2>1, <2>2
<1>7. ASSUME NEW t \in Transfer, NEW k \in Task, Accept(t, k) \/ SendFile(t, k)
      PROVE  UNCHANGED <<attempts, best, remembered, due, up>>
  BY <1>7 DEF Accept, SendFile
<1>8. ASSUME NEW t \in Transfer, AcceptTooLate(t) \/ Cancel(t) \/ Decline(t) \/ Forget(t)
      PROVE  UNCHANGED <<attempts, best, remembered, due, up>>
  BY <1>8 DEF AcceptTooLate, Cancel, Decline, Forget
<1>9. ASSUME NEW k \in Task, Own(k) \/ Socket(k) \/ Theirs(k), ~AskAgain(k),
             ~Succeed(k), ~LeaveIt(k), ~Repeat(k)
      PROVE  UNCHANGED <<attempts, best, remembered, due, up>>
  BY <1>9 DEF Own, Socket, Theirs, BeginReceiving, Unanswered, Pick, NoSocket, Rename,
     Scrap, AddOutgoing, TellThem, FailSending, ReadBlock,
     ReadFails, SentAll, Answered, OpenPart, TheyConnect
<1>10. CASE UNCHANGED <<attempts, best, remembered, due, up>>
  BY <1>10
<1>11. CASE UNCHANGED vars
  BY <1>10, <1>11 DEF vars
<1>12. QED
  BY <1>1, <1>2, <1>4, <1>5, <1>6, <1>7, <1>8, <1>9, <1>10, <1>11 DEF Next

-----------------------------------------------------------------------------
(* The types.                                                              *)

\* Nothing is offered, running or kept to begin with.
LEMMA TypesInit == ASSUME Init PROVE Types
<1> USE DEF Init
<1>1. ListOK
  BY DEF ListOK, State, Kind, Untried
<1>2. TaskOK
  BY DEF TaskOK, Stages, Holding, Untried
<1>3. BondOK /\ SizeOK
  BY DEF BondOK, SizeOK, Receiving, Serving
<1>4. DiskOK
  BY DEF DiskOK
<1>5. ChaseOK
  <2>1. attempts \in 0..MaxAsk /\ best \in Nat /\ due \in Nat
    OBVIOUS
  <2>2. remembered \in BOOLEAN /\ up \in BOOLEAN
    BY Zenon
  <2>3. QED
    BY <2>1, <2>2 DEF ChaseOK
<1>6. QED
  BY <1>1, <1>2, <1>3, <1>4, <1>5 DEF Types

\* Every step keeps them.
LEMMA TypesStep == ASSUME Types, [Next]_vars PROVE Types'
BY ListStep, TaskStep, BondStep, SizeStep, DiskStep, ChaseStep DEF Types

\* The inductive invariant holds in every state.
LEMMA TypesAlways == Spec => []Types
BY TypesInit, TypesStep, PTL DEF Spec

\* The values the list, the rows, the tasks and the folder may have are those
\* of TypeOK: a task has a transfer exactly while it runs, and reads on only
\* while it has less than was offered (stream_socket).
THEOREM TypeCorrect == Spec => []TypeOK
<1>1. ASSUME Types PROVE TypeOK
  BY <1>1 DEF Types, ListOK, TaskOK, SizeOK, DiskOK, ChaseOK, TypeOK
<1>2. QED
  BY <1>1, TypesAlways, PTL

-----------------------------------------------------------------------------
(* What is shown as moving.                                                *)

\* A task that moves its transfer does so still.
Carries(j) ==
    /\ at[j] \in Moving => of'[j] = of[j] /\ at'[j] \in Moving
    /\ at[j] = "send" => of'[j] = of[j] /\ at'[j] = "send"

\* A step that stops no task whose transfer is shown as it was.
LEMMA MovingKept ==
    ASSUME MovingOK,
           \A t \in Transfer :
               \/ state'[t] = state[t] /\ \A j \in Task : of[j] = t => Carries(j)
               \/ state'[t] \notin {"receiving", "sending"}
               \/ state'[t] = "receiving" /\ \E j \in Task : of'[j] = t /\ at'[j] \in Moving
               \/ state'[t] = "sending" /\ \E j \in Task : of'[j] = t /\ at'[j] = "send"
    PROVE  MovingOK'
<1> SUFFICES ASSUME NEW t \in Transfer
             PROVE  /\ state'[t] = "receiving" =>
                          \E j \in Task : of'[j] = t /\ at'[j] \in Moving
                    /\ state'[t] = "sending" => \E j \in Task : of'[j] = t /\ at'[j] = "send"
  BY DEF MovingOK
<1>1. CASE state'[t] = state[t] /\ \A j \in Task : of[j] = t => Carries(j)
  BY <1>1 DEF MovingOK, Carries
<1>2. CASE ~(state'[t] = state[t] /\ \A j \in Task : of[j] = t => Carries(j))
  BY <1>2
<1>3. QED
  BY <1>1, <1>2

\* No transfer is shown as moving that no task moves.
LEMMA MovingStep == ASSUME Types, MovingOK, [Next]_vars PROVE MovingOK'
<1> USE DEF taskVars, listVars
<1> USE DEF Types
<1>1. ASSUME UNCHANGED <<of, at>>,
             \A t \in Transfer : state'[t] = state[t] \/ state'[t] \notin {"receiving", "sending"}
      PROVE  MovingOK'
  BY <1>1, MovingKept DEF Carries
<1>2. CASE Restart
  BY <1>2, MovingKept DEF Restart, Restored, Active
<1>3. ASSUME NEW t \in Transfer, NEW k \in Task, Accept(t, k) \/ SendFile(t, k)
      PROVE  MovingOK'
  <2>1. at[k] = "idle" /\ UNCHANGED state
    BY <1>3, SpareIs DEF Accept, SendFile
  <2>2. \A j \in Task \ {k} : of'[j] = of[j] /\ at'[j] = at[j]
    BY <1>3 DEF Accept, SendFile, TaskOK, Goes
  <2>3. \A j \in Task : Carries(j)
    BY <2>1, <2>2 DEF Carries, Moving, Holding
  <2>4. QED
    BY <2>1, <2>3, MovingKept
<1>4. ASSUME NEW k \in Task, Own(k) \/ Socket(k) \/ Theirs(k), NEW j \in Task \ {k}
      PROVE  Carries(j)
  BY <1>4, OthersStay DEF Carries, Moving
<1>5. ASSUME NEW k \in Task, Own(k) \/ Socket(k) \/ Theirs(k),
             NEW s \in State, state' = [state EXCEPT ![of[k]] = s], of[k] \in Transfer,
             \/ s \notin {"receiving", "sending"}
             \/ s = "receiving" /\ of'[k] = of[k] /\ at'[k] \in Moving
             \/ s = "sending" /\ of'[k] = of[k] /\ at'[k] = "send"
      PROVE  MovingOK'
  <2>1. state'[of[k]] = s /\ \A t \in Transfer \ {of[k]} : state'[t] = state[t]
    BY <1>5 DEF ListOK
  <2>2. \A t \in Transfer \ {of[k]} : \A j \in Task : of[j] = t => Carries(j)
    BY <1>4, <1>5
  <2>3. QED
    BY <1>5, <2>1, <2>2, MovingKept
<1>6. ASSUME NEW k \in Task, Own(k) \/ Socket(k) \/ Theirs(k), UNCHANGED state, Carries(k)
      PROVE  MovingOK'
  BY <1>4, <1>6, MovingKept
<1>7. ASSUME NEW k \in Task, Own(k) \/ Socket(k) \/ Theirs(k)
      PROVE  MovingOK'
  <2>1. CASE BeginReceiving(k)
    <3>1. of[k] \in Transfer
      BY <2>1, RunsFor DEF BeginReceiving
    <3>2. of'[k] = of[k] /\ at'[k] \in {"parked", "pick"}
      BY <2>1 DEF BeginReceiving, Goes, TaskOK
    <3>3. state' = [state EXCEPT ![of[k]] = "receiving"]
      BY <2>1 DEF BeginReceiving, Becomes
    <3>4. QED
      BY <1>5, <1>7, <3>1, <3>2, <3>3 DEF State, Moving
  <2>2. CASE TheyConnect(k)
    <3>1. of[k] \in Transfer
      BY <2>2, RunsFor DEF TheyConnect
    <3>2. of'[k] = of[k] /\ at'[k] = "send"
      BY <2>2 DEF TheyConnect, Goes, TaskOK
    <3>3. state' = [state EXCEPT ![of[k]] = "sending"]
      BY <2>2 DEF TheyConnect, Becomes
    <3>4. QED
      BY <1>5, <1>7, <3>1, <3>2, <3>3 DEF State
  <2>3. ASSUME NEW s \in {"failed", "done", "offered"}, Becomes(of[k], s), at[k] # "idle"
        PROVE  MovingOK'
    BY <1>5, <1>7, <2>3, RunsFor DEF Becomes, State
  <2>4. CASE NoSocket(k) \/ Rename(k) \/ Scrap(k)
    <3>1. at[k] \in Moving /\ at[k] # "idle" /\ at[k] # "send"
      BY <2>4 DEF NoSocket, Rename, Scrap, Moving, Holding
    <3>2. CASE Fails(k)
      BY <2>3, <3>1, <3>2 DEF Fails
    <3>3. CASE (Goes(k, "short") \/ Goes(k, "kept")) /\ UNCHANGED <<state, of>>
      <4>1. at'[k] \in Moving /\ of'[k] = of[k]
        BY <3>3 DEF Goes, TaskOK, Moving, Holding
      <4>2. QED
        BY <1>6, <1>7, <3>1, <3>3, <4>1 DEF Carries
    <3>4. QED
      BY <2>4, <3>2, <3>3 DEF NoSocket, Rename, Scrap
  <2>5. CASE Succeed(k) \/ SentAll(k) \/ FailSending(k)
    BY <2>3, <2>5 DEF Succeed, SentAll, FailSending
  <2>6. CASE \/ Unanswered(k) \/ (\E n \in Name : Pick(k, n))
             \/ ReadBlock(k) \/ ReadFails(k) \/ OpenPart(k)
             \/ \E position \in 0..MaxSize : Answered(k, position)
    <3>1. \E s \in Moving : Goes(k, s)
      BY <2>6 DEF Unanswered, Pick, ReadBlock, ReadFails, OpenPart, Answered, GoOn,
                  Moving, Holding
    <3>2. at[k] \in Moving /\ at[k] # "send" /\ UNCHANGED <<state, of>>
      BY <2>6 DEF Unanswered, Pick, ReadBlock, ReadFails, OpenPart, Answered,
                  Moving, Holding
    <3>3. at'[k] \in Moving
      BY <3>1 DEF Goes, TaskOK
    <3>4. QED
      BY <1>6, <1>7, <3>2, <3>3 DEF Carries
  <2>7. CASE AddOutgoing(k)
    <3>1. at[k] = "bind"
      BY <2>7 DEF AddOutgoing
    <3>2. CASE UNCHANGED state
      BY <1>6, <1>7, <3>1, <3>2 DEF Carries, Moving, Holding
    <3>3. CASE Becomes(of[k], "offered")
      BY <2>3, <3>1, <3>3
    <3>4. QED
      BY <2>7, <3>2, <3>3 DEF AddOutgoing, Add
  <2>8. CASE AskAgain(k) \/ LeaveIt(k) \/ Repeat(k) \/ TellThem(k)
    <3>1. at[k] \in {"again", "pause", "tell"} /\ UNCHANGED state
      BY <2>8 DEF AskAgain, LeaveIt, Repeat, TellThem
    <3>2. QED
      BY <1>6, <1>7, <3>1 DEF Carries, Moving, Holding
  <2>9. QED
    BY <1>7, <2>1, <2>2, <2>4, <2>5, <2>6, <2>7, <2>8 DEF Own, Socket, Theirs
<1>8. CASE Request \/ Disconnect \/ Connect
  <2>1. /\ UNCHANGED <<of, at>>
        /\ \A t \in Transfer : state'[t] = state[t] \/ state'[t] = "declined"
    BY <1>8 DEF Request, Disconnect, Connect
  <2>2. QED
    BY <1>1, <2>1
<1>9. ASSUME NEW t \in Transfer, NEW how \in Incoming, NEW f \in File, Offered(t, how, f)
      PROVE  MovingOK'
  <2>1. \/ UNCHANGED state \/ state' = [state EXCEPT ![t] = "offered"]
    BY <1>9 DEF Offered, Add, Becomes
  <2>2. QED
    BY <1>1, <1>9, <2>1 DEF Offered, ListOK
<1>10. ASSUME NEW t \in Transfer, AcceptTooLate(t) \/ Cancel(t) \/ Decline(t) \/ Forget(t)
       PROVE  MovingOK'
  <2>1. /\ UNCHANGED <<of, at>>
        /\ \/ UNCHANGED state
           \/ \E s \in {"failed", "declined", "none"} : state' = [state EXCEPT ![t] = s]
    BY <1>10 DEF AcceptTooLate, Cancel, Decline, Forget, Becomes
  <2>2. QED
    BY <1>1, <2>1 DEF ListOK
<1>11. CASE UNCHANGED vars
  BY <1>1, <1>11 DEF vars
<1>12. QED
  BY <1>2, <1>3, <1>7, <1>8, <1>9, <1>10, <1>11 DEF Next

\* A transfer shown as receiving or sending has a task, whatever was
\* cancelled, accepted twice, lost or restarted (accept, offer_file,
\* restore_transfers).
THEOREM NothingMovesByItself == Spec => []RunningHasTask
<1>1. ASSUME Init PROVE MovingOK
  BY <1>1 DEF Init, MovingOK
<1>2. ASSUME Types, MovingOK, [Next]_vars PROVE MovingOK'
  BY <1>2, MovingStep
<1>3. ASSUME MovingOK PROVE RunningHasTask
  BY <1>3 DEF MovingOK, RunningHasTask, Taken
<1>4. QED
  BY <1>1, <1>2, <1>3, TypesAlways, PTL DEF Spec

-----------------------------------------------------------------------------
(* What a step does to the folder.                                         *)

\* Names are told apart in the folder, and those that are tried from the one
\* that is not.
LEMMA NamesApart ==
    /\ \A n \in Name : <<"part", n>> \in Part /\ <<"whole", n>> \in Whole
    /\ \A m, n \in Name : /\ <<"part", m>> # <<"whole", n>>
                          /\ <<"part", m>> = <<"part", n>> => m = n
                          /\ <<"whole", m>> = <<"whole", n>> => m = n
    /\ \A n \in 1..MaxName : n \in Name /\ n # Untried
    /\ \A n \in Name : n # Untried => n \in 1..MaxName
BY DEF Part, Whole, Name, Untried

\* A step that is no task's own leaves the folder alone, and each task as it
\* is or without a file.
LEMMA Elsewhere ==
    ASSUME Types, OpenOK, [Next]_vars
    PROVE  \/ \E k \in Task : Own(k) \/ Socket(k) \/ Theirs(k)
           \/ /\ UNCHANGED disk
              /\ \A j \in Task :
                    \/ /\ of'[j] = of[j] /\ at'[j] = at[j] /\ name'[j] = name[j]
                       /\ from'[j] = from[j] /\ got'[j] = got[j] /\ open'[j] = open[j]
                    \/ at'[j] \notin Holding \cup {"kept"} /\ open'[j] = None
<1> USE DEF Types, taskVars
<1>1. CASE UNCHANGED <<taskVars, disk>>
  BY <1>1
<1>2. CASE Restart
  BY <1>2 DEF Restart, Holding
<1>3. ASSUME NEW t \in Transfer, NEW k \in Task, Accept(t, k) \/ SendFile(t, k)
      PROVE  /\ UNCHANGED disk
             /\ \A j \in Task :
                   \/ /\ of'[j] = of[j] /\ at'[j] = at[j] /\ name'[j] = name[j]
                      /\ from'[j] = from[j] /\ got'[j] = got[j] /\ open'[j] = open[j]
                   \/ at'[j] \notin Holding \cup {"kept"} /\ open'[j] = None
  <2>1. at[k] = "idle"
    BY <1>3, SpareIs DEF Accept, SendFile
  <2>2. open[k] = None
    BY <2>1 DEF OpenOK
  <2>3. /\ of' = [of EXCEPT ![k] = t] /\ UNCHANGED <<name, from, got, open, disk>>
        /\ Goes(k, "begin") \/ Goes(k, "bind")
    BY <1>3 DEF Accept, SendFile
  <2>4. \A j \in Task \ {k} : of'[j] = of[j] /\ at'[j] = at[j]
    BY <2>3 DEF TaskOK, Goes
  <2>5. at'[k] \in {"begin", "bind"}
    BY <2>3 DEF TaskOK, Goes
  <2>6. at'[k] \notin Holding \cup {"kept"} /\ open'[k] = None
    BY <2>2, <2>3, <2>5 DEF Holding
  <2>7. QED
    BY <2>3, <2>4, <2>6
<1>4. CASE \/ Request \/ Disconnect \/ Connect
           \/ \E t \in Transfer, how \in Incoming, f \in File : Offered(t, how, f)
           \/ \E t \in Transfer : AcceptTooLate(t) \/ Cancel(t) \/ Decline(t) \/ Forget(t)
  BY <1>1, <1>4 DEF Request, Disconnect, Connect, Offered, AcceptTooLate, Cancel,
                    Decline, Forget
<1>5. CASE UNCHANGED vars
  BY <1>1, <1>5 DEF vars
<1>6. QED
  BY <1>2, <1>3, <1>4, <1>5 DEF Next

\* A task changes nothing in the folder but the part of the name it holds,
\* until it gives it that name.
LEMMA FolderStep ==
    ASSUME Types, OpenOK, NEW k \in Task, Own(k) \/ Socket(k) \/ Theirs(k)
    PROVE  \/ UNCHANGED disk
           \/ /\ at[k] \in Holding
              /\ \A p \in (Part \cup Whole) \ {PartOf(k)} : disk'[p] = disk[p]
           \/ /\ Rename(k) /\ Exists(PartOf(k))
              /\ \A p \in (Part \cup Whole) \ {PartOf(k), <<"whole", name[k]>>} :
                    disk'[p] = disk[p]
              /\ disk'[<<"whole", name[k]>>] = disk[PartOf(k)]
              /\ disk'[PartOf(k)] = None
<1> USE DEF Types
<1>1. CASE OpenPart(k)
  BY <1>1 DEF OpenPart, DiskOK, Holding
<1>2. CASE ReadBlock(k)
  <2>1. open[k] = PartOf(k)
    BY <1>2 DEF ReadBlock, OpenOK
  <2>2. QED
    BY <1>2, <2>1 DEF ReadBlock, DiskOK, Holding
<1>3. CASE Scrap(k)
  BY <1>3 DEF Scrap, DiskOK, Holding
<1>4. CASE Rename(k)
  <2>1. CASE Exists(PartOf(k))
    <3> DEFINE part  == PartOf(k)
               whole == <<"whole", name[k]>>
    <3>1. part \in Part /\ whole \in Whole /\ part # whole
      BY <1>4, PartIs, PartIsNotWhole DEF Rename, TaskOK, Holding
    <3>2. disk' = [disk EXCEPT ![whole] = disk[part], ![part] = None]
      BY <1>4, <2>1 DEF Rename
    <3> HIDE DEF part, whole
    <3>3. /\ \A p \in (Part \cup Whole) \ {part, whole} : disk'[p] = disk[p]
          /\ disk'[whole] = disk[part] /\ disk'[part] = None
      BY <3>1, <3>2 DEF DiskOK
    <3>4. QED
      BY <1>4, <2>1, <3>3 DEF part, whole
  <2>2. CASE ~Exists(PartOf(k))
    BY <1>4, <2>2 DEF Rename
  <2>3. QED
    BY <2>1, <2>2
<1>5. CASE ~OpenPart(k) /\ ~ReadBlock(k) /\ ~Scrap(k) /\ ~Rename(k)
  BY <1>5 DEF Own, Socket, Theirs, BeginReceiving, Unanswered, Pick, NoSocket,
     Succeed, AskAgain, LeaveIt, Repeat, AddOutgoing, TellThem, FailSending, ReadFails,
     SentAll, Answered, TheyConnect
<1>6. QED
  BY <1>1, <1>2, <1>3, <1>4, <1>5

\* Two that hold a name hold two parts.
LEMMA PartsApart ==
    ASSUME Types, NamesOK, NEW j \in Task, NEW k \in Task, j # k,
           at[j] \in Holding, at[k] \in Holding
    PROVE  PartOf(j) # PartOf(k) /\ name[j] # name[k]
<1>1. name[j] \in Name /\ name[k] \in Name
  BY PartIs DEF Types, TaskOK
<1>2. name[j] # name[k]
  BY DEF NamesOK
<1>3. QED
  BY <1>1, <1>2, NamesApart DEF PartOf

\* A task that comes to hold a name holds one that no task holds and no file
\* has (unique_path, negotiate_resume).
LEMMA Enters ==
    ASSUME Types, NamesOK, ~MayRace, "doubles" \notin Rude, "mixes" \notin Rude,
           NEW k \in Task, Own(k) \/ Socket(k) \/ Theirs(k), at'[k] \in Holding
    PROVE  \/ at[k] \in Holding /\ name'[k] = name[k]
           \/ /\ UNCHANGED disk
              /\ \A j \in Task \ {k} : name[j] = name'[k] => at[j] \notin Holding
              /\ \A n \in 1..MaxName : n = name'[k] => ~Exists(<<"whole", n>>)
<1> USE DEF Types, TaskOK, Goes
<1>1. ASSUME NEW n \in Name, Pick(k, n)
      PROVE  /\ UNCHANGED disk
             /\ \A j \in Task \ {k} : name[j] = name'[k] => at[j] \notin Holding
             /\ \A m \in 1..MaxName : m = name'[k] => ~Exists(<<"whole", m>>)
  <2>1. name'[k] = n /\ UNCHANGED disk
    BY <1>1 DEF Pick
  <2>2. n \in 1..MaxName => ~Exists(<<"whole", n>>)
    BY <1>1, NamesApart DEF Pick, UniquePath, FreeName
  <2>3. \A j \in Task \ {k} : name[j] = n => at[j] \notin Holding
    BY <1>1 DEF Pick
  <2>4. QED
    BY <2>1, <2>2, <2>3
<1>2. ASSUME NEW position \in 0..MaxSize, Answered(k, position)
      PROVE  /\ UNCHANGED disk
             /\ \A j \in Task \ {k} : name[j] = name'[k] => at[j] \notin Holding
             /\ \A m \in 1..MaxName : m = name'[k] => ~Exists(<<"whole", m>>)
  <2>1. CASE position <= from[k]
    <3>1. name'[k] = 1 /\ UNCHANGED disk
      BY <1>2, <2>1 DEF Answered
    <3>2. /\ Exists(First)
          /\ \A j \in Task \ {k} : name[j] = 1 => at[j] \notin Holding
      BY <1>2 DEF Answered, MayAnswer
    <3>3. \A m \in 1..MaxName : m = 1 => ~Exists(<<"whole", m>>)
      BY <3>2 DEF NamesOK, First
    <3>4. QED
      BY <3>1, <3>2, <3>3
  <2>2. CASE ~(position <= from[k])
    BY <1>2, <2>2 DEF Answered, Holding
  <2>3. QED
    BY <2>1, <2>2
<1>3. CASE \/ OpenPart(k) \/ NoSocket(k) \/ Rename(k) \/ Scrap(k)
           \/ ReadBlock(k) \/ ReadFails(k)
  <2>1. at[k] \in Holding
    BY <1>3 DEF OpenPart, NoSocket, Rename, Scrap, ReadBlock, ReadFails, Holding
  <2>2. UNCHANGED name \/ Fails(k)
    BY <1>3 DEF OpenPart, NoSocket, Rename, Scrap, ReadBlock, ReadFails
  <2>3. ~Fails(k)
    BY DEF Fails, Holding
  <2>4. QED
    BY <2>1, <2>2, <2>3
<1>4. CASE /\ ~\E n \in Name : Pick(k, n)
           /\ ~\E position \in 0..MaxSize : Answered(k, position)
           /\ ~(\/ OpenPart(k) \/ NoSocket(k) \/ Rename(k) \/ Scrap(k)
                \/ ReadBlock(k) \/ ReadFails(k))
  BY <1>4 DEF Own, Socket, Theirs, BeginReceiving, Unanswered, Succeed, AskAgain, LeaveIt,
     Repeat, AddOutgoing, TellThem, FailSending, SentAll, TheyConnect, Ends, Holding
<1>5. QED
  BY <1>1, <1>2, <1>3, <1>4

-----------------------------------------------------------------------------
(* Names.                                                                  *)

\* A name is held once, and never one that was received.
LEMMA NamesStep ==
    ASSUME Types, OpenOK, NamesOK, [Next]_vars,
           ~MayRace, "doubles" \notin Rude, "mixes" \notin Rude
    PROVE  NamesOK'
<1>1. CASE ~\E k \in Task : Own(k) \/ Socket(k) \/ Theirs(k)
  <2>1. /\ UNCHANGED disk
        /\ \A j \in Task : at'[j] \in Holding => at[j] \in Holding /\ name'[j] = name[j]
    BY <1>1, Elsewhere
  <2>2. QED
    BY <2>1 DEF NamesOK, Exists
<1>2. ASSUME NEW k \in Task, Own(k) \/ Socket(k) \/ Theirs(k)
      PROVE  NamesOK'
  <2>1. ASSUME NEW j \in Task \ {k}, at'[j] \in Holding
        PROVE  at[j] \in Holding /\ name'[j] = name[j]
    BY <1>2, <2>1, OthersStay DEF Holding
  <2>2. ASSUME NEW j \in Task \ {k}, at'[j] \in Holding, at'[k] \in Holding
        PROVE  name'[j] # name'[k]
    <3>1. at[j] \in Holding /\ name'[j] = name[j]
      BY <2>1, <2>2
    <3>2. CASE at[k] \in Holding /\ name'[k] = name[k]
      BY <3>1, <3>2, PartsApart
    <3>3. CASE \A i \in Task \ {k} : name[i] = name'[k] => at[i] \notin Holding
      BY <3>1, <3>3
    <3>4. QED
      BY <1>2, <2>2, <3>2, <3>3, Enters
  <2>3. ASSUME NEW i \in Task, NEW j \in Task, at'[i] \in Holding, at'[j] \in Holding,
               name'[i] = name'[j]
        PROVE  i = j
    <3>1. CASE i = k \/ j = k
      BY <2>2, <2>3, <3>1
    <3>2. CASE i # k /\ j # k
      BY <2>1, <2>3, <3>2 DEF NamesOK
    <3>3. QED
      BY <3>1, <3>2
  <2>4. ASSUME NEW n \in 1..MaxName, disk'[<<"whole", n>>] # None
        PROVE  /\ disk'[<<"part", n>>] = None
               /\ \A j \in Task : at'[j] \in Holding => name'[j] # n
    <3>1. /\ n \in Name /\ <<"part", n>> \in Part /\ <<"whole", n>> \in Whole
          /\ <<"part", n>> # <<"whole", n>>
      BY NamesApart
    <3>2. CASE at[k] \in Holding /\ name[k] = n
      <4>1. ~Exists(<<"whole", n>>)
        BY <3>2 DEF NamesOK
      <4>2. Rename(k) /\ disk'[PartOf(k)] = None
        <5>1. <<"whole", n>> # PartOf(k)
          BY <3>1, <3>2 DEF PartOf
        <5>2. QED
          BY <1>2, <2>4, <3>1, <4>1, <5>1, FolderStep DEF Exists
      <4>3. at'[k] \notin Holding
        BY <4>2 DEF Rename, Fails, Goes, Types, TaskOK, Holding
      <4>4. \A j \in Task \ {k} : at[j] \in Holding => name[j] # n
        BY <3>2, PartsApart
      <4>5. QED
        BY <2>1, <3>2, <4>2, <4>3, <4>4 DEF PartOf
    <3>3. CASE ~(at[k] \in Holding /\ name[k] = n)
      <4>1. Exists(<<"whole", n>>)
        <5>1. Rename(k) => at[k] \in Holding /\ name[k] \in Name
          BY PartIs DEF Rename, Types, TaskOK, Holding
        <5>2. at[k] \in Holding => name[k] \in Name
          BY PartIs DEF Types, TaskOK
        <5>3. at[k] \in Holding => /\ <<"whole", n>> # PartOf(k)
                                   /\ <<"whole", n>> # <<"whole", name[k]>>
          BY <3>1, <3>3, <5>2, NamesApart DEF PartOf
        <5>4. QED
          BY <1>2, <2>4, <3>1, <5>1, <5>3, FolderStep DEF Exists
      <4>2. ~Exists(<<"part", n>>) /\ \A j \in Task : at[j] \in Holding => name[j] # n
        BY <4>1 DEF NamesOK
      <4>3. disk'[<<"part", n>>] = disk[<<"part", n>>]
        <5>1. at[k] \in Holding => name[k] \in Name
          BY PartIs DEF Types, TaskOK
        <5>2. Rename(k) => at[k] \in Holding
          BY DEF Rename, Holding
        <5>3. at[k] \in Holding => /\ <<"part", n>> # PartOf(k)
                                   /\ <<"part", n>> # <<"whole", name[k]>>
          BY <3>1, <3>3, <5>1, NamesApart DEF PartOf
        <5>4. QED
          BY <1>2, <3>1, <5>2, <5>3, FolderStep
      <4>4. at'[k] \in Holding => name'[k] # n
        <5>1. CASE at[k] \in Holding /\ name'[k] = name[k]
          BY <3>3, <5>1
        <5>2. CASE \A m \in 1..MaxName : m = name'[k] => ~Exists(<<"whole", m>>)
          BY <4>1, <5>2
        <5>3. QED
          BY <1>2, <5>1, <5>2, Enters
      <4>5. QED
        BY <2>1, <4>2, <4>3, <4>4 DEF Exists
    <3>4. QED
      BY <3>2, <3>3
  <2>5. QED
    BY <2>3, <2>4 DEF NamesOK, Exists
<1>3. QED
  BY <1>1, <1>2

\* What is open stays the part of the name its task holds: no other task
\* takes that part away.
LEMMA OpenStep ==
    ASSUME Types, OpenOK, NamesOK, [Next]_vars
    PROVE  OpenOK'
<1> DEFINE Own1(j) ==
             /\ open[j] # None => at[j] \in {"read", "whole", "short"} /\ open[j] = PartOf(j)
             /\ at[j] \in {"read", "whole"} => open[j] = PartOf(j)
<1>1. ASSUME NEW j \in Task, at'[j] = at[j], name'[j] = name[j], open'[j] = open[j]
      PROVE  Own1(j)'
  BY <1>1 DEF OpenOK, PartOf
<1>2. ASSUME NEW j \in Task, at'[j] \notin {"read", "whole"}, open'[j] = None
      PROVE  Own1(j)'
  BY <1>2
<1>3. CASE ~\E k \in Task : Own(k) \/ Socket(k) \/ Theirs(k)
  <2>1. ASSUME NEW j \in Task PROVE Own1(j)'
    BY <1>1, <1>2, <1>3, Elsewhere DEF Holding
  <2>2. QED
    BY <2>1 DEF OpenOK
<1>4. ASSUME NEW k \in Task, Own(k) \/ Socket(k) \/ Theirs(k)
      PROVE  OpenOK'
  <2>1. ASSUME NEW j \in Task \ {k}, open[j] # None
        PROVE  /\ PartOf(j) \in Part /\ open[j] = PartOf(j) /\ at[j] \in Holding
               /\ at[k] \in Holding => PartOf(j) # PartOf(k)
    <3>1. at[j] \in Holding /\ open[j] = PartOf(j)
      BY <2>1 DEF OpenOK, Holding
    <3>2. QED
      BY <3>1, PartsApart, PartIs DEF Types, TaskOK
  <2>2. ASSUME NEW j \in Task \ {k}
        PROVE  open'[j] = open[j]
    <3>1. ASSUME LetsGo(k), at[k] \in Holding, ~Rename(k) \/ ~Exists(PartOf(k))
          PROVE  open'[j] = open[j]
      <4>1. open[j] # None => disk'[open[j]] = disk[open[j]]
        BY <1>4, <2>1, <3>1, FolderStep
      <4>2. open[j] # None => disk[open[j]] # None
        BY DEF Types, DiskOK, Exists
      <4>3. open'[j] = IF open[j] # None /\ disk'[open[j]] = None THEN None ELSE open[j]
        BY <3>1 DEF LetsGo
      <4>4. QED
        BY <4>1, <4>2, <4>3
    <3>2. CASE Rename(k) /\ Exists(PartOf(k))
      <4>1. open' = [i \in Task |-> IF i = k \/ open[i] = <<"whole", name[k]>> THEN None
                                    ELSE IF open[i] = PartOf(k) THEN <<"whole", name[k]>>
                                    ELSE open[i]]
        BY <3>2 DEF Rename
      <4>2. at[k] \in Holding /\ <<"whole", name[k]>> \in Whole /\ PartOf(k) \in Part
        BY <3>2, PartIs DEF Rename, Types, TaskOK, Holding
      <4>3. open[j] # None => open[j] # PartOf(k) /\ open[j] # <<"whole", name[k]>>
        BY <2>1, <4>2, PartIsNotWhole
      <4>4. None # PartOf(k)
        BY <4>2
      <4>5. QED
        BY <4>1, <4>3, <4>4
    <3>3. CASE (NoSocket(k) \/ Rename(k) \/ Scrap(k)) /\ ~(Rename(k) /\ Exists(PartOf(k)))
      <4>1. at[k] \in Holding /\ (UNCHANGED open \/ LetsGo(k))
        BY <3>3 DEF NoSocket, Rename, Scrap, Fails, Holding
      <4>2. QED
        BY <3>1, <3>3, <4>1
    <3>4. CASE ~(NoSocket(k) \/ Rename(k) \/ Scrap(k))
      <4>1. UNCHANGED open \/ Ends(k) \/ OpenPart(k)
        BY <1>4, <3>4 DEF Own, Socket, Theirs, BeginReceiving, Unanswered, Pick,
           Succeed, AskAgain, LeaveIt, Repeat, AddOutgoing, TellThem, FailSending, ReadBlock,
           ReadFails, SentAll, Answered, TheyConnect
      <4>2. QED
        BY <4>1 DEF Ends, OpenPart, Types, DiskOK
    <3>5. QED
      BY <3>2, <3>3, <3>4
  <2>3. ASSUME NEW j \in Task \ {k}
        PROVE  Own1(j)'
    <3>1. CASE at'[j] = at[j]
      BY <1>1, <1>4, <2>2, <3>1, OthersStay
    <3>2. CASE at'[j] # at[j]
      <4>1. at[j] = "parked" /\ at'[j] = "pick"
        BY <1>4, <3>2, OthersStay
      <4>2. open[j] = None
        BY <4>1 DEF OpenOK
      <4>3. QED
        BY <1>2, <2>2, <4>1, <4>2
    <3>3. QED
      BY <3>1, <3>2
  <2>4. Own1(k)'
    <3> USE DEF Types, TaskOK, Goes
    <3>1. CASE OpenPart(k)
      <4>1. CASE from[k] > 0 <=> Exists(PartOf(k))
        <5>1. open' = [open EXCEPT ![k] = PartOf(k)] /\ UNCHANGED name
          BY <3>1, <4>1 DEF OpenPart
        <5>2. open'[k] = PartOf(k)
          BY <5>1 DEF DiskOK
        <5>3. at'[k] \in {"read", "short"}
          BY <3>1 DEF OpenPart, GoOn
        <5>4. QED
          BY <5>1, <5>2, <5>3 DEF PartOf
      <4>2. CASE ~(from[k] > 0 <=> Exists(PartOf(k)))
        <5>1. at[k] = "dial" /\ at'[k] = "short" /\ UNCHANGED open
          BY <3>1, <4>2 DEF OpenPart
        <5>2. open[k] = None
          BY <5>1 DEF OpenOK
        <5>3. QED
          BY <1>2, <5>1, <5>2
      <4>3. QED
        BY <4>1, <4>2
    <3>2. CASE ReadBlock(k) \/ ReadFails(k)
      <4>1. /\ open[k] = PartOf(k) /\ UNCHANGED <<open, name>>
            /\ at'[k] \in {"read", "whole", "short"}
        BY <3>2 DEF ReadBlock, ReadFails, GoOn, OpenOK
      <4>2. QED
        BY <4>1 DEF PartOf
    <3>3. CASE NoSocket(k) \/ Rename(k) \/ Scrap(k)
      <4>1. CASE NoSocket(k) /\ ~Fails(k)
        <5>1. at[k] = "dial" /\ at'[k] = "short" /\ UNCHANGED open
          BY <3>3, <4>1 DEF NoSocket
        <5>2. open[k] = None
          BY <5>1 DEF OpenOK
        <5>3. QED
          BY <1>2, <5>1, <5>2
      <4>2. CASE Fails(k)
        BY <1>2, <4>2 DEF Fails, LetsGo
      <4>3. CASE Rename(k) /\ ~Fails(k)
        <5>1. at'[k] = "kept" /\ open'[k] = None
          BY <4>3 DEF Rename
        <5>2. QED
          BY <1>2, <5>1
      <4>4. QED
        BY <3>3, <4>1, <4>2, <4>3 DEF Scrap
    <3>4. CASE \/ Succeed(k) \/ LeaveIt(k) \/ Repeat(k) \/ SentAll(k) \/ FailSending(k)
               \/ AddOutgoing(k) \/ TellThem(k)
      <4>1. CASE Ends(k)
        BY <1>2, <4>1 DEF Ends, DiskOK
      <4>2. CASE ~Ends(k)
        <5>1. /\ at[k] \in {"bind", "tell"} /\ at'[k] \in {"tell", "listen"}
              /\ UNCHANGED open
          BY <3>4, <4>2 DEF Succeed, LeaveIt, Repeat, SentAll, FailSending, AddOutgoing,
                            TellThem
        <5>2. open[k] = None
          BY <5>1 DEF OpenOK
        <5>3. QED
          BY <1>2, <5>1, <5>2
      <4>3. QED
        BY <4>1, <4>2
    <3>5. CASE \/ BeginReceiving(k) \/ Unanswered(k) \/ (\E n \in Name : Pick(k, n))
               \/ AskAgain(k) \/ TheyConnect(k)
               \/ \E position \in 0..MaxSize : Answered(k, position)
      <4>1. /\ at[k] \notin {"read", "whole", "short"} /\ UNCHANGED open
            /\ at'[k] \notin {"read", "whole"}
        BY <3>5 DEF BeginReceiving, Unanswered, Pick, AskAgain, TheyConnect, Answered
      <4>2. open[k] = None
        BY <4>1 DEF OpenOK
      <4>3. QED
        BY <1>2, <4>1, <4>2
    <3>6. QED
      BY <1>4, <3>1, <3>2, <3>3, <3>4, <3>5 DEF Own, Socket, Theirs
  <2>5. \A j \in Task : Own1(j)'
    BY <2>3, <2>4
  <2>6. QED
    BY <2>5 DEF OpenOK
<1>5. QED
  BY <1>3, <1>4

\* What has a name of its own in the folder stays there as it is, unless its
\* name is the one that is taken untried.
LEMMA WholesStay ==
    ASSUME Types, OpenOK, NamesOK, [Next]_vars,
           NEW n \in Name, Exists(<<"whole", n>>)
    PROVE  /\ disk'[<<"whole", n>>] # None
           /\ n # Untried => disk'[<<"whole", n>>] = disk[<<"whole", n>>]
<1>1. CASE UNCHANGED disk
  BY <1>1 DEF Exists
<1>2. ASSUME NEW k \in Task, Own(k) \/ Socket(k) \/ Theirs(k)
      PROVE  /\ disk'[<<"whole", n>>] # None
             /\ n # Untried => disk'[<<"whole", n>>] = disk[<<"whole", n>>]
  <2>1. <<"whole", n>> \in Whole
    BY NamesApart
  <2>2. at[k] \in Holding => name[k] \in Name /\ <<"whole", n>> # PartOf(k)
    BY <2>1, PartIs, PartIsNotWhole DEF Types, TaskOK
  <2>3. at[k] \in Holding /\ n # Untried => <<"whole", n>> # <<"whole", name[k]>>
    BY <2>2, NamesApart DEF NamesOK
  <2>4. Rename(k) => at[k] \in Holding
    BY DEF Rename, Holding
  <2>5. QED
    BY <1>2, <2>1, <2>2, <2>3, <2>4, FolderStep DEF Exists
<1>3. QED
  BY <1>1, <1>2, Elsewhere

\* A file that was received stays, and no task that has read another to its
\* end takes the same name for it, as long as two tasks do not hold one name
\* before either has created its part (unique_path, create_new) and the
\* sender resumes what was asked of it and once.
THEOREM NothingIsReplaced ==
    ASSUME ~MayRace, "doubles" \notin Rude, "mixes" \notin Rude
    PROVE  Spec => NeverReplaced
<1> DEFINE Kept == \A n \in 1..MaxName : Exists(<<"whole", n>>) =>
                      /\ disk'[<<"whole", n>>] = disk[<<"whole", n>>]
                      /\ ~\E k \in Task : at[k] = "whole" /\ name[k] = n /\ at'[k] = "kept"
<1>1. ASSUME Init PROVE NamesOK /\ OpenOK
  <2>1. NamesOK
    BY <1>1, NamesApart DEF Init, NamesOK, Exists, Holding
  <2>2. OpenOK
    BY <1>1 DEF Init, OpenOK
  <2>3. QED
    BY <2>1, <2>2
<1>2. ASSUME Types, NamesOK, OpenOK, [Next]_vars PROVE (NamesOK /\ OpenOK)'
  BY <1>2, NamesStep, OpenStep
<1>3. ASSUME Types, NamesOK, OpenOK, [Next]_vars PROVE Kept
  <2> SUFFICES ASSUME NEW n \in 1..MaxName, Exists(<<"whole", n>>)
               PROVE  /\ disk'[<<"whole", n>>] = disk[<<"whole", n>>]
                      /\ \A k \in Task : ~(at[k] = "whole" /\ name[k] = n /\ at'[k] = "kept")
    OBVIOUS
  <2>1. \A k \in Task : at[k] \in Holding => name[k] # n
    BY <1>3 DEF NamesOK
  <2>2. disk'[<<"whole", n>>] = disk[<<"whole", n>>]
    BY <1>3, WholesStay, NamesApart
  <2>3. QED
    BY <2>1, <2>2 DEF Holding
<1>4. Spec => [][Kept]_vars
  BY <1>1, <1>2, <1>3, TypesAlways, PTL DEF Spec
<1>5. QED
  BY <1>4 DEF NeverReplaced

-----------------------------------------------------------------------------
(* What is in a part and under a name.                                     *)

\* A part that is read into holds what was read, and one that is to be carried
\* on ends where the sender carries on.
LEMMA PartStep ==
    ASSUME Types, OpenOK, NamesOK, PartOK, [Next]_vars, Rude = {}
    PROVE  PartOK'
<1> DEFINE Part1(j) ==
        /\ at[j] = "dial" /\ from[j] > 0 =>
              /\ Exists(PartOf(j))
              /\ disk[PartOf(j)].len = from[j] /\ disk[PartOf(j)].of = file[of[j]]
        /\ at[j] \in {"read", "whole"} =>
              /\ disk[PartOf(j)].len = got[j]
              /\ disk[PartOf(j)].of \in {file[of[j]], None}
              /\ got[j] > 0 => disk[PartOf(j)].of = file[of[j]]
        /\ at[j] = "whole" => got[j] = Size[file[of[j]]]
<1>1. \A j \in Task : Part1(j)
  BY DEF PartOK
<1>2. ASSUME NEW j \in Task, of'[j] = of[j], at'[j] = at[j], name'[j] = name[j],
             from'[j] = from[j], got'[j] = got[j],
             at[j] \in {"dial", "read", "whole"} => disk'[PartOf(j)] = disk[PartOf(j)]
      PROVE  Part1(j)'
  <2>1. at[j] \in {"dial", "read", "whole"} => file'[of[j]] = file[of[j]]
    BY FileKept DEF Receiving
  <2>2. QED
    BY <1>1, <1>2, <2>1 DEF PartOf, Exists
<1>3. ASSUME NEW j \in Task, at'[j] \notin {"dial", "read", "whole"}
      PROVE  Part1(j)'
  BY <1>3
<1> HIDE DEF Part1
<1>4. CASE ~\E k \in Task : Own(k) \/ Socket(k) \/ Theirs(k)
  <2>1. ASSUME NEW j \in Task PROVE Part1(j)'
    BY <1>2, <1>3, <1>4, Elsewhere DEF Holding
  <2>2. QED
    BY <2>1 DEF PartOK, Part1
<1>5. ASSUME NEW k \in Task, Own(k) \/ Socket(k) \/ Theirs(k), NEW j \in Task \ {k}
      PROVE  Part1(j)'
  <2>1. CASE at'[j] # at[j] \/ from'[j] # from[j]
    BY <1>3, <1>5, <2>1, OthersStay
  <2>2. CASE at'[j] = at[j] /\ from'[j] = from[j]
    <3>1. ASSUME at[j] \in {"dial", "read", "whole"}
          PROVE  disk'[PartOf(j)] = disk[PartOf(j)]
      <4>1. at[j] \in Holding
        BY <3>1 DEF Holding
      <4>2. PartOf(j) \in Part
        BY <4>1, PartIs DEF Types, TaskOK
      <4>3. at[k] \in Holding => PartOf(j) # PartOf(k) /\ PartOf(j) # <<"whole", name[k]>>
        BY <4>1, <4>2, PartsApart, PartIs, PartIsNotWhole DEF Types, TaskOK
      <4>4. Rename(k) => at[k] \in Holding
        BY DEF Rename, Holding
      <4>5. QED
        BY <1>5, <4>2, <4>3, <4>4, FolderStep
    <3>2. QED
      BY <1>2, <1>5, <2>2, <3>1, OthersStay
  <2>3. QED
    BY <2>1, <2>2
<1>6. ASSUME NEW k \in Task, Own(k) \/ Socket(k) \/ Theirs(k)
      PROVE  Part1(k)'
  <2> USE DEF Types, TaskOK, Goes
  <2>1. ASSUME NEW n \in Name, Pick(k, n)
        PROVE  Part1(k)'
    <3>1. at'[k] = "dial" /\ from'[k] = 0
      BY <2>1 DEF Pick
    <3>2. QED
      BY <3>1 DEF Part1
  <2>2. ASSUME NEW position \in 0..MaxSize, Answered(k, position)
        PROVE  Part1(k)'
    <3>1. CASE position <= from[k]
      <4>1. /\ at'[k] = "dial" /\ from'[k] = position /\ of'[k] = of[k] /\ name'[k] = 1
            /\ UNCHANGED disk
        BY <2>2, <3>1 DEF Answered
      <4>2. file'[of[k]] = file[of[k]]
        BY <2>2, FileKept DEF Answered, Receiving
      <4>3. Exists(First) /\ disk[First].of = file[of[k]]
        BY <2>2 DEF Answered, MayAnswer
      <4>4. position > 0 => disk[First].len = position
        <5>1. position \in Nat /\ from[k] \in Nat
          BY DEF MaxSize
        <5>2. position \notin 1..(from[k] - 1)
          BY <2>2 DEF Answered, MayAnswer
        <5>3. position \in 1..from[k] => disk[First].len = from[k]
          BY <2>2, <4>3 DEF Answered, MayAnswer
        <5>4. QED
          BY <3>1, <5>1, <5>2, <5>3
      <4>5. PartOf(k)' = First
        BY <4>1 DEF PartOf, First
      <4>6. QED
        BY <4>1, <4>2, <4>3, <4>4, <4>5 DEF Part1, Exists
    <3>2. CASE ~(position <= from[k])
      BY <1>3, <2>2, <3>2 DEF Answered
    <3>3. QED
      BY <3>1, <3>2
  <2>3. CASE OpenPart(k)
    <3>1. CASE from[k] > 0 <=> Exists(PartOf(k))
      <4>1. /\ got' = [got EXCEPT ![k] = from[k]] /\ UNCHANGED <<name, of>>
            /\ disk' = IF from[k] = 0 THEN [disk EXCEPT ![PartOf(k)] = NoFile] ELSE disk
        BY <2>3, <3>1 DEF OpenPart
      <4>2. got'[k] = from[k] /\ at'[k] \in {"read", "short"}
        BY <2>3, <4>1 DEF OpenPart, GoOn
      <4>3. file'[of[k]] = file[of[k]]
        BY <2>3, FileKept DEF OpenPart, Receiving
      <4>4. PartOf(k)' = PartOf(k) /\ PartOf(k) \in Part
        BY <2>3, <4>1, PartIs DEF OpenPart, PartOf, Holding
      <4>5. CASE from[k] = 0
        <5>1. disk'[PartOf(k)] = NoFile
          BY <4>1, <4>4, <4>5 DEF DiskOK
        <5>2. QED
          BY <4>1, <4>2, <4>3, <4>4, <4>5, <5>1 DEF Part1, NoFile
      <4>6. CASE from[k] # 0
        <5>1. at[k] = "dial" /\ from[k] > 0 /\ UNCHANGED disk
          BY <2>3, <4>1, <4>6 DEF OpenPart
        <5>2. disk[PartOf(k)].len = from[k] /\ disk[PartOf(k)].of = file[of[k]]
          BY <1>1, <5>1 DEF Part1
        <5>3. QED
          BY <4>1, <4>2, <4>3, <4>4, <5>1, <5>2 DEF Part1
      <4>7. QED
        BY <4>5, <4>6
    <3>2. CASE ~(from[k] > 0 <=> Exists(PartOf(k)))
      BY <1>3, <2>3, <3>2 DEF OpenPart
    <3>3. QED
      BY <3>1, <3>2
  <2>4. CASE ReadBlock(k)
    <3>1. /\ at[k] = "read" /\ open[k] = PartOf(k) /\ PartOf(k) \in Part
          /\ UNCHANGED <<name, of>> /\ got[k] \in Nat
      BY <2>4, PartIs DEF ReadBlock, OpenOK, Holding
    <3>2. file'[of[k]] = file[of[k]]
      BY <3>1, FileKept DEF Receiving
    <3>3. /\ disk[PartOf(k)].len = got[k]
          /\ disk[PartOf(k)].of \in {file[of[k]], None}
      BY <1>1, <3>1 DEF Part1
    <3>4. Appended(k) = [len |-> got[k] + 1, of |-> file[of[k]]]
      BY <3>1, <3>3 DEF Appended
    <3>5. disk'[PartOf(k)] = Appended(k)
      BY <2>4, <3>1 DEF ReadBlock, DiskOK
    <3>6. got'[k] = got[k] + 1
      BY <2>4 DEF ReadBlock
    <3>7. at'[k] \in {"read", "short", "whole"}
      BY <2>4 DEF ReadBlock, GoOn
    <3>8. at'[k] = "whole" => got[k] + 1 = Size[file[of[k]]]
      BY <2>4 DEF ReadBlock, GoOn
    <3>9. PartOf(k)' = PartOf(k)
      BY <3>1 DEF PartOf
    <3>10. /\ disk'[PartOf(k)'].len = got'[k]
           /\ disk'[PartOf(k)'].of = file'[of'[k]]
      BY <3>1, <3>2, <3>4, <3>5, <3>6, <3>9
    <3>11. QED
      BY <3>1, <3>2, <3>6, <3>7, <3>8, <3>10 DEF Part1
  <2>5. CASE /\ ~\E n \in Name : Pick(k, n)
             /\ ~\E position \in 0..MaxSize : Answered(k, position)
             /\ ~OpenPart(k) /\ ~ReadBlock(k)
    <3>1. at'[k] \notin {"dial", "read", "whole"}
      BY <1>6, <2>5 DEF Own, Socket, Theirs, BeginReceiving, Unanswered, NoSocket, Rename,
         Scrap, Succeed, AskAgain, LeaveIt, Repeat, AddOutgoing, TellThem, FailSending,
         ReadFails, SentAll, TheyConnect, Ends, Fails
    <3>2. QED
      BY <1>3, <3>1
  <2>6. QED
    BY <2>1, <2>2, <2>3, <2>4, <2>5
<1>7. ASSUME NEW k \in Task, Own(k) \/ Socket(k) \/ Theirs(k)
      PROVE  PartOK'
  <2>1. \A j \in Task : Part1(j)'
    BY <1>5, <1>6, <1>7
  <2>2. QED
    BY <2>1 DEF PartOK, Part1
<1>8. QED
  BY <1>4, <1>7

\* A transfer that is done was done before, as it was, unless its task has
\* just said so; one that is sent is no file in the folder.
LEMMA DoneWas ==
    ASSUME Types, [Next]_vars, NEW t \in Transfer, state'[t] = "done",
           kind'[t] # "outgoing", \A k \in Task : of[k] = t => ~Succeed(k)
    PROVE  /\ state[t] = "done" /\ kind[t] # "outgoing"
           /\ file'[t] = file[t] /\ place'[t] = place[t]
<1> USE DEF Types, listVars
<1>1. ASSUME NEW u \in Transfer, NEW s \in State \ {"done"}, Becomes(u, s),
             \A v \in Transfer \ {u} : /\ kind'[v] = kind[v] /\ file'[v] = file[v]
                                       /\ place'[v] = place[v]
      PROVE  /\ state[t] = "done" /\ kind[t] # "outgoing"
             /\ file'[t] = file[t] /\ place'[t] = place[t]
  <2>1. u # t
    BY <1>1 DEF Becomes, ListOK
  <2>2. QED
    BY <1>1, <2>1 DEF Becomes, ListOK
<1>2. CASE UNCHANGED <<state, kind, file, place>>
  BY <1>2
<1>3. CASE Disconnect
  BY <1>3 DEF Disconnect
<1>4. CASE Restart
  BY <1>4 DEF Restart, Restored, ListOK
<1>5. CASE Request \/ Connect \/ UNCHANGED vars
  BY <1>2, <1>5 DEF Request, Connect, vars
<1>6. ASSUME NEW u \in Transfer, NEW how \in Kind, NEW f \in File, Add(u, how, f)
      PROVE  /\ state[t] = "done" /\ kind[t] # "outgoing"
             /\ file'[t] = file[t] /\ place'[t] = place[t]
  BY <1>1, <1>6 DEF Add, ListOK, State
<1>7. ASSUME NEW u \in Transfer, NEW how \in Incoming, NEW f \in File, Offered(u, how, f)
      PROVE  /\ state[t] = "done" /\ kind[t] # "outgoing"
             /\ file'[t] = file[t] /\ place'[t] = place[t]
  BY <1>2, <1>6, <1>7 DEF Offered, Kind
<1>8. ASSUME NEW u \in Transfer, AcceptTooLate(u) \/ Cancel(u) \/ Decline(u) \/ Forget(u)
      PROVE  /\ state[t] = "done" /\ kind[t] # "outgoing"
             /\ file'[t] = file[t] /\ place'[t] = place[t]
  <2>1. CASE Forget(u)
    BY <1>1, <2>1 DEF Forget, ListOK, State
  <2>2. CASE ~Forget(u)
    BY <1>1, <1>2, <1>8, <2>2 DEF AcceptTooLate, Cancel, Decline, State
  <2>3. QED
    BY <2>1, <2>2
<1>9. ASSUME NEW u \in Transfer, NEW k \in Task, Accept(u, k) \/ SendFile(u, k)
      PROVE  UNCHANGED <<state, kind, file, place>>
  BY <1>9 DEF Accept, SendFile
<1>10. ASSUME NEW k \in Task, Own(k) \/ Socket(k) \/ Theirs(k)
       PROVE  /\ state[t] = "done" /\ kind[t] # "outgoing"
              /\ file'[t] = file[t] /\ place'[t] = place[t]
  <2>1. CASE \/ BeginReceiving(k) \/ TheyConnect(k) \/ FailSending(k)
             \/ NoSocket(k) \/ Rename(k) \/ Scrap(k)
    <3>1. of[k] \in Transfer
      BY <2>1, RunsFor DEF BeginReceiving, TheyConnect, FailSending, NoSocket, Rename, Scrap
    <3>2. UNCHANGED <<kind, file, place>>
      BY <2>1 DEF BeginReceiving, TheyConnect, FailSending, NoSocket, Rename, Scrap
    <3>3. \/ UNCHANGED state
          \/ \E s \in {"receiving", "sending", "failed"} : Becomes(of[k], s)
      BY <2>1 DEF BeginReceiving, TheyConnect, FailSending, NoSocket, Rename, Scrap, Fails
    <3>4. QED
      BY <1>1, <1>2, <3>1, <3>2, <3>3 DEF State
  <2>2. CASE SentAll(k)
    <3>1. of[k] \in Transfer /\ kind[of[k]] = "outgoing" /\ UNCHANGED <<kind, file, place>>
      BY <2>2, RunsFor DEF SentAll, BondOK, Serving
    <3>2. t # of[k]
      BY <3>1
    <3>3. state'[t] = state[t]
      BY <2>2, <3>2 DEF SentAll, Becomes, ListOK
    <3>4. QED
      BY <3>1, <3>3
  <2>3. CASE Succeed(k)
    <3>1. of[k] # t
      BY <2>3
    <3>2. QED
      BY <2>3, <3>1 DEF Succeed, Becomes, ListOK
  <2>4. CASE AddOutgoing(k)
    <3>1. of[k] \in Transfer
      BY <2>4, RunsFor DEF AddOutgoing
    <3>2. QED
      BY <1>2, <1>6, <2>4, <3>1 DEF AddOutgoing, Kind
  <2>5. CASE /\ ~(\/ BeginReceiving(k) \/ TheyConnect(k) \/ FailSending(k)
                  \/ NoSocket(k) \/ Rename(k) \/ Scrap(k))
             /\ ~SentAll(k) /\ ~Succeed(k) /\ ~AddOutgoing(k)
    <3>1. UNCHANGED <<state, kind, file, place>>
      BY <1>10, <2>5 DEF Own, Socket, Theirs, Unanswered, Pick, AskAgain, LeaveIt, Repeat,
         TellThem, ReadBlock, ReadFails, Answered, OpenPart
    <3>2. QED
      BY <1>2, <3>1
  <2>6. QED
    BY <2>1, <2>2, <2>3, <2>4, <2>5
<1>11. QED
  BY <1>2, <1>3, <1>4, <1>5, <1>7, <1>8, <1>9, <1>10 DEF Next

\* What has a name of its own is all of one file, and those who put it there
\* find it there.
LEMMA WholeStep ==
    ASSUME Types, OpenOK, NamesOK, PartOK, WholeOK, [Next]_vars
    PROVE  WholeOK'
<1>1. ASSUME NEW n \in Name, disk'[<<"whole", n>>] # None
      PROVE  /\ disk'[<<"whole", n>>].of \in File
             /\ disk'[<<"whole", n>>].len = Size[disk'[<<"whole", n>>].of]
  <2>1. <<"whole", n>> \in Whole
    BY NamesApart
  <2>2. CASE disk'[<<"whole", n>>] = disk[<<"whole", n>>]
    BY <1>1, <2>1, <2>2 DEF WholeOK, IsWhole, Exists
  <2>3. ASSUME NEW k \in Task, Rename(k), disk'[<<"whole", n>>] = disk[PartOf(k)]
        PROVE  /\ disk[PartOf(k)].of \in File
               /\ disk[PartOf(k)].len = Size[disk[PartOf(k)].of]
    <3>1. at[k] = "whole" /\ at[k] \in Receiving
      BY <2>3 DEF Rename, Receiving
    <3>2. file[of[k]] \in File /\ Size[file[of[k]]] \in Nat \ {0}
      BY <3>1, ReceivesFor DEF Types
    <3>3. /\ disk[PartOf(k)].len = got[k] /\ got[k] = Size[file[of[k]]]
          /\ got[k] > 0 => disk[PartOf(k)].of = file[of[k]]
      BY <3>1 DEF PartOK
    <3>4. QED
      BY <3>2, <3>3
  <2>4. ASSUME NEW k \in Task, Own(k) \/ Socket(k) \/ Theirs(k),
               disk'[<<"whole", n>>] # disk[<<"whole", n>>]
        PROVE  Rename(k) /\ disk'[<<"whole", n>>] = disk[PartOf(k)]
    <3>1. at[k] \in Holding => <<"whole", n>> # PartOf(k)
      BY <2>1, PartIs, PartIsNotWhole DEF Types, TaskOK
    <3>2. Rename(k) => at[k] \in Holding
      BY DEF Rename, Holding
    <3>3. QED
      BY <2>1, <2>4, <3>1, <3>2, FolderStep
  <2>5. QED
    BY <2>2, <2>3, <2>4, Elsewhere
<1>2. ASSUME NEW k \in Task, at'[k] = "kept"
      PROVE  /\ name'[k] \in Name /\ disk'[<<"whole", name'[k]>>] # None
             /\ name'[k] # Untried => disk'[<<"whole", name'[k]>>].of = file'[of'[k]]
  <2>1. CASE at[k] = "kept" /\ of'[k] = of[k] /\ name'[k] = name[k]
    <3>1. name[k] \in Name
      BY <2>1, PartIs DEF Types, TaskOK
    <3>2. /\ Exists(<<"whole", name[k]>>)
          /\ name[k] # Untried => disk[<<"whole", name[k]>>].of = file[of[k]]
      BY <2>1 DEF WholeOK
    <3>3. file'[of[k]] = file[of[k]]
      BY <2>1, FileKept DEF Receiving
    <3>4. QED
      BY <2>1, <3>1, <3>2, <3>3, WholesStay
  <2>2. CASE Rename(k) /\ Exists(PartOf(k))
    <3>1. at[k] = "whole" /\ at[k] \in Receiving /\ at[k] \in Holding
      BY <2>2 DEF Rename, Receiving, Holding
    <3>2. name[k] \in Name /\ <<"whole", name[k]>> \in Whole /\ PartOf(k) \in Part
      BY <3>1, PartIs DEF Types, TaskOK
    <3>3. of'[k] = of[k] /\ name'[k] = name[k]
      BY <2>2 DEF Rename
    <3>4. disk'[<<"whole", name[k]>>] = disk[PartOf(k)]
      <4>1. disk' = [disk EXCEPT ![<<"whole", name[k]>>] = disk[PartOf(k)],
                                 ![PartOf(k)] = None]
        BY <2>2 DEF Rename
      <4>2. <<"whole", name[k]>> # PartOf(k)
        BY <3>2, PartIsNotWhole
      <4>3. QED
        BY <3>2, <4>1, <4>2 DEF Types, DiskOK
    <3>5. Size[file[of[k]]] \in Nat \ {0}
      BY <3>1, ReceivesFor DEF Types
    <3>6. disk[PartOf(k)].of = file[of[k]]
      BY <3>1, <3>5 DEF PartOK
    <3>7. file'[of[k]] = file[of[k]]
      BY <3>1, FileKept
    <3>8. QED
      BY <2>2, <3>2, <3>3, <3>4, <3>6, <3>7 DEF Exists
  <2>3. ASSUME NEW j \in Task, Own(j) \/ Socket(j) \/ Theirs(j), ~(Rename(k) /\ Exists(PartOf(k)))
        PROVE  at[k] = "kept" /\ of'[k] = of[k] /\ name'[k] = name[k]
    <3>1. CASE j # k
      BY <1>2, <2>3, <3>1, OthersStay
    <3>2. CASE j = k
      BY <1>2, <2>3, <3>2 DEF Own, Socket, Theirs, BeginReceiving, Unanswered, Pick, NoSocket,
         Rename, Scrap, Succeed, AskAgain, LeaveIt, Repeat, AddOutgoing, TellThem,
         FailSending, ReadBlock, ReadFails, SentAll, Answered, OpenPart, TheyConnect,
         Ends, Fails, GoOn, Goes, Types, TaskOK
    <3>3. QED
      BY <3>1, <3>2
  <2>4. QED
    BY <1>2, <2>1, <2>2, <2>3, Elsewhere
<1>3. ASSUME NEW t \in Transfer, state'[t] = "done", kind'[t] # "outgoing"
      PROVE  /\ place'[t] # 0 /\ disk'[<<"whole", place'[t]>>] # None
             /\ place'[t] # Untried => disk'[<<"whole", place'[t]>>].of = file'[t]
  <2>1. ASSUME NEW k \in Task, of[k] = t, Succeed(k)
        PROVE  /\ place'[t] # 0 /\ disk'[<<"whole", place'[t]>>] # None
               /\ place'[t] # Untried => disk'[<<"whole", place'[t]>>].of = file'[t]
    <3>1. at[k] = "kept" /\ UNCHANGED <<file, disk>>
      BY <2>1 DEF Succeed
    <3>2. place'[t] = name[k]
      BY <2>1 DEF Succeed, Types, ListOK
    <3>3. name[k] # 0
      BY <3>1 DEF Types, TaskOK
    <3>4. /\ Exists(<<"whole", name[k]>>)
          /\ name[k] # Untried => disk[<<"whole", name[k]>>].of = file[of[k]]
      BY <3>1 DEF WholeOK
    <3>5. QED
      BY <2>1, <3>1, <3>2, <3>3, <3>4 DEF Exists
  <2>2. CASE \A k \in Task : of[k] = t => ~Succeed(k)
    <3>1. /\ state[t] = "done" /\ kind[t] # "outgoing"
          /\ file'[t] = file[t] /\ place'[t] = place[t]
      BY <1>3, <2>2, DoneWas
    <3>2. /\ place[t] # 0 /\ Exists(<<"whole", place[t]>>)
          /\ place[t] # Untried => disk[<<"whole", place[t]>>].of = file[t]
      BY <3>1 DEF WholeOK
    <3>3. place[t] \in Name
      BY <3>2 DEF Types, ListOK, Name, Untried
    <3>4. QED
      BY <3>1, <3>2, <3>3, WholesStay
  <2>3. QED
    BY <2>1, <2>2
<1>4. \A p \in Whole : \E n \in Name : p = <<"whole", n>>
  BY DEF Whole
<1>5. \A p \in Whole : disk'[p] # None => /\ disk'[p].of \in File
                                         /\ disk'[p].len = Size[disk'[p].of]
  BY <1>1, <1>4
<1>6. QED
  BY <1>2, <1>3, <1>5 DEF WholeOK, IsWhole, Exists

\* Whatever has a name of its own is all of one file, and a transfer that is
\* done left the file it was offered there, as long as two tasks do not hold
\* one name before either has created its part and senders resume what was
\* asked, where it ends, once and at once (finish, negotiate_resume,
\* stream_socket).
THEOREM WhatIsReceivedIsWhole ==
    ASSUME ~MayRace, Rude = {}
    PROVE  Spec => []ReceivedIsWhole
<1>1. ASSUME Init PROVE Polite
  <2>1. NamesOK
    BY <1>1, NamesApart DEF Init, NamesOK, Exists, Holding
  <2>2. OpenOK /\ PartOK
    BY <1>1 DEF Init, OpenOK, PartOK
  <2>3. WholeOK
    BY <1>1 DEF Init, WholeOK, Exists
  <2>4. QED
    BY <2>1, <2>2, <2>3 DEF Polite
<1>2. ASSUME Types, Polite, [Next]_vars PROVE Polite'
  BY <1>2, NamesStep, OpenStep, PartStep, WholeStep DEF Polite
<1>3. ASSUME Polite PROVE ReceivedIsWhole
  BY <1>3 DEF Polite, WholeOK, ReceivedIsWhole
<1>4. QED
  BY <1>1, <1>2, <1>3, TypesAlways, PTL DEF Spec
=============================================================================
