---------------------------- MODULE StorePaging ----------------------------
(***************************************************************************)
(* Reading a conversation out of the store page by page (store.rs): back   *)
(* from the newest message (get_backlog), or forward through a range       *)
(* (messages_after, messages_between), each page asked for from where the  *)
(* last one ended, while messages are added and taken out.                 *)
(*                                                                         *)
(* A place in the conversation is a second.  Messages of one second are in *)
(* no order.                                                               *)
(***************************************************************************)
EXTENDS Integers, FiniteSets

CONSTANTS
    MaxRow,   \* bound: messages ever stored
    MaxTs,    \* bound: seconds of the conversation
    Limit,    \* messages of a page
    Until,    \* where a forward read ends
    Keep      \* SCROLLBACK_KEEP_PER_BUFFER

ASSUME BoundsAssumption == MaxRow \in Nat /\ MaxTs \in Nat
ASSUME LimitsAssumption == /\ Limit \in Nat \ {0}
                           /\ Keep \in Nat \ {0}
                           /\ Until \in 0..MaxTs

VARIABLES
    rows,    \* the store's messages: [id, ts]
    made,    \* ids there were
    walk,    \* how the reader reads: "none", "back", "forward", "done"
    from,    \* before or after, what the next page is asked from
    range,   \* the rows to be read that were there when it began
    got,     \* rows it was given
    again    \* it was given one of them twice

reader == <<walk, from, range, got, again>>
vars   == <<rows, made, reader>>

Init ==
    /\ rows = {} /\ made = 0
    /\ walk = "none" /\ from = 0
    /\ range = {} /\ got = {} /\ again = FALSE

-----------------------------------------------------------------------------
(* The queries.                                                            *)

\* A page of S in the order of its seconds, upwards (1) or downwards (-1);
\* which ones of the last second is anyone's guess.
PageOf(S, way) ==
    {P \in SUBSET S :
        /\ Cardinality(P) = IF Cardinality(S) < Limit THEN Cardinality(S)
                            ELSE Limit
        /\ \A p \in P, q \in S \ P : way * p.ts <= way * q.ts}

\* As get_backlog, where it was asked from included.
BacklogFromSecond(before) ==
    PageOf({r \in rows : before = 0 \/ r.ts <= before}, -1)

\* As messages_between, in the order of get_backlog.
BetweenNewest(after) == PageOf({r \in rows : after < r.ts /\ r.ts <= Until}, -1)

\* get_backlog, newest first
Backlog(before) == PageOf({r \in rows : before = 0 \/ r.ts < before}, -1)

\* messages_between, oldest first; messages_after has no end to it.
Between(after) == PageOf({r \in rows : after < r.ts /\ r.ts <= Until}, 1)

-----------------------------------------------------------------------------
(* The reader, who asks from the end of the last page.                     *)

BeginBack ==
    /\ walk = "none"
    /\ walk' = "back" /\ from' = 0
    /\ range' = rows
    /\ UNCHANGED <<rows, made, got, again>>

BeginForward ==
    /\ walk = "none"
    /\ walk' = "forward" /\ from' = 0
    /\ range' = {r \in rows : r.ts <= Until}
    /\ UNCHANGED <<rows, made, got, again>>

Given(page) ==
    /\ got' = got \cup page
    /\ again' = (again \/ got \cap page # {})
    /\ UNCHANGED <<rows, made, range>>

\* An empty page is the end of it.
ReadBack ==
    /\ walk = "back"
    /\ \E page \in Backlog(from) :
          /\ Given(page)
          /\ IF page = {} THEN walk' = "done" /\ UNCHANGED from
             ELSE /\ UNCHANGED walk
                  /\ \E r \in page : /\ \A s \in page : r.ts <= s.ts
                                     /\ from' = r.ts

\* As ReadForward, the end taken for a page still to come.
ReadForwardAgain ==
    /\ walk = "forward"
    /\ \E page \in Between(from) :
          /\ page # {}
          /\ Given(page)
          /\ UNCHANGED walk
          /\ \E r \in page : /\ \A s \in page : r.ts >= s.ts
                             /\ from' = r.ts

ReadForward ==
    /\ walk = "forward"
    /\ \E page \in Between(from) :
          /\ Given(page)
          /\ IF page = {} THEN walk' = "done" /\ UNCHANGED from
             ELSE /\ UNCHANGED walk
                  /\ \E r \in page : /\ \A s \in page : r.ts >= s.ts
                                     /\ from' = r.ts

-----------------------------------------------------------------------------
(* Everything else that writes to the table.                               *)

\* A message, said now, or older and only fetched now; or a repeat of one.
Stored(id, ts) ==
    /\ id <= MaxRow
    /\ made' = IF id > made THEN id ELSE made
    /\ rows' = rows \cup {[id |-> id, ts |-> ts]}

\* As Append, no OR IGNORE.
AppendAlways ==
    /\ \E id \in {r.id : r \in rows} \cup {made + 1}, ts \in 1..MaxTs : Stored(id, ts)
    /\ UNCHANGED reader

\* append_message: a repeat of one that is kept is ignored.
Append ==
    /\ \E id \in {r.id : r \in rows} \cup {made + 1}, ts \in 1..MaxTs :
          /\ \A r \in rows : r.id # id
          /\ Stored(id, ts)
    /\ UNCHANGED reader

\* delete_message
Delete ==
    /\ \E r \in rows : rows' = rows \ {r}
    /\ UNCHANGED <<made, reader>>

\* prune_old_messages, by the second and in no order within it.
Prune ==
    /\ Cardinality(rows) > Keep
    /\ \E S \in SUBSET rows :
          /\ Cardinality(S) = Keep
          /\ \A s \in S, q \in rows \ S : q.ts <= s.ts
          /\ rows' = S
    /\ UNCHANGED <<made, reader>>

Next ==
    \/ BeginBack \/ BeginForward \/ ReadBack \/ ReadForward
    \/ Append \/ Delete \/ Prune

Spec == Init /\ [][Next]_vars /\ WF_vars(ReadBack) /\ WF_vars(ReadForward)

-----------------------------------------------------------------------------
(* Properties.                                                             *)

Row == [id : 1..MaxRow, ts : 1..MaxTs]

TypeOK ==
    /\ made \in 0..MaxRow
    /\ rows \subseteq Row
    /\ \A r, s \in rows : r.id = s.id => r = s
    /\ walk \in {"none", "back", "forward", "done"}
    /\ from \in 0..MaxTs
    /\ range \subseteq Row
    /\ got \subseteq Row
    /\ again \in BOOLEAN

\* No page repeats a message of a page before it, whatever is added or taken
\* out in between.
NothingTwice == ~again

\* What was there when the reader began, is still there at the end and was
\* not read, is of the second of one that was: a walk leaves no second out,
\* wherever the table grew, shrank or was pruned behind and before it.
NoSecondSkipped ==
    walk = "done" => \A r \in range \cap rows : \E g \in got : g.ts = r.ts

\* A reader comes to an end, although the table grows while it reads.
ReadsToTheEnd == (walk \in {"back", "forward"}) ~> (walk = "done")

=============================================================================
