---------------------------- MODULE StoreProofs ----------------------------
(***************************************************************************)
(* Proofs about what is read back from the database: the pages of          *)
(* StorePaging, for any number of messages and seconds and any size of a   *)
(* page, and the conversations and rail entries of Layout, for any number  *)
(* of them and of tasks.                                                   *)
(***************************************************************************)
EXTENDS StorePaging, Layout, FiniteSetTheorems, TLAPS

USE BoundsAssumption, LimitsAssumption, PlaceAssumption, MayAssumption

-----------------------------------------------------------------------------
(* The inductive invariant, and the start.                                 *)

\* The table is finite, and its ids and those to be read have been given out.
TableOK ==
    /\ IsFiniteSet(rows)
    /\ \A r \in rows \cup range : r.id <= made

\* Where a read has got to, by what it was given: back, the seconds from
\* `from' on; forward, those up to it.
ReaderOK ==
    /\ ~again
    /\ walk = "none"    => from = 0 /\ got = {}
    /\ walk = "back"    => \A g \in got : from # 0 /\ g.ts >= from
    /\ walk = "forward" => \A g \in got : g.ts <= from

\* The second of r was read.
Seen(r) == \E g \in got : g.ts = r.ts

\* Of what is to be read, every second passed was read.
PassedOK ==
    /\ walk = "back"    => \A r \in range \cap rows :
                              from # 0 /\ r.ts >= from => Seen(r)
    /\ walk = "forward" => /\ \A r \in range : r.ts <= Until
                           /\ \A r \in range \cap rows : r.ts <= from => Seen(r)
    /\ walk = "done"    => \A r \in range \cap rows : Seen(r)

\* The inductive invariant.
Inv == TypeOK /\ TableOK /\ ReaderOK /\ PassedOK

\* At the start nothing is stored and nothing read.
LEMMA InitInv == Init => Inv
<1> SUFFICES ASSUME Init
             PROVE  Inv
  OBVIOUS
<1> USE DEF Init
<1>1. TypeOK
  <2>1. made \in 0..MaxRow /\ from \in 0..MaxTs
    OBVIOUS
  <2>2. again \in BOOLEAN /\ walk \in {"none", "back", "forward", "done"}
    OBVIOUS
  <2>3. /\ rows \subseteq Row /\ range \subseteq Row /\ got \subseteq Row
        /\ \A r, s \in rows : r.id = s.id => r = s
    OBVIOUS
  <2>4. QED
    BY <2>1, <2>2, <2>3 DEF TypeOK
<1>2. TableOK
  <2>1. IsFiniteSet(rows)
    BY FS_EmptySet
  <2>2. QED
    BY <2>1 DEF TableOK
<1>3. ReaderOK /\ PassedOK
  BY DEF ReaderOK, PassedOK
<1>4. QED
  BY <1>1, <1>2, <1>3 DEF Inv

\* A page is made of what was asked for, and is empty only when nothing was
\* there.
LEMMA PageOfSome ==
    ASSUME NEW S, IsFiniteSet(S), NEW way, NEW P \in PageOf(S, way)
    PROVE  /\ P \subseteq S
           /\ P = {} => S = {}
<1>1. P \subseteq S
  BY DEF PageOf
<1>2. ASSUME P = {}
      PROVE  S = {}
  <2>1. Cardinality(P) = 0
    BY <1>2, FS_EmptySet
  <2>2. Cardinality(S) \in Nat
    BY FS_CardinalityType
  <2>3. Cardinality(S) = 0
    BY <2>1, <2>2 DEF PageOf
  <2>4. QED
    BY <2>3, FS_EmptySet
<1>3. QED
  BY <1>1, <1>2

-----------------------------------------------------------------------------
(* One step of everything else that writes, and of the reader's start.     *)

\* A message put in has an id that is not among those to be read.
LEMMA AppendInv == Inv /\ Append => Inv'
<1> SUFFICES ASSUME Inv, Append
             PROVE  Inv'
  OBVIOUS
<1>1. PICK id \in {r.id : r \in rows} \cup {made + 1}, ts \in 1..MaxTs :
          /\ \A r \in rows : r.id # id
          /\ Stored(id, ts)
  BY DEF Append
<1>2. id = made + 1
  BY <1>1
<1>3. /\ made \in Nat
      /\ made + 1 <= MaxRow /\ made' = made + 1
      /\ rows' = rows \cup {[id |-> made + 1, ts |-> ts]}
      /\ UNCHANGED reader
  BY <1>1, <1>2 DEF Append, Stored, Inv, TypeOK
<1>4. TypeOK'
  BY <1>1, <1>3 DEF Inv, TypeOK, TableOK, Row, reader
<1>5. TableOK'
  <2>1. IsFiniteSet(rows')
    BY <1>3, FS_AddElement DEF Inv, TableOK
  <2>2. \A r \in rows \cup range : r.id \in Nat
    BY DEF Inv, TypeOK, Row
  <2>3. QED
    BY <1>3, <2>1, <2>2 DEF Inv, TableOK, reader
<1>6. range' \cap rows' \subseteq range \cap rows
  <2>1. \A r \in range : r.id <= made /\ r.id \in Nat
    BY DEF Inv, TableOK, TypeOK, Row
  <2>2. QED
    BY <1>3, <2>1 DEF reader
<1>7. ReaderOK' /\ PassedOK'
  BY <1>3, <1>6 DEF Inv, ReaderOK, PassedOK, Seen, reader
<1>8. QED
  BY <1>4, <1>5, <1>7 DEF Inv

\* Messages that go only make what is to be read less.
LEMMA ShrinkInv ==
    ASSUME Inv, rows' \in SUBSET rows, UNCHANGED <<made, reader>>
    PROVE  Inv'
<1>1. TypeOK'
  BY DEF Inv, TypeOK, reader
<1>2. TableOK'
  BY FS_Subset DEF Inv, TableOK, reader
<1>3. ReaderOK' /\ PassedOK'
  BY DEF Inv, ReaderOK, PassedOK, Seen, reader
<1>4. QED
  BY <1>1, <1>2, <1>3 DEF Inv

\* A walk begins with everything before it.
LEMMA BeginInv == Inv /\ (BeginBack \/ BeginForward) => Inv'
<1> SUFFICES ASSUME Inv, BeginBack \/ BeginForward
             PROVE  Inv'
  OBVIOUS
<1> USE DEF BeginBack, BeginForward
<1>1. TypeOK'
  BY DEF Inv, TypeOK
<1>2. TableOK'
  BY DEF Inv, TableOK
<1>3. ReaderOK'
  BY DEF Inv, ReaderOK
<1>4. PassedOK'
  BY DEF Inv, TypeOK, PassedOK, Row
<1>5. QED
  BY <1>1, <1>2, <1>3, <1>4 DEF Inv

-----------------------------------------------------------------------------
(* One step of the reader.                                                 *)

\* What a page leaves of the seconds before it is of its last one, or older.
LEMMA ReadBackInv == Inv /\ ReadBack => Inv'
<1> SUFFICES ASSUME Inv, ReadBack
             PROVE  Inv'
  OBVIOUS
<1> DEFINE S == {r \in rows : from = 0 \/ r.ts < from}
<1>1. PICK page \in PageOf(S, -1) :
          /\ Given(page)
          /\ IF page = {} THEN walk' = "done" /\ UNCHANGED from
             ELSE /\ UNCHANGED walk
                  /\ \E r \in page : /\ \A s \in page : r.ts <= s.ts
                                     /\ from' = r.ts
  BY DEF ReadBack, Backlog
<1>2. /\ walk = "back" /\ from \in Nat
      /\ \A r \in rows \cup range \cup got : r \in Row /\ r.ts \in Nat \ {0}
  BY DEF ReadBack, Inv, TypeOK, Row
<1>3. IsFiniteSet(S)
  BY FS_Subset DEF Inv, TableOK
<1>4. page \subseteq S /\ (page = {} => S = {})
  BY <1>1, <1>3, PageOfSome
<1>5. \A p \in page, q \in S \ page : p.ts >= q.ts
  BY <1>1, <1>2, <1>4 DEF PageOf
<1>6. /\ got' = got \cup page
      /\ again' = (again \/ got \cap page # {})
      /\ UNCHANGED <<rows, made, range>>
  BY <1>1 DEF Given
<1>7. TypeOK'
  <2>1. got' \subseteq Row /\ again' \in BOOLEAN
    BY <1>2, <1>4, <1>6
  <2>2. from' \in 0..MaxTs /\ walk' \in {"none", "back", "forward", "done"}
    BY <1>1, <1>2, <1>4 DEF Inv, TypeOK, Row
  <2>3. QED
    BY <1>6, <2>1, <2>2 DEF Inv, TypeOK
<1>8. TableOK'
  BY <1>6 DEF Inv, TableOK
<1>9. ReaderOK'
  <2>1. got \cap page = {}
    BY <1>2, <1>4 DEF Inv, ReaderOK
  <2>2. ASSUME NEW g \in got', walk' = "back"
        PROVE  from' # 0 /\ g.ts >= from'
    <3>1. PICK r \in page : (\A s \in page : r.ts <= s.ts) /\ from' = r.ts
      BY <1>1, <1>2, <2>2
    <3>2. r.ts \in Nat \ {0} /\ (from = 0 \/ r.ts < from)
      BY <1>2, <1>4
    <3>3. CASE g \in got
      BY <1>2, <3>1, <3>2, <3>3 DEF Inv, ReaderOK
    <3>4. CASE g \in page
      BY <1>2, <1>4, <3>1, <3>2, <3>4
    <3>5. QED
      BY <1>6, <3>3, <3>4
  <2>3. walk' \in {"back", "done"}
    BY <1>1, <1>2
  <2>4. QED
    BY <1>6, <2>1, <2>2, <2>3 DEF Inv, ReaderOK
<1>10. PassedOK'
  <2>1. ASSUME NEW r \in range \cap rows, from # 0, r.ts >= from
        PROVE  Seen(r)'
    BY <1>2, <1>6, <2>1 DEF Inv, PassedOK, Seen
  <2>2. CASE page = {}
    <3>1. walk' = "done" /\ \A r \in range \cap rows : from # 0 /\ r.ts >= from
      BY <1>1, <1>2, <1>4, <2>2
    <3>2. QED
      BY <1>6, <2>1, <3>1 DEF PassedOK
  <2>3. CASE page # {}
    <3>1. PICK e \in page : (\A s \in page : e.ts <= s.ts) /\ from' = e.ts
      BY <1>1, <2>3
    <3>2. walk' = "back"
      BY <1>1, <1>2, <2>3
    <3>3. ASSUME NEW r \in range \cap rows, r.ts >= from'
          PROVE  Seen(r)'
      <4>1. CASE from # 0 /\ r.ts >= from
        BY <2>1, <4>1
      <4>2. CASE ~(from # 0 /\ r.ts >= from) /\ r \in page
        BY <1>6, <4>2 DEF Seen
      <4>3. CASE ~(from # 0 /\ r.ts >= from) /\ r \notin page
        <5>1. r \in S \ page
          BY <1>2, <4>3
        <5>2. e.ts = r.ts
          BY <1>2, <1>4, <1>5, <3>1, <3>3, <5>1
        <5>3. QED
          BY <1>6, <5>2 DEF Seen
      <4>4. QED
        BY <4>1, <4>2, <4>3
    <3>4. QED
      BY <1>6, <3>2, <3>3 DEF PassedOK
  <2>4. QED
    BY <2>2, <2>3
<1>11. QED
  BY <1>7, <1>8, <1>9, <1>10 DEF Inv

\* What a page leaves of the seconds after it is of its last one, or newer.
LEMMA ReadForwardInv == Inv /\ ReadForward => Inv'
<1> SUFFICES ASSUME Inv, ReadForward
             PROVE  Inv'
  OBVIOUS
<1> DEFINE S == {r \in rows : from < r.ts /\ r.ts <= Until}
<1>1. PICK page \in PageOf(S, 1) :
          /\ Given(page)
          /\ IF page = {} THEN walk' = "done" /\ UNCHANGED from
             ELSE /\ UNCHANGED walk
                  /\ \E r \in page : /\ \A s \in page : r.ts >= s.ts
                                     /\ from' = r.ts
  BY DEF ReadForward, Between
<1>2. /\ walk = "forward" /\ from \in Nat
      /\ \A r \in rows \cup range \cup got : r \in Row /\ r.ts \in Nat \ {0}
  BY DEF ReadForward, Inv, TypeOK, Row
<1>3. IsFiniteSet(S)
  BY FS_Subset DEF Inv, TableOK
<1>4. page \subseteq S /\ (page = {} => S = {})
  BY <1>1, <1>3, PageOfSome
<1>5. \A p \in page, q \in S \ page : p.ts <= q.ts
  BY <1>1, <1>2, <1>4 DEF PageOf
<1>6. /\ got' = got \cup page
      /\ again' = (again \/ got \cap page # {})
      /\ UNCHANGED <<rows, made, range>>
  BY <1>1 DEF Given
<1>7. TypeOK'
  <2>1. got' \subseteq Row /\ again' \in BOOLEAN
    BY <1>2, <1>4, <1>6
  <2>2. from' \in 0..MaxTs /\ walk' \in {"none", "back", "forward", "done"}
    BY <1>1, <1>2, <1>4 DEF Inv, TypeOK, Row
  <2>3. QED
    BY <1>6, <2>1, <2>2 DEF Inv, TypeOK
<1>8. TableOK'
  BY <1>6 DEF Inv, TableOK
<1>9. ReaderOK'
  <2>1. got \cap page = {}
    BY <1>2, <1>4 DEF Inv, ReaderOK
  <2>2. ASSUME NEW g \in got', walk' = "forward"
        PROVE  g.ts <= from'
    <3>1. PICK r \in page : (\A s \in page : r.ts >= s.ts) /\ from' = r.ts
      BY <1>1, <1>2, <2>2
    <3>2. r.ts \in Nat \ {0} /\ from < r.ts
      BY <1>2, <1>4
    <3>3. CASE g \in got
      BY <1>2, <3>1, <3>2, <3>3 DEF Inv, ReaderOK
    <3>4. CASE g \in page
      BY <1>2, <1>4, <3>1, <3>2, <3>4
    <3>5. QED
      BY <1>6, <3>3, <3>4
  <2>3. walk' \in {"forward", "done"}
    BY <1>1, <1>2
  <2>4. QED
    BY <1>6, <2>1, <2>2, <2>3 DEF Inv, ReaderOK
<1>10. PassedOK'
  <2>1. ASSUME NEW r \in range \cap rows, r.ts <= from
        PROVE  Seen(r)'
    BY <1>2, <1>6, <2>1 DEF Inv, PassedOK, Seen
  <2>0. \A r \in range : r.ts <= Until
    BY <1>2 DEF Inv, PassedOK
  <2>2. CASE page = {}
    <3>1. walk' = "done" /\ \A r \in range \cap rows : r.ts <= from
      BY <1>1, <1>2, <1>4, <2>0, <2>2
    <3>2. QED
      BY <1>6, <2>1, <3>1 DEF PassedOK
  <2>3. CASE page # {}
    <3>1. PICK e \in page : (\A s \in page : e.ts >= s.ts) /\ from' = e.ts
      BY <1>1, <2>3
    <3>2. walk' = "forward"
      BY <1>1, <1>2, <2>3
    <3>3. ASSUME NEW r \in range \cap rows, r.ts <= from'
          PROVE  Seen(r)'
      <4>1. CASE r.ts <= from
        BY <2>1, <4>1
      <4>2. CASE ~(r.ts <= from) /\ r \in page
        BY <1>6, <4>2 DEF Seen
      <4>3. CASE ~(r.ts <= from) /\ r \notin page
        <5>1. r \in S \ page
          BY <1>2, <2>0, <4>3
        <5>2. e.ts = r.ts
          BY <1>2, <1>4, <1>5, <3>1, <3>3, <5>1
        <5>3. QED
          BY <1>6, <5>2 DEF Seen
      <4>4. QED
        BY <4>1, <4>2, <4>3
    <3>4. QED
      BY <1>6, <2>0, <3>2, <3>3 DEF PassedOK
  <2>4. QED
    BY <2>2, <2>3
<1>11. QED
  BY <1>7, <1>8, <1>9, <1>10 DEF Inv

-----------------------------------------------------------------------------
\* The inductive invariant holds of every behaviour.
LEMMA Invariant == Spec => []Inv
<1>1. Init => Inv
  BY InitInv
<1>2. Inv /\ [Next]_vars => Inv'
  <2> SUFFICES ASSUME Inv, [Next]_vars
               PROVE  Inv'
    OBVIOUS
  <2>1. CASE BeginBack \/ BeginForward
    BY <2>1, BeginInv
  <2>2. CASE ReadBack
    BY <2>2, ReadBackInv
  <2>3. CASE ReadForward
    BY <2>3, ReadForwardInv
  <2>4. CASE Append
    BY <2>4, AppendInv
  <2>5. CASE Delete
    BY <2>5, ShrinkInv DEF Delete
  <2>6. CASE Prune
    BY <2>6, ShrinkInv DEF Prune
  <2>7. CASE UNCHANGED vars
    BY <2>7, ShrinkInv DEF vars, reader
  <2>8. QED
    BY <2>1, <2>2, <2>3, <2>4, <2>5, <2>6, <2>7 DEF Next
<1>3. QED
  BY <1>1, <1>2, PTL DEF Spec

\* Type correctness of the table and its reader.
THEOREM TypeCorrect == Spec => []TypeOK
<1>1. Inv => TypeOK
  BY DEF Inv
<1>2. QED
  BY <1>1, Invariant, PTL

\* Whatever is added, taken out or pruned between two pages, no page gives a
\* message a second time.
THEOREM PagesAreApart == Spec => []NothingTwice
<1>1. Inv => NothingTwice
  BY DEF Inv, ReaderOK, NothingTwice
<1>2. QED
  BY <1>1, Invariant, PTL

\* A walk that has ended read from every second that is still there, so only
\* messages of a second a page was cut in can be missing from it.
THEOREM PagesLeaveNoSecondOut == Spec => []NoSecondSkipped
<1>1. Inv => NoSecondSkipped
  BY DEF Inv, PassedOK, Seen, NoSecondSkipped
<1>2. QED
  BY <1>1, Invariant, PTL

-----------------------------------------------------------------------------
(* Layout: its types.                                                      *)

\* Where things are: what the keeper has read of the conversations is a
\* layout, and what it is about to save is one of the rail entries too.
PlacesOK ==
    /\ theirs \in [Buffer -> Place \cup {None}] /\ theirRail \subseteq Group
    /\ live \in [Buffer -> Place \cup {None}] /\ rail \subseteq Group
    /\ saved \in [Buffer -> Place \cup {None}] /\ savedRail \subseteq Group
    /\ keeper \in {"idle", "reads", "copies", "saves"}
    /\ copy \in [Buffer -> Place \cup {None}] \X SUBSET (Group \cup {None})
    /\ keeper = "saves" => copy[2] \subseteq Group

\* What is waited for, and the tasks that take it.
PruningOK ==
    /\ pending \subseteq Buffer /\ pendingRail \subseteq Group
    /\ listed \subseteq Buffer \cup Group
    /\ at \in [Pruner -> {"idle", "waits", "takes", "removes"}]
    /\ stale \in [Pruner -> SUBSET Buffer] /\ staleRail \in [Pruner -> SUBSET Group]
    /\ \A k \in Pruner :
          /\ at[k] \in {"idle", "waits"} => stale[k] = {}
          /\ at[k] # "removes" => staleRail[k] = {}
          /\ stale[k] \cap pending = {}

\* The rest, which only says whether something is the case.
FlagsOK ==
    /\ connected \in BOOLEAN /\ quitting \in BOOLEAN
    /\ current \in [Pruner -> BOOLEAN]
    /\ confirmed \in {"never", "now", "before"}

LayoutTypes == PlacesOK /\ PruningOK /\ FlagsOK

\* To show a conversation is to put it somewhere.
LEMMA ShowPlaces ==
    ASSUME PlacesOK, NEW b \in Buffer, NEW place \in Place, Show(b, place)
    PROVE  live' \in [Buffer -> Place \cup {None}]
BY DEF PlacesOK, Show

\* To remove some puts them nowhere.
LEMMA RemovePlaces ==
    ASSUME PlacesOK, NEW gone, RemoveBuffers(gone)
    PROVE  live' \in [Buffer -> Place \cup {None}]
BY DEF PlacesOK, RemoveBuffers

\* The layout, what is saved of it and what the keeper holds of it are where
\* a service or an account may file things.
LEMMA PlacesStep == ASSUME LayoutTypes, [LayoutNext]_layoutVars PROVE PlacesOK'
<1> USE DEF LayoutTypes, theirVars, liveVars, savedVars, keepVars
<1>1. CASE UNCHANGED <<theirVars, liveVars, savedVars, keepVars>>
  BY <1>1 DEF PlacesOK
<1>2. ASSUME live' \in [Buffer -> Place \cup {None}], rail' \subseteq Group,
             theirs' \in [Buffer -> Place \cup {None}], theirRail' \subseteq Group,
             UNCHANGED <<savedVars, keepVars>>
      PROVE  PlacesOK'
  BY <1>2 DEF PlacesOK
<1>3. ASSUME NEW b \in Buffer, ListBuffer(b)
      PROVE  PlacesOK'
  <2>1. theirs[b] \in Place
    BY <1>3 DEF ListBuffer, PlacesOK
  <2>2. live' \in [Buffer -> Place \cup {None}]
    BY <1>3, <2>1, ShowPlaces DEF ListBuffer
  <2>3. QED
    BY <1>2, <1>3, <2>2 DEF ListBuffer, PlacesOK
<1>4. ASSUME NEW g \in Group, ListGroup(g)
      PROVE  PlacesOK'
  BY <1>2, <1>4 DEF ListGroup, ShowGroup, PlacesOK
<1>5. ASSUME NEW b \in Buffer, NEW place \in Place, Joined(b, place)
      PROVE  PlacesOK'
  <2>1. live' \in [Buffer -> Place \cup {None}]
    BY <1>5, ShowPlaces DEF Joined, PlacesOK
  <2>2. theirs' \in [Buffer -> Place \cup {None}]
    BY <1>5 DEF Joined, PlacesOK
  <2>3. QED
    BY <1>2, <1>5, <2>1, <2>2 DEF Joined, PlacesOK
<1>6. ASSUME NEW b \in Buffer, Left(b)
      PROVE  PlacesOK'
  <2>1. live' \in [Buffer -> Place \cup {None}]
    BY <1>6, RemovePlaces DEF Left, PlacesOK
  <2>2. theirs' \in [Buffer -> Place \cup {None}]
    BY <1>6 DEF Left, PlacesOK
  <2>3. QED
    BY <1>2, <1>6, <2>1, <2>2 DEF Left, PlacesOK
<1>7. ASSUME NEW g \in Group, LeftGroup(g)
      PROVE  PlacesOK'
  <2>1. live' \in [Buffer -> Place \cup {None}] /\ rail' \subseteq Group
    BY <1>7, RemovePlaces DEF LeftGroup, RemoveGroup, PlacesOK
  <2>2. PICK place \in {None, Own} :
             theirs' = [b \in Buffer |-> IF b \in {c \in Buffer : theirs[c] = g}
                                         THEN place ELSE theirs[b]]
    BY <1>7 DEF LeftGroup
  <2>3. theirs' \in [Buffer -> Place \cup {None}]
    BY <2>2 DEF PlacesOK, Place
  <2>4. QED
    BY <1>2, <1>7, <2>1, <2>3 DEF LeftGroup, PlacesOK
<1>8. ASSUME NEW k \in Pruner, Prunes(k)
      PROVE  PlacesOK'
  <2>1. CASE PrunerRemoves(k)
    <3>1. live' \in [Buffer -> Place \cup {None}]
      BY <2>1, RemovePlaces DEF PrunerRemoves
    <3>2. QED
      BY <1>2, <2>1, <3>1 DEF PrunerRemoves, PlacesOK
  <2>2. CASE PrunerRemovesGroup(k)
    <3>1. live' \in [Buffer -> Place \cup {None}] /\ rail' \subseteq Group
      BY <2>2, RemovePlaces DEF PrunerRemovesGroup, RemoveGroup, PlacesOK
    <3>2. QED
      BY <1>2, <2>2, <3>1 DEF PrunerRemovesGroup, PlacesOK
  <2>3. QED
    BY <1>1, <1>8, <2>1, <2>2 DEF Prunes, PrunerStops, PrunerTakes, PrunerTakesRail, PrunerEnds
<1>9. CASE KeeperLooks
  BY <1>9 DEF KeeperLooks, PlacesOK
<1>10. CASE KeeperReads
  BY <1>10 DEF KeeperReads, PlacesOK
<1>11. CASE KeeperReadsRail
  BY <1>11 DEF KeeperReadsRail, PlacesOK
<1>12. CASE KeeperSaves
  <2>1. saved' = saved \/ saved' = copy[1]
    BY <1>12 DEF KeeperSaves
  <2>2. savedRail' = savedRail \/ savedRail' = copy[2]
    BY <1>12 DEF KeeperSaves
  <2>3. copy[1] \in [Buffer -> Place \cup {None}] /\ copy[2] \subseteq Group
    BY <1>12 DEF KeeperSaves, PlacesOK
  <2>4. /\ keeper' = "idle" /\ copy' = Unseen
        /\ UNCHANGED <<theirVars, liveVars>>
    BY <1>12 DEF KeeperSaves
  <2>5. Unseen \in [Buffer -> Place \cup {None}] \X SUBSET (Group \cup {None})
    BY DEF Unseen, Nowhere
  <2>6. QED
    BY <2>1, <2>2, <2>3, <2>4, <2>5 DEF PlacesOK
<1>13. CASE Quit
  BY <1>13 DEF Quit, PlacesOK
<1>14. CASE Restart
  <2>1. Restored \in [Buffer -> Place \cup {None}] /\ RestoredRail \subseteq Group
    BY DEF Restored, RestoredRail, Nowhere, PlacesOK
  <2>2. Unseen \in [Buffer -> Place \cup {None}] \X SUBSET (Group \cup {None})
    BY DEF Unseen, Nowhere
  <2>3. /\ live' = Restored /\ rail' = RestoredRail /\ keeper' = "idle" /\ copy' = Unseen
        /\ UNCHANGED <<theirVars, savedVars>>
    BY <1>14 DEF Restart
  <2>4. QED
    BY <2>1, <2>2, <2>3 DEF PlacesOK
<1>15. CASE Connect \/ Drop \/ UNCHANGED layoutVars
  BY <1>1, <1>15 DEF Connect, Drop, layoutVars
<1>16. QED
  BY <1>3, <1>4, <1>5, <1>6, <1>7, <1>8, <1>9, <1>10, <1>11, <1>12, <1>13, <1>14, <1>15
     DEF LayoutNext, Lists, Keeps

\* Nothing is both waited for and taken, and a task that has not begun to take
\* has taken nothing.
LEMMA PruningStep == ASSUME LayoutTypes, [LayoutNext]_layoutVars PROVE PruningOK'
<1> USE DEF LayoutTypes, pendVars, pruneVars
<1>1. ASSUME UNCHANGED <<at, stale, staleRail>>, pending' \subseteq pending,
             pendingRail' \subseteq pendingRail, listed' \subseteq Buffer \cup Group
      PROVE  PruningOK'
  BY <1>1 DEF PruningOK
<1>2. ASSUME NEW k \in Pruner, at' = [at EXCEPT ![k] = "waits"], at[k] = "idle",
             UNCHANGED <<stale, staleRail, pending, pendingRail>>, listed' = {}
      PROVE  PruningOK'
  BY <1>2 DEF PruningOK
<1>3. CASE Connect
  BY <1>1, <1>2, <1>3 DEF Connect, Spare
<1>4. ASSUME NEW k \in Pruner, Prunes(k)
      PROVE  PruningOK'
  <2>1. CASE PrunerStops(k)
    BY <2>1 DEF PrunerStops, Waits, PruningOK
  <2>2. CASE PrunerTakes(k)
    <3>1. /\ at' = [at EXCEPT ![k] = "takes"] /\ stale' = [stale EXCEPT ![k] = pending]
          /\ pending' = {} /\ UNCHANGED <<pendingRail, listed, staleRail>> /\ at[k] = "waits"
      BY <2>2 DEF PrunerTakes, Waits
    <3>2. stale' \in [Pruner -> SUBSET Buffer]
      BY <3>1 DEF PruningOK
    <3>3. QED
      BY <3>1, <3>2 DEF PruningOK
  <2>3. CASE PrunerTakesRail(k)
    <3>1. /\ at' = [at EXCEPT ![k] = "removes"] /\ at[k] = "takes"
          /\ staleRail' = [staleRail EXCEPT ![k] = pendingRail \cap rail]
          /\ pendingRail' = pendingRail \ rail /\ UNCHANGED <<pending, listed, stale>>
      BY <2>3 DEF PrunerTakesRail
    <3>2. staleRail' \in [Pruner -> SUBSET Group]
      BY <3>1 DEF PruningOK
    <3>3. QED
      BY <3>1, <3>2 DEF PruningOK
  <2>4. CASE PrunerRemoves(k)
    <3>1. PICK b \in stale[k] : stale' = [stale EXCEPT ![k] = @ \ {b}]
      BY <2>4 DEF PrunerRemoves
    <3>2. stale' \in [Pruner -> SUBSET Buffer]
      BY <3>1 DEF PruningOK
    <3>3. \A j \in Pruner : stale'[j] \subseteq stale[j]
      BY <3>1 DEF PruningOK
    <3>4. QED
      BY <2>4, <3>2, <3>3 DEF PrunerRemoves, PruningOK
  <2>5. CASE PrunerRemovesGroup(k)
    <3>1. PICK g \in staleRail[k] : staleRail' = [staleRail EXCEPT ![k] = @ \ {g}]
      BY <2>5 DEF PrunerRemovesGroup
    <3>2. staleRail' \in [Pruner -> SUBSET Group]
      BY <3>1 DEF PruningOK
    <3>3. \A j \in Pruner : staleRail'[j] \subseteq staleRail[j]
      BY <3>1 DEF PruningOK
    <3>4. QED
      BY <2>5, <3>2, <3>3 DEF PrunerRemovesGroup, PruningOK
  <2>6. CASE PrunerEnds(k)
    BY <2>6 DEF PrunerEnds, PruningOK
  <2>7. QED
    BY <1>4, <2>1, <2>2, <2>3, <2>4, <2>5, <2>6 DEF Prunes
<1>5. CASE Restart
  <2>1. Restored \in [Buffer -> Place \cup {None}] /\ RestoredRail \subseteq Group
    BY DEF Restored, RestoredRail, Nowhere, PlacesOK
  <2>2. QED
    BY <1>5, <2>1 DEF Restart, There, PruningOK
<1>6. ASSUME NEW b \in Buffer, \/ ListBuffer(b) \/ Left(b)
                               \/ \E place \in Place : Joined(b, place)
      PROVE  PruningOK'
  <2>1. pending' \subseteq pending /\ UNCHANGED <<pendingRail, at, stale, staleRail>>
    BY <1>6 DEF ListBuffer, Left, Joined, Show
  <2>2. listed' \subseteq Buffer \cup Group
    BY <1>6 DEF ListBuffer, Left, Joined, PruningOK
  <2>3. QED
    BY <1>1, <2>1, <2>2
<1>7. ASSUME NEW g \in Group, ListGroup(g) \/ LeftGroup(g)
      PROVE  PruningOK'
  <2>1. pendingRail' \subseteq pendingRail /\ UNCHANGED <<pending, at, stale, staleRail>>
    BY <1>7 DEF ListGroup, LeftGroup, ShowGroup
  <2>2. listed' \subseteq Buffer \cup Group
    BY <1>7 DEF ListGroup, LeftGroup, PruningOK
  <2>3. QED
    BY <1>1, <2>1, <2>2
<1>8. CASE Drop \/ Keeps \/ Quit \/ UNCHANGED layoutVars
  <2>1. /\ UNCHANGED <<pending, pendingRail, at, stale, staleRail>>
        /\ listed' \subseteq listed
    BY <1>8 DEF Drop, Keeps, KeeperLooks, KeeperReads, KeeperReadsRail, KeeperSaves, Quit,
                layoutVars
  <2>2. QED
    BY <1>1, <2>1 DEF PruningOK
<1>9. QED
  BY <1>3, <1>4, <1>5, <1>6, <1>7, <1>8 DEF LayoutNext, Lists

\* What is the case may only stop or begin to be.
LEMMA FlagsStep == ASSUME LayoutTypes, [LayoutNext]_layoutVars PROVE FlagsOK'
<1>1. connected' \in BOOLEAN /\ quitting' \in BOOLEAN
  <2>1. connected \in BOOLEAN /\ quitting \in BOOLEAN
    BY DEF LayoutTypes, FlagsOK
  <2>2. connected' \in {connected, TRUE, FALSE} /\ quitting' \in {quitting, TRUE, FALSE}
    BY DEF LayoutNext, Lists, Keeps, Prunes, ListBuffer, ListGroup, Joined, Left, LeftGroup,
           Connect, Drop, PrunerStops, PrunerTakes, PrunerTakesRail, PrunerRemoves,
           PrunerRemovesGroup, PrunerEnds, KeeperLooks, KeeperReads, KeeperReadsRail,
           KeeperSaves, Quit, Restart, layoutVars
  <2>3. QED
    BY <2>1, <2>2, Zenon
<1>2. current' \in [Pruner -> BOOLEAN]
  <2>1. current \in [Pruner -> BOOLEAN]
    BY DEF LayoutTypes, FlagsOK
  <2>2. \/ current' = current
        \/ current' = [k \in Pruner |-> FALSE]
        \/ \E k \in Pruner : current' = [current EXCEPT ![k] = TRUE]
    BY DEF LayoutNext, Lists, Keeps, Prunes, ListBuffer, ListGroup, Joined, Left, LeftGroup,
           Connect, Drop, PrunerStops, PrunerTakes, PrunerTakesRail, PrunerRemoves,
           PrunerRemovesGroup, PrunerEnds, KeeperLooks, KeeperReads, KeeperReadsRail,
           KeeperSaves, Quit, Restart, layoutVars, pruneVars
  <2>3. QED
    BY <2>1, <2>2
<1>3. confirmed' \in {"never", "now", "before"}
  <2>1. confirmed \in {"never", "now", "before"}
    BY DEF LayoutTypes, FlagsOK
  <2>2. confirmed' \in {confirmed, "never", "now", "before"}
    BY DEF LayoutNext, Lists, Keeps, Prunes, ListBuffer, ListGroup, Joined, Left, LeftGroup,
           Connect, Drop, PrunerStops, PrunerTakes, PrunerTakesRail, PrunerRemoves,
           PrunerRemovesGroup, PrunerEnds, KeeperLooks, KeeperReads, KeeperReadsRail,
           KeeperSaves, Quit, Restart, layoutVars, pendVars, Show, ShowGroup
  <2>3. QED
    BY <2>1, <2>2
<1>4. QED
  BY <1>1, <1>2, <1>3 DEF FlagsOK

\* At the start everything saved is put back, and nothing is connected.
LEMMA LayoutInitTypes == ASSUME LayoutInit PROVE LayoutTypes
<1>1. PlacesOK
  <2>1. /\ theirs \in [Buffer -> Place \cup {None}] /\ theirRail \subseteq Group
        /\ saved \in [Buffer -> Place \cup {None}] /\ savedRail \subseteq Group
    BY DEF LayoutInit
  <2>2. live \in [Buffer -> Place \cup {None}] /\ rail \subseteq Group
    BY <2>1 DEF LayoutInit, Restored, RestoredRail, Nowhere
  <2>3. /\ copy \in [Buffer -> Place \cup {None}] \X SUBSET (Group \cup {None})
        /\ keeper = "idle"
    BY DEF LayoutInit, Unseen, Nowhere
  <2>4. QED
    BY <2>1, <2>2, <2>3 DEF PlacesOK
<1>2. PruningOK
  BY <1>1 DEF LayoutInit, PruningOK, PlacesOK, There, Restored, RestoredRail
<1>3. FlagsOK
  BY DEF LayoutInit, FlagsOK
<1>4. QED
  BY <1>1, <1>2, <1>3 DEF LayoutTypes

\* The types are those of every state.
LEMMA LayoutTypesStep == ASSUME LayoutTypes, [LayoutNext]_layoutVars PROVE LayoutTypes'
BY PlacesStep, PruningStep, FlagsStep DEF LayoutTypes

\* The types of every state of every behaviour.
LEMMA LayoutTypesHold == LayoutSpec => []LayoutTypes
BY LayoutInitTypes, LayoutTypesStep, PTL DEF LayoutSpec

\* Every value is of its type, and nothing is both waiting to be listed and
\* taken to be removed: prune_restored_after_connect takes what it judges.
THEOREM LayoutTypeCorrect == LayoutSpec => []LayoutTypeOK
<1>1. LayoutTypes => LayoutTypeOK
  <2> SUFFICES ASSUME LayoutTypes
               PROVE  LayoutTypeOK
    OBVIOUS
  <2>1. connected \in BOOLEAN /\ quitting \in BOOLEAN
    BY DEF LayoutTypes, FlagsOK
  <2>2. /\ current \in [Pruner -> BOOLEAN]
        /\ confirmed \in {"never", "now", "before"}
    BY DEF LayoutTypes, FlagsOK
  <2>3. copy[1] \in [Buffer -> Place \cup {None}]
    BY DEF LayoutTypes, PlacesOK
  <2>4. QED
    BY <2>1, <2>2, <2>3, Zenon DEF LayoutTypes, LayoutTypeOK, PlacesOK, PruningOK
<1>2. QED
  BY <1>1, LayoutTypesHold, PTL

-----------------------------------------------------------------------------
(* Layout: what a prune judges.                                            *)

\* What is listed is listed over a connection, and is not waited for any more.
ListingOK ==
    /\ ~connected => listed = {}
    /\ (pending \cup pendingRail) \cap listed = {}

\* A task that has taken conversations, and not yet rail entries, has seen
\* everything listed that is the account's.
TakingOK == \A k \in Pruner : at[k] = "takes" => pendingRail \cap theirRail = {}

Judged == ListingOK /\ TakingOK

\* A listing makes what it lists wait no more, and a connection that ends is
\* forgotten whole.
LEMMA ListingStep == ASSUME LayoutTypes, ListingOK, [LayoutNext]_layoutVars PROVE ListingOK'
<1> USE DEF pendVars
<1>1. ASSUME connected' = connected, listed' \subseteq listed, pending' \subseteq pending,
             pendingRail' \subseteq pendingRail
      PROVE  ListingOK'
  BY <1>1 DEF ListingOK
<1>2. ASSUME NEW e, connected, connected' = connected, listed' = listed \cup {e},
             pending' \subseteq pending \ {e}, pendingRail' \subseteq pendingRail \ {e}
      PROVE  ListingOK'
  BY <1>2 DEF ListingOK
<1>3. ASSUME listed' = {}
      PROVE  ListingOK'
  BY <1>3 DEF ListingOK
<1>4. pending \subseteq Buffer /\ pendingRail \subseteq Group
  BY DEF LayoutTypes, PruningOK
<1>5. ASSUME NEW b \in Buffer, ListBuffer(b)
      PROVE  ListingOK'
  BY <1>2, <1>4, <1>5 DEF ListBuffer, Show
<1>6. ASSUME NEW g \in Group, ListGroup(g)
      PROVE  ListingOK'
  BY <1>2, <1>4, <1>6 DEF ListGroup, ShowGroup
<1>7. ASSUME NEW b \in Buffer, NEW place \in Place, Joined(b, place)
      PROVE  ListingOK'
  BY <1>1, <1>2, <1>4, <1>7 DEF Joined, Show
<1>8. ASSUME NEW b \in Buffer, Left(b)
      PROVE  ListingOK'
  BY <1>1, <1>8 DEF Left
<1>9. ASSUME NEW g \in Group, LeftGroup(g)
      PROVE  ListingOK'
  BY <1>1, <1>9 DEF LeftGroup
<1>10. CASE Connect \/ Drop \/ Restart
  BY <1>3, <1>10 DEF Connect, Drop, Restart
<1>11. ASSUME NEW k \in Pruner, Prunes(k)
       PROVE  ListingOK'
  BY <1>1, <1>11 DEF Prunes, PrunerStops, PrunerTakes, PrunerTakesRail, PrunerRemoves,
                     PrunerRemovesGroup, PrunerEnds
<1>12. CASE Keeps \/ Quit \/ UNCHANGED layoutVars
  BY <1>1, <1>12 DEF Keeps, KeeperLooks, KeeperReads, KeeperReadsRail, KeeperSaves, Quit,
                     layoutVars
<1>13. QED
  BY <1>5, <1>6, <1>7, <1>8, <1>9, <1>10, <1>11, <1>12 DEF LayoutNext, Lists

\* At the moment of taking, nothing the service has still waits: all of it is
\* listed, and what is listed does not wait.
LEMMA QuietJudges ==
    ASSUME ~MayHurry, ListingOK, NEW k \in Pruner, Quiet(k)
    PROVE  (pending \cup pendingRail) \cap (There(theirs) \cup theirRail) = {}
BY DEF Quiet, ListingOK

\* While a task is between its two takings, less waits and the account has less.
LEMMA TakingStep ==
    ASSUME ~MayHurry, LayoutTypes, Judged, [LayoutNext]_layoutVars
    PROVE  TakingOK'
<1> USE DEF pendVars, pruneVars, theirVars, Judged
<1>1. ASSUME \A k \in Pruner : at'[k] = "takes" => at[k] = "takes",
             pendingRail' \subseteq pendingRail, theirRail' \subseteq theirRail
      PROVE  TakingOK'
  BY <1>1 DEF TakingOK
<1>2. at \in [Pruner -> {"idle", "waits", "takes", "removes"}]
  BY DEF LayoutTypes, PruningOK
<1>3. ASSUME NEW k \in Pruner, Prunes(k)
      PROVE  TakingOK'
  <2>1. CASE PrunerTakes(k)
    <3>1. pendingRail \cap theirRail = {}
      BY <2>1, QuietJudges DEF PrunerTakes
    <3>2. UNCHANGED <<pendingRail, theirRail>>
      BY <2>1 DEF PrunerTakes
    <3>3. QED
      BY <3>1, <3>2 DEF TakingOK
  <2>2. CASE PrunerTakesRail(k)
    <3>1. /\ at' = [at EXCEPT ![k] = "removes"] /\ pendingRail' \subseteq pendingRail
          /\ theirRail' = theirRail
      BY <2>2 DEF PrunerTakesRail
    <3>2. QED
      BY <1>1, <1>2, <3>1
  <2>3. CASE PrunerStops(k) \/ PrunerRemoves(k) \/ PrunerRemovesGroup(k) \/ PrunerEnds(k)
    <3>1. /\ at' = at \/ at' = [at EXCEPT ![k] = "idle"]
          /\ UNCHANGED <<pendingRail, theirRail>>
      BY <2>3 DEF PrunerStops, PrunerRemoves, PrunerRemovesGroup, PrunerEnds
    <3>2. QED
      BY <1>1, <1>2, <3>1
  <2>4. QED
    BY <1>3, <2>1, <2>2, <2>3 DEF Prunes
<1>4. CASE Connect
  <2>1. /\ at' = at \/ \E k \in Pruner : at' = [at EXCEPT ![k] = "waits"]
        /\ UNCHANGED <<pendingRail, theirRail>>
    BY <1>4 DEF Connect
  <2>2. QED
    BY <1>1, <1>2, <2>1
<1>5. CASE Restart
  BY <1>5 DEF Restart, TakingOK
<1>6. CASE \/ Lists \/ Drop \/ Keeps \/ Quit \/ UNCHANGED layoutVars
           \/ \E b \in Buffer : Left(b) \/ \E place \in Place : Joined(b, place)
           \/ \E g \in Group : LeftGroup(g)
  <2>1. at' = at /\ pendingRail' \subseteq pendingRail /\ theirRail' \subseteq theirRail
    BY <1>6 DEF Lists, ListBuffer, ListGroup, Show, ShowGroup, Left, Joined, LeftGroup, Drop,
                Keeps, KeeperLooks, KeeperReads, KeeperReadsRail, KeeperSaves, Quit, layoutVars
  <2>2. QED
    BY <1>1, <2>1
<1>7. QED
  BY <1>3, <1>4, <1>5, <1>6 DEF LayoutNext

\* Nothing is listed at the start, and no task runs.
LEMMA InitJudged == ASSUME LayoutInit PROVE Judged
BY DEF LayoutInit, Judged, ListingOK, TakingOK

\* One step of the judging, for any of the runs of a task.
JudgesOnlyGone ==
    \A k \in Pruner : /\ \A b \in stale'[k] \ stale[k] : theirs[b] = None
                      /\ (staleRail'[k] \ staleRail[k]) \cap theirRail = {}

\* What a step takes, the account has left.
LEMMA TakesOnlyGone ==
    ASSUME ~MayHurry, LayoutTypes, Judged, [LayoutNext]_layoutVars
    PROVE  JudgesOnlyGone
<1> USE DEF pruneVars
<1>1. /\ stale \in [Pruner -> SUBSET Buffer] /\ staleRail \in [Pruner -> SUBSET Group]
      /\ pending \subseteq Buffer
  BY DEF LayoutTypes, PruningOK
<1>2. ASSUME \A k \in Pruner : stale'[k] \subseteq stale[k] /\ staleRail'[k] \subseteq staleRail[k]
      PROVE  JudgesOnlyGone
  BY <1>2 DEF JudgesOnlyGone
<1>3. ASSUME NEW k \in Pruner, Prunes(k)
      PROVE  JudgesOnlyGone
  <2>1. CASE PrunerTakes(k)
    <3>1. /\ stale' = [stale EXCEPT ![k] = pending] /\ staleRail' = staleRail
          /\ pending \cap There(theirs) = {}
      BY <2>1, QuietJudges DEF PrunerTakes, Judged
    <3>2. \A b \in pending : theirs[b] = None
      BY <1>1, <3>1 DEF There
    <3>3. QED
      BY <1>1, <3>1, <3>2 DEF JudgesOnlyGone
  <2>2. CASE PrunerTakesRail(k)
    <3>1. /\ staleRail' = [staleRail EXCEPT ![k] = pendingRail \cap rail] /\ stale' = stale
          /\ pendingRail \cap theirRail = {}
      BY <2>2 DEF PrunerTakesRail, Judged, TakingOK
    <3>2. QED
      BY <1>1, <3>1 DEF JudgesOnlyGone
  <2>3. CASE PrunerRemoves(k)
    <3>1. PICK b \in stale[k] : stale' = [stale EXCEPT ![k] = @ \ {b}] /\ staleRail' = staleRail
      BY <2>3 DEF PrunerRemoves
    <3>2. QED
      BY <1>1, <1>2, <3>1
  <2>4. CASE PrunerRemovesGroup(k)
    <3>1. PICK g \in staleRail[k] : staleRail' = [staleRail EXCEPT ![k] = @ \ {g}] /\ stale' = stale
      BY <2>4 DEF PrunerRemovesGroup
    <3>2. QED
      BY <1>1, <1>2, <3>1
  <2>5. CASE PrunerStops(k) \/ PrunerEnds(k)
    BY <1>2, <2>5 DEF PrunerStops, PrunerEnds
  <2>6. QED
    BY <1>3, <2>1, <2>2, <2>3, <2>4, <2>5 DEF Prunes
<1>4. CASE Restart
  BY <1>2, <1>4 DEF Restart
<1>5. CASE \/ Lists \/ Connect \/ Drop \/ Keeps \/ Quit \/ UNCHANGED layoutVars
           \/ \E b \in Buffer : Left(b) \/ \E place \in Place : Joined(b, place)
           \/ \E g \in Group : LeftGroup(g)
  <2>1. UNCHANGED <<stale, staleRail>>
    BY <1>5 DEF Lists, ListBuffer, ListGroup, Left, Joined, LeftGroup, Connect, Drop,
                Keeps, KeeperLooks, KeeperReads, KeeperReadsRail, KeeperSaves, Quit, layoutVars
  <2>2. QED
    BY <1>2, <2>1
<1>6. QED
  BY <1>3, <1>4, <1>5 DEF LayoutNext

\* Where no quiet of an earlier connection is long enough, a prune takes only
\* what the account has left, whatever is listed, joined or left meanwhile,
\* and however many tasks run: it takes when all of it is listed, and between
\* its two takings nothing new waits.
THEOREM OnlyTheGoneAreTaken == ASSUME ~MayHurry PROVE LayoutSpec => OnlyGoneIsTaken
<1>1. LayoutTypes /\ Judged /\ [LayoutNext]_layoutVars => LayoutTypes' /\ Judged'
  BY LayoutTypesStep, ListingStep, TakingStep DEF Judged
<1>2. LayoutInit => LayoutTypes /\ Judged
  BY LayoutInitTypes, InitJudged
<1>3. LayoutTypes /\ Judged /\ [LayoutNext]_layoutVars => [JudgesOnlyGone]_layoutVars
  BY TakesOnlyGone
<1>4. LayoutSpec => [][JudgesOnlyGone]_layoutVars
  BY <1>1, <1>2, <1>3, PTL DEF LayoutSpec
<1>5. QED
  BY <1>4 DEF OnlyGoneIsTaken, JudgesOnlyGone

-----------------------------------------------------------------------------
(* Layout: what was listed is shown.                                       *)

\* Nothing a prune has taken has been listed since.
TakenOK == \A k \in Pruner : (stale[k] \cup staleRail[k]) \cap listed = {}

\* No rail entry a prune has taken is the account's.
TakenRailOK == \A k \in Pruner : staleRail[k] \cap theirRail = {}

\* What the service files under a rail entry is under one it has, and what it
\* files under none is under none here, in the database or in the keeper's
\* copy: to show it does not leave it where it was.
FiledOK ==
    \A b \in Buffer :
        /\ theirs[b] \in Group => theirs[b] \in theirRail
        /\ theirs[b] = Own => ~Filed(b)

\* What was listed is shown where the service has it.
ShownOK ==
    /\ \A b \in listed \cap Buffer : theirs[b] # None /\ live[b] = theirs[b]
    /\ listed \cap Group \subseteq rail

\* The inductive invariant.
Listed == Judged /\ TakenOK /\ TakenRailOK /\ FiledOK /\ ShownOK

\* What is taken waited, so it is not listed; what is taken is not listed anew
\* before it is removed.
LEMMA TakenStep ==
    ASSUME ~MayReturn, LayoutTypes, ListingOK, TakenOK, [LayoutNext]_layoutVars
    PROVE  TakenOK'
<1> USE DEF pruneVars
<1>1. /\ stale \in [Pruner -> SUBSET Buffer] /\ staleRail \in [Pruner -> SUBSET Group]
      /\ pending \subseteq Buffer
  BY DEF LayoutTypes, PruningOK
<1>2. ASSUME \A k \in Pruner : stale'[k] \subseteq stale[k] /\ staleRail'[k] \subseteq staleRail[k],
             listed' \subseteq listed
      PROVE  TakenOK'
  BY <1>2 DEF TakenOK
<1>3. ASSUME NEW e, ~BeingRemoved(e), UNCHANGED <<stale, staleRail>>, listed' = listed \cup {e}
      PROVE  TakenOK'
  BY <1>3 DEF TakenOK, BeingRemoved
<1>4. ASSUME NEW k \in Pruner, Prunes(k)
      PROVE  TakenOK'
  <2>1. CASE PrunerTakes(k)
    <3>1. /\ stale' = [stale EXCEPT ![k] = pending] /\ UNCHANGED <<staleRail, listed>>
          /\ pending \cap listed = {}
      BY <2>1 DEF PrunerTakes, ListingOK
    <3>2. QED
      BY <1>1, <3>1 DEF TakenOK
  <2>2. CASE PrunerTakesRail(k)
    <3>1. /\ staleRail' = [staleRail EXCEPT ![k] = pendingRail \cap rail]
          /\ UNCHANGED <<stale, listed>>
          /\ pendingRail \cap listed = {}
      BY <2>2 DEF PrunerTakesRail, ListingOK
    <3>2. QED
      BY <1>1, <3>1 DEF TakenOK
  <2>3. CASE PrunerRemoves(k)
    <3>1. PICK b \in stale[k] : stale' = [stale EXCEPT ![k] = @ \ {b}]
                                /\ UNCHANGED <<staleRail, listed>>
      BY <2>3 DEF PrunerRemoves
    <3>2. QED
      BY <1>1, <1>2, <3>1
  <2>4. CASE PrunerRemovesGroup(k)
    <3>1. PICK g \in staleRail[k] : staleRail' = [staleRail EXCEPT ![k] = @ \ {g}]
                                    /\ UNCHANGED <<stale, listed>>
      BY <2>4 DEF PrunerRemovesGroup
    <3>2. QED
      BY <1>1, <1>2, <3>1
  <2>5. CASE PrunerStops(k) \/ PrunerEnds(k)
    BY <1>2, <2>5 DEF PrunerStops, PrunerEnds
  <2>6. QED
    BY <1>4, <2>1, <2>2, <2>3, <2>4, <2>5 DEF Prunes
<1>5. ASSUME NEW b \in Buffer, ListBuffer(b) \/ \E place \in Place : Joined(b, place)
      PROVE  TakenOK'
  BY <1>2, <1>3, <1>5 DEF ListBuffer, Joined
<1>6. ASSUME NEW g \in Group, ListGroup(g)
      PROVE  TakenOK'
  BY <1>3, <1>6 DEF ListGroup
<1>7. CASE Restart
  BY <1>7 DEF Restart, TakenOK
<1>8. CASE \/ Connect \/ Drop \/ Keeps \/ Quit \/ UNCHANGED layoutVars
           \/ \E b \in Buffer : Left(b)
           \/ \E g \in Group : LeftGroup(g)
  <2>1. UNCHANGED <<stale, staleRail>> /\ listed' \subseteq listed
    BY <1>8 DEF Left, LeftGroup, Connect, Drop, Keeps, KeeperLooks, KeeperReads,
                KeeperReadsRail, KeeperSaves, Quit, layoutVars
  <2>2. QED
    BY <1>2, <2>1
<1>9. QED
  BY <1>4, <1>5, <1>6, <1>7, <1>8 DEF LayoutNext, Lists

\* A rail entry is taken when it is not the account's, and no rail entry
\* becomes the account's.
LEMMA TakenRailStep ==
    ASSUME LayoutTypes, Judged, TakenRailOK, [LayoutNext]_layoutVars
    PROVE  TakenRailOK'
<1> USE DEF pruneVars, theirVars
<1>1. staleRail \in [Pruner -> SUBSET Group]
  BY DEF LayoutTypes, PruningOK
<1>2. ASSUME \A k \in Pruner : staleRail'[k] \subseteq staleRail[k],
             theirRail' \subseteq theirRail
      PROVE  TakenRailOK'
  BY <1>2 DEF TakenRailOK
<1>3. ASSUME NEW k \in Pruner, PrunerTakesRail(k)
      PROVE  TakenRailOK'
  <2>1. /\ staleRail' = [staleRail EXCEPT ![k] = pendingRail \cap rail]
        /\ UNCHANGED theirRail /\ pendingRail \cap theirRail = {}
    BY <1>3 DEF PrunerTakesRail, Judged, TakingOK
  <2>2. QED
    BY <1>1, <2>1 DEF TakenRailOK
<1>4. ASSUME NEW k \in Pruner, PrunerRemovesGroup(k)
      PROVE  TakenRailOK'
  <2>1. PICK g \in staleRail[k] : staleRail' = [staleRail EXCEPT ![k] = @ \ {g}]
                                  /\ UNCHANGED theirRail
    BY <1>4 DEF PrunerRemovesGroup
  <2>2. QED
    BY <1>1, <1>2, <2>1
<1>5. ASSUME NEW k \in Pruner,
             PrunerStops(k) \/ PrunerTakes(k) \/ PrunerRemoves(k) \/ PrunerEnds(k)
      PROVE  TakenRailOK'
  BY <1>2, <1>5 DEF PrunerStops, PrunerTakes, PrunerRemoves, PrunerEnds
<1>6. CASE Restart
  BY <1>6 DEF Restart, TakenRailOK
<1>7. CASE \/ Lists \/ Connect \/ Drop \/ Keeps \/ Quit \/ UNCHANGED layoutVars
           \/ \E b \in Buffer : Left(b) \/ \E place \in Place : Joined(b, place)
           \/ \E g \in Group : LeftGroup(g)
  <2>1. UNCHANGED staleRail /\ theirRail' \subseteq theirRail
    BY <1>7 DEF Lists, ListBuffer, ListGroup, Left, Joined, LeftGroup, Connect, Drop,
                Keeps, KeeperLooks, KeeperReads, KeeperReadsRail, KeeperSaves, Quit, layoutVars
  <2>2. QED
    BY <1>2, <2>1
<1>8. QED
  BY <1>3, <1>4, <1>5, <1>6, <1>7 DEF LayoutNext, Prunes

\* What the service files under none is brought under one by nothing: it is
\* shown where it is shown already, or under none.
LEMMA FiledStep ==
    ASSUME ~MayRefile, LayoutTypes, FiledOK, [LayoutNext]_layoutVars
    PROVE  FiledOK'
<1> USE DEF theirVars, liveVars, savedVars, keepVars
<1>1. /\ theirs \in [Buffer -> Place \cup {None}] /\ theirRail \subseteq Group
      /\ live \in [Buffer -> Place \cup {None}]
      /\ Own \notin Group /\ None \notin Group /\ None # Own
  BY DEF LayoutTypes, PlacesOK, Place
<1> DEFINE Unfiled(b, places) == places[b] \notin Group
<1>2. ASSUME NEW b \in Buffer, theirs[b] = Own
      PROVE  Unfiled(b, live) /\ Unfiled(b, saved) /\ Unfiled(b, copy[1])
  BY <1>2 DEF FiledOK, Filed
<1>3. ASSUME \A b \in Buffer : theirs'[b] \in Group => theirs'[b] \in theirRail',
             \A b \in Buffer : theirs'[b] = Own =>
                 Unfiled(b, live') /\ Unfiled(b, saved') /\ Unfiled(b, copy'[1])
      PROVE  FiledOK'
  BY <1>1, <1>3 DEF FiledOK, Filed
<1>4. ASSUME UNCHANGED <<theirs, theirRail>>,
             \A b \in Buffer : theirs[b] = Own =>
                 Unfiled(b, live') /\ Unfiled(b, saved') /\ Unfiled(b, copy'[1])
      PROVE  FiledOK'
  BY <1>3, <1>4 DEF FiledOK
<1>5. ASSUME UNCHANGED <<theirs, theirRail, saved, copy>>,
             \A b \in Buffer : live'[b] \in {live[b], theirs[b], None, Own}
      PROVE  FiledOK'
  BY <1>1, <1>2, <1>4, <1>5
<1>6. ASSUME NEW b \in Buffer, ListBuffer(b)
      PROVE  FiledOK'
  <2>1. \A c \in Buffer : live'[c] \in {live[c], theirs[c], None, Own}
    BY <1>1, <1>6 DEF ListBuffer, Show
  <2>2. QED
    BY <1>5, <1>6, <2>1 DEF ListBuffer
<1>7. ASSUME NEW g \in Group, ListGroup(g)
      PROVE  FiledOK'
  BY <1>5, <1>7 DEF ListGroup
<1>8. ASSUME NEW b \in Buffer, NEW place \in Place, Joined(b, place)
      PROVE  FiledOK'
  <2>1. /\ theirs' = [theirs EXCEPT ![b] = place] /\ place \in theirRail \cup {Own}
        /\ UNCHANGED <<theirRail, saved, copy>>
        /\ place = Own => ~Filed(b)
    BY <1>8 DEF Joined
  <2>2. \/ UNCHANGED live
        \/ live' = [live EXCEPT ![b] = IF place = Own /\ live[b] # None THEN live[b] ELSE place]
    BY <1>8 DEF Joined, Show
  <2>3. \A c \in Buffer : theirs'[c] \in Group => theirs'[c] \in theirRail'
    BY <1>1, <2>1 DEF FiledOK
  <2>4. ASSUME NEW c \in Buffer, theirs'[c] = Own
        PROVE  Unfiled(c, live') /\ Unfiled(c, saved') /\ Unfiled(c, copy'[1])
    <3>1. Unfiled(c, live) /\ Unfiled(c, saved) /\ Unfiled(c, copy[1])
      BY <1>1, <1>2, <2>1, <2>4 DEF Filed
    <3>2. Unfiled(c, live')
      BY <1>1, <2>1, <2>2, <2>4, <3>1
    <3>3. QED
      BY <2>1, <3>1, <3>2
  <2>5. QED
    BY <1>3, <2>3, <2>4
<1>9. ASSUME NEW b \in Buffer, Left(b)
      PROVE  FiledOK'
  <2>1. /\ theirs' = [theirs EXCEPT ![b] = None] /\ UNCHANGED <<theirRail, saved, copy>>
        /\ \A c \in Buffer : live'[c] \in {live[c], None}
    BY <1>1, <1>9 DEF Left, RemoveBuffers
  <2>2. \A c \in Buffer : theirs'[c] = None \/ theirs'[c] = theirs[c]
    BY <1>1, <2>1
  <2>3. QED
    BY <1>1, <1>2, <1>3, <2>1, <2>2 DEF FiledOK
<1>10. ASSUME NEW g \in Group, LeftGroup(g)
       PROVE  FiledOK'
  <2>1. /\ theirs' = [b \in Buffer |-> IF b \in {c \in Buffer : theirs[c] = g}
                                       THEN None ELSE theirs[b]]
        /\ theirRail' = theirRail \ {g} /\ UNCHANGED <<saved, copy>>
    BY <1>10 DEF LeftGroup
  <2>2. \A c \in Buffer : live'[c] \in {live[c], None}
    BY <1>1, <1>10 DEF LeftGroup, RemoveGroup, RemoveBuffers
  <2>3. \A c \in Buffer : theirs'[c] = None \/ (theirs'[c] = theirs[c] /\ theirs[c] # g)
    BY <2>1
  <2>4. QED
    BY <1>1, <1>2, <1>3, <2>1, <2>2, <2>3 DEF FiledOK
<1>11. ASSUME NEW k \in Pruner, Prunes(k)
       PROVE  FiledOK'
  <2>1. UNCHANGED <<theirs, theirRail, saved, copy>>
    BY <1>11 DEF Prunes, PrunerStops, PrunerTakes, PrunerTakesRail, PrunerRemoves,
                 PrunerRemovesGroup, PrunerEnds
  <2>2. \A c \in Buffer : live'[c] \in {live[c], None}
    BY <1>1, <1>11 DEF Prunes, PrunerStops, PrunerTakes, PrunerTakesRail, PrunerRemoves,
                 PrunerRemovesGroup, PrunerEnds, RemoveGroup, RemoveBuffers
  <2>3. QED
    BY <1>5, <2>1, <2>2
<1>12. CASE KeeperReads
  <2>1. copy'[1] = live /\ UNCHANGED <<theirs, theirRail, live, saved>>
    BY <1>12 DEF KeeperReads
  <2>2. QED
    BY <1>2, <1>4, <2>1
<1>13. CASE KeeperReadsRail
  <2>1. copy'[1] = copy[1] /\ UNCHANGED <<theirs, theirRail, live, saved>>
    BY <1>13 DEF KeeperReadsRail
  <2>2. QED
    BY <1>2, <1>4, <2>1
<1>14. \A b \in Buffer : Unfiled(b, Nowhere) /\ Unfiled(b, Unseen[1])
  BY <1>1 DEF Nowhere, Unseen
<1>15. CASE KeeperSaves
  <2>1. saved' = saved \/ saved' = copy[1]
    BY <1>15 DEF KeeperSaves
  <2>2. copy' = Unseen /\ UNCHANGED <<theirs, theirRail, live>>
    BY <1>15 DEF KeeperSaves
  <2>3. QED
    BY <1>2, <1>4, <1>14, <2>1, <2>2
<1>16. CASE Quit
  <2>1. saved' = live /\ UNCHANGED <<theirs, theirRail, live, copy>>
    BY <1>16 DEF Quit
  <2>2. QED
    BY <1>2, <1>4, <2>1
<1>17. CASE Restart
  <2>1. /\ live' = saved \/ live' = Nowhere
        /\ copy' = Unseen /\ UNCHANGED <<theirs, theirRail, saved>>
    BY <1>17 DEF Restart, Restored
  <2>2. QED
    BY <1>2, <1>4, <1>14, <2>1
<1>18. CASE KeeperLooks \/ Connect \/ Drop \/ UNCHANGED layoutVars
  <2>1. UNCHANGED <<theirs, theirRail, live, saved, copy>>
    BY <1>18 DEF KeeperLooks, Connect, Drop, layoutVars
  <2>2. QED
    BY <1>5, <2>1
<1>19. QED
  BY <1>6, <1>7, <1>8, <1>9, <1>10, <1>11, <1>12, <1>13, <1>15, <1>16, <1>17, <1>18
     DEF LayoutNext, Lists, Keeps

\* What is listed is taken out of the window only when it is taken off the
\* list: a prune removes what was not listed, and a rail entry that goes with
\* all under it is none the account has.
LEMMA ShownStep ==
    ASSUME ~MayRefile, LayoutTypes, Listed, [LayoutNext]_layoutVars
    PROVE  ShownOK'
<1> USE DEF theirVars, liveVars
<1>1. /\ theirs \in [Buffer -> Place \cup {None}] /\ theirRail \subseteq Group
      /\ live \in [Buffer -> Place \cup {None}] /\ rail \subseteq Group
      /\ listed \subseteq Buffer \cup Group
      /\ stale \in [Pruner -> SUBSET Buffer] /\ staleRail \in [Pruner -> SUBSET Group]
      /\ Own \notin Group /\ None \notin Group /\ None # Own /\ None \notin Place
  BY DEF LayoutTypes, PlacesOK, PruningOK, Place
<1>2. \A b \in listed \cap Buffer : theirs[b] # None /\ live[b] = theirs[b]
  BY DEF Listed, ShownOK
<1>3. listed \cap Group \subseteq rail
  BY DEF Listed, ShownOK
<1>4. ASSUME UNCHANGED theirs, listed' \subseteq listed, rail \subseteq rail',
             \A b \in listed \cap Buffer : live'[b] = live[b]
      PROVE  ShownOK'
  BY <1>2, <1>3, <1>4 DEF ShownOK
<1>5. ASSUME listed' = {}
      PROVE  ShownOK'
  BY <1>5 DEF ShownOK
<1>6. ~connected => listed = {}
  BY DEF Listed, Judged, ListingOK
\* To show a conversation the service files under none leaves it under none.
<1>7. ASSUME NEW b \in Buffer, NEW place \in Place, Show(b, place),
             place = Own => live[b] \notin Group
      PROVE  live'[b] = place /\ \A c \in Buffer \ {b} : live'[c] = live[c]
  <2>1. live' = [live EXCEPT ![b] = IF place = Own /\ live[b] # None THEN live[b] ELSE place]
    BY <1>7 DEF Show
  <2>2. place = Own /\ live[b] # None => live[b] = Own
    BY <1>1, <1>7 DEF Place
  <2>3. QED
    BY <1>1, <2>1, <2>2
<1>8. ASSUME NEW b \in Buffer, ListBuffer(b)
      PROVE  ShownOK'
  <2>1. /\ Show(b, theirs[b]) /\ theirs[b] \in Place /\ listed' = listed \cup {b}
        /\ UNCHANGED <<theirs, rail>>
    BY <1>1, <1>8 DEF ListBuffer
  <2>2. theirs[b] = Own => live[b] \notin Group
    BY DEF Listed, FiledOK, Filed
  <2>3. live'[b] = theirs[b] /\ \A c \in Buffer \ {b} : live'[c] = live[c]
    BY <1>7, <2>1, <2>2
  <2>4. QED
    BY <1>1, <1>2, <1>3, <2>1, <2>3, PlaceAssumption DEF ShownOK
<1>9. ASSUME NEW g \in Group, ListGroup(g)
      PROVE  ShownOK'
  <2>1. /\ listed' = listed \cup {g} /\ rail' = rail \cup {g} /\ UNCHANGED <<theirs, live>>
    BY <1>9 DEF ListGroup, ShowGroup
  <2>2. QED
    BY <1>2, <1>3, <2>1, PlaceAssumption DEF ShownOK
<1>10. ASSUME NEW b \in Buffer, NEW place \in Place, Joined(b, place)
       PROVE  ShownOK'
  <2>1. CASE ~connected
    BY <1>5, <1>6, <1>10, <2>1 DEF Joined
  <2>2. CASE connected
    <3>1. /\ theirs' = [theirs EXCEPT ![b] = place] /\ Show(b, place)
          /\ listed' = listed \cup {b} /\ UNCHANGED rail
          /\ place = Own => live[b] \notin Group
      BY <1>10, <2>2 DEF Joined, Filed
    <3>2. live'[b] = place /\ \A c \in Buffer \ {b} : live'[c] = live[c]
      BY <1>7, <3>1
    <3>3. \A c \in listed' \cap Buffer : theirs'[c] # None /\ live'[c] = theirs'[c]
      BY <1>1, <1>2, <3>1, <3>2
    <3>4. listed' \cap Group \subseteq rail'
      BY <1>3, <3>1, PlaceAssumption
    <3>5. QED
      BY <3>3, <3>4 DEF ShownOK
  <2>3. QED
    BY <2>1, <2>2
<1>11. ASSUME NEW b \in Buffer, Left(b)
       PROVE  ShownOK'
  <2>1. /\ theirs' = [theirs EXCEPT ![b] = None] /\ listed' = listed \ {b} /\ UNCHANGED rail
    BY <1>11 DEF Left
  <2>2. \A c \in Buffer \ {b} : live'[c] = live[c]
    BY <1>11 DEF Left, RemoveBuffers
  <2>3. QED
    BY <1>1, <1>2, <1>3, <2>1, <2>2 DEF ShownOK
<1>12. ASSUME NEW g \in Group, LeftGroup(g)
       PROVE  ShownOK'
  <2>1. listed' = listed \ ({g} \cup {b \in Buffer : theirs[b] = g})
    BY <1>12 DEF LeftGroup
  <2>2. CASE ~connected
    BY <1>5, <1>6, <2>1, <2>2
  <2>3. CASE connected
    <3>1. RemoveGroup(g)
      BY <1>12, <2>3 DEF LeftGroup
    <3>2. PICK place \in {None, Own} :
              theirs' = [b \in Buffer |-> IF b \in {c \in Buffer : theirs[c] = g}
                                          THEN place ELSE theirs[b]]
      BY <1>12 DEF LeftGroup
    <3>3. \A c \in Buffer : live'[c] = IF live[c] = g THEN None ELSE live[c]
      BY <3>1 DEF RemoveGroup, RemoveBuffers
    <3>4. \A c \in listed' \cap Buffer : theirs'[c] # None /\ live'[c] = theirs'[c]
      BY <1>2, <2>1, <3>2, <3>3
    <3>5. listed' \cap Group \subseteq rail'
      BY <1>3, <2>1, <3>1 DEF RemoveGroup
    <3>6. QED
      BY <3>4, <3>5 DEF ShownOK
  <2>4. QED
    BY <2>2, <2>3
<1>13. ASSUME NEW k \in Pruner, PrunerRemoves(k)
       PROVE  ShownOK'
  <2>1. PICK b \in stale[k] : RemoveBuffers({b})
    BY <1>13 DEF PrunerRemoves
  <2>2. b \notin listed
    BY <2>1 DEF Listed, TakenOK
  <2>3. \A c \in listed \cap Buffer : live'[c] = live[c]
    BY <2>1, <2>2 DEF RemoveBuffers
  <2>4. UNCHANGED <<theirs, rail, listed>>
    BY <1>13 DEF PrunerRemoves
  <2>5. QED
    BY <1>4, <2>3, <2>4
<1>14. ASSUME NEW k \in Pruner, PrunerRemovesGroup(k)
       PROVE  ShownOK'
  <2>1. PICK g \in staleRail[k] : RemoveGroup(g)
    BY <1>14 DEF PrunerRemovesGroup
  <2>2. g \in Group /\ g \notin listed /\ g \notin theirRail
    BY <1>1, <2>1 DEF Listed, TakenOK, TakenRailOK
  <2>3. \A c \in listed \cap Buffer : live[c] # g
    BY <1>2, <2>2 DEF Listed, FiledOK
  <2>4. \A c \in listed \cap Buffer : live'[c] = live[c]
    BY <2>1, <2>3 DEF RemoveGroup, RemoveBuffers
  <2>5. rail' = rail \ {g} /\ UNCHANGED <<theirs, listed>>
    BY <1>14, <2>1 DEF PrunerRemovesGroup, RemoveGroup
  <2>6. QED
    BY <1>2, <1>3, <2>2, <2>4, <2>5 DEF ShownOK
<1>15. CASE Connect \/ Drop \/ Restart
  BY <1>5, <1>15 DEF Connect, Drop, Restart
<1>16. CASE \/ Keeps \/ Quit \/ UNCHANGED layoutVars
            \/ \E k \in Pruner : \/ PrunerStops(k) \/ PrunerTakes(k) \/ PrunerTakesRail(k)
                                 \/ PrunerEnds(k)
  <2>1. UNCHANGED <<theirs, live, rail, listed>>
    BY <1>16 DEF Keeps, KeeperLooks, KeeperReads, KeeperReadsRail, KeeperSaves, Quit, layoutVars,
                 PrunerStops, PrunerTakes, PrunerTakesRail, PrunerEnds
  <2>2. QED
    BY <1>4, <2>1
<1>17. QED
  BY <1>8, <1>9, <1>10, <1>11, <1>12, <1>13, <1>14, <1>15, <1>16
     DEF LayoutNext, Lists, Prunes

\* At the start the database holds what the service had, and nothing is listed.
LEMMA InitListed == ASSUME LayoutInit PROVE Listed
<1>1. TakenOK /\ TakenRailOK /\ ShownOK
  BY DEF LayoutInit, TakenOK, TakenRailOK, ShownOK
<1>2. FiledOK
  <2>1. /\ theirs \in [Buffer -> Place] /\ theirRail = Group /\ saved = theirs
        /\ live = saved \/ live = Nowhere
        /\ copy[1] = Nowhere
    BY DEF LayoutInit, Restored, Unseen
  <2>2. Own \notin Group /\ None \notin Group
    BY DEF Place
  <2>3. QED
    BY <2>1, <2>2 DEF FiledOK, Filed, Nowhere
<1>3. QED
  BY <1>1, <1>2, InitJudged DEF Listed

\* Where the service takes nothing out from under a rail entry, lists nothing
\* anew while it is being removed, and no earlier connection's quiet is long
\* enough, what it listed is shown, whoever else removes and restores: no
\* prune removes it, nor the rail entry it is filed under.
THEOREM WhatIsListedIsShown ==
    ASSUME ~MayRefile, ~MayHurry, ~MayReturn
    PROVE  LayoutSpec => []ListedIsShown
<1>1. LayoutTypes /\ Listed /\ [LayoutNext]_layoutVars => LayoutTypes' /\ Listed'
  BY LayoutTypesStep, ListingStep, TakingStep, TakenStep, TakenRailStep, FiledStep, ShownStep
     DEF Listed, Judged
<1>2. LayoutInit => LayoutTypes /\ Listed
  BY LayoutInitTypes, InitListed
<1>3. Listed => ListedIsShown
  BY DEF Listed, ShownOK, ListedIsShown
<1>4. QED
  BY <1>1, <1>2, <1>3, PTL DEF LayoutSpec
=============================================================================
