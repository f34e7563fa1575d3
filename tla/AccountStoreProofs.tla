------------------------- MODULE AccountStoreProofs -------------------------
(* Proofs about AccountStore, for every set of services and of calls: the  *)
(* maps and the calls keep their types, only one call at a time writes the *)
(* file, what a caller was told is stored is in the file, no change in     *)
(* memory is forgotten, and the store implements DurableMap.               *)
EXTENDS AccountStore, TLAPS

\* The versions of the maps that k read out and others changed since are on
\* their way to the file.
Fresh(k) ==
    \A s \in Service :
        text[k][s] # mem[s] => \E j \in Op : at[j] = "locking" /\ edits[j] = s

\* What is true of a call that locks: it holds what it has not still to lock.
Locking(k) ==
    /\ at[k] \in {"route", "locking"} =>
           \A e \in Early : owner[e] = k \/ e \in todo[k]
    /\ at[k] = "locking" =>
           edits[k] \in Service \ todo[k] /\ ver[k] <= mem[edits[k]]

\* What is true of a call that writes: it holds every early map.
Persisting(k) ==
    /\ at[k] \in Writing =>
           /\ \A e \in Early : owner[e] = k
           /\ edits[k] \in Service
           /\ ver[k] <= text[k][edits[k]]
           /\ \A s \in Service : text[k][s] <= mem[s]
    /\ at[k] \in {"writing", "filling", "filled"} =>
           Fresh(k) /\ \A s \in Service : disk[s] <= text[k][s]
    /\ at[k] = "filled" => tmp = text[k]
    /\ at[k] = "renamed" => disk = text[k]

\* The inductive invariant.
IInv ==
    /\ TypeOK
    /\ \A k \in Op : Locking(k)
    /\ \A k \in Op : Persisting(k)
    /\ \A s \in Service : disk[s] <= mem[s]
    /\ AnsweredIsKept
    /\ NothingForgotten

USE EarlyAssumption, NoneAssumption, RankAssumption, TrustAssumption

-----------------------------------------------------------------------------
\* The maps and calls have their types at the start.
LEMMA InitTyped == Init => TypeOK
BY DEF Init, TypeOK, Service, Versions, Blank, At, Writing

\* A change keeps the types, whichever call makes it to a map it may lock.
LEMMA ChangeTyped ==
    ASSUME TypeOK, NEW k \in Op, NEW s \in Service, Change(k, s)
    PROVE  TypeOK'
<1> USE DEF TypeOK, Change, fileVars
<1>1. mem' \in Versions /\ ver' \in [Op -> Nat]
  BY DEF Versions
<1>2. /\ owner' \in [Early -> Op \cup {None}]
      /\ at' \in [Op -> At]
      /\ edits' \in [Op -> Service \cup {None}]
      /\ todo' \in [Op -> SUBSET Service]
  BY DEF Service, At
<1>3. \A j \in Op : at'[j] \in {"route", "locking"} =>
          \A e \in todo'[j] \cap Early : owner'[e] # j
  <2> SUFFICES ASSUME NEW j \in Op, at'[j] \in {"route", "locking"},
                      NEW e \in Early, e \in todo'[j]
               PROVE  owner'[e] # j
    OBVIOUS
  <2>1. CASE j = k BY <2>1
  <2>2. CASE j # k BY <2>2
  <2> QED BY <2>1, <2>2
<1>4. \A j \in Op : at'[j] \in {"edit", "locking"} \cup Writing =>
          edits'[j] \in Service
  BY DEF Writing
<1>5. \A j \in Op : at'[j] \in {"idle", "edit", "probe"} =>
          \A e \in Early : owner'[e] # j
  OBVIOUS
<1> QED BY <1>1, <1>2, <1>3, <1>4, <1>5

\* So does a call that returns.
LEMMA LeaveTyped ==
    ASSUME TypeOK, NEW k \in Op, Leave(k),
           disk' \in Versions, tmp' \in Versions, promised' \in Versions,
           failed' \subseteq Service
    PROVE  TypeOK'
<1> USE DEF TypeOK, Leave
<1>1. /\ owner' \in [Early -> Op \cup {None}]
      /\ at' \in [Op -> At]
      /\ edits' \in [Op -> Service \cup {None}]
      /\ ver' \in [Op -> Nat]
      /\ todo' \in [Op -> SUBSET Service]
  BY DEF At
<1>2. text' \in [Op -> Versions] /\ mem' \in Versions /\ calls' \in Nat
  BY DEF Versions, Blank
<1>3. \A j \in Op : at'[j] \in {"route", "locking"} =>
          \A e \in todo'[j] \cap Early : owner'[e] # j
  OBVIOUS
<1>4. \A j \in Op : at'[j] \in {"edit", "locking"} \cup Writing =>
          edits'[j] \in Service
  BY DEF Writing
<1> QED BY <1>1, <1>2, <1>3, <1>4


\* Every step keeps the types.
LEMMA NextTyped == TypeOK /\ [Next]_vars => TypeOK'
<1> SUFFICES ASSUME TypeOK, [Next]_vars PROVE TypeOK'
  OBVIOUS
<1>0. CASE UNCHANGED vars
  BY <1>0 DEF TypeOK, vars, fileVars, callVars
<1>1. ASSUME NEW k \in Op, BeginEdit(k) \/ BeginRoute(k) \/ BeginProbe(k)
      PROVE  TypeOK'
  <2> USE DEF TypeOK, Begin, fileVars
  <2>1. CASE BeginEdit(k)
    BY <1>1, <2>1 DEF BeginEdit, At, Service
  <2>2. CASE BeginRoute(k)
    BY <1>1, <2>2 DEF BeginRoute, At, Service, Writing
  <2>3. CASE BeginProbe(k)
    BY <1>1, <2>3 DEF BeginProbe, At, Service, Writing
  <2> QED BY <1>1, <2>1, <2>2, <2>3
<1>2. ASSUME NEW k \in Op, Memory(k)
      PROVE  TypeOK'
  <2>1. CASE Edit(k)
    BY <2>1, ChangeTyped DEF Edit, TypeOK
  <2>2. CASE NotThere(k)
    BY <2>2, LeaveTyped DEF NotThere, TypeOK, fileVars
  <2>3. CASE AlreadyThere(k)
    <3>1. promised' \in Versions
      BY <2>3 DEF AlreadyThere, TypeOK, Versions
    <3> QED BY <2>3, <3>1, LeaveTyped DEF AlreadyThere, TypeOK, fileVars
  <2>4. CASE ChooseRoute(k)
    BY <2>4, ChangeTyped DEF ChooseRoute
  <2>5. CASE RouteNotThere(k)
    BY <2>5, LeaveTyped DEF RouteNotThere, TypeOK, fileVars
  <2>6. CASE Found(k)
    BY <2>6, ChangeTyped DEF Found
  <2>7. CASE NotHere(k)
    BY <2>7 DEF NotHere, LooksInto, TypeOK, fileVars
  <2>8. CASE Nowhere(k)
    BY <2>8, LeaveTyped DEF Nowhere, TypeOK, fileVars
  <2> QED
    BY <1>2, <2>1, <2>2, <2>3, <2>4, <2>5, <2>6, <2>7, <2>8 DEF Memory
<1>3. ASSUME NEW k \in Op, Persist(k)
      PROVE  TypeOK'
  <2>1. CASE Take(k)
    <3> PICK e \in Early :
          /\ at[k] \in {"route", "locking"}
          /\ IsNext(k, e)
          /\ owner[e] = None
          /\ owner' = [owner EXCEPT ![e] = k]
          /\ todo' = [todo EXCEPT ![k] = @ \ {e}]
          /\ UNCHANGED <<mem, fileVars, promised, failed, at, edits, ver,
                         text, calls>>
      BY <2>1 DEF Take
    <3>1. \A j \in Op : at'[j] \in {"route", "locking"} =>
              \A d \in todo'[j] \cap Early : owner'[d] # j
      <4> SUFFICES ASSUME NEW j \in Op, at[j] \in {"route", "locking"},
                          NEW d \in Early, d \in todo'[j]
                   PROVE  owner'[d] # j
        BY DEF fileVars
      <4>1. CASE j = k BY <4>1 DEF TypeOK
      <4>2. CASE j # k BY <4>2 DEF TypeOK
      <4> QED BY <4>1, <4>2
    <3> QED BY <3>1 DEF TypeOK, fileVars
  <2>2. CASE Gather(k)
    BY <2>2 DEF Gather, TypeOK, fileVars, At, Writing
  <2>3. CASE Create(k)
    BY <2>3 DEF Create, TypeOK, fileVars, At, Writing, Blank, Versions
  <2>4. CASE WriteAll(k)
    BY <2>4 DEF WriteAll, TypeOK, fileVars, At, Writing
  <2>5. CASE Rename(k)
    BY <2>5 DEF Rename, TypeOK, fileVars, At, Writing
  <2>6. CASE Return(k)
    <3>1. promised' \in Versions
      BY <2>6 DEF Return, TypeOK, Versions
    <3> QED BY <2>6, <3>1, LeaveTyped DEF Return, TypeOK, fileVars
  <2>7. CASE Fail(k)
    <3>1. failed' \subseteq Service
      BY <2>7 DEF Fail, TypeOK
    <3> QED BY <2>7, <3>1, LeaveTyped DEF Fail, TypeOK, fileVars
  <2> QED
    BY <1>3, <2>1, <2>2, <2>3, <2>4, <2>5, <2>6, <2>7 DEF Persist
<1>4. CASE Restart
  BY <1>4 DEF Restart, TypeOK, fileVars, At, Blank, Versions, Writing
<1> QED BY <1>0, <1>1, <1>2, <1>3, <1>4 DEF Next

-----------------------------------------------------------------------------
\* The early maps are as good as one lock around the file: whoever writes
\* has all of them, so there is one.
LEMMA OneWriter ==
    ASSUME \A k \in Op : Persisting(k),
           NEW j \in Op, NEW k \in Op, at[j] \in Writing, at[k] \in Writing
    PROVE  j = k
BY DEF Persisting

\* A change to a map that its call may lock leaves the invariant true.
LEMMA ChangeKeeps ==
    ASSUME IInv, NEW k \in Op, NEW s \in Service, Change(k, s),
           at[k] \in {"edit", "route", "probe"},
           s \in Early => owner[s] \in {None, k}
    PROVE  IInv'
<1> USE DEF IInv
<1>0. TypeOK'
  BY ChangeTyped
<1>1. ASSUME NEW j \in Op PROVE Locking(j)'
  <2>1. CASE j = k
    BY <2>1 DEF Locking, Change, TypeOK, Versions, Service
  <2>2. CASE j # k
    <3>1. /\ at'[j] = at[j] /\ edits'[j] = edits[j]
          /\ ver'[j] = ver[j] /\ todo'[j] = todo[j]
      BY <2>2 DEF Change, TypeOK
    <3>2. \A e \in Early : owner[e] = j => owner'[e] = j
      BY <2>2 DEF Change, TypeOK
    <3>3. \A t \in Service : mem[t] <= mem'[t]
      BY DEF Change, TypeOK, Versions
    <3>4. at[j] = "locking" => ver[j] <= mem'[edits[j]]
      <4> SUFFICES ASSUME at[j] = "locking"
                   PROVE  ver[j] <= mem'[edits[j]]
        OBVIOUS
      <4>1. edits[j] \in Service /\ ver[j] <= mem[edits[j]]
        BY DEF Locking
      <4>2. ver[j] \in Nat /\ mem[edits[j]] \in Nat /\ mem'[edits[j]] \in Nat
        BY <4>1, <1>0 DEF TypeOK, Versions
      <4> QED BY <4>1, <4>2, <3>3
    <3> QED BY <3>1, <3>2, <3>4 DEF Locking
  <2> QED BY <2>1, <2>2
<1>2. ASSUME NEW j \in Op PROVE Persisting(j)'
  <2>1. CASE j = k
    BY <2>1 DEF Persisting, Change, TypeOK, Writing
  <2>2. CASE j # k
    <3>1. /\ at'[j] = at[j] /\ edits'[j] = edits[j]
          /\ ver'[j] = ver[j] /\ text'[j] = text[j]
          /\ disk' = disk /\ tmp' = tmp
      BY <2>2 DEF Change, TypeOK, fileVars
    <3>2. \A e \in Early : owner[e] = j => owner'[e] = j
      BY <2>2 DEF Change, TypeOK
    <3>3. \A t \in Service : text[j][t] <= mem[t] => text[j][t] <= mem'[t]
      BY DEF Change, TypeOK, Versions
    <3>4. ASSUME Fresh(j) PROVE Fresh(j)'
      <4> SUFFICES ASSUME NEW t \in Service, text[j][t] # mem'[t]
                   PROVE  \E i \in Op : at'[i] = "locking" /\ edits'[i] = t
        BY <3>1 DEF Fresh
      <4>1. CASE t = s
        BY <4>1 DEF Change, TypeOK
      <4>2. CASE t # s
        <5>1. text[j][t] # mem[t]
          BY <4>2 DEF Change, TypeOK, Versions
        <5>2. PICK i \in Op : at[i] = "locking" /\ edits[i] = t
          BY <3>4, <5>1 DEF Fresh
        <5> QED BY <5>2 DEF Change, TypeOK
      <4> QED BY <4>1, <4>2
    <3> QED BY <3>1, <3>2, <3>3, <3>4 DEF Persisting
  <2> QED BY <2>1, <2>2
<1>3. \A t \in Service : disk'[t] <= mem'[t]
  BY DEF Change, TypeOK, Versions, fileVars
<1>4. AnsweredIsKept'
  BY DEF Change, AnsweredIsKept, fileVars
<1>5. NothingForgotten'
  <2> SUFFICES ASSUME NEW t \in Service, mem'[t] # disk'[t], t \notin failed'
               PROVE  \E i \in Op : Unsaved(i)' /\ edits'[i] = t
    BY DEF NothingForgotten
  <2>1. CASE t = s
    BY <2>1 DEF Change, Unsaved, TypeOK
  <2>2. CASE t # s
    <3>1. mem[t] # disk[t] /\ t \notin failed
      BY <2>2 DEF Change, TypeOK, Versions, fileVars
    <3>2. PICK i \in Op : Unsaved(i) /\ edits[i] = t
      BY <3>1 DEF NothingForgotten
    <3>3. i # k
      BY <3>2 DEF Unsaved
    <3> QED BY <3>2, <3>3 DEF Change, Unsaved, TypeOK
  <2> QED BY <2>1, <2>2
<1> QED BY <1>0, <1>1, <1>2, <1>3, <1>4, <1>5

\* So does a call that returns, when a change of its own that is not in the
\* file is remembered as failed.
LEMMA LeaveKeeps ==
    ASSUME IInv, NEW k \in Op, Leave(k), at[k] # "locking",
           UNCHANGED fileVars, promised' \in Versions,
           \A s \in Service : promised'[s] <= disk[s],
           failed \subseteq failed', failed' \subseteq Service,
           Unsaved(k) => edits[k] \in failed'
    PROVE  IInv'
<1> USE DEF IInv
<1>0. TypeOK'
  BY LeaveTyped DEF TypeOK, fileVars
<1>1. ASSUME NEW j \in Op PROVE Locking(j)'
  <2>1. CASE j = k
    BY <2>1 DEF Locking, Leave, TypeOK
  <2>2. CASE j # k
    <3>1. /\ at'[j] = at[j] /\ edits'[j] = edits[j]
          /\ ver'[j] = ver[j] /\ todo'[j] = todo[j] /\ mem' = mem
      BY <2>2 DEF Leave, TypeOK
    <3>2. \A e \in Early : owner[e] = j => owner'[e] = j
      BY <2>2 DEF Leave, TypeOK
    <3> QED BY <3>1, <3>2 DEF Locking
  <2> QED BY <2>1, <2>2
<1>2. ASSUME NEW j \in Op PROVE Persisting(j)'
  <2>1. CASE j = k
    BY <2>1 DEF Persisting, Leave, TypeOK, Writing
  <2>2. CASE j # k
    <3>1. /\ at'[j] = at[j] /\ edits'[j] = edits[j]
          /\ ver'[j] = ver[j] /\ text'[j] = text[j]
          /\ disk' = disk /\ tmp' = tmp /\ mem' = mem
      BY <2>2 DEF Leave, TypeOK, fileVars
    <3>2. \A e \in Early : owner[e] = j => owner'[e] = j
      BY <2>2 DEF Leave, TypeOK
    <3>3. Fresh(j) => Fresh(j)'
      BY <3>1 DEF Fresh, Leave, TypeOK
    <3> QED BY <3>1, <3>2, <3>3 DEF Persisting
  <2> QED BY <2>1, <2>2
<1>3. \A t \in Service : disk'[t] <= mem'[t]
  BY DEF Leave, fileVars
<1>4. AnsweredIsKept'
  BY DEF AnsweredIsKept, fileVars
<1>5. NothingForgotten'
  BY DEF NothingForgotten, Unsaved, Leave, TypeOK, fileVars
<1> QED BY <1>0, <1>1, <1>2, <1>3, <1>4, <1>5

\* A step of k that moves it on, and changes neither maps, nor files, nor
\* answers, leaves what is true of the other calls true.
LEMMA OthersKeep ==
    ASSUME IInv, NEW k \in Op, NEW j \in Op, j # k,
           \A i \in Op \ {k} : at'[i] = at[i] /\ edits'[i] = edits[i],
           ver'[j] = ver[j], todo'[j] = todo[j], text'[j] = text[j],
           at[k] = "locking" => at'[k] = "locking" /\ edits'[k] = edits[k],
           \A e \in Early : owner[e] = j => owner'[e] = j,
           mem' = mem, disk' = disk, tmp' = tmp
    PROVE  Locking(j)' /\ Persisting(j)'
<1>1. Fresh(j) => Fresh(j)'
  BY DEF Fresh
<1> QED BY <1>1 DEF IInv, Locking, Persisting

-----------------------------------------------------------------------------
\* The invariant holds at the start.
LEMMA InitInv == Init => IInv
BY InitTyped DEF Init, IInv, Locking, Persisting, AnsweredIsKept,
                 NothingForgotten, Writing, Blank, Service

\* The calls that arrive, and those that find nothing to change, hold no map
\* or give back the ones they hold.
LEMMA BeginKeeps ==
    ASSUME IInv, NEW k \in Op, BeginEdit(k) \/ BeginRoute(k) \/ BeginProbe(k)
    PROVE  IInv'
<1>0. TypeOK'
  BY NextTyped DEF Next, IInv
<1> USE DEF IInv
<1>1. /\ at[k] = "idle" /\ at'[k] \in {"edit", "route", "probe"}
      /\ at'[k] = "route" => todo'[k] = Early
      /\ \A j \in Op \ {k} : at'[j] = at[j] /\ edits'[j] = edits[j]
                                /\ todo'[j] = todo[j]
      /\ UNCHANGED <<owner, mem, disk, tmp, promised, failed, ver, text>>
  BY DEF BeginEdit, BeginRoute, BeginProbe, Begin, fileVars, IInv, TypeOK
<1>2. ASSUME NEW j \in Op PROVE Locking(j)' /\ Persisting(j)'
  <2>1. CASE j = k
    BY <1>1, <2>1 DEF Locking, Persisting, Writing
  <2>2. CASE j # k
    BY <1>1, <2>2, OthersKeep
  <2> QED BY <2>1, <2>2
<1>3. NothingForgotten'
  BY <1>1 DEF IInv, NothingForgotten, Unsaved
<1> QED BY <1>0, <1>1, <1>2, <1>3 DEF IInv, AnsweredIsKept

\* What the calls do to the maps in memory keeps the invariant.
LEMMA MemoryKeeps ==
    ASSUME IInv, MayTrustMemory = FALSE, NEW k \in Op, Memory(k)
    PROVE  IInv'
<1> USE DEF IInv
<1>1. CASE Edit(k)
  <2>1. edits[k] \in Service
    BY <1>1 DEF Edit, TypeOK
  <2> QED BY <1>1, <2>1, ChangeKeeps DEF Edit, Free
<1>2. CASE NotThere(k)
  BY <1>2, LeaveKeeps DEF NotThere, AnsweredIsKept, TypeOK, Unsaved
<1>3. CASE AlreadyThere(k)
  <2>1. edits[k] \in Early /\ owner[edits[k]] = None /\ edits[k] \notin failed
    BY <1>3 DEF AlreadyThere, Free
  <2>2. mem[edits[k]] = disk[edits[k]]
    <3> SUFFICES ASSUME NEW j \in Op, Unsaved(j), edits[j] = edits[k]
                 PROVE  FALSE
      BY <2>1 DEF NothingForgotten, Service
    <3>1. CASE at[j] = "locking"
      BY <3>1, <2>1 DEF Locking
    <3>2. CASE at[j] \in Writing
      BY <3>2, <2>1 DEF Persisting
    <3> QED BY <3>1, <3>2 DEF Unsaved, Writing
  <2>3. promised' = [promised EXCEPT ![edits[k]] = disk[edits[k]]]
    BY <1>3, <2>2 DEF AlreadyThere
  <2>4. promised' \in Versions /\ \A s \in Service : promised'[s] <= disk[s]
    <3>1. promised \in [Service -> Nat] /\ disk \in [Service -> Nat]
      BY DEF TypeOK, Versions
    <3>2. edits[k] \in Service /\ disk[edits[k]] \in Nat
      BY <3>1, <2>1 DEF Service
    <3>3. promised' \in [Service -> Nat]
      BY <3>1, <3>2, <2>3
    <3>4. ASSUME NEW s \in Service PROVE promised'[s] <= disk[s]
      <4>1. promised[s] <= disk[s] /\ disk[s] \in Nat
        BY <3>1 DEF AnsweredIsKept
      <4> QED BY <3>1, <3>2, <4>1, <2>3
    <3> QED BY <3>3, <3>4 DEF Versions
  <2>5. /\ Leave(k) /\ at[k] # "locking" /\ UNCHANGED fileVars
        /\ failed' = failed /\ ~Unsaved(k)
    BY <1>3 DEF AlreadyThere, Unsaved
  <2> QED BY <2>4, <2>5, LeaveKeeps DEF TypeOK
<1>4. CASE ChooseRoute(k)
  <2> PICK s \in Service : Change(k, s)
    BY <1>4 DEF ChooseRoute
  <2>1. s \in Early => owner[s] = k
    BY <1>4 DEF ChooseRoute, Locking
  <2> QED BY <1>4, <2>1, ChangeKeeps DEF ChooseRoute
<1>5. CASE RouteNotThere(k)
  BY <1>5, LeaveKeeps DEF RouteNotThere, AnsweredIsKept, TypeOK, Unsaved
<1>6. CASE Found(k)
  BY <1>6, ChangeKeeps DEF Found, LooksInto, Free
<1>7. CASE NotHere(k)
  <2>0. TypeOK'
    BY <1>7, NextTyped DEF Next, Memory
  <2>1. /\ at[k] = "probe"
        /\ \A j \in Op \ {k} : todo'[j] = todo[j]
        /\ UNCHANGED <<owner, mem, disk, tmp, promised, failed, at, edits,
                       ver, text>>
    BY <1>7 DEF NotHere, LooksInto, fileVars, TypeOK
  <2>2. ASSUME NEW j \in Op PROVE Locking(j)' /\ Persisting(j)'
    <3>1. CASE j = k
      BY <2>1, <3>1 DEF Locking, Persisting, Writing
    <3>2. CASE j # k
      BY <2>1, <3>2, OthersKeep
    <3> QED BY <3>1, <3>2
  <2>3. NothingForgotten'
    BY <2>1 DEF NothingForgotten, Unsaved
  <2> QED BY <2>0, <2>1, <2>2, <2>3 DEF AnsweredIsKept
<1>8. CASE Nowhere(k)
  BY <1>8, LeaveKeeps DEF Nowhere, AnsweredIsKept, TypeOK, Unsaved
<1> QED
  BY <1>1, <1>2, <1>3, <1>4, <1>5, <1>6, <1>7, <1>8 DEF Memory

\* What the calls do to the file keeps the invariant.
LEMMA PersistKeeps ==
    ASSUME IInv, NEW k \in Op, Persist(k)
    PROVE  IInv'
<1> USE DEF IInv
<1>0. TypeOK'
  BY NextTyped DEF Next
<1>1. CASE Take(k)
  <2> PICK e \in Early :
        /\ at[k] \in {"route", "locking"}
        /\ IsNext(k, e)
        /\ owner[e] = None
        /\ owner' = [owner EXCEPT ![e] = k]
        /\ todo' = [todo EXCEPT ![k] = @ \ {e}]
        /\ UNCHANGED <<mem, fileVars, promised, failed, at, edits, ver, text,
                       calls>>
    BY <1>1 DEF Take
  <2>1. ASSUME NEW j \in Op PROVE Locking(j)' /\ Persisting(j)'
    <3>1. CASE j = k
      BY <3>1 DEF Locking, Persisting, Writing, TypeOK, fileVars
    <3>2. CASE j # k
      <4>1. \A d \in Early : owner[d] = j => owner'[d] = j
        BY <3>2 DEF TypeOK
      <4>2. todo'[j] = todo[j]
        BY <3>2 DEF TypeOK
      <4> QED BY <3>2, <4>1, <4>2, OthersKeep DEF fileVars
    <3> QED BY <3>1, <3>2
  <2>2. NothingForgotten'
    BY DEF NothingForgotten, Unsaved, fileVars
  <2> QED BY <1>0, <2>1, <2>2 DEF AnsweredIsKept, fileVars
<1>2. CASE Gather(k)
  <2>1. \A e \in Early : owner[e] = k
    BY <1>2 DEF Gather, Locking
  <2>2. /\ at[k] = "locking" /\ at'[k] = "writing" /\ text'[k] = mem
        /\ \A j \in Op \ {k} : at'[j] = at[j] /\ text'[j] = text[j]
        /\ UNCHANGED <<owner, mem, disk, tmp, promised, failed, edits, ver,
                       todo>>
    BY <1>2 DEF Gather, fileVars, TypeOK
  <2>3. ASSUME NEW j \in Op, j # k PROVE at[j] \notin Writing
    BY <2>1, <2>3 DEF Persisting
  <2>4. ASSUME NEW j \in Op PROVE Locking(j)'
    BY <2>2 DEF Locking
  <2>5. Persisting(k)'
    <3>1. edits[k] \in Service /\ ver[k] <= mem[edits[k]]
      BY <2>2 DEF Locking
    <3>2. \A s \in Service : mem[s] <= mem[s]
      BY DEF TypeOK, Versions
    <3> QED BY <2>1, <2>2, <3>1, <3>2 DEF Persisting, Fresh
  <2>6. ASSUME NEW j \in Op, j # k PROVE Persisting(j)'
    BY <2>2, <2>3, <2>6 DEF Persisting, Writing
  <2>7. NothingForgotten'
    BY <2>2 DEF NothingForgotten, Unsaved, TypeOK
  <2> QED BY <1>0, <2>2, <2>4, <2>5, <2>6, <2>7 DEF AnsweredIsKept
<1>3. CASE Create(k) \/ WriteAll(k)
  <2>1. /\ at[k] \in Writing /\ at'[k] \in {"filling", "filled"}
        /\ at[k] \in {"writing", "filling"}
        /\ at'[k] = "filled" => tmp' = text[k]
        /\ \A j \in Op \ {k} : at'[j] = at[j]
        /\ UNCHANGED <<owner, mem, disk, promised, failed, edits, ver, todo,
                       text>>
    BY <1>3 DEF Create, WriteAll, TypeOK, Writing
  <2>2. ASSUME NEW j \in Op, j # k PROVE at[j] \notin Writing
    BY <2>1, <2>2, OneWriter
  <2>3. ASSUME NEW j \in Op PROVE Locking(j)'
    BY <2>1 DEF Locking, Writing
  <2>4. Persisting(k)'
    BY <2>1 DEF Persisting, Fresh, Writing
  <2>5. ASSUME NEW j \in Op, j # k PROVE Persisting(j)'
    BY <2>1, <2>2, <2>5 DEF Persisting, Writing
  <2>6. NothingForgotten'
    BY <2>1 DEF NothingForgotten, Unsaved
  <2> QED BY <1>0, <2>1, <2>3, <2>4, <2>5, <2>6 DEF AnsweredIsKept
<1>4. CASE Rename(k)
  <2>1. /\ at[k] = "filled" /\ at'[k] = "renamed" /\ disk' = text[k]
        /\ failed' = {}
        /\ \A j \in Op \ {k} : at'[j] = at[j]
        /\ UNCHANGED <<owner, mem, promised, edits, ver, todo, text>>
    BY <1>4 DEF Rename, TypeOK, Persisting
  <2>2. ASSUME NEW j \in Op, j # k PROVE at[j] \notin Writing
    BY <2>1, <2>2, OneWriter DEF Writing
  <2>3. /\ \A e \in Early : owner[e] = k
        /\ edits[k] \in Service /\ ver[k] <= text[k][edits[k]] /\ Fresh(k)
        /\ \A s \in Service : disk[s] <= text[k][s] /\ text[k][s] <= mem[s]
    BY <2>1 DEF Persisting, Writing
  <2>4. ASSUME NEW j \in Op PROVE Locking(j)'
    BY <2>1 DEF Locking
  <2>5. Persisting(k)'
    BY <2>1, <2>3 DEF Persisting
  <2>6. ASSUME NEW j \in Op, j # k PROVE Persisting(j)'
    BY <2>1, <2>2, <2>6 DEF Persisting, Writing
  <2>7. \A s \in Service : disk'[s] <= mem'[s]
    BY <2>1, <2>3
  <2>8. AnsweredIsKept'
    <3> SUFFICES ASSUME NEW s \in Service PROVE promised[s] <= text[k][s]
      BY <2>1 DEF AnsweredIsKept
    <3>1. promised[s] <= disk[s] /\ disk[s] <= text[k][s]
      BY <2>3 DEF AnsweredIsKept
    <3>2. promised[s] \in Nat /\ disk[s] \in Nat /\ text[k][s] \in Nat
      BY DEF TypeOK, Versions
    <3> QED BY <3>1, <3>2
  <2>9. NothingForgotten'
    <3> SUFFICES ASSUME NEW s \in Service, mem[s] # text[k][s]
                 PROVE  \E j \in Op : Unsaved(j)' /\ edits[j] = s
      BY <2>1 DEF NothingForgotten
    <3>1. PICK j \in Op : at[j] = "locking" /\ edits[j] = s
      BY <2>3 DEF Fresh
    <3> QED BY <2>1, <3>1 DEF Unsaved
  <2> QED BY <1>0, <2>4, <2>5, <2>6, <2>7, <2>8, <2>9
<1>5. CASE Return(k)
  <2>1. /\ at[k] = "renamed" /\ disk = text[k] /\ edits[k] \in Service
        /\ ver[k] <= disk[edits[k]]
    BY <1>5 DEF Return, Persisting, Writing
  <2>2. promised' \in Versions
    BY <1>5 DEF Return, TypeOK, Versions
  <2>3. ASSUME NEW s \in Service PROVE promised'[s] <= disk[s]
    BY <1>5, <2>1 DEF Return, AnsweredIsKept
  <2>4. Leave(k) /\ UNCHANGED fileVars /\ failed' = failed /\ ~Unsaved(k)
    BY <1>5, <2>1 DEF Return, Unsaved
  <2> QED BY <2>1, <2>2, <2>3, <2>4, LeaveKeeps DEF TypeOK
<1>6. CASE Fail(k)
  <2>1. failed \subseteq failed' /\ (Unsaved(k) => edits[k] \in failed')
    BY <1>6 DEF Fail, Unsaved, Writing
  <2>2. failed' \subseteq Service
    BY <1>0 DEF TypeOK
  <2> QED BY <1>6, <2>1, <2>2, LeaveKeeps
          DEF Fail, Writing, AnsweredIsKept, TypeOK
<1> QED BY <1>1, <1>2, <1>3, <1>4, <1>5, <1>6 DEF Persist

\* A restart reads back what every caller was told of.
LEMMA RestartKeeps ==
    ASSUME IInv, Restart
    PROVE  IInv'
<1>0. TypeOK'
  BY NextTyped DEF Next, IInv
<1>1. \A s \in Service : disk[s] <= disk[s]
  BY DEF IInv, TypeOK, Versions
<1> QED
  BY <1>0, <1>1 DEF Restart, IInv, Locking, Persisting, Writing,
                    AnsweredIsKept, NothingForgotten, fileVars

-----------------------------------------------------------------------------
\* Every step keeps the invariant, as long as a change that was not written
\* is not reported stored.
LEMMA NextKeeps ==
    ASSUME MayTrustMemory = FALSE, IInv, [Next]_vars
    PROVE  IInv'
<1>1. CASE UNCHANGED vars
  <2>1. TypeOK'
    BY <1>1, NextTyped DEF IInv
  <2> QED
    BY <1>1, <2>1 DEF vars, fileVars, callVars, IInv, Locking, Persisting,
                      Fresh, AnsweredIsKept, NothingForgotten, Unsaved
<1> QED
  BY <1>1, BeginKeeps, MemoryKeeps, PersistKeeps, RestartKeeps DEF Next

\* The store's maps, file and calls keep their types, whatever set of
\* services and calls (accounts.rs).
THEOREM TypeCorrect == Spec => []TypeOK
<1>1. Init => TypeOK
  BY InitTyped
<1>2. TypeOK /\ [Next]_vars => TypeOK'
  BY NextTyped
<1> QED BY <1>1, <1>2, PTL DEF Spec

\* The inductive invariant holds in every state.
LEMMA InvHolds == MayTrustMemory = FALSE /\ Spec => []IInv
<1> SUFFICES ASSUME MayTrustMemory = FALSE PROVE Spec => []IInv
  OBVIOUS
<1>1. IInv /\ [Next]_vars => IInv'
  BY NextKeeps
<1> QED BY InitInv, <1>1, PTL DEF Spec

\* What a caller was told is stored is in the file at every moment, so it is
\* read back after a crash at any moment (persist, accounts.rs:677).
THEOREM StoredStaysStored ==
    MayTrustMemory = FALSE /\ Spec => []AnsweredIsKept
<1>1. IInv => AnsweredIsKept
  BY DEF IInv
<1> QED BY InvHolds, <1>1, PTL

\* No write loses sight of a change made to another map beside it: what
\* memory has over the file is being written, or its caller has the error.
THEOREM NoChangeIsForgotten ==
    MayTrustMemory = FALSE /\ Spec => []NothingForgotten
<1>1. IInv => NothingForgotten
  BY DEF IInv
<1> QED BY InvHolds, <1>1, PTL

\* One call at a time writes accounts.toml.tmp and renames it, although no
\* lock is there for the file.
THEOREM OneWriterAtATime ==
    MayTrustMemory = FALSE /\ Spec =>
        [](\A j, k \in Op : at[j] \in Writing /\ at[k] \in Writing => j = k)
<1>1. IInv => \A j, k \in Op : at[j] \in Writing /\ at[k] \in Writing => j = k
  BY OneWriter DEF IInv
<1> QED BY InvHolds, <1>1, PTL

-----------------------------------------------------------------------------
\* A change in memory is an abstract change, and leaves the rest alone.
LEMMA MemoryMaps ==
    ASSUME IInv, MayTrustMemory = FALSE, NEW k \in Op, Memory(k)
    PROVE  Map!MapNext \/ UNCHANGED <<mem, disk, promised>>
<1>1. ASSUME NEW s \in Service, Change(k, s) PROVE Map!MapNext
  <2>1. Map!ChangeEntry(s)
    BY <1>1 DEF Change, fileVars, Map!ChangeEntry
  <2> QED BY <2>1 DEF Map!MapNext
<1>2. ASSUME AlreadyThere(k) PROVE Map!MapNext
  <2>1. IInv'
    BY <1>2, MemoryKeeps
  <2>2. /\ promised' = [promised EXCEPT ![edits[k]] = mem[edits[k]]]
        /\ mem' = mem /\ disk' = disk /\ edits[k] \in Service
    BY <1>2 DEF AlreadyThere, Leave, fileVars, Service
  <2>3. promised' \in [Service -> Nat] /\ promised \in [Service -> Nat]
    BY <2>1 DEF IInv, TypeOK, Versions
  <2>4. \A s \in Service : promised'[s] <= disk[s]
    BY <2>1, <2>2 DEF IInv, AnsweredIsKept
  <2>5. \A s \in Service : promised[s] <= promised'[s]
    <3>1. /\ \A s \in Service : promised[s] <= disk[s] /\ disk[s] <= mem[s]
          /\ disk \in [Service -> Nat] /\ mem \in [Service -> Nat]
      BY DEF IInv, AnsweredIsKept, TypeOK, Versions
    <3> QED BY <3>1, <2>2, <2>3
  <2> QED
    BY <2>2, <2>3, <2>4, <2>5
       DEF Map!MapNext, Map!Promise, Map!Upto, Map!Versions
<1> QED
  BY <1>1, <1>2
     DEF Memory, Edit, NotThere, ChooseRoute, RouteNotThere, Found, NotHere,
         Nowhere, Leave, fileVars, IInv, TypeOK

\* The rename is the abstract store's write, the return its promise.
LEMMA PersistMaps ==
    ASSUME IInv, MayTrustMemory = FALSE, NEW k \in Op, Persist(k)
    PROVE  Map!MapNext \/ UNCHANGED <<mem, disk, promised>>
<1>1. CASE Rename(k)
  <2>1. /\ disk' = text[k] /\ UNCHANGED <<mem, promised>>
        /\ \A s \in Service : disk[s] <= text[k][s] /\ text[k][s] <= mem[s]
        /\ text[k] \in [Service -> Nat]
    BY <1>1 DEF Rename, IInv, Persisting, Writing, TypeOK, Versions
  <2> QED
    BY <2>1 DEF Map!MapNext, Map!Keep, Map!Upto, Map!Versions
<1>2. CASE Return(k)
  <2>1. IInv'
    BY <1>2, PersistKeeps
  <2>2. /\ UNCHANGED <<mem, disk>>
        /\ \A s \in Service : promised[s] <= promised'[s]
    BY <1>2 DEF Return, Leave, fileVars, IInv, TypeOK, Versions
  <2>3. \A s \in Service : promised'[s] <= disk[s]
    BY <2>1, <2>2 DEF IInv, AnsweredIsKept
  <2>4. promised' \in [Service -> Nat]
    BY <2>1 DEF IInv, TypeOK, Versions
  <2> QED
    BY <2>2, <2>3, <2>4
       DEF Map!MapNext, Map!Promise, Map!Upto, Map!Versions
<1> QED
  BY <1>1, <1>2
     DEF Persist, Take, Gather, Create, WriteAll, Fail, Leave, fileVars

\* The mutexes, the temporary file and the rename are a store that keeps what
\* it says it keeps (DurableMap).
THEOREM StoreImplementsMap ==
    MayTrustMemory = FALSE /\ Spec => ImplementsMap
<1> SUFFICES ASSUME MayTrustMemory = FALSE PROVE Spec => ImplementsMap
  OBVIOUS
<1>1. Init => Map!MapInit
  BY InitTyped DEF Init, Map!MapInit, TypeOK, Versions, Map!Versions
<1>2. IInv /\ [Next]_vars => [Map!MapNext]_<<mem, disk, promised>>
  <2> SUFFICES ASSUME IInv, [Next]_vars
               PROVE  Map!MapNext \/ UNCHANGED <<mem, disk, promised>>
    OBVIOUS
  <2>1. ASSUME NEW k \in Op, BeginEdit(k) \/ BeginRoute(k) \/ BeginProbe(k)
        PROVE  UNCHANGED <<mem, disk, promised>>
    BY <2>1 DEF BeginEdit, BeginRoute, BeginProbe, Begin, fileVars
  <2>2. CASE Restart
    BY <2>2 DEF Restart, fileVars, Map!MapNext, Map!Restore
  <2> QED
    BY <2>1, <2>2, MemoryMaps, PersistMaps DEF Next, vars, fileVars
<1>3. Spec => []IInv
  BY InvHolds
<1> QED BY <1>1, <1>2, <1>3, PTL DEF Spec, ImplementsMap, Map!MapSpec, Map!mapVars

=============================================================================
