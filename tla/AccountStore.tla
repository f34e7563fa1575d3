---------------------------- MODULE AccountStore ----------------------------
(***************************************************************************)
(* The accounts the daemon signs in with (accounts.rs): one map per        *)
(* service, each under a mutex of its own, all written to one file.        *)
(*                                                                         *)
(* The maps are of two generations.  A method of an early one (IRC,        *)
(* Discord, Sneedchat, Matrix, Kick) keeps the map it changed locked,      *)
(* locks the other early maps one after the other and writes the file with *)
(* all of them held.  A method of a late one (Steam, Twitch, Telegram,     *)
(* Stoat) lets go of its map first and then does the same.  persist()      *)
(* reads the late maps itself; their guards live to the end of the         *)
(* statement that reads them, so they are read as one (Gather).            *)
(*                                                                         *)
(* The methods are called from handlers and connection tasks, which run in *)
(* parallel.  An entry is a version that grows with each change.  A crash  *)
(* is one of the process; what the file system does with a power cut is    *)
(* not modelled.                                                           *)
(***************************************************************************)
EXTENDS Naturals, FiniteSets

CONSTANTS
    Early,            \* the maps whose methods hold them to the end
    Late,             \* the maps persist() locks itself
    Rank,             \* Rank[s]: place of s in the order persist's callers lock
    Probe,            \* Probe[s]: place of s in the order remove() looks
    Op,               \* calls that may run at the same time
    None,             \* "nobody", and "no map"
    MaxCall,          \* bound: calls made
    MayTrustMemory    \* an entry that is in memory but was not written is
                      \* reported as stored

Service == Early \cup Late

ASSUME EarlyAssumption == Early # {} /\ Early \cap Late = {}
ASSUME NoneAssumption  == None \notin Op \cup Service
ASSUME RankAssumption  == Rank \in [Early -> Nat] /\ Probe \in [Service -> Nat]
ASSUME TrustAssumption == MayTrustMemory \in BOOLEAN

VARIABLES
    owner,            \* owner[e]: the call that holds the mutex of e
    mem,              \* mem[s]: the version of map s in memory
    disk,             \* what accounts.toml holds
    tmp,              \* what accounts.toml.tmp holds
    promised,         \* promised[s]: the newest version reported stored
    failed,           \* maps changed by a call whose write failed since
    at,               \* at[k]: where call k is
    edits,            \* edits[k]: the map k changes
    ver,              \* ver[k]: the version its change made
    todo,             \* todo[k]: the maps k has still to lock, or to look in
    text,             \* text[k]: what k read out for the file
    calls             \* calls made so far

fileVars == <<disk, tmp>>
callVars == <<at, edits, ver, todo, text>>
vars     == <<owner, mem, fileVars, promised, failed, callVars, calls>>

Versions == [Service -> Nat]

\* A file that was created and not written parses as one without accounts.
Blank == [s \in Service |-> 0]

Writing == {"writing", "filling", "filled", "renamed"}
At      == {"idle", "edit", "route", "probe", "locking"} \cup Writing

Free(s) == s \in Early => owner[s] = None

\* A call whose change is in memory and not yet in the file.
Unsaved(k) == at[k] \in {"locking", "writing", "filling", "filled"}

Init ==
    /\ owner = [e \in Early |-> None]
    /\ mem = [s \in Service |-> 1]
    /\ disk = mem
    /\ tmp = Blank
    /\ promised = mem
    /\ failed = {}
    /\ at = [k \in Op |-> "idle"]
    /\ edits = [k \in Op |-> None]
    /\ ver = [k \in Op |-> 0]
    /\ todo = [k \in Op |-> {}]
    /\ text = [k \in Op |-> Blank]
    /\ calls = 0

-----------------------------------------------------------------------------
(* Calls arrive.                                                           *)

Begin(k) ==
    /\ at[k] = "idle"
    /\ calls < MaxCall
    /\ calls' = calls + 1
    /\ UNCHANGED <<owner, mem, fileVars, promised, failed, ver, text>>

\* add_*, set_*, mark_* and mutate_* of one service.
BeginEdit(k) ==
    /\ Begin(k)
    /\ at' = [at EXCEPT ![k] = "edit"]
    /\ \E s \in Service : edits' = [edits EXCEPT ![k] = s]
    /\ todo' = [todo EXCEPT ![k] = {}]

\* set_route_level, set_routed: any service, all early maps first.
BeginRoute(k) ==
    /\ Begin(k)
    /\ at' = [at EXCEPT ![k] = "route"]
    /\ edits' = [edits EXCEPT ![k] = None]
    /\ todo' = [todo EXCEPT ![k] = Early]

\* remove, set_display_name: any service, one map after the other.
BeginProbe(k) ==
    /\ Begin(k)
    /\ at' = [at EXCEPT ![k] = "probe"]
    /\ edits' = [edits EXCEPT ![k] = None]
    /\ todo' = [todo EXCEPT ![k] = Service]

-----------------------------------------------------------------------------
(* The change in memory.                                                   *)

\* The call returns and its guards are dropped.
Leave(k) ==
    /\ owner' = [e \in Early |-> IF owner[e] = k THEN None ELSE owner[e]]
    /\ at' = [at EXCEPT ![k] = "idle"]
    /\ edits' = [edits EXCEPT ![k] = None]
    /\ ver' = [ver EXCEPT ![k] = 0]
    /\ todo' = [todo EXCEPT ![k] = {}]
    /\ text' = [text EXCEPT ![k] = Blank]
    /\ UNCHANGED <<mem, calls>>

\* Mutant: locks the map again that it holds.
ChangeRelocks(k, s) ==
    /\ mem' = [mem EXCEPT ![s] = @ + 1]
    /\ owner' = [e \in Early |-> IF e = s THEN k ELSE owner[e]]
    /\ at' = [at EXCEPT ![k] = "locking"]
    /\ edits' = [edits EXCEPT ![k] = s]
    /\ ver' = [ver EXCEPT ![k] = mem[s] + 1]
    /\ todo' = [todo EXCEPT ![k] = {e \in Early : s \in Late => owner[e] # k}]
    /\ UNCHANGED <<fileVars, promised, failed, text, calls>>

\* An early map stays locked; the maps still to lock are the other early
\* ones that the call does not hold yet.
Change(k, s) ==
    /\ mem' = [mem EXCEPT ![s] = @ + 1]
    /\ owner' = [e \in Early |-> IF e = s THEN k ELSE owner[e]]
    /\ at' = [at EXCEPT ![k] = "locking"]
    /\ edits' = [edits EXCEPT ![k] = s]
    /\ ver' = [ver EXCEPT ![k] = mem[s] + 1]
    /\ todo' = [todo EXCEPT ![k] = {e \in Early \ {s} : owner[e] # k}]
    /\ UNCHANGED <<fileVars, promised, failed, text, calls>>

\* The map of the call is locked and the account is there.
Edit(k) ==
    /\ at[k] = "edit"
    /\ Free(edits[k])
    /\ Change(k, edits[k])

\* Mutant: the entry is put in before the check finds one there.
NotThereInserts(k) ==
    /\ at[k] = "edit"
    /\ Free(edits[k])
    /\ mem' = [mem EXCEPT ![edits[k]] = @ + 1]
    /\ at' = [at EXCEPT ![k] = "idle"]
    /\ edits' = [edits EXCEPT ![k] = None]
    /\ UNCHANGED <<owner, fileVars, promised, failed, ver, todo, text, calls>>

\* No such account, or one that already exists: nothing is written.
NotThere(k) ==
    /\ at[k] = "edit"
    /\ Free(edits[k])
    /\ Leave(k)
    /\ UNCHANGED <<fileVars, promised, failed>>

\* set_sneedchat_cookies: memory says what it is asked to say, so the call
\* reports it stored without writing.
AlreadyThere(k) ==
    /\ at[k] = "edit"
    /\ edits[k] \in Early
    /\ Free(edits[k])
    /\ edits[k] \in failed => MayTrustMemory
    /\ promised' = [promised EXCEPT ![edits[k]] = mem[edits[k]]]
    /\ Leave(k)
    /\ UNCHANGED <<fileVars, failed>>

\* set_route_level, with every early map locked.
ChooseRoute(k) ==
    /\ at[k] = "route"
    /\ todo[k] = {}
    /\ \E s \in Service : Change(k, s)

RouteNotThere(k) ==
    /\ at[k] = "route"
    /\ todo[k] = {}
    /\ Leave(k)
    /\ UNCHANGED <<fileVars, promised, failed>>

\* remove looks into map s, the next in its order.
LooksInto(k, s) ==
    /\ at[k] = "probe"
    /\ s \in todo[k]
    /\ \A d \in todo[k] : Probe[s] <= Probe[d]
    /\ Free(s)

Found(k) == \E s \in Service : LooksInto(k, s) /\ Change(k, s)

NotHere(k) ==
    \E s \in Service :
        /\ LooksInto(k, s)
        /\ todo' = [todo EXCEPT ![k] = @ \ {s}]
        /\ UNCHANGED <<owner, mem, fileVars, promised, failed, at, edits, ver,
                       text, calls>>

Nowhere(k) ==
    /\ at[k] = "probe"
    /\ todo[k] = {}
    /\ Leave(k)
    /\ UNCHANGED <<fileVars, promised, failed>>

-----------------------------------------------------------------------------
(* The locks of the other early maps, and persist().                       *)

\* The early map k waits for, when it waits for one of several.
IsNext(k, e) == e \in todo[k] /\ \A d \in todo[k] : Rank[e] <= Rank[d]

Take(k) ==
    \E e \in Early :
        /\ at[k] \in {"route", "locking"}
        /\ IsNext(k, e)
        /\ owner[e] = None
        /\ owner' = [owner EXCEPT ![e] = k]
        /\ todo' = [todo EXCEPT ![k] = @ \ {e}]
        /\ UNCHANGED <<mem, fileVars, promised, failed, at, edits, ver, text,
                       calls>>

\* Mutant: the late map is still locked by the call that changed it.
GatherRelocks(k) ==
    /\ at[k] = "locking"
    /\ todo[k] = {}
    /\ edits[k] \in Early
    /\ text' = [text EXCEPT ![k] = mem]
    /\ at' = [at EXCEPT ![k] = "writing"]
    /\ UNCHANGED <<owner, mem, fileVars, promised, failed, edits, ver, todo,
                   calls>>

\* Mutant: reads the maps without locking them all.
GatherUnlocked(k) ==
    /\ at[k] = "locking"
    /\ text' = [text EXCEPT ![k] = mem]
    /\ at' = [at EXCEPT ![k] = "writing"]
    /\ UNCHANGED <<owner, mem, fileVars, promised, failed, edits, ver, todo,
                   calls>>

Gather(k) ==
    /\ at[k] = "locking"
    /\ todo[k] = {}
    /\ text' = [text EXCEPT ![k] = mem]
    /\ at' = [at EXCEPT ![k] = "writing"]
    /\ UNCHANGED <<owner, mem, fileVars, promised, failed, edits, ver, todo,
                   calls>>

\* create_private_file truncates what an earlier call left there.
Create(k) ==
    /\ at[k] = "writing"
    /\ tmp' = Blank
    /\ at' = [at EXCEPT ![k] = "filling"]
    /\ UNCHANGED <<owner, mem, disk, promised, failed, edits, ver, todo, text,
                   calls>>

WriteAll(k) ==
    /\ at[k] = "filling"
    /\ tmp' = text[k]
    /\ at' = [at EXCEPT ![k] = "filled"]
    /\ UNCHANGED <<owner, mem, disk, promised, failed, edits, ver, todo, text,
                   calls>>

Rename(k) ==
    /\ at[k] = "filled"
    /\ disk' = tmp
    /\ failed' = {}
    /\ at' = [at EXCEPT ![k] = "renamed"]
    /\ UNCHANGED <<owner, mem, tmp, promised, edits, ver, todo, text, calls>>

\* Ok: the caller is told that its change is stored.
Return(k) ==
    /\ at[k] = "renamed"
    /\ promised' = [s \in Service |->
                       IF s = edits[k] /\ promised[s] < ver[k]
                       THEN ver[k] ELSE promised[s]]
    /\ Leave(k)
    /\ UNCHANGED <<fileVars, failed>>

\* Mutant: puts back what the file has.
FailUndoes(k) ==
    /\ at[k] \in {"writing", "filling", "filled"}
    /\ mem' = [mem EXCEPT ![edits[k]] = disk[edits[k]]]
    /\ owner' = [e \in Early |-> IF owner[e] = k THEN None ELSE owner[e]]
    /\ at' = [at EXCEPT ![k] = "idle"]
    /\ edits' = [edits EXCEPT ![k] = None]
    /\ UNCHANGED <<fileVars, promised, failed, ver, todo, text, calls>>

\* Any of them fails: the caller gets the error, the change stays in memory.
Fail(k) ==
    /\ at[k] \in Writing
    /\ failed' = IF at[k] = "renamed" THEN failed ELSE failed \cup {edits[k]}
    /\ Leave(k)
    /\ UNCHANGED <<fileVars, promised>>

-----------------------------------------------------------------------------
(* The process dies and open() reads the file.                             *)

Restart ==
    /\ owner' = [e \in Early |-> None]
    /\ mem' = disk
    /\ failed' = {}
    /\ at' = [k \in Op |-> "idle"]
    /\ edits' = [k \in Op |-> None]
    /\ ver' = [k \in Op |-> 0]
    /\ todo' = [k \in Op |-> {}]
    /\ text' = [k \in Op |-> Blank]
    /\ UNCHANGED <<fileVars, promised, calls>>

-----------------------------------------------------------------------------
Memory(k) == Edit(k) \/ NotThere(k) \/ AlreadyThere(k) \/ ChooseRoute(k)
                \/ RouteNotThere(k) \/ Found(k) \/ NotHere(k) \/ Nowhere(k)

Persist(k) == Take(k) \/ Gather(k) \/ Create(k) \/ WriteAll(k) \/ Rename(k)
                \/ Return(k) \/ Fail(k)

Next ==
    \/ \E k \in Op : BeginEdit(k) \/ BeginRoute(k) \/ BeginProbe(k)
    \/ \E k \in Op : Memory(k) \/ Persist(k)
    \/ Restart

Spec == Init /\ [][Next]_vars

\* Each call runs on a thread that the scheduler gets back to.
FairSpec == Spec /\ \A k \in Op : WF_vars(Memory(k) \/ Persist(k))

-----------------------------------------------------------------------------
(* Properties.                                                             *)

\* Types; a call holds no map before it locks one or after it returns, and
\* none of the maps that it has still to lock.
TypeOK ==
    /\ owner \in [Early -> Op \cup {None}]
    /\ mem \in Versions
    /\ disk \in Versions
    /\ tmp \in Versions
    /\ promised \in Versions
    /\ failed \subseteq Service
    /\ at \in [Op -> At]
    /\ edits \in [Op -> Service \cup {None}]
    /\ ver \in [Op -> Nat]
    /\ todo \in [Op -> SUBSET Service]
    /\ text \in [Op -> Versions]
    /\ calls \in Nat
    /\ \A k \in Op : at[k] \in {"route", "locking"} =>
           \A e \in todo[k] \cap Early : owner[e] # k
    /\ \A k \in Op : at[k] \in {"edit", "locking"} \cup Writing =>
           edits[k] \in Service
    /\ \A k \in Op : at[k] \in {"idle", "edit", "probe"} =>
           \A e \in Early : owner[e] # k

\* What a caller was told is stored (persist returned Ok) is in the file, at
\* every moment and so after a crash at any moment.
AnsweredIsKept == \A s \in Service : promised[s] <= disk[s]

\* Whatever memory has over the file is the change of a call that has still
\* to write it, or of one that was told its write failed: no write loses
\* sight of a change made beside it.
NothingForgotten ==
    \A s \in Service :
        mem[s] # disk[s] =>
            \/ s \in failed
            \/ \E k \in Op : Unsaved(k) /\ edits[k] = s

\* The store implements the map it promises to be.
Map == INSTANCE DurableMap WITH now <- mem, kept <- disk, promised <- promised

ImplementsMap == Map!MapSpec

\* The call that holds what k waits for.
Holders(k) ==
    {owner[e] : e \in {e \in Early :
        \/ at[k] \in {"route", "locking"} /\ IsNext(k, e)
        \/ at[k] = "edit" /\ edits[k] = e
        \/ at[k] = "probe" /\ e \in todo[k]
              /\ \A d \in todo[k] : Probe[e] <= Probe[d]}} \ {None}

\* Calls of W each of which waits for another one of them.
WaitInACircle(W) ==
    W # {} /\ \A k \in W : \E j \in W \ {k} : j \in Holders(k)

\* Every call returns, unless some wait for each other.
CallsReturn ==
    \A k \in Op :
        at[k] # "idle" ~>
            \/ at[k] = "idle"
            \/ \E W \in SUBSET Op : WaitInACircle(W)

=============================================================================
