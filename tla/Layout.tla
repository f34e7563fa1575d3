------------------------------- MODULE Layout -------------------------------
(***************************************************************************)
(* The conversations and rail entries of one account (runtime.rs), kept in *)
(* the database for the next start (store.rs, main.rs).                    *)
(*                                                                         *)
(* A start puts back what the last run saved, each entry pending until its *)
(* service lists it again.  When the service has been quiet for a while    *)
(* after a connect, a task takes what is still pending and removes it: the *)
(* account left it while the daemon was not running.  Another task writes  *)
(* the layout down when it looks different from the last time.             *)
(*                                                                         *)
(* What an entry looks like is left out; where a conversation is filed is  *)
(* kept.  A service lists the entries it has after a connect, in any order,*)
(* and tells of later changes while the connection lasts.                  *)
(***************************************************************************)
EXTENDS Naturals, FiniteSets

CONSTANTS
    Buffer,           \* conversations the account may have
    Group,            \* rail entries a service may file them under
    Own,              \* the account's own rail entry
    None,             \* no place: the conversation is not there
    Pruner,           \* prune tasks that may run at the same time
    Known,            \* has_account knows accounts of this service
    MayRefile,        \* a conversation filed under an entry may be taken out of it
    MayHurry,         \* the quiet of an earlier connection is long enough
    MayReturn,        \* an entry comes back while it is being removed
    MayOvertake,      \* a change gets between what the keeper compares and copies
    MayFail,          \* a save may fail
    MaxChange, MaxDrop, MaxStart   \* bounds

Place == Group \cup {Own}

ASSUME PlaceAssumption == Own \notin Group /\ None \notin Place /\ Buffer \cap Group = {}
ASSUME MayAssumption == {Known, MayRefile, MayHurry, MayReturn, MayOvertake, MayFail} \subseteq BOOLEAN

VARIABLES
    theirs, theirRail,    \* what the service has
    live, rail,           \* what the window shows: buffers, buffer_groups
    pending, pendingRail, \* restored_buffers, restored_groups
    confirmed,            \* layout_confirmed: "never", "now", or "before" this connection
    connected,
    listed,               \* entries the service listed over this connection
    at, stale, staleRail, \* the prune tasks, and what they have taken
    current,              \* current[k]: k was spawned by this connection
    saved, savedRail,     \* known_buffers, known_groups
    keeper,               \* where keep_layout is
    print, last, copy,    \* its fingerprints, and what it has read
    quitting,             \* a clean exit has saved and not ended yet
    changes, drops, starts

theirVars == <<theirs, theirRail>>
liveVars  == <<live, rail>>
pendVars  == <<pending, pendingRail, confirmed>>
pruneVars == <<at, stale, staleRail, current>>
savedVars == <<saved, savedRail>>
keepVars  == <<keeper, print, last, copy>>
bounds    == <<changes, drops, starts>>
layoutVars == <<theirVars, liveVars, pendVars, connected, listed, pruneVars, savedVars,
          keepVars, quitting, bounds>>

Nowhere == [b \in Buffer |-> None]
There(places) == {b \in Buffer : places[b] # None}
Unseen == <<Nowhere, {None}>>      \* the fingerprint of no layout: Option::None

\* What restore_layout puts back, pending: the layout of an account it knows.
Restored == IF Known THEN saved ELSE Nowhere
RestoredRail == IF Known THEN savedRail ELSE {}

LayoutInit ==
    /\ theirs \in [Buffer -> Place] /\ theirRail = Group
    /\ saved = theirs /\ savedRail = Group
    /\ live = Restored /\ rail = RestoredRail
    /\ pending = There(Restored) /\ pendingRail = RestoredRail /\ confirmed = "never"
    /\ connected = FALSE
    /\ listed = {}
    /\ at = [k \in Pruner |-> "idle"]
    /\ stale = [k \in Pruner |-> {}] /\ staleRail = [k \in Pruner |-> {}]
    /\ current = [k \in Pruner |-> FALSE]
    /\ keeper = "idle" /\ print = Unseen /\ last = Unseen /\ copy = Unseen
    /\ quitting = FALSE
    /\ changes = 0 /\ drops = 0 /\ starts = 0

-----------------------------------------------------------------------------
(* What the window shows.                                                  *)

\* The keeper compares and copies under locks it takes one after the other.
MayChange == MayOvertake \/ keeper \notin {"reads", "copies"}

\* remove_buffer, for each of some.
RemoveBuffers(gone) ==
    /\ MayChange
    /\ live' = [b \in Buffer |-> IF b \in gone THEN None ELSE live[b]]

\* Mutant of Show: an entry that is already there is not confirmed.
ShowUnconfirmed(b, place) ==
    /\ MayChange
    /\ pending' = IF live[b] = place THEN pending ELSE pending \ {b}
    /\ UNCHANGED confirmed
    /\ live' = [live EXCEPT ![b] = place]

\* ensure_buffer and set_buffer_group: confirmed, there, and filed where the
\* service files it.  A service that files it nowhere files nothing.
Show(b, place) ==
    /\ MayChange
    /\ pending' = pending \ {b}
    /\ confirmed' = IF b \in pending THEN "now" ELSE confirmed
    /\ live' = [live EXCEPT ![b] = IF place = Own /\ live[b] # None THEN live[b] ELSE place]

\* upsert_buffer_group.
ShowGroup(g) ==
    /\ MayChange
    /\ pendingRail' = pendingRail \ {g}
    /\ confirmed' = IF g \in pendingRail THEN "now" ELSE confirmed
    /\ rail' = rail \cup {g}

\* remove_buffer_group: it goes, and everything filed under it.
RemoveGroup(g) ==
    /\ RemoveBuffers({b \in Buffer : live[b] = g})
    /\ rail' = rail \ {g}

BeingRemoved(e) == \E k \in Pruner : e \in stale[k] \cup staleRail[k]

-----------------------------------------------------------------------------
(* The service.                                                            *)

\* After a connect it lists what it has.
ListBuffer(b) ==
    /\ connected
    /\ theirs[b] # None /\ b \notin listed
    /\ MayReturn \/ ~BeingRemoved(b)
    /\ Show(b, theirs[b])
    /\ listed' = listed \cup {b}
    /\ UNCHANGED <<theirVars, rail, pendingRail, connected, pruneVars, savedVars,
                   keepVars, quitting, bounds>>

ListGroup(g) ==
    /\ connected
    /\ g \in theirRail \ listed
    /\ MayReturn \/ ~BeingRemoved(g)
    /\ ShowGroup(g)
    /\ listed' = listed \cup {g}
    /\ UNCHANGED <<theirVars, live, pending, connected, pruneVars, savedVars,
                   keepVars, quitting, bounds>>

Changes == changes < MaxChange /\ changes' = changes + 1

\* Filed under an entry by the service, or still so for the daemon.
Filed(b) == {theirs[b], live[b], saved[b], copy[1][b]} \cap Group # {}

\* A conversation is joined, or filed under another entry.
Joined(b, place) ==
    /\ Changes
    /\ place \in theirRail \cup {Own} /\ theirs[b] # place
    /\ place = Own /\ Filed(b) => MayRefile
    /\ theirs' = [theirs EXCEPT ![b] = place]
    /\ IF connected
       THEN /\ MayReturn \/ ~BeingRemoved(b)
            /\ Show(b, place)
            /\ listed' = listed \cup {b}
       ELSE UNCHANGED <<live, pending, confirmed, listed>>
    /\ UNCHANGED <<theirRail, rail, pendingRail, connected, pruneVars, savedVars,
                   keepVars, quitting, drops, starts>>

\* A conversation is left.
Left(b) ==
    /\ Changes
    /\ theirs[b] # None
    /\ theirs' = [theirs EXCEPT ![b] = None]
    /\ listed' = listed \ {b}
    /\ IF connected THEN RemoveBuffers({b}) ELSE UNCHANGED live
    /\ UNCHANGED <<theirRail, rail, pendVars, connected, pruneVars, savedVars,
                   keepVars, quitting, drops, starts>>

\* A rail entry is left, with what was filed under it; or, where conversations
\* outlive it, without.
LeftGroup(g) ==
    /\ Changes
    /\ g \in theirRail
    /\ theirRail' = theirRail \ {g}
    /\ LET under == {b \in Buffer : theirs[b] = g}
       IN  \E place \in IF MayRefile /\ ~connected THEN {None, Own} ELSE {None} :
               theirs' = [b \in Buffer |-> IF b \in under THEN place ELSE theirs[b]]
    /\ listed' = listed \ ({g} \cup {b \in Buffer : theirs[b] = g})
    /\ IF connected THEN RemoveGroup(g) ELSE UNCHANGED liveVars
    /\ UNCHANGED <<pendVars, connected, pruneVars, savedVars, keepVars, quitting,
                   drops, starts>>

-----------------------------------------------------------------------------
(* The connection, and what it prunes: prune_restored_after_connect.       *)

\* Mutant of HasPending: rail entries are not looked at.
HasPendingBuffers == pending # {}

HasPending == pending # {} \/ pendingRail \cap rail # {}

Waits(k) == at[k] = "waits"

\* A new task: any that is not in use.
Spare(k) == at[k] = "idle" /\ k = CHOOSE j \in Pruner : at[j] = "idle"

\* set_conn_state(Connected).
Connect ==
    /\ ~connected /\ ~quitting
    /\ connected' = TRUE
    /\ listed' = {}
    /\ IF HasPending
       THEN \E k \in Pruner :
               /\ Spare(k)
               /\ at' = [at EXCEPT ![k] = "waits"]
               /\ current' = [current EXCEPT ![k] = TRUE]
       ELSE UNCHANGED <<at, current>>
    /\ UNCHANGED <<theirVars, liveVars, pendVars, stale, staleRail, savedVars, keepVars,
                   quitting, bounds>>

Drop ==
    /\ connected
    /\ drops < MaxDrop
    /\ drops' = drops + 1
    /\ connected' = FALSE
    /\ listed' = {}
    /\ confirmed' = IF confirmed = "now" THEN "before" ELSE confirmed
    /\ current' = [k \in Pruner |-> FALSE]
    /\ UNCHANGED <<theirVars, liveVars, pending, pendingRail, at, stale, staleRail, savedVars,
                   keepVars, quitting, changes, starts>>

\* The task looks every few seconds, and stops if there is no connection.
PrunerStops(k) ==
    /\ Waits(k) /\ ~connected
    /\ at' = [at EXCEPT ![k] = "idle"]
    /\ UNCHANGED <<theirVars, liveVars, pendVars, connected, listed, stale, staleRail,
                   current, savedVars, keepVars, quitting, bounds>>

\* The service is quiet when it has listed what it has.  The time since an
\* entry was confirmed last, or since the task began, may be that of an earlier
\* connection.
Quiet(k) ==
    \/ There(theirs) \cup theirRail \subseteq listed
    \/ MayHurry /\ confirmed # "now" /\ (confirmed = "before" \/ ~current[k])

\* Mutant of PrunerTakes: what is taken stays pending.
PrunerCopies(k) ==
    /\ Waits(k) /\ connected
    /\ Quiet(k)
    /\ at' = [at EXCEPT ![k] = "takes"]
    /\ stale' = [stale EXCEPT ![k] = pending]
    /\ UNCHANGED <<theirVars, liveVars, pendVars, connected, listed, staleRail, current,
                   savedVars, keepVars, quitting, bounds>>

\* Mutant of PrunerTakes: the task does not wait for quiet.
PrunerTakesAtOnce(k) ==
    /\ Waits(k) /\ connected
    /\ at' = [at EXCEPT ![k] = "takes"]
    /\ stale' = [stale EXCEPT ![k] = pending]
    /\ pending' = {}
    /\ UNCHANGED <<theirVars, liveVars, pendingRail, confirmed, connected, listed,
                   staleRail, current, savedVars, keepVars, quitting, bounds>>

PrunerTakes(k) ==
    /\ Waits(k) /\ connected
    /\ Quiet(k)
    /\ at' = [at EXCEPT ![k] = "takes"]
    /\ stale' = [stale EXCEPT ![k] = pending]
    /\ pending' = {}
    /\ UNCHANGED <<theirVars, liveVars, pendingRail, confirmed, connected, listed,
                   staleRail, current, savedVars, keepVars, quitting, bounds>>

PrunerTakesRail(k) ==
    /\ at[k] = "takes"
    /\ at' = [at EXCEPT ![k] = "removes"]
    /\ staleRail' = [staleRail EXCEPT ![k] = pendingRail \cap rail]
    /\ pendingRail' = pendingRail \ rail
    /\ UNCHANGED <<theirVars, liveVars, pending, confirmed, connected, listed, stale,
                   current, savedVars, keepVars, quitting, bounds>>

PrunerRemoves(k) ==
    /\ at[k] = "removes"
    /\ \E b \in stale[k] :
           /\ RemoveBuffers({b})
           /\ stale' = [stale EXCEPT ![k] = @ \ {b}]
    /\ UNCHANGED <<theirVars, rail, pendVars, connected, listed, at, staleRail, current,
                   savedVars, keepVars, quitting, bounds>>

PrunerRemovesGroup(k) ==
    /\ at[k] = "removes" /\ stale[k] = {}
    /\ \E g \in staleRail[k] :
           /\ RemoveGroup(g)
           /\ staleRail' = [staleRail EXCEPT ![k] = @ \ {g}]
    /\ UNCHANGED <<theirVars, pendVars, connected, listed, at, stale, current, savedVars,
                   keepVars, quitting, bounds>>

PrunerEnds(k) ==
    /\ at[k] = "removes" /\ stale[k] = {} /\ staleRail[k] = {}
    /\ at' = [at EXCEPT ![k] = "idle"]
    /\ UNCHANGED <<theirVars, liveVars, pendVars, connected, listed, stale, staleRail,
                   current, savedVars, keepVars, quitting, bounds>>

-----------------------------------------------------------------------------
(* Written down: keep_layout, save_layout.                                 *)

Fingerprint == <<live, rail>>

KeeperLooks ==
    /\ keeper = "idle"
    /\ Fingerprint # last
    /\ print' = Fingerprint
    /\ keeper' = "reads"
    /\ UNCHANGED <<theirVars, liveVars, pendVars, connected, listed, pruneVars, savedVars,
                   last, copy, quitting, bounds>>

KeeperReads ==
    /\ keeper = "reads"
    /\ copy' = <<live, copy[2]>>
    /\ keeper' = "copies"
    /\ UNCHANGED <<theirVars, liveVars, pendVars, connected, listed, pruneVars, savedVars,
                   print, last, quitting, bounds>>

KeeperReadsRail ==
    /\ keeper = "copies"
    /\ copy' = <<copy[1], rail>>
    /\ keeper' = "saves"
    /\ UNCHANGED <<theirVars, liveVars, pendVars, connected, listed, pruneVars, savedVars,
                   print, last, quitting, bounds>>

\* Mutant of KeeperSaves: remembers how the layout looks after the save.
KeeperLooksAgain ==
    /\ keeper = "saves"
    /\ saved' = copy[1] /\ savedRail' = copy[2]
    /\ last' = Fingerprint
    /\ keeper' = "idle"
    /\ print' = Unseen
    /\ copy' = Unseen
    /\ UNCHANGED <<theirVars, liveVars, pendVars, connected, listed, pruneVars, quitting,
                   bounds>>

\* A save that failed counts as one.
KeeperSaves ==
    /\ keeper = "saves"
    /\ \E done \in {TRUE, ~MayFail} :
           /\ saved' = IF done THEN copy[1] ELSE saved
           /\ savedRail' = IF done THEN copy[2] ELSE savedRail
    /\ last' = print
    /\ keeper' = "idle"
    /\ print' = Unseen
    /\ copy' = Unseen
    /\ UNCHANGED <<theirVars, liveVars, pendVars, connected, listed, pruneVars, quitting,
                   bounds>>

\* A clean exit saves; it has half a second to live.
Quit ==
    /\ ~quitting
    /\ starts < MaxStart
    /\ quitting' = TRUE
    /\ saved' = live /\ savedRail' = rail
    /\ UNCHANGED <<theirVars, liveVars, pendVars, connected, listed, pruneVars, keepVars,
                   bounds>>

\* restore_layout, after a clean exit or a crash.
Restart ==
    /\ quitting \/ starts < MaxStart
    /\ starts' = starts + 1
    /\ quitting' = FALSE
    /\ live' = Restored /\ rail' = RestoredRail
    /\ pending' = There(Restored) /\ pendingRail' = RestoredRail /\ confirmed' = "never"
    /\ connected' = FALSE
    /\ listed' = {}
    /\ at' = [k \in Pruner |-> "idle"]
    /\ stale' = [k \in Pruner |-> {}] /\ staleRail' = [k \in Pruner |-> {}]
    /\ current' = [k \in Pruner |-> FALSE]
    /\ keeper' = "idle" /\ print' = Unseen /\ last' = Unseen /\ copy' = Unseen
    /\ UNCHANGED <<theirVars, savedVars, changes, drops>>

-----------------------------------------------------------------------------

Prunes(k) ==
    PrunerStops(k) \/ PrunerTakes(k) \/ PrunerTakesRail(k) \/ PrunerRemoves(k)
        \/ PrunerRemovesGroup(k) \/ PrunerEnds(k)

Keeps == KeeperLooks \/ KeeperReads \/ KeeperReadsRail \/ KeeperSaves

Lists == (\E b \in Buffer : ListBuffer(b)) \/ (\E g \in Group : ListGroup(g))

LayoutNext ==
    \/ Lists
    \/ \E b \in Buffer : Left(b) \/ \E place \in Place : Joined(b, place)
    \/ \E g \in Group : LeftGroup(g)
    \/ Connect \/ Drop
    \/ \E k \in Pruner : Prunes(k)
    \/ Keeps
    \/ Quit \/ Restart

LayoutSpec == LayoutInit /\ [][LayoutNext]_layoutVars

\* Tasks are run, and a service that is connected lists what it has.
FairSpec ==
    /\ LayoutSpec
    /\ WF_layoutVars(Lists) /\ WF_layoutVars(Keeps) /\ WF_layoutVars(quitting /\ Restart)
    /\ \A k \in Pruner : WF_layoutVars(Prunes(k))

-----------------------------------------------------------------------------

\* The values the layout, its tasks and its copy may have; nothing is both
\* waiting to be listed and taken to be removed.
LayoutTypeOK ==
    /\ theirs \in [Buffer -> Place \cup {None}] /\ theirRail \subseteq Group
    /\ live \in [Buffer -> Place \cup {None}] /\ rail \subseteq Group
    /\ pending \subseteq Buffer /\ pendingRail \subseteq Group
    /\ connected \in BOOLEAN /\ quitting \in BOOLEAN
    /\ listed \subseteq Buffer \cup Group
    /\ at \in [Pruner -> {"idle", "waits", "takes", "removes"}]
    /\ stale \in [Pruner -> SUBSET Buffer] /\ staleRail \in [Pruner -> SUBSET Group]
    /\ current \in [Pruner -> BOOLEAN]
    /\ confirmed \in {"never", "now", "before"}
    /\ \A k \in Pruner : at[k] \in {"idle", "waits"} => stale[k] = {}
    /\ \A k \in Pruner : at[k] # "removes" => staleRail[k] = {}
    /\ \A k \in Pruner : stale[k] \cap pending = {}
    /\ saved \in [Buffer -> Place \cup {None}] /\ savedRail \subseteq Group
    /\ keeper \in {"idle", "reads", "copies", "saves"}
    /\ copy[1] \in [Buffer -> Place \cup {None}]

\* What the service listed over this connection, and has not taken back, is
\* shown: the prune of what the last run left behind takes none of it
\* (confirm_restored, prune_restored_after_connect, remove_buffer_group).
ListedIsShown ==
    /\ \A b \in listed \cap Buffer : live[b] # None
    /\ listed \cap Group \subseteq rail

\* What a prune takes, the account has left: nothing the service still has is
\* judged by an earlier connection or by a listing it has not finished
\* (prune_restored_after_connect).
OnlyGoneIsTaken ==
    [][\A k \in Pruner : /\ \A b \in stale'[k] \ stale[k] : theirs[b] = None
                         /\ (staleRail'[k] \ staleRail[k]) \cap theirRail = {}]_layoutVars

\* Over a connection that lasts, every entry the last run left is either
\* confirmed or removed, however often the connection dropped before and
\* whichever of them are conversations (prune_restored_after_connect).
RestoredAreJudged ==
    <>[]connected => <>[](/\ pending = {} /\ pendingRail \cap rail = {}
                          /\ \A k \in Pruner : stale[k] = {} /\ staleRail[k] = {})

\* Once nothing changes, the database holds what the window shows, whatever
\* changed between the fingerprint, the reading and the writing (keep_layout).
SavedCatchesUp == <>[](saved = live /\ savedRail = rail)
=============================================================================
