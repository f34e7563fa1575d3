----------------------------- MODULE DurableMap -----------------------------
(***************************************************************************)
(* What AccountStore (accounts.rs) promises of the accounts it keeps: the  *)
(* copy in memory is changed entry by entry, the file takes over some      *)
(* state the memory has been through and never an older one than it has,   *)
(* and a caller that was told "done" finds its change after any crash.     *)
(* How the locks and the file make that so is AccountStore's business,     *)
(* which implements this specification.                                    *)
(***************************************************************************)
EXTENDS Naturals

CONSTANT Service      \* the entries: one map of accounts per service

VARIABLES
    now,              \* now[s]: the version of s in memory
    kept,             \* kept[s]: the version of s in the file
    promised          \* promised[s]: the newest version a caller was told of

mapVars == <<now, kept, promised>>

Versions == [Service -> Nat]

Upto(f, g) == \A s \in Service : f[s] <= g[s]

MapInit ==
    /\ now \in Versions
    /\ kept = now
    /\ promised = now

ChangeEntry(s) ==
    /\ now' = [now EXCEPT ![s] = @ + 1]
    /\ UNCHANGED <<kept, promised>>

Keep ==
    /\ kept' \in Versions
    /\ Upto(kept, kept')
    /\ Upto(kept', now)
    /\ UNCHANGED <<now, promised>>

Promise ==
    /\ promised' \in Versions
    /\ Upto(promised, promised')
    /\ Upto(promised', kept)
    /\ UNCHANGED <<now, kept>>

\* The process starts again from the file.
Restore ==
    /\ now' = kept
    /\ UNCHANGED <<kept, promised>>

MapNext ==
    \/ \E s \in Service : ChangeEntry(s)
    \/ Keep
    \/ Promise
    \/ Restore

MapSpec == MapInit /\ [][MapNext]_mapVars

=============================================================================
