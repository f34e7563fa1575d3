--------------------------- MODULE MCAccountStore ---------------------------
(* AccountStore with two or three of its services.                         *)
EXTENDS AccountStore, TLC

CONSTANTS irc, discord, steam

LockOrder == (irc :> 1) @@ (discord :> 2)
LookOrder == LockOrder @@ (steam :> 3)

\* accounts.rs:674-676, persist: the other maps "are locked fresh here
\* (different Mutexes, so no deadlock)".
NobodyWaitsInACircle == \A W \in SUBSET Op : ~WaitInACircle(W)

=============================================================================
