-------------------------- MODULE MCRpcConnection --------------------------
(* Bounds for TLC are in the .cfg files; nothing is overridden.            *)
EXTENDS RpcConnection

-----------------------------------------------------------------------------
(* Statements of the program's comments that the code does not keep.       *)

\* rpc/mod.rs:88-91: a request whose handler panics does not become "one
\* request unanswered forever - a promise nothing ever settles".
EveryPromiseSettles ==
    \A i \in Ids : (i \in DOMAIN asked) ~> (i \in answered \/ ~open)

\* What a window shows is kept: no deleted message is left on it.
NothingLeftOver == Watching /\ Settled => shown \subseteq stored

\* subscribe replays the last-known member list.
RosterIsShown ==
    Settled /\ AskedFor("unsubscribe") = {}
            /\ AskedFor("subscribe") \cap answered # {}
        => shownRoster = roster

\* The daemon does not hold more of a window's requests than it answers.
Spawned == {i \in Ids : task[i] \notin {"none", "done"}}
TasksAreBounded == Cardinality(Spawned) <= Permits

\* Scoped events are for clients that called subscribe: the last call counts.
Switches == AskedFor("subscribe") \cup AskedFor("unsubscribe")
LastCallCounts ==
    open /\ lines = <<>> /\ Spawned = {} =>
        \A last \in Switches :
            (\A i \in Switches : i <= last)
                => (subs <=> asked[last].method = "subscribe")

=============================================================================
